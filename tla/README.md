# Verification of Doplo (mini-vercel)

Doplo builds static sites from GitHub repositories and serves them: a Fastify API (`apps/api`) takes
requests and webhooks, a BullMQ queue in Redis carries the build jobs, a worker (`apps/worker`) clones,
builds and uploads, PostgreSQL (`packages/database`) holds the truth, MinIO holds the artifacts, and
Caddy with the API's gateway serves them. This directory holds TLA+ models of the parts in which several
of these actors change the same state, the TLC configurations that check them, and TLAPS proofs.
Paths below are relative to the repository.

## 1. Inventory

| Component | State it keeps | Operations | Talks to |
|---|---|---|---|
| Deployment state machine (`packages/database/src/state-machine.ts`) | `Deployment.status`, `DeploymentEvent`, on READY `Project.currentDeploymentId` | `transitionDeploymentState`: read, decide, write by id, in one READ COMMITTED transaction | called by all that follow |
| Deployments API (`apps/api/src/routes/deployments.ts`) | rows of deployments, audit rows | create + enqueue, cancel, promote, rollback, reads | PostgreSQL, BullMQ, MinIO |
| BullMQ queue (library; `apps/api/src/lib/queue.ts`) | jobs, attempts, locks, stalled counters | add, hand out, settle, retry, recover stalled jobs | API, worker |
| Worker pipeline (`apps/worker/src/index.ts`) | heartbeat key, workspace, the run's program point | INITIALIZING, CLONING, BUILDING, UPLOADING, DEPLOYING, READY; catch; finally; processor catch | all stores |
| Artifact pipeline (`apps/worker/src/lib/artifact-pipeline.ts`) | objects below `artifacts/<project>/<deployment>` | audit, upload files, upload manifest, clean up after an error | MinIO |
| Reconciler (`apps/worker/src/lib/reconciler.ts`) | the Redis lock | on worker start: find stale deployments, ask Redis and BullMQ, fail them | PostgreSQL, Redis, BullMQ |
| Cleanup service (`apps/worker/src/lib/cleanup-service.ts`) | none | delete old deployments, orphaned bundles, uploads, containers, directories | PostgreSQL, MinIO, Docker |
| Git cloner, Docker runner (`apps/worker/src/lib`) | the directory of a build, git processes, containers | clone and checkout, copy in, build, copy out, clean up | the pipeline |
| Build planner (`apps/worker/src/lib/build-planner.ts`) | none | choose image and commands from the files of a checkout | Docker runner |
| Log streamer (`apps/worker/src/lib/log-streamer.ts`), SSE route (`apps/api/src/routes/logs.ts`), log view (`apps/web/.../deployments/[id]/view.tsx`) | buffer, sequence counters, subscription, seen ids | log, flush, replay + subscribe, reconnect | Redis pub/sub, PostgreSQL |
| Webhook intake (`apps/api/src/routes/webhooks.ts`) | delivery keys in Redis, `WebhookDelivery` rows | verify, deduplicate, installation events, push to deployments | PostgreSQL, Redis, BullMQ |
| Gateway and TLS ask (`apps/api/src/routes/gateway.ts`, `tls.ts`, `lib/slug.ts`) | none | host name to deployment to object | PostgreSQL, MinIO |
| Projects and variables (`apps/api/src/routes/projects.ts`, `getOrCreateUserProject`) | `Project`, `EnvironmentVariable` | look up, compare the owner, write by id | PostgreSQL |
| GitHub installations (`apps/api/src/routes/webhooks.ts`, `github.ts`) | `GitHubInstallation`, `GitHubRepository`, placeholder users | events, dashboard's sync and removal | GitHub, PostgreSQL |
| Authentication and sessions (`apps/api/src/routes/auth.ts`, `google-auth.ts`, `password-auth.ts`, `lib/email-verification.ts`, `session.ts`) | `User`; Redis: links, cooldowns, sessions; state cookies | register, log in, send and confirm a mail, sign in with a provider, open and close a session | PostgreSQL, Redis, mail, providers |
| Health, metrics, telemetry, configuration, crypto, web pages, deploy files | none that matters here | observe, configure, render | — |

What is hard here, and what each component owes its users:

* **State machine.** Decision and write are two statements of a transaction that locks nothing, so every
  caller may write on a stale decision. Owed: no recorded event is illegal; the events account for the status.
* **Pipeline.** A job is delivered again after a failure, a crash, or a lost lock, so that two runs may work
  on one deployment; nearly every exception is logged and swallowed. Owed: what is published was uploaded;
  what is finished stays finished; what was accepted is finished; a cancellation stops the work.
* **Reconciler.** It decides on a list that ages, one await after the other, beside the runs it judges. Owed:
  one at a time; no finished deployment is touched; none whose job stands where it stood; an abandoned one is finished.
* **Production pointer.** Four writers, only two of which look at the version. Owed: the pointer names a READY
  deployment unless one of two stale decisions about its READY is to blame; the audit trail has no gap.
* **Cleanup.** It deletes from a snapshot. Owed: nothing that production serves.
* **Log stream.** Replay and live lines overlap; two writers number lines; flushes overlap with logging. Owed: every
  line once, in order, and no gap without a cause.
* **Webhooks.** Deliveries are repeated and raced, remembered in two stores and forgotten again after a failure.
  Owed: one build per delivery, and nobody told of a duplicate of nothing.
* **Workspace.** All runs of a deployment share a directory and a prefix in object storage, which the end of any of
  them clears; git is given up but not killed. Owed: what is published is one whole build; nothing is left behind
  without a cause; a run ends.
* **Gateway.** A host name is resolved in two queries and anew for every asset, and once more, differently, by the TLS
  endpoint. Owed: production is forbidden, and a page not found, only for a named cause; certificates are for what is served.
* **Installations.** Events are handled statement by statement, without a transaction and in any order, beside the
  dashboard. Owed: without such an accident the rows are what GitHub has.
* **Projects.** What was looked up and checked may have changed when it is written. Owed: only an owner's request changes
  a project, and a link to an installation has a cause.
* **Accounts.** Rows of users are found and written some statements later, by four flows. Owed: no password that the
  mailbox has not confirmed opens a verified account; who keeps trying gets in.

`PROJECT.json` lists the hazards with their lines and the properties aimed at them.

## 2. Modules

| Module | Models | Composes |
|---|---|---|
| `DeploymentStates` | the transition table and every outcome of `transitionDeploymentState` on a status (no variables) | |
| `DeploymentLifecycle` | abstract: what the state machine promises of status and pointer | `DeploymentStates` |
| `DeploymentPipeline` | create, enqueue, cancel, runs of the pipeline and BullMQ around the rows of one project | `DeploymentStates`; refines `DeploymentLifecycle` |
| `Reconciliation` | the reconciler, time passing, heartbeats | `DeploymentPipeline` |
| `ProductionPointer` | promote, rollback, the runs' pointer writes, the cleanup | |
| `WebhookIntake` | the webhook handler: the two records of a delivery, pushes, reverts, the API's death | |
| `LogStream` | one deployment's log: streamer, rows, the SSE route, the page | |
| `BuildWorkspace` | what the runs of one deployment leave: directory, git, container, objects; the pruning of orphans | |
| `ArtifactGateway` | visits through the gateway and the TLS endpoint beside swaps, publications and the cleanup | `ProductionPointer` |
| `Installations` | an installation at GitHub, its events, their handlers, the dashboard's requests | |
| `Projects` | requests on projects and their variables | `Installations` |
| `Accounts` | registration, login, confirmation by mail, sign-in with a provider, sessions | |
| `DeploymentPipelineProofs`, `ReconciliationProofs`, `WebhookIntakeProofs`, `ArtifactGatewayProofs` (which has the pointer's, too), `BuildWorkspaceProofs`, `AccountsProofs`, `ProjectsProofs`, `LogStreamProofs` | theorems | their modules |
| `MC...` | symmetry sets, constraints and views for TLC | their modules |

### How state and actions correspond to the code

*A transaction is two steps.* Prisma's interactive transactions run at READ COMMITTED and
`transitionDeploymentState` updates by id alone. An actor's `...Read` action stores the status it saw in
its field `seen` if `Decision` says `commit`; its `...Commit` action writes whatever the row has become.
`seen = Unread` means no open transaction. Refusals, "already there" and the exception of an invalid
transition are handled in the `...Read` action as the caller handles them. `...Abort` is an exception from
the database and exists only with the fault `"db"`.

*A run* has a program point `pc` named for what it does next: a phase of the same name (its call of
`transitionState`), `clone`, `build`, `upload`, `manifest`, then `READY`, `bind` (the second, unversioned
pointer write), `FAILED` (the catch block), `finally`, `rejected` (the catch of the BullMQ processor) and
`settle`. What the run keeps between points is its deployment, the status it saw, whether the target is
production and how its promise ends.

*Events* are a set of pairs: two writes of the same pair are indistinguishable to every property. *Time*
is two facts: `stale` (older than the threshold) and the expiry of heartbeat and lock. *Artifacts* are
`files` and `manifest`; `uploaded` is a history variable.

*Faults* are a constant, so that a run says which it allows: `db` (a database statement fails), `enqueue`
(`Queue.add` rejects, the job stored or not), `crash` (a worker dies between any two steps), `stall` (a
job's lock is lost under a run that goes on, as it is when the process is held up; a heartbeat may then expire under
its run, too). For the reconciler (`RecFaults`): `crash`, `redis` (a command fails, having been carried out or not),
`db` (its query or its transaction fails), `slow` (it outlives its lock). Errors of Redis in a run are not among them: its connection has
`maxRetriesPerRequest: null`, so that a command waits and does not fail.

*The reconciler* has a field `met`, a history variable: where the candidate's job stood (state, attempts, stalls) at the look
at its heartbeat, or `NoJob` once a question about it failed. No job comes back to where it once stood.

*The pointer module* has its own small rows (`BUILDING` for every status before the end, `READY`, `FAILED`, `CANCELLED`,
`DELETED`): the states the writers of the pointer tell apart. A run (`run`) is the replay check, the upload, the read and the
write of its READY transition and its second write, which comes whether READY was granted or refused (`index.ts:443-458`).
The other transitions, cancels, failures and the phases of a run beside, are a read and a write, too (`writer`), so that a write
may land on READY. `refused` and `overtaken` are history variables: deployments bound after a refusal, and
deployments whose READY was overwritten. Requests validate a snapshot, stat the bundle, and run the read and
the write of the versioned transaction, each a step of its own. The starting rows are an old READY deployment or several, and new ones.

*The webhook module* has one record per HTTP request, with a program point for every await of the handler:
`setKey`, `createRow`, `installation`, `findProject`, `createDeployment`, `enqueue`, `failDeployment`, `delKey`,
`deleteRow`. `reverts` tells the two uses of `delKey` apart: the revert of a push goes on to the row, the
other two (a body that is no JSON, an error of the row's creation) do not. What a request has made is
`deployment`: none, a row without a job, or a row with one. Installation events are one step that succeeds
or throws; what they write is abstracted. Requests answered before the delivery is remembered
(signature, header, ping) change nothing and are left out. `Queue.add` rejects only when Redis answers with an error or
the process never connected, since the API's connection waits otherwise (`maxRetriesPerRequest: null`); a job that is stored
although its addition was reported as failed is left to `DeploymentPipeline`.

*The log module* identifies a line with its number. `rows` maps numbers to the ids of the rows, because the
page confuses the two; `streamer` is the worker's counter, buffer and flushes; `conn` is the
route's side of the connection, `conn.wire` what Redis has sent and the listener, or the buffer it fills before the replay
is complete, still holds; `page` is the deployment page. `published`, `lost` and `raced` are history variables: numbers
given out, numbers of which a line was lost, and numbers that a replay passed over because they were published, and not stored
yet. The write buffer of a
connection is in order and is not modelled; its overflow is a `break`.

*The workspace module* looks at one deployment with NODE_ENV=production and at a finer grain than the pipeline: a run has
a point for every await of `GitCloner.clone`, `DockerRunner.runBuild`, the artifact pipeline and the finally block. A tree is
`none`, `partial` or `whole`; copying one takes two steps, and what was read in two moments is whole only if nothing changed
in between (`Seen`). `git` outlives the run that gives it up, and is `adrift` when its directory is removed. `blame` is a history
variable: what went wrong so far, so that a property can say of a leftover that it has a cause. The statuses of an unfinished row
are one (`open`): which of them it is, is `DeploymentPipeline`'s subject.

*The gateway module* extends the pointer's, with all its actions, by visits: a page, then an asset the page named. `project` and
`deployment` are the two queries behind a project's host name (Prisma loads the relation by a query of its own), `object` is
the read from MinIO. `saw`, `dep` and `page` keep what each gave. `TlsTarget` is the TLS endpoint's query, evaluated at one moment.

*The installations module* has GitHub's side (`github`, `sent`), a handler per request with a point before each of its
statements, and the dashboard's `sync` and removal. Events of one statement are one step; `disordered` is a history variable: an
event was lost, half done or overtaken, or the dashboard wrote what GitHub does not have. `id` numbers the rows, so that one made
anew is another one, and `moved` remembers that a row passed to another account.

*The projects module* gives every request the points between its queries. `Insert`, `Update` and `SetEnv` are decided by the unique
indices and the foreign keys, which are guards here; what they refuse is `RequestFails`. `Linked` is the schema's
`onDelete: SetNull` on the installation, part of every step that deletes the installation's row.

*The accounts module* has users, mails and sign-ins; a request keeps what it found (`row`, `unverified`) until it
writes. `confirmed` is a history variable. A link is a token in Redis (`link`) and, once delivered, in a mailbox. A cookie
names the newest sign-in with its provider.

*External code* (BullMQ, Redis expiry, GitHub, git, the Docker daemon, the mail service) is modelled from how the code uses it: three attempts with
backoff, `UnrecoverableError`, a lock per active job, `maxStalledCount` 1, completed jobs removed and
failed ones kept.

## 3. What TLC checks

Bounds are constants: `MaxAttempts` (3 in the code), `MaxStalls` (1 in BullMQ), and the sets of actors.
`version` grows with the (finite) requests. `Installations`
bounds what GitHub tells (`MaxEvents`) and the rows among which the dashboard makes one (`MaxSyncs`); `FewAtWork` in
`MCProjects` and `MCArtifactGateway` bounds what is under way at once, `FewActors` in `MCReconciliation` who is there at once. `LogStream` bounds the numbers of lines (`MaxNumber`), the flushes in
progress (`MaxFlushes`) and the runs (`MaxRuns`); `Batch` is 5 in the code.

| Run | Instance | Shows |
|---|---|---|
| `PipelineStall` | 1 deployment, 2 runs, 1 cancel request, lost locks | `PublishedWasUploaded`, `FinishedStaysFinished`, `CancellationIsFinal` with two live runs of one job |
| `PipelineProgress` | a valid and an invalid deployment, 1 slot, 1 cancel request, crashes, 2 attempts | `TypeOK`; every accepted deployment is finished (`AcceptedIsFinished`), every job leaves the queue (`JobsSettle`) |
| `PipelineLifecycle` | 2 deployments, 2 runs, crashes, 2 attempts | without cancel requests the pipeline implements `DeploymentLifecycle` |
| `Reconcile` | 1 deployment; 2 runs beside 1 starting worker, or 1 beside 2; crashes, lost job locks, Redis and database errors of the reconciler | `RecTypeOK`, `ReconcilersExclude`, `StandingJobIsSpared`, `ReconciledStaysFinished` |
| `PipelineDatabase` | 1 deployment, 1 run, 1 cancel request, database and queue errors, 2 attempts | `HistoryExplainsStatus`, `HistoryIsLegal` |
| `ReconcileProgress` | 1 deployment, 1 run, 1 worker; crashes, a reconciler that outlives its lock | `AbandonedIsReconciled` |
| `PointerSwaps` | an old and a new deployment of one commit, 1 run, 1 other transition, 2 requests, the cleanup, 1 visit | `UnservableHasACause`, `AuditsChain` of the pointer; `GatewayTypeOK`, `ForbiddenHasACause`, `NotFoundHasACause`, `EndpointsAgree` of the gateway on top of it |
| `WebhookDeliveries` | 3 requests, a delivery of each kind (malformed, installation, tracked push, other push, other event), all faults | `IntakeTypeOK`, `OneBuildPerDelivery`, `BuiltIsRecorded`, `DuplicatesHaveAnOriginal` |
| `LogLines` | 3 numbers, batches of 2, 2 flushes, 2 runs, no rows of other deployments, all faults | `LogTypeOK`, `StreamInOrder`, `LinesAreKept`, `GapsHaveACause` |
| `Workspace` | 2 runs of a deployment, all faults, cancellation, deletion, the pruning pass | `WorkspaceTypeOK`, `PublishedIsWhole`, `LeftoversHaveACause`; `RunsEnd`, `OrphansArePruned` |
| `Projects` | 2 users, 1 repository, 2 ids, 2 slugs, 1 name, 2 requests, 1 handler, 2 events | `ProjectsTypeOK`, `RowsFollowGitHub`, `LinkHasACause`, `OwnersOnly` |
| `SignIns` | 1 row, address, link and sign-in, an id with each provider, 2 requests | `AccountsTypeOK`, `PasswordsAreConfirmed`; `RegisteredIsVerified` |

Why these bounds are enough to be interesting: deployments interact only through the pointer and the
worker slots, so that one is enough for the races on a row and two for those on the pointer; two runs are
the most BullMQ lets loose on one job with one stall; two requests are the least that race, and the
version check makes a third one like the second; two attempts have a retry that is not the last. Three requests of
one delivery are one that fails and reverts, one that records the delivery anew meanwhile, and one that meets what the
two left; deliveries do not interact. Three numbers are the creator's line and a batch of two, the least with a
flush, a line behind it and a number given out again. Two runs of a build are an attempt and its retry, or an attempt taken for
stalled and its successor. For the gateway one commit with two deployments is what tells the newest from the newest READY one, and
visits do not interact; a behaviour is followed up to the answer of a visit, since a visit changes nothing and
the pointer goes on as if it were never opened (`UpToAnAnswer`). Of the run, the other transition, the requests and the
cleanup two are under way at once, and in a behaviour with a visit there is one request and one of them at work at a time beside
the visit (`FewAtWork`); a run and its rival take the two slots for each of the two causes of an unservable pointer. The theorems cover
any number of each and what comes after. In `Reconcile` two runs are at work beside at most one worker that has started, and a second worker
starts beside one run (`FewActors`); its states are told apart by the variables that a guard reads (the view `Control`: the pipeline's own runs
check the types of the others). In `Projects` at most two things are under way (requests,
handlers, events, removals), events and projects are at most two together, and once GitHub has sent an event one less of
all: two requests race on two projects without events, or one beside an event on one project. Interference of
three is not checked there. Two requests of `SignIns` are the least that race for a row; the safety of accounts
is proved for any sizes, and one person is enough to see whether that person gets in.

`FinishedStaysFinished` and `CancellationIsFinal` are checked without `db`: `transitionState` swallows
exceptions and goes on with the phase, and the replay check goes on when its read fails, so that with
database errors a cancelled deployment may be built on. `ReconcilersExclude` is checked without
`slow`, with which it is false; what holds of reconcilers that overlap is `ReconciledStaysFinished`, in its theorem. That a live run has a
heartbeat is no property: of two runs the first one's finally block deletes the key of the second, until that one's timer
sets it again. `StandingJobIsSpared` says what protects such a run: the three questions about its job add up, as long as the job stands where it stood.

`LogLines` stops when no more lines, runs or connections are left, so that it does not check for deadlock.
`GapsHaveACause` names three causes. `page.floor` is one: the largest row id a page loads, which it takes for the last number it has seen; a
table with rows of other deployments makes it larger than all numbers of this one, and the other two causes then have no case on a page whose load
succeeded. That is why the run has no such rows (`RowIdOffset` is 0): an id is then close to its number, and a loaded page meets all three causes.
The theorem is for every offset.

**Fairness.** `FairSpec` gives weak fairness to the steps of a run (clone and build end by their own
timeouts), to a started create or cancel handler (Node runs a pending continuation), to BullMQ's timers
and to handing out a waiting job. Nobody has to create or cancel, and faults are never fair.
`RecFairSpec` gives weak fairness to the steps of a reconciliation that has begun; nothing has to start
one, because only a worker's start does.

In `BuildWorkspace` the steps of a run are weakly fair (its timers fire, the other services answer or refuse), the steps of git
and of the build are not: they may hang. The pruning pass is weakly fair, since it is scheduled nightly, and its last step strongly fair:
it does not fail every night. In `Accounts` the steps of a request and the times to live are weakly fair. `Patience` is an assumption
about a person and not about the code: one who keeps logging in, reading mails and following links does not meet a failure every time
(strong fairness of each of these steps); a person who gives up is not promised anything. `LogStream`, `WebhookIntake`, `ProductionPointer`,
`ArtifactGateway`, `Installations` and `Projects` state safety only and have no fairness.

### Where the code does not do what it says

Known divergences. The models contain all of these behaviours unless a point says otherwise; the properties are what still holds
beside them.

*Statuses and retries*

* `README.md:43` of the repository and `roadmap.md:254` call CANCELLED terminal. A phase that read its row before a cancellation and
  writes after it (`state-machine.ts:56` and `:111`) replaces CANCELLED by its own status. The run notices nothing: the next phase reads the status that
  was written and goes on to READY (`index.ts:345-387`). `CancellationIsFinal` and `FinishedStaysFinished` say what is left of the promise: it holds
  from the moment at which a row is CANCELLED and no transaction on it is open.
* QUEUED to FAILED is missing from the transition table. A deployment whose job cannot be enqueued is answered 500 and stays
  QUEUED without a job (`apps/api/src/index.test.ts:483` expects FAILED and 503, with a mocked state machine);
  the reconciler cannot fail a stale QUEUED deployment (its transition throws and is logged); and a job whose payload is
  invalid is retried (the processor's transition throws in place of the `UnrecoverableError`).
* After a crash the retry's clone is refused by the directory the dead run left (git refuses one that is not empty), and the
  deployment becomes FAILED. A shallow clone of depth 1 can check out only the tip of its branch, so that a deployment of an older commit fails.
* The reconciler asks its three questions about a job one after the other and not at once, and only when a worker starts: what is not stale
  at that moment waits for the next start.
* The reconciler may fail a deployment that a run is working on: the run picks the job up between the reconciler's
  questions about it, although `apps/worker/src/index.ts:251` relies on the heartbeat (`Reconciliation`: `Pickup`
  between `IsActive` and `IsWaiting`). More generally a job that moves between two of the questions may escape all three
  (`StandingJobIsSpared` excludes no more than that).
* A cancellation, a failure or a phase of another run that read DEPLOYING may be written after READY (`state-machine.ts:56` and `:111`): production
  then names a deployment that is not READY, and the gateway answers 403 (`overtaken` in `ProductionPointer`).
* A run that is refused READY, because its row was cancelled or failed meanwhile, makes its deployment the production one all the
  same: `index.ts:443-458` does not look at the result of the transition. The gateway then answers 403 for the project (`refused`), until
  the next swap or run.
* The first failed attempt makes the deployment FAILED, so that BullMQ's further attempts end at the replay
  check.
* A reconciliation longer than its lock's time to live overlaps with the next one.

*Production and serving*

* `cleanup-service.ts:45` says that only non-production deployments are cleaned up. A deployment that a swap promotes after the query
  is deleted all the same (`:89`), and the pointer becomes NULL.
* The answer "already active" of a promote or a rollback is given from a snapshot older than the swap's transaction (`deployments.ts:573`).
* A promote or rollback may publish a deployment whose bundle is gone: the stat comes before the transaction, its errors other
  than a missing object are ignored, and the cleanup removes objects before the row and leaves the row if a later statement fails
  (`cleanup-service.ts:82-89`).
* While a commit that is deployed again is built, its preview host names the new, unfinished deployment (403), although an older READY one
  exists for which the TLS endpoint allows a certificate.
* An error of object storage while a page is read is taken for a missing object: the visitor gets index.html or a 404. Assets whose
  names have no hash are cached as immutable (not modelled).
* A slug that looks like another project's preview label shadows it (names are not spelt out in the model).
* A run that becomes READY moves the pointer between a swap's read and its write without changing `version`: the
  audit row then names a deployment that was no longer served (`ProductionPointer`: `Bind` between `SwapRead` and
  `SwapWrite`), where `roadmap.md:469` asks for the previous one. `AuditsChain` is what still holds.
* Of two concurrent rollbacks to one deployment both succeed.

*Builds and their leftovers*

* The finally block of a run removes the directory of a run that overlaps with it, and an upload error of the overlapping one deletes a
  bundle that is published already (`PublishedIsWhole` excludes overlaps, and is about a deployment within its time to live: the clean-up
  of older ones, in `ProductionPointer`, removes the objects before the row).
* A directory left by a crash stays for good: `cleanupTempDirectories` looks for names that begin with `doplo-build-`, which the
  workspaces (`doplo-builds/<id>`) never do; and `cleanupOrphanContainers` looks for names, which the containers do not have.
* A clone that exceeds its time is given up and goes on beside the clean-up, which it may undo.
* An output directory that is nested deeper than the candidates is not found, and a committed one of that name is published although
  the build wrote elsewhere (not modelled: the output is an abstract tree).

*Webhooks, installations, projects*

* If Redis refuses the deletion of the key, the revert of a push leaves the row as well (one try block around both,
  `webhooks.ts:576-579`), and GitHub's next attempt is answered "already processed", against the comment at line 543
  (`WebhookIntake`: `DelKeyFails`). An error while an installation event is handled leaves both records too.
* A request may be told "already processed" while the original is in progress and fails later.
* The account the webhook makes for a sender who has not signed in yet never becomes that person's (its id is the bare number, the sign-in
  looks for an address and an id of another form): the installation belongs to the placeholder until the person syncs it, and
  two users share a login name.
* A PATCH of a project without a slug writes back the slug it read: it undoes a concurrent change of the slug, or is answered 409 although it
  asked for none.
* `POST /deployments` looks for a project by name or slug with one unordered query; if another user's project has that slug, it may answer 404 to a
  user who has a project of that name.

*Logs*

* The comment at `logs.ts:183` has the listener skip only lines that were replayed. A page takes row ids for sequence numbers
  (`deployments.ts:320`, `view.tsx:105`) and reconnects behind them: live lines with smaller numbers are skipped.
* The replay is not gapless, which `logs.ts:46` says it is, and the race that `logs.ts:126` says is eliminated is not. A line is published
  at once and stored with its batch: one that was published before the subscription and is stored after the replay reaches the page by
  neither way, and one that waits in the buffer behind a stored line with a larger number is dropped as already seen (`logs.ts:184` and `:237`). `GapsHaveACause` has
  these lines as its first cause (`raced`).
* Nobody publishes the terminal message for which the log listener waits (`logs.ts:195`), so that a live connection ends only when it
  breaks.
* The log line of a transition is numbered by a count of rows: it may take the number of a buffered line, which is then never
  stored, or lose against a flush, in which case the whole transition fails.

*Accounts*

* A sign-in that found the address unverified clears the password even if a mail has verified it meanwhile. After two overlapping
  sign-ins the GitHub token and the GitHub id of a row may be of different GitHub accounts.
* The answer to a callback clears the cookie of a newer sign-in with the same provider, which then fails.
* A mail that was delivered although its call timed out carries a link that is deleted; the person has to ask for another.
* A session that Redis refuses to store is answered 200, and a logout whose deletion fails is answered as a success.

## 4. What is proved

For every number of deployments, runs and requests and every choice of the other constants that
satisfies the modules' assumptions:

* `TypeCorrectness`, `EventsExplainStatus`, `EventsAreLegal`, `PublishedDeploymentsWereUploaded`
  (`DeploymentPipelineProofs`), for `DeploymentPipeline!Spec` with any faults; `FinishedDeploymentsRest` and `CancellationsHold`, for any
  faults but `"db"`; `PipelineImplementsLifecycle`, without cancel requests and for no faults but `"crash"`;
* `ReconcilerTypeCorrectness`, `OneReconcilerAtATime` (unless a reconciliation is `"slow"`), `StandingJobsAreSpared` (for any faults) and `ReconcilersLeaveFinishedAlone` (for any faults of the pipeline but `"db"`) (`ReconciliationProofs`);
* `PointerTypeCorrectness`, `UnservableIsExplained`, `AuditTrailChains` (`ArtifactGatewayProofs`, for `ProductionPointer!Spec`);
* `IntakeTypeCorrectness`, `DeliveriesAreBuiltOnce`, `BuiltDeliveriesAreRecorded`, `DuplicatesAreRepetitions`
  (`WebhookIntakeProofs`);
* `GatewayTypeCorrectness`, `ForbiddenIsExplained`, `NotFoundIsExplained`, `CertificatesMatchServing` and
  `GatewayLeavesPointerAlone` (`ArtifactGatewayProofs`);
* `AccountsTypeCorrectness`, `PasswordsStayConfirmed` (`AccountsProofs`);
* `ProjectsTypeCorrectness`, `LinksHaveCauses`, `OnlyOwnersWrite`, `RowsStayWithGitHub` (`ProjectsProofs`);
* `WorkspaceTypeCorrectness`, `PublishedStaysWhole`, `LeftoversAreExplained` (`BuildWorkspaceProofs`), for any faults;
* `LogTypeCorrectness`, `FlushesKeepLines`, `StreamKeepsOrder`, `PageSkipsForAReason` (`LogStreamProofs`), for any faults.

**Types.** `TypeOK` is not inductive: a commit writes the row `request[c].dep` if `seen # Unread`, and types
alone do not say that `dep` is then a deployment. `TypeInv` splits the types into `Rows`, `Stores`
and `Actors` and restricts the records of the actors to the engaged ones: an open transaction has its
program point and its deployment.

**Events.** `HistoryIsLegal` needs to know what an open transaction read: `OpenInv` says of each that the
status in `seen` was one from which its target is allowed (`Sound`), and that the events explain it. A
commit then adds a legal pair whatever the row has become, and the events explained stay explained,
because they are never removed. Both properties follow from `HistoryInv`.

**Uploads.** `UploadInv` says that a run beyond `manifest` has its deployment in `uploaded`, with the
production settings, and so has everything READY or current. A run may reach READY with its row in any
status, since refusals are ignored; what it must have passed is the upload.

**Ends.** A row that is not in flight on which no transaction is open (`Closed`) stays so, and its status with it, because
`transitionDeploymentState` refuses it: only its creation changes that (`ClosedStaysClosed`), and a deployment that has been created has no
handler at `new` (`QuietInv`). What is left to show is where the runs of a finished or cancelled deployment go, one lemma each
(`RunsOfTheFinished`, `PhasesOfWork`). The two theorems assume that the database does not fail, and need it: a failed read lets
a run pass the check against repetition, and a failed transition of a phase is swallowed and the phase begun.

**Lifecycle.** The refinement holds because the one run of a deployment is the only one who writes its row (`OnlyWriter`): what a
transaction has read is what is there when it writes, so that a write that the table allows is a move of the lifecycle, and a
refusal is a stutter. The run's own past matters, too: a second attempt begins at the first phase, whose transition is refused
without ending the run, and so comes to `READY` with its row somewhere; `Reached` says for every point of a run which statuses the row
may have, never one before the run's own phases, and exactly DEPLOYING at `READY`. `OnlyWriter` needs `HeldInv`, that a run at work
holds its job, so that a job has one run. With a cancel request, a failing database or a live second run it is false, and so is the refinement: a phase's write may land on a
CANCELLED row.

**Reconciler.** `LockInv`: whoever is between the lock and its release has its own name in the lock. `StandingJobIsSpared` compares two moments, between which
the job may have gone anywhere. `Mark` is a number of the place where a job stands, from its attempts, its stalls and its state; every step that moves a
job makes it larger (`NextJobs`), so that a job which stands where it stood at the look at the heartbeat has stood there since, and every
answer in between was about that place. `Knows` and `MetInv` say so for each point of the questions. For
finished deployments `RecClosed` adds the reconciler's own transactions to `Closed`; the age of its list does not matter,
since the transition reads again.

**Pointer.** `PointerInv` adds to `UnservableHasACause` what every future writer will write: of the deployment of a run still to bind, that it
is not old and, if READY was granted, is READY or overtaken; of a swap's target, that it was READY
once; of what the cleanup deletes, that it is old. READY is left only for an overtaken row or a deleted one, and only old rows are deleted.
The pointer needs no argument about `version`: the foreign key is enough. `ChainInv` does: a swap between read and write with the current version has
its `old` in `since`, because whoever clears `since` increases the version.

**Webhooks.** `OwnerInv` names the owner of a delivery: the request that created its row, until it is answered or has
deleted the row. The owner's delivery is recorded, there is one owner, and only the owner reverts a row or builds; this
carries over every step, because a row is created only where there is none. A key is not needed for it, which is why its
expiry and Redis errors do no harm. `OriginalInv` says that every key and every row has a request that made it and
is beyond the step; whoever meets the record is another one. The lemmas named `...Becomes` reduce every action to what
it does to the record of one request.

**Gateway.** `GatewayLeavesPointerAlone` shows that the gateway's behaviours are behaviours of the pointer, so that the pointer's
theorems carry over. `ViewOK` says of each visit what stays true of what it has read: what the pointer
named was READY, overtaken or refused, and READY is left only for DELETED or with `overtaken` for a trace, so that a deployment once read from the
pointer is servable, gone, or has its cause; causes are not forgotten. `EndpointsAgree` holds in
every state with types and needs the assumption that rows are ordered by their time of creation.

**Accounts.** Rows only gain: none is deleted or becomes unverified again (`Grows`). Hence what a request has found stays true until
it writes, which is what `RequestOK` says of every point; in particular a sign-in that found its row verified still finds
it so, and one that did not clears the password. `RowChanges` reduces each of the five statements that write a row to what the row becomes.

**Projects.** A request looks at rows and writes later, so the invariant says of every point what stays true of what it has
seen. `InstAges`: the installation's row keeps its number while it is there, and its account unless it is marked as moved; a new row
has a greater number. `ProjectsAge`: an id is not given again, and a project keeps its owner. Hence the project in `found` is the user's or
gone (`FoundOK`), and the installation a creation was allowed to link is the user's, moved or replaced (`AuthorizedOK`). `ProjectsInv` adds `LinkHasACause`
itself; `OwnersOnly` follows from `FoundOK` in every state before a write.

`RowsFollowGitHub` speaks of the moment when nothing is on its way, and `FollowInv` of every moment before it. As long as nothing is
disordered at most one handler is at work and the events it has not taken are in the order in which GitHub sent them. Of the installation's
existence, of its suspension and of each repository it then says: the last event on its way that says anything of the matter has it as GitHub
does, or else the handler at work is about to write it so, or else the row has it so. Each event sent, taken, applied or
answered moves one matter from one of these to the next.

**Workspace.** `WorkspaceInv` says of each run what it may still hold at its point (`RunOK`: a container only where a run needs one, a
git only while it is waited for, both otherwise with something in `blame`) and, as long as no two runs went on at once, what it has made so
far (`WholeSoFar`: from git's exit code to the bundle everything is whole) and that nothing of it is left to do once the row is READY
(`Settled`). `PublishedIsWhole` alone says nothing of the way there, and `LeftoversHaveACause` nothing of a git that is still writing.
A git that nobody waits for can make the directory anew after its removal; that is why `RunOK` keeps its cause.

**Log.** `LinesAreKept` is inductive with the types of the streamer: a buffer is handed over whole to a flush, a flush leaves only
after its lines are rows or counted as lost, and rows are only added. What a page shows ascends because a connection's number is the
page's last one, below which everything shown so far lies, the ids of the rows it was loaded with included (`OrderInv`): what is above it is new and follows. That
what a page passes over has a cause needs two facts more. Numbers are given out in turn (`NumbersInTurn`: what was given out is an
interval, no counter is ahead of it, and only the row of a cancellation may be one further), so that a number that comes after a larger one has
been given out before and counts as lost; hence the wire ascends, but for lost numbers (`WireInOrder`). And after a replay everything the page has not
seen is still to come on the wire, or raced, or lost (`StillComing`). The rows of a replay come in the order of their numbers, for
which the module names the i-th member of a set by the number of members up to it: that there is one for each i is proved from
the library's facts about injections of finite sets (`EveryRankIsTaken`), without an induction.

Every invariant and every action property that a run checks is stated by a theorem. Only model-checked is everything that needs
fairness (`AcceptedIsFinished`, `JobsSettle`, `AbandonedIsReconciled`, `RunsEnd`, `OrphansArePruned`, `RegisteredIsVerified`), which is out of the
prover's reach. The hypotheses on `Faults` named in the list above are those of the runs of the same properties, for the reasons given
with the runs.

## 5. Not modelled, and the plan

* The build planner and the log sanitizer are pure functions of files and text; what a reference definition could say of them is what
  their tables say.
* Which file the audit of an output refuses, content types, cache headers, the spelling of slugs and host names: data that no property tells apart.
* Rate limits, hashing of passwords, the shortcuts of `authenticateRequest` for tests and development, abandoned multipart
  uploads.
* The lookup of a commit at GitHub before a deployment is created; lists and reads, which change nothing.
* Health, metrics, telemetry, configuration, cryptography, compose files, pages other than the log view: no shared state.
* Two components that touch the same rows and are modelled apart: a deployment whose project is deleted while its run goes on is in `BuildWorkspace`
  (the row goes) and not in `DeploymentPipeline`; a deployment deleted while its lines are flushed is nowhere.

Next: deletion of a project in the pipeline's module, and what remains of the lifecycle beside cancel requests (a weaker
lifecycle, in which the write of a phase may land on a CANCELLED row).
