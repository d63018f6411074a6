------------------------- MODULE DeploymentPipeline -------------------------
(***************************************************************************)
(* The life of the deployments of one project, from POST /api/deployments  *)
(* to the end of the worker's pipeline.                                    *)
(*                                                                         *)
(* Four kinds of actors change the same rows, each one statement at a      *)
(* time: the create handler (one per deployment), cancel requests, runs of *)
(* processDeploymentJob, and BullMQ, which hands jobs to the runs and      *)
(* gives a job to a second run when the first lost its lock.               *)
(*                                                                         *)
(* A call of transitionDeploymentState is two steps, because its           *)
(* transaction runs at PostgreSQL's default READ COMMITTED: the read of    *)
(* the row, after which the decision stands, and the write, which is by id *)
(* only.  The status that was read is kept in the actor's field seen until *)
(* the write; Unread means that the actor has no transaction open.         *)
(***************************************************************************)
EXTENDS DeploymentStates, Naturals

CONSTANTS
    Deployments,       \* ids of the deployments
    Runs,              \* executions of processDeploymentJob that can be in progress
    Requests,          \* POST /api/deployments/:id/cancel requests
    InvalidPayload,    \* deployments whose job payload fails validation
    ProductionBranch,  \* deployments of the project's production branch
    StrictUploads,     \* NODE_ENV is production: an upload error fails the run
    Faults,            \* the faults the environment may inject, see FaultKinds
    MaxAttempts,       \* BullMQ attempts option (3 in the code)
    MaxStalls,         \* BullMQ maxStalledCount (1, the library's default)
    None, Unread       \* model values: no deployment or run; no open transaction

FaultKinds == {"db", "enqueue", "crash", "stall"}

ASSUME ParametersAssumption ==
    /\ InvalidPayload \subseteq Deployments
    /\ ProductionBranch \subseteq Deployments
    /\ StrictUploads \in BOOLEAN
    /\ Faults \subseteq FaultKinds
    /\ MaxAttempts \in Nat \ {0}
    /\ MaxStalls \in Nat

ASSUME MarkersAssumption ==
    /\ None \notin Deployments \cup Runs
    /\ Unread \notin Statuses \cup {"ABSENT"}

VARIABLES
    status,     \* Deployment.status; "ABSENT" before the row exists
    history,    \* Deployment's DeploymentEvent rows, as a set of <<from, to>>
    stale,      \* Deployment.updatedAt is older than the staleness threshold
    current,    \* Project.currentDeploymentId
    artifacts,  \* objects stored below artifacts/<project>/<deployment>
    uploaded,   \* history variable: deployments whose bundle was once complete
    job,        \* the BullMQ job of a deployment
    heartbeat,  \* key deployment:heartbeat:<id> exists in Redis
    handler,    \* the create handler of a deployment
    request,    \* the cancel requests
    run         \* the runs of the pipeline

dbVars == <<status, history, stale, current>>
vars == <<dbVars, artifacts, uploaded, job, heartbeat, handler, request, run>>

-------------------------------------------------------------------------------
Stored == Statuses \cup {"ABSENT"}

\* The statuses a run moves through, each with a call of transitionState.
Phases == {"INITIALIZING", "CLONING", "BUILDING", "UPLOADING", "DEPLOYING"}

\* Program points of a run after its job was picked up, named for what is next.
RunPoints == Phases \cup
    {"idle", "replay", "heartbeat", "loadEnv", "clone", "build", "upload", "manifest",
     "READY", "bind", "FAILED", "finally", "rejected", "settle"}

\* The interval that refreshes the heartbeat is running.
TimerOn(pc) == pc \notin {"idle", "replay", "heartbeat", "rejected", "settle"}

RunStates == [pc : RunPoints, dep : Deployments \cup {None}, seen : Stored \cup {Unread},
              prod : BOOLEAN, outcome : {"ok", "error", "unrecoverable"}]
Jobs == [state : {"none", "waiting", "active", "delayed", "completed", "failed"},
         attempts : Nat, stalls : Nat, holder : Runs \cup {None}]
HandlerStates == [pc : {"new", "enqueue", "enqueueFailed", "replied"},
                  seen : Stored \cup {Unread}, reply : {"none", "201", "500", "503"}]
RequestStates == [pc : {"idle", "transition", "replied"}, dep : Deployments \cup {None},
                  seen : Stored \cup {Unread}, reply : {"none", "200", "400", "500"}]

IdleRun == [pc |-> "idle", dep |-> None, seen |-> Unread, prod |-> FALSE, outcome |-> "ok"]

Init ==
    /\ status = [d \in Deployments |-> "ABSENT"]
    /\ history = [d \in Deployments |-> {}]
    /\ stale = [d \in Deployments |-> FALSE]
    /\ current = None
    /\ artifacts = [d \in Deployments |-> {}]
    /\ uploaded = {}
    /\ job = [d \in Deployments |->
                [state |-> "none", attempts |-> 0, stalls |-> 0, holder |-> None]]
    /\ heartbeat = [d \in Deployments |-> FALSE]
    /\ handler = [d \in Deployments |-> [pc |-> "new", seen |-> Unread, reply |-> "none"]]
    /\ request = [c \in Requests |->
                    [pc |-> "idle", dep |-> None, seen |-> Unread, reply |-> "none"]]
    /\ run = [r \in Runs |-> IdleRun]

-------------------------------------------------------------------------------
\* Deviation: no lifecycle event for a failure.
WriteTransitionOmitsEvent(d, from, to) ==
    /\ status' = [status EXCEPT ![d] = to]
    /\ history' = IF to = "FAILED" THEN history ELSE [history EXCEPT ![d] = @ \cup {<<from, to>>}]
    /\ stale' = [stale EXCEPT ![d] = FALSE]
    /\ current' = IF to = "READY" THEN d ELSE current

\* The writes of transitionDeploymentState: the row by id, the event, and the
\* project's pointer when the deployment becomes READY.
WriteTransition(d, from, to) ==
    /\ status' = [status EXCEPT ![d] = to]
    /\ history' = [history EXCEPT ![d] = @ \cup {<<from, to>>}]
    /\ stale' = [stale EXCEPT ![d] = FALSE]
    /\ current' = IF to = "READY" THEN d ELSE current

-------------------------------------------------------------------------------
(***************************************************************************)
(* The create handler and its call of Queue.add.                           *)
(***************************************************************************)
CreateDeployment(d) ==
    /\ handler[d].pc = "new"
    /\ WriteTransition(d, "ABSENT", "QUEUED")
    /\ handler' = [handler EXCEPT ![d].pc = "enqueue"]
    /\ UNCHANGED <<artifacts, uploaded, job, heartbeat, request, run>>

Enqueue(d) ==
    /\ handler[d].pc = "enqueue"
    /\ job' = [job EXCEPT ![d].state = "waiting"]
    /\ handler' = [handler EXCEPT ![d] = [@ EXCEPT !.pc = "replied", !.reply = "201"]]
    /\ UNCHANGED <<dbVars, artifacts, uploaded, heartbeat, request, run>>

\* Queue.add rejects; the job may have reached Redis before the error or not.
EnqueueRejects(d) ==
    /\ "enqueue" \in Faults
    /\ handler[d].pc = "enqueue"
    /\ handler' = [handler EXCEPT ![d].pc = "enqueueFailed"]
    /\ \/ job' = [job EXCEPT ![d].state = "waiting"]
       \/ UNCHANGED job
    /\ UNCHANGED <<dbVars, artifacts, uploaded, heartbeat, request, run>>

\* The handler's transition to FAILED: a refusal is not looked at (503), an
\* exception reaches the outer catch (500).
EnqueueFailedRead(d) ==
    /\ handler[d].pc = "enqueueFailed"
    /\ handler[d].seen = Unread
    /\ LET verdict == Decision(status[d], "FAILED", AnyStatus) IN
       handler' = [handler EXCEPT ![d] =
           IF verdict = "commit" THEN [@ EXCEPT !.seen = status[d]]
           ELSE [@ EXCEPT !.pc = "replied",
                          !.reply = IF verdict = "invalid" THEN "500" ELSE "503"]]
    /\ UNCHANGED <<dbVars, artifacts, uploaded, job, heartbeat, request, run>>

EnqueueFailedCommit(d) ==
    /\ handler[d].seen # Unread
    /\ WriteTransition(d, handler[d].seen, "FAILED")
    /\ handler' = [handler EXCEPT ![d] = [pc |-> "replied", seen |-> Unread, reply |-> "503"]]
    /\ UNCHANGED <<artifacts, uploaded, job, heartbeat, request, run>>

EnqueueFailedAbort(d) ==
    /\ "db" \in Faults
    /\ handler[d].pc = "enqueueFailed"
    /\ handler' = [handler EXCEPT ![d] = [pc |-> "replied", seen |-> Unread, reply |-> "500"]]
    /\ UNCHANGED <<dbVars, artifacts, uploaded, job, heartbeat, request, run>>

-------------------------------------------------------------------------------
(***************************************************************************)
(* Cancel requests: a check outside any transaction, then the transition.  *)
(***************************************************************************)
CancelCheck(c, d) ==
    /\ request[c].pc = "idle"
    /\ status[d] # "ABSENT"
    /\ request' = [request EXCEPT ![c] =
           IF isTerminalStatus(status[d])
           THEN [@ EXCEPT !.pc = "replied", !.dep = d, !.reply = "400"]
           ELSE [@ EXCEPT !.pc = "transition", !.dep = d]]
    /\ UNCHANGED <<dbVars, artifacts, uploaded, job, heartbeat, handler, run>>

CancelRead(c) ==
    /\ request[c].pc = "transition"
    /\ request[c].seen = Unread
    /\ LET cur == status[request[c].dep]
           verdict == Decision(cur, "CANCELLED", InFlight)
       IN request' = [request EXCEPT ![c] =
           IF verdict = "commit" THEN [@ EXCEPT !.seen = cur]
           ELSE [@ EXCEPT !.pc = "replied",
                          !.reply = IF verdict = "noop" THEN "200" ELSE "400"]]
    /\ UNCHANGED <<dbVars, artifacts, uploaded, job, heartbeat, handler, run>>

\* Deviation: a status the schema does not have.
CancelCommitMisspelt(c) ==
    /\ request[c].seen # Unread
    /\ WriteTransition(request[c].dep, request[c].seen, "CANCELED")
    /\ request' = [request EXCEPT ![c] = [@ EXCEPT !.pc = "replied", !.seen = Unread, !.reply = "200"]]
    /\ UNCHANGED <<artifacts, uploaded, job, heartbeat, handler, run>>

CancelCommit(c) ==
    /\ request[c].seen # Unread
    /\ WriteTransition(request[c].dep, request[c].seen, "CANCELLED")
    /\ request' = [request EXCEPT ![c] = [@ EXCEPT !.pc = "replied", !.seen = Unread, !.reply = "200"]]
    /\ UNCHANGED <<artifacts, uploaded, job, heartbeat, handler, run>>

\* A statement of the transaction fails, the unique (deployment, sequence) of
\* its log line for instance.
CancelAbort(c) ==
    /\ "db" \in Faults
    /\ request[c].pc = "transition"
    /\ request' = [request EXCEPT ![c] = [@ EXCEPT !.pc = "replied", !.seen = Unread, !.reply = "500"]]
    /\ UNCHANGED <<dbVars, artifacts, uploaded, job, heartbeat, handler, run>>

-------------------------------------------------------------------------------
(***************************************************************************)
(* A run of the pipeline.  Goto moves a run; the pipeline's own control    *)
(* follows the order of processDeploymentJob.                              *)
(***************************************************************************)
Goto(r, point) == run' = [run EXCEPT ![r] = [@ EXCEPT !.pc = point, !.seen = Unread]]
GotoWith(r, point, result) ==
    run' = [run EXCEPT ![r] = [@ EXCEPT !.pc = point, !.seen = Unread, !.outcome = result]]
Hold(r) == run' = [run EXCEPT ![r].seen = status[run[r].dep]]

RunOnly == UNCHANGED <<dbVars, artifacts, uploaded, job, heartbeat, handler, request>>
RunAndRow == UNCHANGED <<artifacts, uploaded, job, heartbeat, handler, request>>

\* BullMQ hands a waiting job to a free slot.  Validation throws before the
\* first await.
Pickup(r, d) ==
    /\ run[r].pc = "idle"
    /\ job[d].state = "waiting"
    /\ job' = [job EXCEPT ![d] = [@ EXCEPT !.state = "active", !.holder = r]]
    /\ run' = [run EXCEPT ![r] =
           IF d \in InvalidPayload
           THEN [IdleRun EXCEPT !.pc = "rejected", !.dep = d, !.outcome = "unrecoverable"]
           ELSE [IdleRun EXCEPT !.pc = "replay", !.dep = d]]
    /\ UNCHANGED <<dbVars, artifacts, uploaded, heartbeat, handler, request>>

\* Deviation: the check is missing.
ReplayUnchecked(r) ==
    /\ run[r].pc = "replay"
    /\ Goto(r, "heartbeat")
    /\ RunOnly

\* Replay protection: a terminal deployment is not run again.
ReplayCheck(r) ==
    /\ run[r].pc = "replay"
    /\ Goto(r, IF isTerminalStatus(status[run[r].dep]) THEN "settle" ELSE "heartbeat")
    /\ RunOnly

\* The check's read fails: the error is logged and the run goes on.
ReplayCheckFails(r) ==
    /\ "db" \in Faults
    /\ run[r].pc = "replay"
    /\ Goto(r, "heartbeat")
    /\ RunOnly

StartHeartbeat(r) ==
    /\ run[r].pc = "heartbeat"
    /\ heartbeat' = [heartbeat EXCEPT ![run[r].dep] = TRUE]
    /\ Goto(r, "INITIALIZING")
    /\ UNCHANGED <<dbVars, artifacts, uploaded, job, handler, request>>

\* The second status a phase accepts is its own: the phase may be repeated.
Expected(phase) ==
    {phase, CHOOSE s \in InFlight : s # phase /\ phase \in ALLOWED_STATE_TRANSITIONS[s]}

AfterPhase(phase) ==
    CASE phase = "INITIALIZING" -> "loadEnv"
      [] phase = "CLONING"      -> "clone"
      [] phase = "BUILDING"     -> "build"
      [] phase = "UPLOADING"    -> "upload"
      [] phase = "DEPLOYING"    -> "READY"

\* Deviation: the phase does not look for the cancelled flag.
PhaseReadIgnoresCancel(r) ==
    /\ run[r].pc \in Phases
    /\ run[r].seen = Unread
    /\ IF Decision(status[run[r].dep], run[r].pc, Expected(run[r].pc)) = "commit" THEN Hold(r)
       ELSE Goto(r, AfterPhase(run[r].pc))
    /\ RunOnly

\* Only a refusal by CANCELLED ends the run; any other refusal, and any
\* exception, is logged and the run goes on with the phase.
PhaseRead(r) ==
    /\ run[r].pc \in Phases
    /\ run[r].seen = Unread
    /\ LET cur == status[run[r].dep]
           verdict == Decision(cur, run[r].pc, Expected(run[r].pc))
       IN IF verdict = "commit" THEN Hold(r)
          ELSE IF verdict = "terminal" /\ cur = "CANCELLED"
               THEN GotoWith(r, "finally", "ok")
               ELSE Goto(r, AfterPhase(run[r].pc))
    /\ RunOnly

PhaseCommit(r) ==
    /\ run[r].pc \in Phases
    /\ run[r].seen # Unread
    /\ WriteTransition(run[r].dep, run[r].seen, run[r].pc)
    /\ Goto(r, AfterPhase(run[r].pc))
    /\ RunAndRow

PhaseAbort(r) ==
    /\ "db" \in Faults
    /\ run[r].pc \in Phases
    /\ Goto(r, AfterPhase(run[r].pc))
    /\ RunOnly

\* The project's branch decides the target environment.
LoadEnv(r) ==
    /\ run[r].pc = "loadEnv"
    /\ run' = [run EXCEPT ![r] = [@ EXCEPT !.pc = "CLONING", !.prod = run[r].dep \in ProductionBranch]]
    /\ RunOnly

LoadEnvFails(r) ==
    /\ "db" \in Faults
    /\ run[r].pc = "loadEnv"
    /\ Goto(r, "CLONING")
    /\ RunOnly

\* git clone and checkout end, by their own timeout if need be.
Clone(r) ==
    /\ run[r].pc = "clone"
    /\ \/ Goto(r, "BUILDING")
       \/ GotoWith(r, "FAILED", "error")
    /\ RunOnly

\* Deviation: no transition to UPLOADING after the build.
BuildSkipsUploading(r) ==
    /\ run[r].pc = "build"
    /\ \/ Goto(r, "upload")
       \/ GotoWith(r, "FAILED", "error")
    /\ RunOnly

\* The build container exits, zero or not, or is stopped by its timeout.
Build(r) ==
    /\ run[r].pc = "build"
    /\ \/ Goto(r, "UPLOADING")
       \/ GotoWith(r, "FAILED", "error")
    /\ RunOnly

UploadFiles(r) ==
    /\ run[r].pc = "upload"
    /\ artifacts' = [artifacts EXCEPT ![run[r].dep] = @ \cup {"files"}]
    /\ Goto(r, "manifest")
    /\ UNCHANGED <<dbVars, uploaded, job, heartbeat, handler, request>>

UploadManifest(r) ==
    /\ run[r].pc = "manifest"
    /\ artifacts' = [artifacts EXCEPT ![run[r].dep] = @ \cup {"manifest"}]
    /\ uploaded' = uploaded \cup {run[r].dep}
    /\ Goto(r, "DEPLOYING")
    /\ UNCHANGED <<dbVars, job, heartbeat, handler, request>>

\* Deviation: the error is ignored in production, too.
UploadErrorIgnored(r) == Goto(r, "DEPLOYING")

\* What the pipeline does with an upload error.
UploadError(r) ==
    IF StrictUploads THEN GotoWith(r, "FAILED", "error") ELSE Goto(r, "DEPLOYING")

\* The output directory, the audit or the bucket is rejected: nothing was put.
UploadRejected(r) ==
    /\ run[r].pc = "upload"
    /\ UploadError(r)
    /\ RunOnly

\* A put fails; cleanupPartialUploads deletes every object of the prefix, unless
\* it fails too, which is only logged.
UploadFails(r) ==
    /\ run[r].pc \in {"upload", "manifest"}
    /\ \E kept \in SUBSET artifacts[run[r].dep] :
          artifacts' = [artifacts EXCEPT ![run[r].dep] = kept]
    /\ UploadError(r)
    /\ UNCHANGED <<dbVars, uploaded, job, heartbeat, handler, request>>

\* Deviation: DEPLOYING is not among the expected statuses.
ReadyReadExpectsReady(r) ==
    /\ run[r].pc = "READY"
    /\ run[r].seen = Unread
    /\ IF Decision(status[run[r].dep], "READY", {"READY"}) = "commit" THEN Hold(r)
       ELSE Goto(r, "bind")
    /\ RunOnly

\* The result of the READY transition is not looked at.
ReadyRead(r) ==
    /\ run[r].pc = "READY"
    /\ run[r].seen = Unread
    /\ IF Decision(status[run[r].dep], "READY", {"DEPLOYING", "READY"}) = "commit"
       THEN Hold(r)
       ELSE Goto(r, "bind")
    /\ RunOnly

ReadyCommit(r) ==
    /\ run[r].pc = "READY"
    /\ run[r].seen # Unread
    /\ WriteTransition(run[r].dep, run[r].seen, "READY")
    /\ Goto(r, "bind")
    /\ RunAndRow

\* An exception skips the production write and is swallowed.
ReadyAbort(r) ==
    /\ "db" \in Faults
    /\ run[r].pc = "READY"
    /\ GotoWith(r, "finally", "ok")
    /\ RunOnly

\* The second pointer write, outside the transaction, for production targets.
BindProduction(r) ==
    /\ run[r].pc = "bind"
    /\ current' = IF run[r].prod THEN run[r].dep ELSE current
    /\ GotoWith(r, "finally", "ok")
    /\ UNCHANGED <<status, history, stale>>
    /\ RunAndRow

\* The error of that write is swallowed.
BindFails(r) ==
    /\ "db" \in Faults
    /\ run[r].pc = "bind"
    /\ run[r].prod
    /\ GotoWith(r, "finally", "ok")
    /\ RunOnly

\* The catch block's transition: a refusal or an exception is swallowed.
FailRead(r) ==
    /\ run[r].pc = "FAILED"
    /\ run[r].seen = Unread
    /\ IF Decision(status[run[r].dep], "FAILED", InFlight) = "commit"
       THEN Hold(r)
       ELSE Goto(r, "finally")
    /\ RunOnly

FailCommit(r) ==
    /\ run[r].pc = "FAILED"
    /\ run[r].seen # Unread
    /\ WriteTransition(run[r].dep, run[r].seen, "FAILED")
    /\ Goto(r, "finally")
    /\ RunAndRow

FailAbort(r) ==
    /\ "db" \in Faults
    /\ run[r].pc = "FAILED"
    /\ Goto(r, "finally")
    /\ RunOnly

\* The finally block stops the timer and deletes the heartbeat, whoever set it.
Finally(r) ==
    /\ run[r].pc = "finally"
    /\ heartbeat' = [heartbeat EXCEPT ![run[r].dep] = FALSE]
    /\ Goto(r, IF run[r].outcome = "ok" THEN "settle" ELSE "rejected")
    /\ UNCHANGED <<dbVars, artifacts, uploaded, job, handler, request>>

\* The BullMQ processor's own transition to FAILED.  An exception of it takes
\* the place of the error it was handling.
RejectedRead(r) ==
    /\ run[r].pc = "rejected"
    /\ run[r].seen = Unread
    /\ LET verdict == Decision(status[run[r].dep], "FAILED", AnyStatus) IN
       CASE verdict = "commit"  -> Hold(r)
         [] verdict = "invalid" -> GotoWith(r, "settle", "error")
         [] OTHER               -> Goto(r, "settle")
    /\ RunOnly

RejectedCommit(r) ==
    /\ run[r].pc = "rejected"
    /\ run[r].seen # Unread
    /\ WriteTransition(run[r].dep, run[r].seen, "FAILED")
    /\ Goto(r, "settle")
    /\ RunAndRow

RejectedAbort(r) ==
    /\ "db" \in Faults
    /\ run[r].pc = "rejected"
    /\ GotoWith(r, "settle", "error")
    /\ RunOnly

-------------------------------------------------------------------------------
(***************************************************************************)
(* BullMQ and the environment.                                             *)
(***************************************************************************)
\* The state BullMQ gives a job whose processor returned or threw.
SettledJob(j, outcome) ==
    CASE outcome = "ok"            -> [j EXCEPT !.state = "completed", !.holder = None]
      [] outcome = "unrecoverable" -> [j EXCEPT !.state = "failed", !.holder = None,
                                                !.attempts = @ + 1]
      [] outcome = "error"         ->
            [j EXCEPT !.state = IF j.attempts + 1 < MaxAttempts THEN "delayed" ELSE "failed",
                      !.holder = None, !.attempts = @ + 1]

\* A run that no longer holds the lock cannot settle the job.
Settle(r) ==
    /\ run[r].pc = "settle"
    /\ job' = [job EXCEPT ![run[r].dep] =
                 IF @.holder = r THEN SettledJob(@, run[r].outcome) ELSE @]
    /\ run' = [run EXCEPT ![r] = IdleRun]
    /\ UNCHANGED <<dbVars, artifacts, uploaded, heartbeat, handler, request>>

PromoteDelayed(d) ==
    /\ job[d].state = "delayed"
    /\ job' = [job EXCEPT ![d].state = "waiting"]
    /\ UNCHANGED <<dbVars, artifacts, uploaded, heartbeat, handler, request, run>>

\* The lock of an active job expires under a run that goes on working.
LoseLock(r) ==
    /\ "stall" \in Faults
    /\ run[r].dep # None
    /\ job[run[r].dep].holder = r
    /\ job' = [job EXCEPT ![run[r].dep].holder = None]
    /\ UNCHANGED <<dbVars, artifacts, uploaded, heartbeat, handler, request, run>>

Crash(r) ==
    /\ "crash" \in Faults
    /\ run[r].pc # "idle"
    /\ job' = [job EXCEPT ![run[r].dep].holder = IF @ = r THEN None ELSE @]
    /\ run' = [run EXCEPT ![r] = IdleRun]
    /\ UNCHANGED <<dbVars, artifacts, uploaded, heartbeat, handler, request>>

\* Deviation: the stalls of a job are not counted.
StalledJobUncounted(j) == [j EXCEPT !.state = "waiting"]

\* A job found without its lock goes back to the queue, and fails for good once
\* it has done so MaxStalls times.
StalledJob(j) ==
    IF j.stalls < MaxStalls THEN [j EXCEPT !.state = "waiting", !.stalls = @ + 1]
    ELSE [j EXCEPT !.state = "failed"]

StalledCheck(d) ==
    /\ job[d].state = "active"
    /\ job[d].holder = None
    /\ job' = [job EXCEPT ![d] = StalledJob(@)]
    /\ UNCHANGED <<dbVars, artifacts, uploaded, heartbeat, handler, request, run>>

-------------------------------------------------------------------------------
CreateStep(d) ==
    \/ CreateDeployment(d) \/ Enqueue(d) \/ EnqueueRejects(d)
    \/ EnqueueFailedRead(d) \/ EnqueueFailedCommit(d) \/ EnqueueFailedAbort(d)

CancelStep(c) == CancelRead(c) \/ CancelCommit(c) \/ CancelAbort(c)

RunStep(r) ==
    \/ ReplayCheck(r) \/ ReplayCheckFails(r) \/ StartHeartbeat(r)
    \/ PhaseRead(r) \/ PhaseCommit(r) \/ PhaseAbort(r)
    \/ LoadEnv(r) \/ LoadEnvFails(r) \/ Clone(r) \/ Build(r)
    \/ UploadFiles(r) \/ UploadManifest(r) \/ UploadRejected(r) \/ UploadFails(r)
    \/ ReadyRead(r) \/ ReadyCommit(r) \/ ReadyAbort(r)
    \/ BindProduction(r) \/ BindFails(r)
    \/ FailRead(r) \/ FailCommit(r) \/ FailAbort(r) \/ Finally(r)
    \/ RejectedRead(r) \/ RejectedCommit(r) \/ RejectedAbort(r) \/ Settle(r)

BullMQStep(d) == PromoteDelayed(d) \/ StalledCheck(d)

Environment == \E r \in Runs : LoseLock(r) \/ Crash(r)

\* Every deployment was asked for and nothing is left to do for any of them.
Quiescent ==
    /\ \A d \in Deployments : /\ handler[d].pc = "replied"
                              /\ job[d].state \in {"none", "completed", "failed"}
    /\ \A r \in Runs : run[r].pc = "idle"
    /\ \A c \in Requests : request[c].pc # "transition"
    /\ UNCHANGED vars

PipelineNext ==
    \/ \E d \in Deployments : CreateStep(d) \/ BullMQStep(d)
    \/ \E c \in Requests, d \in Deployments : CancelCheck(c, d)
    \/ \E c \in Requests : CancelStep(c)
    \/ \E r \in Runs, d \in Deployments : Pickup(r, d)
    \/ \E r \in Runs : RunStep(r)
    \/ Environment

Next == PipelineNext \/ Quiescent

Spec == Init /\ [][Next]_vars

(***************************************************************************)
(* Fairness.  A run always takes its next step: clone and build end by     *)
(* their own timeouts.  BullMQ's timers fire, and it hands a waiting job   *)
(* to a free slot.  Nobody has to ask for a deployment or cancel one, and  *)
(* faults never have to happen.                                            *)
(***************************************************************************)
Fairness ==
    /\ \A d \in Deployments : /\ WF_vars(BullMQStep(d))
                              /\ WF_vars(\E r \in Runs : Pickup(r, d))
                              /\ WF_vars(handler[d].pc # "new" /\ CreateStep(d))
    /\ \A r \in Runs : WF_vars(RunStep(r))
    /\ \A c \in Requests : WF_vars(CancelStep(c))

FairSpec == Spec /\ Fairness

-------------------------------------------------------------------------------
(***************************************************************************)
(* Properties.                                                             *)
(***************************************************************************)
\* The types of all variables.
TypeOK ==
    /\ status \in [Deployments -> Stored]
    /\ history \in [Deployments -> SUBSET (Stored \X Statuses)]
    /\ stale \in [Deployments -> BOOLEAN]
    /\ current \in Deployments \cup {None}
    /\ artifacts \in [Deployments -> SUBSET {"files", "manifest"}]
    /\ uploaded \subseteq Deployments
    /\ job \in [Deployments -> Jobs]
    /\ heartbeat \in [Deployments -> BOOLEAN]
    /\ handler \in [Deployments -> HandlerStates]
    /\ request \in [Requests -> RequestStates]
    /\ run \in [Runs -> RunStates]

\* A status the events of d account for: one of them led to it from another.
Explained(d, s) == s = "ABSENT" \/ \E e \in history[d] : e[2] = s /\ e[1] # s

\* The lifecycle events account for the deployment's status and for the status
\* every event started from, whoever wrote last: a reader of the events alone
\* can follow the deployment from its creation to where it is.
HistoryExplainsStatus ==
    \A d \in Deployments : /\ Explained(d, status[d])
                           /\ \A e \in history[d] : Explained(d, e[1])

\* No event, not even one whose transaction decided on a row that others have
\* rewritten since, records a move the transition table forbids.
HistoryIsLegal ==
    \A d \in Deployments : \A e \in history[d] :
        \/ e = <<"ABSENT", "QUEUED">>
        \/ e[1] \in InFlight /\ isValidTransition(e[1], e[2])

\* With the production settings nothing is READY, and nothing is served as the
\* project's current deployment, unless a run stored its complete bundle.
PublishedWasUploaded ==
    StrictUploads => \A d \in Deployments : status[d] = "READY" \/ current = d => d \in uploaded

\* The lifecycle DeploymentLifecycle promises, with the statuses and the pointer
\* of this module's rows.
Lifecycle == INSTANCE DeploymentLifecycle
    WITH Deployments <- Deployments, None <- None, status <- status, current <- current

\* The pipeline implements the lifecycle: through crashes and second attempts no
\* deployment repeats or skips a phase of it or leaves a terminal status.  (Not
\* so beside cancel requests or a second live run: a phase's write may land on a
\* CANCELLED row.)
ImplementsLifecycle == Lifecycle!Spec

\* A transaction that read deployment d has not written yet.
OpenTransaction(d) ==
    \/ handler[d].seen # Unread
    \/ \E c \in Requests : request[c].dep = d /\ request[c].seen # Unread
    \/ \E r \in Runs : run[r].dep = d /\ run[r].seen # Unread

\* Nobody is in the middle of anything that concerns the terminal deployment d.
Finished(d) ==
    /\ isTerminalStatus(status[d])
    /\ ~OpenTransaction(d)
    /\ \A r \in Runs : run[r].dep = d => run[r].pc \in {"replay", "rejected", "settle"}

\* A finished deployment stays finished: neither BullMQ's retries and stalled
\* jobs nor a late request make a run build it again or change its status.
FinishedStaysFinished ==
    [][\A d \in Deployments : Finished(d) => Finished(d)' /\ status'[d] = status[d]]_vars

\* Once d is CANCELLED with no transaction open, the cancellation is final, and
\* a run that is still going starts no further phase of d: it neither clones,
\* builds nor uploads anything it was not at already.
CancellationIsFinal ==
    [][\A d \in Deployments : status[d] = "CANCELLED" /\ ~OpenTransaction(d) =>
          /\ status'[d] = "CANCELLED"
          /\ \A r \in Runs : run'[r].dep = d /\ run'[r].pc \in {"clone", "build", "upload"} =>
                run'[r].pc = run[r].pc]_vars

\* A deployment whose request was answered 201 is finished some day, unless its
\* job stalled more often than BullMQ allows.
AcceptedIsFinished ==
    \A d \in Deployments \ InvalidPayload :
        handler[d].reply = "201"
            ~> \/ isTerminalStatus(status[d])
               \/ job[d].state = "failed" /\ job[d].stalls = MaxStalls

\* Every job leaves the queue for good, through any crashes and stalls.
JobsSettle ==
    \A d \in Deployments :
        job[d].state \in {"waiting", "active", "delayed"} ~> job[d].state \in {"completed", "failed"}

===============================================================================
