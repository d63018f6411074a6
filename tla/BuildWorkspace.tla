---------------------------- MODULE BuildWorkspace ----------------------------
(***************************************************************************)
(* What a build leaves behind: its directory, its container, its objects.  *)
(*                                                                         *)
(* All runs of a deployment share one directory under the host's temporary *)
(* directory and one prefix in object storage.  Nothing empties the        *)
(* directory when a run starts; the end of any run removes it.  A clone    *)
(* that outlasts its timer is given up but not killed, a build that        *)
(* outlasts its own is killed.  Project deletion takes the row away at any *)
(* moment, and a nightly pass prunes the objects of rows that are gone.    *)
(*                                                                         *)
(* One deployment with NODE_ENV=production; DeploymentPipeline has the     *)
(* statuses, events and jobs that are only an open or a finished row here. *)
(***************************************************************************)
EXTENDS Naturals

CONSTANTS
    Runs,      \* attempts at the deployment's job
    Faults     \* which faults may happen, of WorkspaceFaults

\* "crash"   the worker process dies
\* "stall"   the job is taken for stalled and given out while its run goes on
\* "docker"  the daemon refuses: ping, pull, create, transfer, extraction
\* "kill"    the daemon refuses to kill a container
\* "remove"  a container or the directory cannot be removed
\* "storage" MinIO refuses
\* "db"      the transition to FAILED throws
WorkspaceFaults == {"crash", "stall", "docker", "kill", "remove", "storage", "db"}

ASSUME WorkspaceAssumption == Faults \subseteq WorkspaceFaults

VARIABLES
    status,    \* Deployment.status, or deleted; open is any unfinished one
    dir,       \* tmpdir/doplo-builds/<deployment_id>
    objects,   \* what is stored below artifacts/<project>/<deployment>
    run,       \* the runs
    cleaner,   \* where cleanupOrphanMinIOArtifacts is
    blame      \* history variable: what went wrong so far

vars == <<status, dir, objects, run, cleaner, blame>>

Statuses == {"open", "READY", "FAILED", "CANCELLED", "deleted"}

\* How much of a source tree, or of an output tree, is there.
Trees == {"none", "partial", "whole"}

\* short is a bundle with its manifest, of an output that was not whole.
Bundles == Trees \cup {"short"}

Points == {"idle", "clone", "mkdir", "cloning", "build", "create", "transfer", "transferring",
           "building", "extract", "extracting", "removeContainer", "upload", "audit", "put",
           "putting", "undo", "deploy", "ready", "fail", "clean", "done", "dead"}

\* git adrift: its directory was removed while it ran.  expired: the build's
\* timer has fired.  built: runBuild succeeds once the container is removed.
RunStates ==
    [pc : Points, git : {"none", "running", "adrift"}, container : {"none", "created", "running"},
     source : Trees, output : Trees, listed : Trees, expired : BOOLEAN, built : BOOLEAN]

NoDir == [exists |-> FALSE, source |-> "none", output |-> "none"]

Init ==
    /\ status = "open"
    /\ dir = NoDir
    /\ objects = "none"
    /\ run = [r \in Runs |-> [pc |-> "idle", git |-> "none", container |-> "none",
                              source |-> "none", output |-> "none", listed |-> "none",
                              expired |-> FALSE, built |-> FALSE]]
    /\ cleaner = "idle"
    /\ blame = {}

-------------------------------------------------------------------------------
Over == {"idle", "done", "dead"}
Live(r) == run[r].pc \notin Over
At(r, point) == run[r].pc = point
Goto(r, point) == run' = [run EXCEPT ![r] = [@ EXCEPT !.pc = point]]
Blame(cause) == blame' = blame \cup {cause}
RunOnly == UNCHANGED <<status, dir, objects, cleaner, blame>>

\* cleanWorkspace, by any run: also the directory another run works in.
RemoveDir(runs) ==
    /\ dir' = NoDir
    /\ run' = [q \in Runs |-> [runs[q] EXCEPT !.git = IF @ = "running" THEN "adrift" ELSE @]]

\* A tree that was read in two moments.
Seen(before, after) == IF before = after THEN after ELSE "partial"

\* BullMQ hands the job to one run after the other, unless it takes the run
\* before for stalled.  The replay check ends a run whose row is finished.
Start(r) ==
    /\ At(r, "idle")
    /\ \A q \in Runs : Live(q) => "stall" \in Faults
    /\ blame' = IF \E q \in Runs : Live(q) THEN blame \cup {"overlap"} ELSE blame
    /\ Goto(r, IF status \in {"READY", "FAILED", "CANCELLED"} THEN "done" ELSE "clone")
    /\ UNCHANGED <<status, dir, objects, cleaner>>

\* A phase's transition: only a cancelled row stops the run.
Phase(r, here, next) ==
    /\ At(r, here)
    /\ Goto(r, IF status = "CANCELLED" THEN "clean" ELSE next)
    /\ RunOnly

-------------------------------------------------------------------------------
(***************************************************************************)
(* GitCloner.clone                                                         *)
(***************************************************************************)
\* mkdir -p, then git clone: git refuses a directory with anything in it.
StartClone(r) ==
    /\ At(r, "mkdir")
    /\ dir' = [dir EXCEPT !.exists = TRUE]
    /\ run' = [run EXCEPT ![r] =
           IF dir.source = "none" /\ dir.output = "none"
           THEN [@ EXCEPT !.pc = "cloning", !.git = "running"]
           ELSE [@ EXCEPT !.pc = "fail"]]
    /\ UNCHANGED <<status, objects, cleaner, blame>>

\* Only a run that still waits for its git goes on.
AfterGit(r, next) == IF At(r, "cloning") THEN next ELSE run[r].pc

\* Whoever waits for it or not; adrift, git makes its pack directory anew.
GitWrites(r) ==
    /\ run[r].git # "none"
    /\ dir.source = "none"
    /\ dir' = [dir EXCEPT !.exists = TRUE, !.source = "partial"]
    /\ UNCHANGED <<status, objects, run, cleaner, blame>>

\* Exit code 0 and the checkout of the commit; then the size is in bounds.
GitSucceeds(r) ==
    /\ run[r].git = "running"
    /\ dir.source = "partial"
    /\ dir' = [dir EXCEPT !.source = "whole"]
    /\ run' = [run EXCEPT ![r] = [@ EXCEPT !.git = "none", !.pc = AfterGit(r, "build")]]
    /\ UNCHANGED <<status, objects, cleaner, blame>>

\* Deviation: the skeleton of the tests is taken in production, too.
GitFailsUnnoticed(r) ==
    /\ run[r].git # "none"
    /\ run' = [run EXCEPT ![r] = [@ EXCEPT !.git = "none", !.pc = AfterGit(r, "build")]]
    /\ RunOnly

\* The repository cannot be read, the commit is not the tip of its branch (the
\* clone has depth 1), or the directory is gone: what was written stays.
GitFails(r) ==
    /\ run[r].git # "none"
    /\ run' = [run EXCEPT ![r] = [@ EXCEPT !.git = "none", !.pc = AfterGit(r, "fail")]]
    /\ RunOnly

\* The promise is rejected; nobody kills git.
CloneTimesOut(r) ==
    /\ At(r, "cloning")
    /\ Goto(r, "fail")
    /\ Blame("timeout")
    /\ UNCHANGED <<status, dir, objects, cleaner>>

\* More bytes than maxSizeBytes.
TooLarge(r) ==
    /\ At(r, "cloning")
    /\ dir.source = "partial"
    /\ RemoveDir([run EXCEPT ![r] = [@ EXCEPT !.git = "none", !.pc = "fail"]])
    /\ UNCHANGED <<status, objects, cleaner, blame>>

-------------------------------------------------------------------------------
(***************************************************************************)
(* DockerRunner.runBuild                                                   *)
(***************************************************************************)
\* Ping, the directory if it is missing, the plan, the quota, the container.
CreateContainer(r) ==
    /\ At(r, "create")
    /\ dir' = [dir EXCEPT !.exists = TRUE]
    /\ run' = [run EXCEPT ![r] = [@ EXCEPT !.pc = "transfer", !.container = "created"]]
    /\ UNCHANGED <<status, objects, cleaner, blame>>

\* Before there is a container.
CreateFails(r) ==
    /\ "docker" \in Faults
    /\ At(r, "create")
    /\ dir' \in {dir, [dir EXCEPT !.exists = TRUE]}
    /\ Goto(r, "fail")
    /\ UNCHANGED <<status, objects, cleaner, blame>>

\* The archive is read from the directory while it is sent.
Transfer(r) ==
    /\ At(r, "transfer")
    /\ run' = [run EXCEPT ![r] = [@ EXCEPT !.pc = "transferring", !.source = dir.source]]
    /\ RunOnly

StartContainer(r) ==
    /\ At(r, "transferring")
    /\ run' = [run EXCEPT ![r] =
           [@ EXCEPT !.pc = "building", !.container = "running",
                     !.source = Seen(run[r].source, dir.source)]]
    /\ RunOnly

\* An exit code of 0.  A static site is whatever source there is; a build
\* that finishes after its timer is one that failed.
BuildSucceeds(r) ==
    /\ At(r, "building")
    /\ ~run[r].expired
    /\ run' = [run EXCEPT ![r] = [@ EXCEPT !.pc = "extract", !.output = run[r].source]]
    /\ RunOnly

\* Deviation: a failed build leaves without the container's removal.
BuildFailsAtOnce(r) ==
    /\ \/ At(r, "building")
       \/ "docker" \in Faults /\ run[r].pc \in {"transfer", "transferring", "extract", "extracting"}
    /\ Goto(r, "fail")
    /\ RunOnly

BuildFails(r) ==
    /\ \/ At(r, "building")
       \/ "docker" \in Faults /\ run[r].pc \in {"transfer", "transferring", "extract", "extracting"}
    /\ Goto(r, "removeContainer")
    /\ RunOnly

\* Deviation: the timer sets the flag and leaves the container alone.
BuildTimesOutUnkilled(r) ==
    /\ At(r, "building")
    /\ ~run[r].expired
    /\ run' = [run EXCEPT ![r] = [@ EXCEPT !.expired = TRUE]]
    /\ RunOnly

BuildTimesOut(r) ==
    /\ At(r, "building")
    /\ ~run[r].expired
    /\ run' = [run EXCEPT ![r] = [@ EXCEPT !.pc = "removeContainer", !.expired = TRUE]]
    /\ RunOnly

\* The error is swallowed and the timer does not fire again.
KillFails(r) ==
    /\ "kill" \in Faults
    /\ At(r, "building")
    /\ ~run[r].expired
    /\ run' = [run EXCEPT ![r] = [@ EXCEPT !.expired = TRUE]]
    /\ Blame("kill")
    /\ UNCHANGED <<status, dir, objects, cleaner>>

\* The output is written into the directory, file by file.
Extract(r) ==
    /\ At(r, "extract")
    /\ dir' = [dir EXCEPT !.exists = TRUE,
                          !.output = IF run[r].output = "none" THEN @ ELSE "partial"]
    /\ Goto(r, "extracting")
    /\ UNCHANGED <<status, objects, cleaner, blame>>

\* If the directory was removed meanwhile, only the rest of the files is there.
Extracted(r) ==
    /\ At(r, "extracting")
    /\ dir' = [dir EXCEPT !.exists = TRUE,
                          !.output = IF run[r].output # "none" /\ @ = "none" THEN "partial"
                                     ELSE IF run[r].output = "none" THEN @ ELSE run[r].output]
    /\ run' = [run EXCEPT ![r] = [@ EXCEPT !.pc = "removeContainer", !.built = TRUE]]
    /\ UNCHANGED <<status, objects, cleaner, blame>>

AfterBuild(r) == IF run[r].built THEN "upload" ELSE "fail"

RemoveContainer(r) ==
    /\ At(r, "removeContainer")
    /\ run' = [run EXCEPT ![r] = [@ EXCEPT !.pc = AfterBuild(r), !.container = "none"]]
    /\ RunOnly

RemoveContainerFails(r) ==
    /\ "remove" \in Faults
    /\ At(r, "removeContainer")
    /\ Goto(r, AfterBuild(r))
    /\ Blame("remove")
    /\ UNCHANGED <<status, dir, objects, cleaner>>

-------------------------------------------------------------------------------
(***************************************************************************)
(* ArtifactPipeline.processAndUpload                                       *)
(***************************************************************************)
\* Every file is read once for its size and hash.
Audit(r) ==
    /\ At(r, "audit")
    /\ run' = [run EXCEPT ![r] =
           IF dir.output = "none" THEN [@ EXCEPT !.pc = "fail"]
           ELSE [@ EXCEPT !.pc = "put", !.listed = dir.output]]
    /\ RunOnly

\* A symbolic link that leaves the directory, too many files, too many bytes, or
\* no bucket: nothing was put, and nothing is removed.
AuditRefuses(r) ==
    /\ At(r, "audit")
    /\ Goto(r, "fail")
    /\ RunOnly

\* Each file is read again when its turn comes; a file that is gone throws.
Put(r) ==
    /\ At(r, "put")
    /\ IF dir.output = "none"
       THEN Goto(r, "undo") /\ UNCHANGED objects
       ELSE Goto(r, "putting") /\ objects' = "partial"
    /\ UNCHANGED <<status, dir, cleaner, blame>>

\* The rest and manifest.json.
PutRest(r) ==
    /\ At(r, "putting")
    /\ IF dir.output = "none"
       THEN Goto(r, "undo") /\ UNCHANGED objects
       ELSE /\ Goto(r, "deploy")
            /\ objects' = IF run[r].listed = "whole" THEN "whole" ELSE "short"
    /\ UNCHANGED <<status, dir, cleaner, blame>>

PutFails(r) ==
    /\ "storage" \in Faults
    /\ run[r].pc \in {"put", "putting"}
    /\ Goto(r, "undo")
    /\ RunOnly

\* cleanupPartialUploads, over all objects of the prefix.
Undo(r) ==
    /\ At(r, "undo")
    /\ objects' = "none"
    /\ Goto(r, "fail")
    /\ UNCHANGED <<status, dir, cleaner, blame>>

UndoFails(r) ==
    /\ "storage" \in Faults
    /\ At(r, "undo")
    /\ Goto(r, "fail")
    /\ RunOnly

-------------------------------------------------------------------------------
(***************************************************************************)
(* The end of a run.                                                       *)
(***************************************************************************)
\* The transition to READY refuses a row that is finished or gone; the run ends
\* in either case as one that succeeded.
Publish(r) ==
    /\ At(r, "ready")
    /\ status' = IF status = "open" THEN "READY" ELSE status
    /\ Goto(r, "clean")
    /\ UNCHANGED <<dir, objects, cleaner, blame>>

\* Deviation: a status the schema does not have.
FailMisspelt(r) ==
    /\ At(r, "fail")
    /\ status' = IF status = "open" THEN "ERROR" ELSE status
    /\ Goto(r, "clean")
    /\ UNCHANGED <<dir, objects, cleaner, blame>>

Fail(r) ==
    /\ At(r, "fail")
    /\ status' = IF status = "open" THEN "FAILED" ELSE status
    /\ Goto(r, "clean")
    /\ UNCHANGED <<dir, objects, cleaner, blame>>

\* The error is logged, and the row stays open for the next attempt.
FailIsLost(r) ==
    /\ "db" \in Faults
    /\ At(r, "fail")
    /\ Goto(r, "clean")
    /\ RunOnly

Clean(r) ==
    /\ At(r, "clean")
    /\ RemoveDir([run EXCEPT ![r] = [@ EXCEPT !.pc = "done"]])
    /\ UNCHANGED <<status, objects, cleaner, blame>>

CleanFails(r) ==
    /\ "remove" \in Faults
    /\ At(r, "clean")
    /\ Goto(r, "done")
    /\ Blame("remove")
    /\ UNCHANGED <<status, dir, objects, cleaner>>

\* git goes on without its parent, or is stopped with it; the container stays.
Crash(r) ==
    /\ "crash" \in Faults
    /\ Live(r)
    /\ \E git \in {run[r].git, "none"} :
          run' = [run EXCEPT ![r] = [@ EXCEPT !.pc = "dead", !.git = git]]
    /\ Blame("crash")
    /\ UNCHANGED <<status, dir, objects, cleaner>>

-------------------------------------------------------------------------------
(***************************************************************************)
(* The row from outside, and the pruning of objects without one: which     *)
(* prefixes there are, whether this one's row is there, and what is below. *)
(***************************************************************************)
Cancel ==
    /\ status = "open"
    /\ status' = "CANCELLED"
    /\ UNCHANGED <<dir, objects, run, cleaner, blame>>

\* With its project; the build is not told.
DeleteRow ==
    /\ status # "deleted"
    /\ status' = "deleted"
    /\ UNCHANGED <<dir, objects, run, cleaner, blame>>

CleanerGoto(point) ==
    /\ cleaner' = point
    /\ UNCHANGED <<status, dir, run, blame>>

\* Deviation: only prefixes with a manifest are taken for bundles.
ListBundles ==
    /\ cleaner = "idle"
    /\ objects \in {"whole", "short"}
    /\ CleanerGoto("check")
    /\ UNCHANGED objects

ListPrefixes ==
    /\ cleaner = "idle"
    /\ objects # "none"
    /\ CleanerGoto("check")
    /\ UNCHANGED objects

\* Deviation: what is not published is pruned.
CheckPublished ==
    /\ cleaner = "check"
    /\ CleanerGoto(IF status = "READY" THEN "idle" ELSE "prune")
    /\ UNCHANGED objects

CheckRow ==
    /\ cleaner = "check"
    /\ CleanerGoto(IF status = "deleted" THEN "prune" ELSE "idle")
    /\ UNCHANGED objects

Prune ==
    /\ cleaner = "prune"
    /\ objects' = "none"
    /\ CleanerGoto("idle")

\* Noted in the report, until the next night.
PruneFails ==
    /\ "storage" \in Faults
    /\ cleaner = "prune"
    /\ CleanerGoto("idle")
    /\ UNCHANGED objects

-------------------------------------------------------------------------------
\* What a run does without waiting for git or for the build.
RunStep(r) ==
    \/ Phase(r, "clone", "mkdir") \/ StartClone(r) \/ CloneTimesOut(r)
    \/ Phase(r, "build", "create") \/ CreateContainer(r) \/ CreateFails(r)
    \/ Transfer(r) \/ StartContainer(r) \/ BuildTimesOut(r) \/ KillFails(r)
    \/ Extract(r) \/ Extracted(r) \/ RemoveContainer(r) \/ RemoveContainerFails(r)
    \/ Phase(r, "upload", "audit") \/ Audit(r) \/ AuditRefuses(r)
    \/ Put(r) \/ PutRest(r) \/ PutFails(r) \/ Undo(r) \/ UndoFails(r)
    \/ Phase(r, "deploy", "ready") \/ Publish(r) \/ Fail(r) \/ FailIsLost(r)
    \/ Clean(r) \/ CleanFails(r)

GitStep(r) == GitWrites(r) \/ GitSucceeds(r) \/ GitFails(r) \/ TooLarge(r)

BuildStep(r) == BuildSucceeds(r) \/ BuildFails(r)

CleanerStep == ListPrefixes \/ CheckRow \/ Prune \/ PruneFails

\* No run is left, and nothing that could be pruned.
Quiescent ==
    /\ \A r \in Runs : run[r].pc \in {"done", "dead"} /\ run[r].git = "none"
    /\ UNCHANGED vars

Next ==
    \/ \E r \in Runs : Start(r) \/ RunStep(r) \/ GitStep(r) \/ BuildStep(r) \/ Crash(r)
    \/ Cancel \/ DeleteRow
    \/ CleanerStep
    \/ Quiescent

Spec == Init /\ [][Next]_vars

\* Timers fire and the other services answer; git and the build may hang.  The
\* pruning runs every night, and does not fail every night.
FairSpec ==
    /\ Spec
    /\ \A r \in Runs : WF_vars(RunStep(r))
    /\ WF_vars(ListPrefixes) /\ WF_vars(CheckRow) /\ SF_vars(Prune)

-------------------------------------------------------------------------------
(***************************************************************************)
(* Properties.                                                             *)
(***************************************************************************)
\* The types of all variables.
WorkspaceTypeOK ==
    /\ status \in Statuses
    /\ dir \in [exists : BOOLEAN, source : Trees, output : Trees]
    /\ objects \in Bundles
    /\ run \in [Runs -> RunStates]
    /\ cleaner \in {"idle", "check", "prune"}
    /\ blame \subseteq {"overlap", "timeout", "kill", "remove", "crash"}

\* A published deployment has the complete output of a complete checkout, for
\* all the leftovers of runs that died, clones given up and pruning passes; of
\* what is modelled here only a run that goes on beside another may break that.  (The
\* clean-up of deployments past their time to live, which removes the objects before
\* the row and may fail in between, is ProductionPointer's.)
PublishedIsWhole == status = "READY" /\ "overlap" \notin blame => objects = "whole"

\* A container that outlives its run, and a directory that outlives all runs,
\* have a cause: a death, a removal that failed, or a git that was given up.
LeftoversHaveACause ==
    /\ \A r \in Runs : At(r, "done") /\ run[r].container # "none" => "remove" \in blame
    /\ dir.exists /\ (\A r \in Runs : ~Live(r)) => blame \cap {"crash", "remove", "timeout"} # {}

\* A run ends, even if git or the build would never end, unless the daemon does
\* not kill the container.
RunsEnd == \A r \in Runs : Live(r) ~> (~Live(r) \/ "kill" \in blame)

\* Once a deployment is deleted and its runs have ended, its objects go for good,
\* those included that a run stored after the deletion.
OrphansArePruned ==
    <>[](status = "deleted" /\ \A r \in Runs : ~Live(r)) => <>[](objects = "none")

===============================================================================
