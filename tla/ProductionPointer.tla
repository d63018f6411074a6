-------------------------- MODULE ProductionPointer --------------------------
(***************************************************************************)
(* Who writes Project.currentDeploymentId, the deployment a project's      *)
(* production URL serves.                                                  *)
(*                                                                         *)
(* Four writers share it: the READY transition of a run (any branch), the  *)
(* run's second write when it ends (production branch, whatever became of  *)
(* the transition), the promote and rollback requests, and PostgreSQL,     *)
(* which clears it when the cleanup service deletes the deployment it      *)
(* names.  Only the requests look at Project.version and leave a           *)
(* DeploymentAudit row.                                                    *)
(*                                                                         *)
(* A transition reads the status and later writes by id, so what it read   *)
(* may be stale by then: READY can be refused to a run that goes on to its *)
(* second write, and it can be overwritten.  A request is four steps       *)
(* between which the others run: validation on a snapshot of the row and   *)
(* its project, the stat of index.html in object storage, and the read and *)
(* the write of a READ COMMITTED transaction.                              *)
(***************************************************************************)
EXTENDS Naturals

CONSTANTS
    Deployments,   \* the project's deployments
    Old,           \* those older than the preview TTL, unless they are deleted
    Production,    \* those whose run ends with the production write
    Runs,          \* executions of processDeploymentJob
    Writers,       \* other transitions: cancels, failures, another run's phases
    Swaps,         \* promote and rollback requests
    None           \* the pointer's null

ASSUME PointerAssumption ==
    /\ Old \subseteq Deployments
    /\ Production \subseteq Deployments \ Old
    /\ None \notin Deployments

VARIABLES
    row,        \* Deployment.status as far as the pointer's writers tell it apart
    bundle,     \* the deployment's index.html is in object storage
    current,    \* Project.currentDeploymentId
    version,    \* Project.version
    audit,      \* the two deployments of the DeploymentAudit row written last
    since,      \* history variable: values of the pointer since that row
    overtaken,  \* history variable: deployments whose READY a stale transition overwrote
    refused,    \* history variable: deployments bound although they were refused READY
    run,        \* the runs, from the replay check on
    writer,     \* the other transitions
    swap,       \* the requests
    cleaner     \* the cleanup service's pass over old deployments

vars == <<row, bundle, current, version, audit, since, overtaken, refused, run, writer, swap,
          cleaner>>

\* BUILDING stands for every status before the end, QUEUED to DEPLOYING.
Rows == {"BUILDING", "READY", "FAILED", "CANCELLED", "DELETED"}
Operations == {"PROMOTE", "ROLLBACK"}
Pointers == Deployments \cup {None}

RunStates == [pc : {"idle", "running", "write", "bind"}, dep : Pointers, success : BOOLEAN]

WriterStates ==
    [pc : {"idle", "write"}, dep : Pointers, to : {"BUILDING", "FAILED", "CANCELLED"}]

SwapStates ==
    [pc : {"idle", "stat", "read", "write", "replied"}, op : Operations, target : Pointers,
     active : BOOLEAN, old : Pointers, version : Nat,
     reply : {"none", "swapped", "already", "400", "409", "500"}]

NoRun == [pc |-> "idle", dep |-> None, success |-> FALSE]

NoWriter == [pc |-> "idle", dep |-> None, to |-> "BUILDING"]

NoSwap == [pc |-> "idle", op |-> "PROMOTE", target |-> None, active |-> FALSE, old |-> None,
           version |-> 0, reply |-> "none"]

NoAudit == [old |-> None, new |-> None]

Init ==
    /\ row \in [Deployments -> {"BUILDING", "READY"}]
    /\ \A d \in Deployments : row[d] = "READY" <=> d \in Old
    /\ bundle = [d \in Deployments |-> d \in Old]
    /\ current \in Old \cup {None}
    /\ version = 1
    /\ audit = NoAudit
    /\ since = {current}
    /\ overtaken = {}
    /\ refused = {}
    /\ run = [r \in Runs |-> NoRun]
    /\ writer = [w \in Writers |-> NoWriter]
    /\ swap = [q \in Swaps |-> NoSwap]
    /\ cleaner = [pc |-> "idle", eligible |-> {}, dep |-> None]

-------------------------------------------------------------------------------
(***************************************************************************)
(* The runs.  A job is long done when its deployment is past the TTL, so   *)
(* nothing here meets a row that the cleanup deletes.                      *)
(***************************************************************************)
PointTo(d) ==
    /\ current' = d
    /\ since' = since \cup {d}

RunOnly ==
    UNCHANGED <<row, bundle, current, version, audit, since, overtaken, refused, writer, swap,
                cleaner>>

\* The replay check ends the run of a deployment that has ended, unless the check's
\* query fails.
Start(r, d) ==
    /\ run[r].pc = "idle"
    /\ d \notin Old
    /\ run' = [run EXCEPT ![r] = [pc |-> "running", dep |-> d, success |-> FALSE]]
    /\ RunOnly

\* The prefix is emptied and filled again; outside production a failed upload
\* leaves no bundle and the run goes on.
Upload(r) ==
    /\ run[r].pc = "running"
    /\ \E complete \in BOOLEAN : bundle' = [bundle EXCEPT ![run[r].dep] = complete]
    /\ UNCHANGED <<row, current, version, audit, since, overtaken, refused, run, writer, swap,
                   cleaner>>

\* Only a deployment of the production branch is written a second time.
AfterReady(r, won) ==
    run' = [run EXCEPT ![r] = IF run[r].dep \in Production
                              THEN [@ EXCEPT !.pc = "bind", !.success = won]
                              ELSE NoRun]

\* The READY transition reads a row that is DEPLOYING.
ReadyRead(r) ==
    /\ run[r].pc = "running"
    /\ row[run[r].dep] = "BUILDING"
    /\ run' = [run EXCEPT ![r].pc = "write"]
    /\ RunOnly

\* It finds an ended row, or one that another run set back to an earlier phase:
\* it returns without an error, successfully if the row is READY already.
ReadyRefused(r) ==
    /\ run[r].pc = "running"
    /\ AfterReady(r, row[run[r].dep] = "READY")
    /\ RunOnly

\* By id, whatever the status is by now; the pointer moves in the same transaction.
ReadyWrite(r) ==
    /\ run[r].pc = "write"
    /\ row' = [row EXCEPT ![run[r].dep] = "READY"]
    /\ PointTo(run[r].dep)
    /\ AfterReady(r, TRUE)
    /\ UNCHANGED <<bundle, version, audit, overtaken, refused, writer, swap, cleaner>>

\* The second write does not look at the transition's result.
Bind(r) ==
    /\ run[r].pc = "bind"
    /\ PointTo(run[r].dep)
    /\ refused' = IF run[r].success THEN refused ELSE refused \cup {run[r].dep}
    /\ run' = [run EXCEPT ![r] = NoRun]
    /\ UNCHANGED <<row, bundle, version, audit, overtaken, writer, swap, cleaner>>

\* The run fails, is cancelled or dies, the transition throws, or the error of the
\* second write is swallowed.
GiveUp(r) ==
    /\ run[r].pc # "idle"
    /\ run' = [run EXCEPT ![r] = NoRun]
    /\ RunOnly

-------------------------------------------------------------------------------
(***************************************************************************)
(* The other transitions: a cancel request, the failure of a run or by the *)
(* reconciler, a phase of a run beside.                                    *)
(***************************************************************************)
WriterOnly ==
    UNCHANGED <<row, bundle, current, version, audit, since, overtaken, refused, run, swap,
                cleaner>>

ChangeRead(w, d) ==
    /\ writer[w].pc = "idle"
    /\ row[d] = "BUILDING"
    /\ \E to \in {"BUILDING", "FAILED", "CANCELLED"} :
          writer' = [writer EXCEPT ![w] = [pc |-> "write", dep |-> d, to |-> to]]
    /\ WriterOnly

\* Deviation: a status the schema does not have.
ChangeWriteMisspelt(w) ==
    /\ writer[w].pc = "write"
    /\ row' = [row EXCEPT ![writer[w].dep] = "ERROR"]
    /\ writer' = [writer EXCEPT ![w] = NoWriter]
    /\ UNCHANGED <<bundle, current, version, audit, since, overtaken, refused, run, swap, cleaner>>

\* Deviation: every status that is written takes the pointer.
ChangeTakesPointer(w) ==
    /\ writer[w].pc = "write"
    /\ row' = [row EXCEPT ![writer[w].dep] = writer[w].to]
    /\ PointTo(writer[w].dep)
    /\ writer' = [writer EXCEPT ![w] = NoWriter]
    /\ UNCHANGED <<bundle, version, audit, overtaken, refused, run, swap, cleaner>>

\* By id, whatever the status is by now: READY may be lost.
ChangeWrite(w) ==
    /\ writer[w].pc = "write"
    /\ row' = [row EXCEPT ![writer[w].dep] = writer[w].to]
    /\ overtaken' = IF row[writer[w].dep] = "READY" THEN overtaken \cup {writer[w].dep}
                    ELSE overtaken
    /\ writer' = [writer EXCEPT ![w] = NoWriter]
    /\ UNCHANGED <<bundle, current, version, audit, since, refused, run, swap, cleaner>>

ChangeAborts(w) ==
    /\ writer[w].pc = "write"
    /\ writer' = [writer EXCEPT ![w] = NoWriter]
    /\ WriterOnly

-------------------------------------------------------------------------------
(***************************************************************************)
(* Promote and rollback.                                                   *)
(***************************************************************************)
Reply(q, r) == swap' = [swap EXCEPT ![q] = [NoSwap EXCEPT !.pc = "replied", !.reply = r]]

SwapOnly ==
    UNCHANGED <<row, bundle, current, version, audit, since, overtaken, refused, run, writer,
                cleaner>>

Validate(q, op, d) ==
    /\ swap[q].pc = "idle"
    /\ row[d] # "DELETED"
    /\ IF row[d] = "READY"
       THEN swap' = [swap EXCEPT ![q] =
                [@ EXCEPT !.pc = "stat", !.op = op, !.target = d, !.active = (current = d)]]
       ELSE Reply(q, "400")
    /\ SwapOnly

\* The request's answer to its own snapshot of the pointer.
AfterStat(q) ==
    IF ~swap[q].active THEN swap' = [swap EXCEPT ![q].pc = "read"]
    ELSE Reply(q, IF swap[q].op = "PROMOTE" THEN "already" ELSE "400")

Stat(q) ==
    /\ swap[q].pc = "stat"
    /\ IF bundle[swap[q].target] THEN AfterStat(q) ELSE Reply(q, "409")
    /\ SwapOnly

\* Any error but a missing object is ignored.
StatIsIgnored(q) ==
    /\ swap[q].pc = "stat"
    /\ AfterStat(q)
    /\ SwapOnly

SwapRead(q) ==
    /\ swap[q].pc = "read"
    /\ swap' = [swap EXCEPT ![q] =
                  [@ EXCEPT !.pc = "write", !.old = current, !.version = version]]
    /\ SwapOnly

\* Deviation: update by id, whatever the version.
SwapWriteUnguarded(q) ==
    /\ swap[q].pc = "write"
    /\ row[swap[q].target] # "DELETED"
    /\ current' = swap[q].target
    /\ version' = version + 1
    /\ audit' = [old |-> swap[q].old, new |-> swap[q].target]
    /\ since' = {swap[q].target}
    /\ Reply(q, "swapped")
    /\ UNCHANGED <<row, bundle, overtaken, refused, run, writer, cleaner>>

\* updateMany where the version is the one that was read.  The pointer is a
\* foreign key: a target that is no longer there fails the transaction.
SwapWrite(q) ==
    /\ swap[q].pc = "write"
    /\ version = swap[q].version
    /\ row[swap[q].target] # "DELETED"
    /\ current' = swap[q].target
    /\ version' = version + 1
    /\ audit' = [old |-> swap[q].old, new |-> swap[q].target]
    /\ since' = {swap[q].target}
    /\ Reply(q, "swapped")
    /\ UNCHANGED <<row, bundle, overtaken, refused, run, writer, cleaner>>

SwapConflicts(q) ==
    /\ swap[q].pc = "write"
    /\ version # swap[q].version
    /\ Reply(q, "409")
    /\ SwapOnly

\* A statement fails, always so if the target was deleted.
SwapFails(q) ==
    /\ swap[q].pc \in {"read", "write"}
    /\ Reply(q, "500")
    /\ SwapOnly

-------------------------------------------------------------------------------
(***************************************************************************)
(* The cleanup of deployments past their TTL: one query, then for each     *)
(* deployment its objects and its row.  An error leaves the rest of this   *)
(* deployment and goes on with the next.                                   *)
(***************************************************************************)
CleanerOnly ==
    UNCHANGED <<row, bundle, current, version, audit, since, overtaken, refused, run, writer, swap>>

SelectOld ==
    /\ cleaner.pc = "idle"
    /\ cleaner' = [cleaner EXCEPT !.pc = "next",
                                  !.eligible = {d \in Old : row[d] = "READY" /\ current # d}]
    /\ CleanerOnly

RemoveObjects(d) ==
    /\ cleaner.pc = "next"
    /\ d \in cleaner.eligible
    /\ bundle' = [bundle EXCEPT ![d] = FALSE]
    /\ cleaner' = [pc |-> "delete", eligible |-> cleaner.eligible \ {d}, dep |-> d]
    /\ UNCHANGED <<row, current, version, audit, since, overtaken, refused, run, writer, swap>>

RemoveObjectsFails(d) ==
    /\ cleaner.pc = "next"
    /\ d \in cleaner.eligible
    /\ \E kept \in BOOLEAN : bundle' = [bundle EXCEPT ![d] = @ /\ kept]
    /\ cleaner' = [cleaner EXCEPT !.eligible = @ \ {d}]
    /\ UNCHANGED <<row, current, version, audit, since, overtaken, refused, run, writer, swap>>

\* Deviation: the foreign key does nothing on delete.
DeleteRowKeepsPointer ==
    /\ cleaner.pc = "delete"
    /\ row' = [row EXCEPT ![cleaner.dep] = "DELETED"]
    /\ cleaner' = [cleaner EXCEPT !.pc = "next"]
    /\ UNCHANGED <<bundle, current, version, audit, since, overtaken, refused, run, writer, swap>>

\* onDelete: SetNull clears the pointer in the same statement.
DeleteRow ==
    /\ cleaner.pc = "delete"
    /\ row' = [row EXCEPT ![cleaner.dep] = "DELETED"]
    /\ current' = IF current = cleaner.dep THEN None ELSE current
    /\ since' = IF current = cleaner.dep THEN since \cup {None} ELSE since
    /\ cleaner' = [cleaner EXCEPT !.pc = "next"]
    /\ UNCHANGED <<bundle, version, audit, overtaken, refused, run, writer, swap>>

DeleteRowFails ==
    /\ cleaner.pc = "delete"
    /\ cleaner' = [cleaner EXCEPT !.pc = "next"]
    /\ CleanerOnly

EndOfPass ==
    /\ cleaner.pc = "next"
    /\ cleaner.eligible = {}
    /\ cleaner' = [cleaner EXCEPT !.pc = "idle"]
    /\ CleanerOnly

-------------------------------------------------------------------------------
RunStep(r) ==
    \/ \E d \in Deployments : Start(r, d)
    \/ Upload(r) \/ ReadyRead(r) \/ ReadyRefused(r) \/ ReadyWrite(r) \/ Bind(r) \/ GiveUp(r)

WriterStep(w) ==
    \/ \E d \in Deployments : ChangeRead(w, d)
    \/ ChangeWrite(w) \/ ChangeAborts(w)

SwapStep(q) ==
    \/ \E op \in Operations, d \in Deployments : Validate(q, op, d)
    \/ Stat(q) \/ StatIsIgnored(q) \/ SwapRead(q)
    \/ SwapWrite(q) \/ SwapConflicts(q) \/ SwapFails(q)

CleanerStep ==
    \/ SelectOld \/ DeleteRow \/ DeleteRowFails \/ EndOfPass
    \/ \E d \in Deployments : RemoveObjects(d) \/ RemoveObjectsFails(d)

Next ==
    \/ \E r \in Runs : RunStep(r)
    \/ \E w \in Writers : WriterStep(w)
    \/ \E q \in Swaps : SwapStep(q)
    \/ CleanerStep

Spec == Init /\ [][Next]_vars

-------------------------------------------------------------------------------
(***************************************************************************)
(* Properties.                                                             *)
(***************************************************************************)
\* The types of all variables.
PointerTypeOK ==
    /\ row \in [Deployments -> Rows]
    /\ bundle \in [Deployments -> BOOLEAN]
    /\ current \in Pointers
    /\ version \in Nat
    /\ audit \in [old : Pointers, new : Pointers]
    /\ since \subseteq Pointers
    /\ overtaken \subseteq Deployments
    /\ refused \subseteq Deployments
    /\ run \in [Runs -> RunStates]
    /\ writer \in [Writers -> WriterStates]
    /\ swap \in [Swaps -> SwapStates]
    /\ cleaner \in [pc : {"idle", "next", "delete"}, eligible : SUBSET Deployments, dep : Pointers]

\* What the pointer names still has its row, and the row is READY unless one of two
\* things happened to that deployment before: a transition that had read an earlier
\* status overwrote its READY, or its run was refused READY and bound it all the
\* same.  Requests and the cleanup on their way at once are no third cause.
UnservableHasACause ==
    current # None =>
        /\ row[current] # "DELETED"
        /\ row[current] = "READY" \/ current \in overtaken \cup refused

\* The audit trail has no gap that a concurrent request could leave: the old
\* deployment of an audited swap is one the pointer named since the audited
\* swap before it.
AuditsChain == [][audit' # audit => audit'.old \in since]_vars

===============================================================================
