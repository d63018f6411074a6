--------------------------- MODULE Reconciliation ---------------------------
(***************************************************************************)
(* reconcileStaleDeployments beside the pipeline it cleans up after.       *)
(*                                                                         *)
(* A worker process reconciles once, when it starts.  It takes a Redis     *)
(* lock with a time to live, asks PostgreSQL for unfinished deployments    *)
(* that were not written for staleThresholdMs, and for each of them asks   *)
(* Redis four questions, one await after the other, before it moves the    *)
(* deployment to FAILED.  The pipeline may take any step in between.       *)
(***************************************************************************)
EXTENDS DeploymentPipeline, FiniteSets

CONSTANTS
    Workers,     \* starts of a worker process
    RecFaults    \* what may happen to a reconciliation, see RecFaultKinds

\* It dies; its commands to Redis fail; its query or its transaction fails; it
\* outlasts reconciliationLockTtlMs.
RecFaultKinds == {"crash", "redis", "db", "slow"}

ASSUME ReconcilerAssumption == RecFaults \subseteq RecFaultKinds /\ None \notin Workers

VARIABLES
    lock,   \* value of worker:reconciliation:lock: the worker that set it, or None
    rec     \* the reconciliations

recVars == <<lock, rec>>
allVars == <<vars, recVars>>

\* Where a job stands.  No job comes back to where it once stood.
Standings == [state : {"none", "waiting", "active", "delayed", "completed", "failed"},
              attempts : Nat, stalls : Nat]
Standing(j) == [state |-> j.state, attempts |-> j.attempts, stalls |-> j.stalls]
NoJob == [state |-> "none", attempts |-> 0, stalls |-> 0]

\* met is a history variable: where the candidate's job stood at the look at its
\* heartbeat, or NoJob once a question about the job failed.
RecStates ==
    [pc : {"start", "query", "next", "getJob", "isActive", "isWaiting", "isDelayed", "fail",
           "release", "done"},
     candidates : SUBSET Deployments,
     dep : Deployments \cup {None},
     found : BOOLEAN,
     met : Standings,
     seen : Stored \cup {Unread}]

\* A reconciliation without a deployment in hand.
Free(point, candidates) ==
    [pc |-> point, candidates |-> candidates, dep |-> None, found |-> FALSE,
     met |-> NoJob, seen |-> Unread]

\* A reconciliation that asks about the job of d next.
Asking(d, candidates) ==
    [pc |-> "getJob", candidates |-> candidates, dep |-> d, found |-> FALSE,
     met |-> Standing(job[d]), seen |-> Unread]

RecInit ==
    /\ Init
    /\ lock = None
    /\ rec = [w \in Workers |-> Free("start", {})]

\* The states between the lock and its release.
Reconciling(w) == rec[w].pc \notin {"start", "done"}

-------------------------------------------------------------------------------
Move(w, point) == rec' = [rec EXCEPT ![w].pc = point]

\* On to the next candidate.
Continue(w) == rec' = [rec EXCEPT ![w] = Free("next", @.candidates)]

\* Deviation: the lock is set without NX.
AcquireLockAnyway(w) ==
    /\ rec[w].pc = "start"
    /\ lock' = w
    /\ Move(w, "query")
    /\ UNCHANGED vars

\* SET lockKey workerId PX ttl NX
AcquireLock(w) ==
    /\ rec[w].pc = "start"
    /\ lock = None
    /\ lock' = w
    /\ Move(w, "query")
    /\ UNCHANGED vars

LockIsHeld(w) ==
    /\ rec[w].pc = "start"
    /\ lock # None
    /\ Move(w, "done")
    /\ UNCHANGED <<vars, lock>>

\* The command fails, though Redis may have set the key.
LockFails(w) ==
    /\ "redis" \in RecFaults
    /\ rec[w].pc = "start"
    /\ lock' = lock \/ (lock = None /\ lock' = w)
    /\ Move(w, "done")
    /\ UNCHANGED vars

\* Deviation: only one of the unfinished statuses is asked for.
QueryBuilding(w) ==
    /\ rec[w].pc = "query"
    /\ rec' = [rec EXCEPT ![w] =
                  Free("next", {d \in Deployments : status[d] = "BUILDING" /\ stale[d]})]
    /\ UNCHANGED <<vars, lock>>

Query(w) ==
    /\ rec[w].pc = "query"
    /\ rec' = [rec EXCEPT ![w] =
                  Free("next", {d \in Deployments : status[d] \in InFlight /\ stale[d]})]
    /\ UNCHANGED <<vars, lock>>

\* The error of the query is logged, and the lock released.
QueryFails(w) ==
    /\ "db" \in RecFaults
    /\ rec[w].pc = "query"
    /\ Move(w, "release")
    /\ UNCHANGED <<vars, lock>>

\* The next candidate of the list: first its heartbeat.
CheckHeartbeat(w, d) ==
    /\ rec[w].pc = "next"
    /\ d \in rec[w].candidates
    /\ rec' = [rec EXCEPT ![w] = LET left == @.candidates \ {d} IN
                                 IF heartbeat[d] THEN Free("next", left) ELSE Asking(d, left)]
    /\ UNCHANGED <<vars, lock>>

\* A failed read is logged and taken for a missing heartbeat.
CheckHeartbeatFails(w, d) ==
    /\ "redis" \in RecFaults
    /\ rec[w].pc = "next"
    /\ d \in rec[w].candidates
    /\ rec' = [rec EXCEPT ![w] = Asking(d, @.candidates \ {d})]
    /\ UNCHANGED <<vars, lock>>

EndOfList(w) ==
    /\ rec[w].pc = "next"
    /\ rec[w].candidates = {}
    /\ Move(w, "release")
    /\ UNCHANGED <<vars, lock>>

\* Completed jobs are removed from Redis, failed ones are kept.
GetJob(w) ==
    /\ rec[w].pc = "getJob"
    /\ Move(w, IF job[rec[w].dep].state \in {"none", "completed"} THEN "fail" ELSE "isActive")
    /\ UNCHANGED <<vars, lock>>

\* Deviation: the last answer stands for all.
AskJobLast(w, point, state, after) ==
    /\ rec[w].pc = point
    /\ rec' = [rec EXCEPT ![w].pc = after,
                          ![w].found = (job[rec[w].dep].state = state)]
    /\ UNCHANGED <<vars, lock>>

AskJob(w, point, state, after) ==
    /\ rec[w].pc = point
    /\ rec' = [rec EXCEPT ![w].pc = after,
                          ![w].found = @ \/ job[rec[w].dep].state = state]
    /\ UNCHANGED <<vars, lock>>

IsActive(w) == AskJob(w, "isActive", "active", "isWaiting")
IsWaiting(w) == AskJob(w, "isWaiting", "waiting", "isDelayed")

IsDelayed(w) ==
    /\ rec[w].pc = "isDelayed"
    /\ IF rec[w].found \/ job[rec[w].dep].state = "delayed" THEN Continue(w) ELSE Move(w, "fail")
    /\ UNCHANGED <<vars, lock>>

\* A failed question about the job is logged and the deployment is failed.
QueueCheckFails(w) ==
    /\ "redis" \in RecFaults
    /\ rec[w].pc \in {"getJob", "isActive", "isWaiting", "isDelayed"}
    /\ rec' = [rec EXCEPT ![w].pc = "fail", ![w].found = FALSE, ![w].met = NoJob]
    /\ UNCHANGED <<vars, lock>>

\* Deviation: the status is not looked at again.
ReconcileReadUnchecked(w) ==
    /\ rec[w].pc = "fail"
    /\ rec[w].seen = Unread
    /\ rec' = [rec EXCEPT ![w].seen = status[rec[w].dep]]
    /\ UNCHANGED <<vars, lock>>

\* The transition to FAILED; from QUEUED it throws and is caught.
ReconcileRead(w) ==
    /\ rec[w].pc = "fail"
    /\ rec[w].seen = Unread
    /\ LET cur == status[rec[w].dep] IN
       IF Decision(cur, "FAILED", InFlight) = "commit"
       THEN rec' = [rec EXCEPT ![w].seen = cur]
       ELSE Continue(w)
    /\ UNCHANGED <<vars, lock>>

ReconcileCommit(w) ==
    /\ rec[w].seen # Unread
    /\ WriteTransition(rec[w].dep, rec[w].seen, "FAILED")
    /\ Continue(w)
    /\ UNCHANGED <<artifacts, uploaded, job, heartbeat, handler, request, run, lock>>

ReconcileAbort(w) ==
    /\ "db" \in RecFaults
    /\ rec[w].pc = "fail"
    /\ Continue(w)
    /\ UNCHANGED <<vars, lock>>

\* Deviation: the key is emptied, not deleted.
ReleaseLockEmpties(w) ==
    /\ rec[w].pc = "release"
    /\ lock' = IF lock = w THEN "" ELSE lock
    /\ Move(w, "done")
    /\ UNCHANGED vars

\* Compare and delete, in one Lua script.
ReleaseLock(w) ==
    /\ rec[w].pc = "release"
    /\ lock' = IF lock = w THEN None ELSE lock
    /\ Move(w, "done")
    /\ UNCHANGED vars

\* The script fails, though Redis may have run it; the lock is left to expire.
ReleaseFails(w) ==
    /\ "redis" \in RecFaults
    /\ rec[w].pc = "release"
    /\ Move(w, "done")
    /\ UNCHANGED <<vars, lock>>

\* The worker process dies while it reconciles; the lock stays.
WorkerCrash(w) ==
    /\ "crash" \in RecFaults
    /\ Reconciling(w)
    /\ rec' = [rec EXCEPT ![w] = Free("done", {})]
    /\ UNCHANGED <<vars, lock>>

\* The lock's time to live ends: always after a crash of its holder, under a
\* holder still at work only if it is slow.
LockExpires ==
    /\ lock # None
    /\ "slow" \in RecFaults \/ ~Reconciling(lock)
    /\ lock' = None
    /\ UNCHANGED <<vars, rec>>

-------------------------------------------------------------------------------
(***************************************************************************)
(* The passing of time, as the reconciler notices it.                      *)
(***************************************************************************)
\* More than staleThresholdMs have passed since the row was written.
GrowsStale(d) ==
    /\ status[d] \in InFlight
    /\ ~stale[d]
    /\ stale' = [stale EXCEPT ![d] = TRUE]
    /\ UNCHANGED <<status, history, current, artifacts, uploaded, job, heartbeat, handler,
                   request, run, recVars>>

\* A run's interval timer sets the key again, every 10 s.
RefreshHeartbeat(r) ==
    /\ TimerOn(run[r].pc)
    /\ ~heartbeat[run[r].dep]
    /\ heartbeat' = [heartbeat EXCEPT ![run[r].dep] = TRUE]
    /\ UNCHANGED <<dbVars, artifacts, uploaded, job, handler, request, run, recVars>>

\* The key outlives its last refresh by 30 s: without a run's timer, or when the
\* process is held up or cut off from Redis for so long.
ExpireHeartbeat(d) ==
    /\ heartbeat[d]
    /\ "stall" \in Faults \/ \A r \in Runs : ~(run[r].dep = d /\ TimerOn(run[r].pc))
    /\ heartbeat' = [heartbeat EXCEPT ![d] = FALSE]
    /\ UNCHANGED <<dbVars, artifacts, uploaded, job, handler, request, run, recVars>>

-------------------------------------------------------------------------------
RecStep(w) ==
    \/ Query(w) \/ QueryFails(w) \/ EndOfList(w)
    \/ GetJob(w) \/ IsActive(w) \/ IsWaiting(w) \/ IsDelayed(w)
    \/ \E d \in Deployments : CheckHeartbeat(w, d) \/ CheckHeartbeatFails(w, d)
    \/ QueueCheckFails(w)
    \/ ReconcileRead(w) \/ ReconcileCommit(w) \/ ReconcileAbort(w)
    \/ ReleaseLock(w) \/ ReleaseFails(w)

RecNext ==
    \/ PipelineNext /\ UNCHANGED recVars
    \/ \E w \in Workers : AcquireLock(w) \/ LockIsHeld(w) \/ LockFails(w) \/ RecStep(w) \/ WorkerCrash(w)
    \/ LockExpires
    \/ \E d \in Deployments : GrowsStale(d) \/ ExpireHeartbeat(d)
    \/ \E r \in Runs : RefreshHeartbeat(r)
    \/ Quiescent /\ UNCHANGED recVars

RecSpec == RecInit /\ [][RecNext]_allVars

\* A reconciliation that has begun goes on; nobody has to start a worker.
RecFairSpec == RecSpec /\ \A w \in Workers : WF_allVars(RecStep(w))

-------------------------------------------------------------------------------
(***************************************************************************)
(* Properties.                                                             *)
(***************************************************************************)
\* The types of all variables.
RecTypeOK ==
    /\ TypeOK
    /\ lock \in Workers \cup {None}
    /\ rec \in [Workers -> RecStates]

\* Two workers never reconcile at once, crashes of the holder included, as long
\* as a reconciliation ends within the lock's time to live.
ReconcilersExclude == Cardinality({w \in Workers : Reconciling(w)}) <= 1

\* A reconciler whose questions were answered does not come to fail a deployment
\* whose job is still where it stood at the look at the heartbeat, on its way to
\* a run or in one: whatever became of the heartbeat, which a second run of a
\* stalled job deletes under the first one (the finally block of index.ts), the
\* three answers, asked for one at a time, add up.  (A job that moves between two
\* of the questions can escape all three.)
StandingJobIsSpared ==
    \A w \in Workers :
        LET j == job[rec[w].dep] IN
        rec[w].pc = "fail" /\ Standing(j) = rec[w].met =>
            j.state \notin {"waiting", "active", "delayed"}

\* The reconciler, too, is done with d: it has no transaction on it open.
RecFinished(d) == Finished(d) /\ \A w \in Workers : rec[w].dep = d => rec[w].seen = Unread

\* A reconciler whose list of candidates is older than the end of a deployment
\* does not touch the status of that deployment, nor wake a run for it.
ReconciledStaysFinished ==
    [][\A d \in Deployments :
          RecFinished(d) => RecFinished(d)' /\ status'[d] = status[d]]_allVars

\* Deployment d is stuck: past QUEUED, not written for long, without a
\* heartbeat, a job that could go on, or a run.
Abandoned(d) ==
    /\ status[d] \in InFlight \ {"QUEUED"}
    /\ stale[d] /\ ~heartbeat[d]
    /\ job[d].state = "failed"
    /\ \A r \in Runs : run[r].dep # d

\* A reconciliation that looks for candidates while d is abandoned finishes d.
AbandonedIsReconciled ==
    \A d \in Deployments, w \in Workers :
        rec[w].pc = "query" /\ Abandoned(d) ~> isTerminalStatus(status[d])

===============================================================================
