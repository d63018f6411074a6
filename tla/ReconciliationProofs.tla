------------------------- MODULE ReconciliationProofs -------------------------
(***************************************************************************)
(* Theorems about the reconciler beside the pipeline, for every set of     *)
(* workers, deployments, runs and requests.                                *)
(***************************************************************************)
EXTENDS Reconciliation, DeploymentPipelineProofs, FiniteSetTheorems

-------------------------------------------------------------------------------
(***************************************************************************)
(* Type correctness.  As in the pipeline, a reconciliation that is past    *)
(* its list has a deployment in hand, and a transaction is open only where *)
(* the code runs one.                                                      *)
(***************************************************************************)
EngagedRecs ==
    {x \in RecStates : /\ x.pc \in {"getJob", "isActive", "isWaiting", "isDelayed", "fail"} =>
                              x.dep \in Deployments
                       /\ x.seen # Unread => x.pc = "fail"}

RecTypeInv ==
    /\ TypeInv
    /\ lock \in Workers \cup {None}
    /\ rec \in [Workers -> EngagedRecs]

LEMMA RecTypeInvImplies == RecTypeInv => RecTypeOK
BY TypeInvImpliesTypeOK DEF RecTypeInv, RecTypeOK, EngagedRecs

LEMMA FreeTypes ==
    ASSUME NEW candidates \in SUBSET Deployments, NEW point \in {"start", "query", "next", "release", "done"}
    PROVE  /\ Free(point, candidates) \in EngagedRecs
           /\ Free(point, candidates).pc = point
           /\ Free(point, candidates).dep = None
           /\ Free(point, candidates).seen = Unread
BY DEF Free, EngagedRecs, RecStates, NoJob, Standings

LEMMA AskingTypes ==
    ASSUME TypeInv, NEW candidates \in SUBSET Deployments, NEW d \in Deployments
    PROVE  /\ Asking(d, candidates) \in EngagedRecs
           /\ Asking(d, candidates).pc = "getJob"
           /\ Asking(d, candidates).dep = d
           /\ Asking(d, candidates).met = Standing(job[d])
           /\ Asking(d, candidates).seen = Unread
<1>1. job[d] \in Jobs
  BY DEF TypeInv, Stores
<1>2. Standing(job[d]) \in Standings
  BY <1>1 DEF Jobs, Standing, Standings
<1>3. QED
  BY <1>2 DEF Asking, EngagedRecs, RecStates

\* A reconciliation that asks or writes nothing beside its own record.
OwnRecord(w) == rec' \in [Workers -> EngagedRecs] /\ \A v \in Workers \ {w} : rec'[v] = rec[v]

LEMMA PutTypes ==
    ASSUME RecTypeInv, NEW w \in Workers, NEW y \in EngagedRecs, rec' = [rec EXCEPT ![w] = y]
    PROVE  OwnRecord(w) /\ rec'[w] = y
BY DEF RecTypeInv, OwnRecord

LEMMA MoveTo ==
    ASSUME RecTypeInv, NEW w \in Workers, NEW point, Move(w, point),
           \/ point \in {"query", "next", "release", "done"} /\ rec[w].seen = Unread
           \/ point \in {"getJob", "isActive", "isWaiting", "isDelayed"}
                 /\ rec[w].seen = Unread /\ rec[w].dep \in Deployments
           \/ point = "fail" /\ rec[w].dep \in Deployments
    PROVE  /\ OwnRecord(w)
           /\ rec'[w].pc = point /\ rec'[w].dep = rec[w].dep /\ rec'[w].seen = rec[w].seen
<1>1. rec[w] \in EngagedRecs
  BY DEF RecTypeInv
<1>2. PICK y : y = [rec[w] EXCEPT !.pc = point]
  OBVIOUS
<1>3. y \in EngagedRecs /\ y.pc = point /\ y.dep = rec[w].dep /\ y.seen = rec[w].seen
  BY <1>1, <1>2 DEF EngagedRecs, RecStates
<1>4. rec' = [rec EXCEPT ![w] = y]
  BY <1>2, Zenon DEF Move
<1>5. QED
  BY <1>3, <1>4, PutTypes

LEMMA ContinueTo ==
    ASSUME RecTypeInv, NEW w \in Workers, Continue(w)
    PROVE  /\ OwnRecord(w)
           /\ rec'[w].pc = "next" /\ rec'[w].dep = None /\ rec'[w].seen = Unread
<1>1. rec[w].candidates \in SUBSET Deployments
  BY DEF RecTypeInv, EngagedRecs, RecStates
<1>2. PICK y : y = Free("next", rec[w].candidates)
  OBVIOUS
<1>3. rec' = [rec EXCEPT ![w] = y]
  BY <1>2, Zenon DEF Continue
<1>4. y \in EngagedRecs /\ y.pc = "next" /\ y.dep = None /\ y.seen = Unread
  BY <1>1, <1>2, FreeTypes
<1>5. QED
  BY <1>3, <1>4, PutTypes

\* What a step of a reconciliation may do to its record.  What it has read of a
\* row, and keeps beyond the step, was in flight.
RecRecordStep(w) ==
    /\ OwnRecord(w)
    /\ Reconciling(w)
    /\ rec'[w].seen # Unread =>
          \/ rec'[w].seen = rec[w].seen /\ rec'[w].dep = rec[w].dep
          \/ rec'[w].dep \in Deployments /\ status[rec'[w].dep] \in InFlight

LEMMA AsksAndReads ==
    ASSUME RecTypeInv, NEW w \in Workers,
           \/ Query(w) \/ QueryFails(w) \/ EndOfList(w)
           \/ GetJob(w) \/ IsActive(w) \/ IsWaiting(w) \/ IsDelayed(w)
           \/ \E d \in Deployments : CheckHeartbeat(w, d) \/ CheckHeartbeatFails(w, d)
           \/ QueueCheckFails(w) \/ ReconcileRead(w) \/ ReconcileAbort(w)
    PROVE  RecRecordStep(w) /\ UNCHANGED <<vars, lock>>
<1> USE DEF RecRecordStep, Reconciling
<1>1. rec[w] \in EngagedRecs /\ rec[w].candidates \in SUBSET Deployments /\ rec \in [Workers -> EngagedRecs]
  BY DEF RecTypeInv, EngagedRecs, RecStates
<1>2. rec[w].pc # "fail" => rec[w].seen = Unread
  BY <1>1 DEF EngagedRecs
<1>3. CASE Query(w)
  <2>1. PICK y : y = Free("next", {d \in Deployments : status[d] \in InFlight /\ stale[d]})
    OBVIOUS
  <2>2. y \in EngagedRecs /\ y.seen = Unread
    BY <2>1, FreeTypes
  <2>3. rec' = [rec EXCEPT ![w] = y]
    BY <1>3, <2>1, Zenon DEF Query
  <2>4. QED
    BY <1>3, <2>2, <2>3, PutTypes DEF Query
<1>4. CASE EndOfList(w) \/ QueryFails(w)
  BY <1>2, <1>4, MoveTo DEF EndOfList, QueryFails
<1>5. CASE GetJob(w)
  <2>1. Move(w, "fail") \/ Move(w, "isActive")
    BY <1>5 DEF GetJob
  <2>2. rec[w].dep \in Deployments
    BY <1>1, <1>5 DEF GetJob, EngagedRecs
  <2>3. QED
    BY <1>2, <1>5, <2>1, <2>2, MoveTo DEF GetJob
<1>6. ASSUME NEW point \in {"isActive", "isWaiting"}, NEW state, NEW after \in {"isWaiting", "isDelayed"},
             AskJob(w, point, state, after)
      PROVE  RecRecordStep(w) /\ UNCHANGED <<vars, lock>>
  <2>1. PICK b \in BOOLEAN : b = (rec[w].found \/ job[rec[w].dep].state = state)
    OBVIOUS
  <2>2. PICK y : y = [rec[w] EXCEPT !.pc = after, !.found = b]
    OBVIOUS
  <2>3. y \in EngagedRecs /\ y.seen = Unread
    BY <1>1, <1>2, <1>6, <2>1, <2>2 DEF AskJob, EngagedRecs, RecStates
  <2>4. rec' = [rec EXCEPT ![w] = y]
    BY <1>1, <1>6, <2>1, <2>2 DEF AskJob
  <2>5. QED
    BY <1>6, <2>3, <2>4, PutTypes DEF AskJob
<1>7. CASE IsDelayed(w)
  <2>1. Continue(w) \/ Move(w, "fail")
    BY <1>7 DEF IsDelayed
  <2>2. rec[w].dep \in Deployments
    BY <1>1, <1>7 DEF IsDelayed, EngagedRecs
  <2>3. QED
    BY <1>2, <1>7, <2>1, <2>2, MoveTo, ContinueTo DEF IsDelayed
<1>8. ASSUME NEW d \in Deployments, CheckHeartbeat(w, d) \/ CheckHeartbeatFails(w, d)
      PROVE  RecRecordStep(w) /\ UNCHANGED <<vars, lock>>
  <2>1. PICK left : left = Free("next", rec[w].candidates \ {d})
    OBVIOUS
  <2>2. left \in EngagedRecs /\ left.seen = Unread
    BY <1>1, <2>1, FreeTypes
  <2>3. PICK y : y = Asking(d, rec[w].candidates \ {d})
    OBVIOUS
  <2>4. y \in EngagedRecs /\ y.seen = Unread
    BY <1>1, <2>3, AskingTypes DEF RecTypeInv
  <2>5. \E x \in {left, y} : rec' = [rec EXCEPT ![w] = x]
    BY <1>8, <2>1, <2>3 DEF CheckHeartbeat, CheckHeartbeatFails
  <2>6. rec[w].pc = "next" /\ UNCHANGED <<vars, lock>>
    BY <1>8 DEF CheckHeartbeat, CheckHeartbeatFails
  <2>7. QED
    BY <2>2, <2>4, <2>5, <2>6, PutTypes
<1>9. CASE QueueCheckFails(w)
  <2>1. rec[w].dep \in Deployments
    BY <1>1, <1>9 DEF QueueCheckFails, EngagedRecs
  <2>2. PICK y : y = [rec[w] EXCEPT !.pc = "fail", !.found = FALSE, !.met = NoJob]
    OBVIOUS
  <2>3. y \in EngagedRecs /\ y.seen = Unread
    BY <1>1, <1>2, <1>9, <2>1, <2>2 DEF QueueCheckFails, EngagedRecs, RecStates, NoJob, Standings
  <2>4. rec' = [rec EXCEPT ![w] = y]
    BY <1>1, <1>9, <2>2 DEF QueueCheckFails
  <2>5. QED
    BY <1>9, <2>3, <2>4, PutTypes DEF QueueCheckFails
<1>10. CASE ReconcileRead(w)
  <2>1. rec[w].pc = "fail" /\ rec[w].seen = Unread /\ rec[w].dep \in Deployments
    BY <1>1, <1>10 DEF ReconcileRead, EngagedRecs
  <2>2. CASE Decision(status[rec[w].dep], "FAILED", InFlight) = "commit"
    <3>1. status[rec[w].dep] \in InFlight
      BY <2>2, CommitIsLegal, ListsOfStatuses
    <3>2. PICK y : y = [rec[w] EXCEPT !.seen = status[rec[w].dep]]
      OBVIOUS
    <3>3. status[rec[w].dep] \in Stored
      BY <2>1 DEF RecTypeInv, TypeInv, Rows
    <3>4. y \in EngagedRecs /\ y.dep = rec[w].dep
      BY <1>1, <2>1, <3>2, <3>3 DEF EngagedRecs, RecStates
    <3>5. rec' = [rec EXCEPT ![w] = y]
      BY <1>1, <1>10, <2>2, <3>2 DEF ReconcileRead
    <3>6. QED
      BY <1>10, <2>1, <3>1, <3>4, <3>5, PutTypes DEF ReconcileRead
  <2>3. CASE Decision(status[rec[w].dep], "FAILED", InFlight) # "commit"
    BY <1>10, <2>3, ContinueTo DEF ReconcileRead
  <2>4. QED
    BY <2>2, <2>3
<1>11. CASE ReconcileAbort(w)
  BY <1>11, ContinueTo DEF ReconcileAbort
<1>12. QED
  BY <1>3, <1>4, <1>5, <1>6, <1>7, <1>8, <1>9, <1>10, <1>11 DEF IsActive, IsWaiting

\* The commit of a reconciliation.
LEMMA Committing ==
    ASSUME RecTypeInv, NEW w \in Workers, ReconcileCommit(w)
    PROVE  /\ RecRecordStep(w) /\ rec'[w].seen = Unread
           /\ rec[w].dep \in Deployments
           /\ WriteTransition(rec[w].dep, rec[w].seen, "FAILED")
           /\ UNCHANGED <<artifacts, uploaded, job, heartbeat, handler, request, run, lock>>
<1>1. rec[w] \in EngagedRecs
  BY DEF RecTypeInv
<1>2. rec[w].pc = "fail" /\ rec[w].dep \in Deployments
  BY <1>1 DEF ReconcileCommit, EngagedRecs
<1>3. Continue(w)
  BY DEF ReconcileCommit
<1>4. QED
  BY <1>2, <1>3, ContinueTo DEF ReconcileCommit, RecRecordStep, Reconciling

-------------------------------------------------------------------------------
\* Steps of the pipeline's own actors, and the passing of time.
LEMMA TimePasses ==
    ASSUME RecTypeInv,
           \/ \E d \in Deployments : GrowsStale(d) \/ ExpireHeartbeat(d)
           \/ \E r \in Runs : RefreshHeartbeat(r)
    PROVE  /\ TypeInv'
           /\ UNCHANGED <<status, job, handler, request, run, lock, rec>>
<1> USE DEF RecTypeInv, TypeInv, Rows, Stores
<1>1. ASSUME NEW d \in Deployments, GrowsStale(d)
      PROVE  TypeInv' /\ UNCHANGED <<status, job, handler, request, run, lock, rec>>
  BY <1>1 DEF GrowsStale, Actors, recVars
<1>2. ASSUME NEW d \in Deployments, ExpireHeartbeat(d)
      PROVE  TypeInv' /\ UNCHANGED <<status, job, handler, request, run, lock, rec>>
  BY <1>2 DEF ExpireHeartbeat, Actors, dbVars, recVars
<1>3. ASSUME NEW r \in Runs, RefreshHeartbeat(r)
      PROVE  TypeInv' /\ UNCHANGED <<status, job, handler, request, run, lock, rec>>
  BY <1>3 DEF RefreshHeartbeat, Actors, dbVars, recVars
<1>4. QED
  BY <1>1, <1>2, <1>3

\* The steps of the whole, one for each thing they may do.
RecOwnStep(w) ==
    \/ Query(w) \/ QueryFails(w) \/ EndOfList(w)
    \/ GetJob(w) \/ IsActive(w) \/ IsWaiting(w) \/ IsDelayed(w)
    \/ \E d \in Deployments : CheckHeartbeat(w, d) \/ CheckHeartbeatFails(w, d)
    \/ QueueCheckFails(w) \/ ReconcileRead(w) \/ ReconcileAbort(w)

Locking(w) ==
    \/ AcquireLock(w) \/ LockIsHeld(w) \/ LockFails(w)
    \/ ReleaseLock(w) \/ ReleaseFails(w) \/ WorkerCrash(w)

Time ==
    \/ \E d \in Deployments : GrowsStale(d) \/ ExpireHeartbeat(d)
    \/ \E r \in Runs : RefreshHeartbeat(r)

LEMMA RecSteps ==
    ASSUME [RecNext]_allVars
    PROVE  \/ [Next]_vars /\ UNCHANGED <<lock, rec>>
           \/ \E w \in Workers : RecOwnStep(w) \/ ReconcileCommit(w) \/ Locking(w)
           \/ LockExpires
           \/ Time
BY DEF RecNext, RecStep, RecOwnStep, Locking, Time, Next, allVars, recVars

LEMMA LockSteps ==
    ASSUME RecTypeInv, NEW w \in Workers, Locking(w)
    PROVE  /\ UNCHANGED vars
           /\ OwnRecord(w)
           /\ rec'[w].seen = Unread
           /\ \/ AcquireLock(w) /\ rec'[w].pc = "query"
              \/ lock' = lock /\ rec'[w].pc = "done"
              \/ (LockFails(w) \/ ReleaseLock(w)) /\ rec'[w].pc = "done"
<1>1. rec[w] \in EngagedRecs
  BY DEF RecTypeInv
<1>2. CASE AcquireLock(w)
  BY <1>1, <1>2, MoveTo DEF AcquireLock, EngagedRecs
<1>3. CASE LockIsHeld(w)
  BY <1>1, <1>3, MoveTo DEF LockIsHeld, EngagedRecs
<1>4. CASE LockFails(w) \/ ReleaseLock(w) \/ ReleaseFails(w)
  BY <1>1, <1>4, MoveTo DEF LockFails, ReleaseLock, ReleaseFails, EngagedRecs
<1>5. CASE WorkerCrash(w)
  <2>1. PICK y : y = Free("done", {})
    OBVIOUS
  <2>2. y \in EngagedRecs /\ y.pc = "done" /\ y.seen = Unread
    BY <2>1, FreeTypes
  <2>3. rec' = [rec EXCEPT ![w] = y]
    BY <1>5, <2>1 DEF WorkerCrash
  <2>4. QED
    BY <1>5, <2>2, <2>3, PutTypes DEF WorkerCrash
<1>6. QED
  BY <1>2, <1>3, <1>4, <1>5 DEF Locking

LEMMA InitRecTypes == RecInit => RecTypeInv
<1> SUFFICES ASSUME RecInit PROVE RecTypeInv
  OBVIOUS
<1>1. TypeInv
  BY InitTypeInv DEF RecInit
<1>2. Free("start", {}) \in EngagedRecs
  BY FreeTypes
<1>3. QED
  BY <1>1, <1>2 DEF RecInit, RecTypeInv

LEMMA NextRecTypes == RecTypeInv /\ [RecNext]_allVars => RecTypeInv'
<1> SUFFICES ASSUME RecTypeInv, [RecNext]_allVars PROVE RecTypeInv'
  OBVIOUS
<1>1. CASE [Next]_vars /\ UNCHANGED <<lock, rec>>
  BY <1>1, NextTypes DEF RecTypeInv
<1>2. ASSUME UNCHANGED vars PROVE TypeInv'
  BY <1>2 DEF RecTypeInv, vars, dbVars, TypeInv, Rows, Stores, Actors
<1>3. ASSUME NEW w \in Workers, RecOwnStep(w) PROVE RecTypeInv'
  BY <1>2, <1>3, AsksAndReads DEF RecOwnStep, RecTypeInv, RecRecordStep, OwnRecord
<1>4. ASSUME NEW w \in Workers, ReconcileCommit(w) PROVE RecTypeInv'
  <2>1. rec[w].seen \in Stored
    BY <1>4 DEF ReconcileCommit, RecTypeInv, EngagedRecs, RecStates
  <2>2. Rows'
    BY <1>4, <2>1, Committing, StatusesAre, WriteTypes DEF RecTypeInv, TypeInv
  <2>3. Stores' /\ Actors'
    BY <1>4, Committing DEF RecTypeInv, TypeInv, Stores, Actors
  <2>4. QED
    BY <1>4, <2>2, <2>3, Committing DEF RecTypeInv, TypeInv, RecRecordStep, OwnRecord
<1>5. ASSUME NEW w \in Workers, Locking(w) PROVE RecTypeInv'
  <2>1. lock' \in Workers \cup {None}
    BY <1>5 DEF Locking, AcquireLock, LockIsHeld, LockFails, ReleaseLock, ReleaseFails, WorkerCrash, RecTypeInv
  <2>2. QED
    BY <1>2, <1>5, <2>1, LockSteps DEF RecTypeInv, OwnRecord
<1>6. CASE LockExpires
  BY <1>2, <1>6 DEF LockExpires, RecTypeInv
<1>7. CASE Time
  BY <1>7, TimePasses DEF Time, RecTypeInv
<1>8. QED
  BY <1>1, <1>3, <1>4, <1>5, <1>6, <1>7, RecSteps

LEMMA RecTypeInvariance == RecSpec => []RecTypeInv
BY InitRecTypes, NextRecTypes, PTL DEF RecSpec

\* Every variable of pipeline and reconciler keeps its type, whatever the faults do.
THEOREM ReconcilerTypeCorrectness == RecSpec => []RecTypeOK
BY RecTypeInvariance, RecTypeInvImplies, PTL

-------------------------------------------------------------------------------
(***************************************************************************)
(* Mutual exclusion.  Whoever is between the lock and its release has its  *)
(* own name in the lock: nobody else takes it, it expires only under a     *)
(* worker that is dead or too slow, and its release compares the name.     *)
(***************************************************************************)
LockInv == RecTypeInv /\ \A w \in Workers : Reconciling(w) => lock = w

LEMMA LockInvariance ==
    ASSUME "slow" \notin RecFaults
    PROVE  RecSpec => []LockInv
<1>1. RecInit => LockInv
  BY InitRecTypes DEF RecInit, LockInv, Reconciling, Free
<1>2. LockInv /\ [RecNext]_allVars => LockInv'
  <2> SUFFICES ASSUME LockInv, [RecNext]_allVars PROVE LockInv'
    OBVIOUS
  <2>1. RecTypeInv /\ RecTypeInv'
    BY NextRecTypes DEF LockInv
  <2> SUFFICES ASSUME NEW v \in Workers, Reconciling(v)' PROVE lock' = v
    BY <2>1 DEF LockInv
  <2>2. v # None
    BY ReconcilerAssumption
  <2>3. CASE rec' = rec /\ lock' = lock
    BY <2>3 DEF LockInv, Reconciling
  <2>4. ASSUME NEW w \in Workers, RecRecordStep(w), lock' = lock PROVE lock' = v
    BY <2>4 DEF RecRecordStep, OwnRecord, LockInv, Reconciling
  <2>5. ASSUME NEW w \in Workers, Locking(w) PROVE lock' = v
    <3>1. OwnRecord(w)
      BY <2>1, <2>5, LockSteps
    <3>2. CASE v = w
      BY <2>1, <2>5, <3>2, LockSteps DEF Reconciling, AcquireLock
    <3>3. CASE v # w
      <4>1. lock = v
        BY <3>1, <3>3 DEF OwnRecord, LockInv, Reconciling
      <4>2. QED
        BY <2>2, <2>5, <3>3, <4>1 DEF Locking, AcquireLock, LockIsHeld, LockFails, ReleaseLock, ReleaseFails, WorkerCrash
    <3>4. QED
      BY <3>2, <3>3
  <2>6. CASE LockExpires
    <3>1. Reconciling(v) /\ lock = v
      BY <2>6 DEF LockExpires, LockInv, Reconciling
    <3>2. QED
      BY <2>6, <3>1 DEF LockExpires
  <2>7. CASE Time
    BY <2>1, <2>3, <2>7, TimePasses DEF Time
  <2>8. QED
    BY <2>1, <2>3, <2>4, <2>5, <2>6, <2>7, RecSteps, AsksAndReads, Committing DEF RecOwnStep
<1>3. QED
  BY <1>1, <1>2, PTL DEF RecSpec

\* However many workers start and whichever of them die, no two reconcile at once,
\* as long as a reconciliation ends within the lock's time to live.
THEOREM OneReconcilerAtATime ==
    ASSUME "slow" \notin RecFaults
    PROVE  RecSpec => []ReconcilersExclude
<1>1. LockInv => ReconcilersExclude
  <2> SUFFICES ASSUME LockInv PROVE ReconcilersExclude
    OBVIOUS
  <2>1. {w \in Workers : Reconciling(w)} \subseteq {lock}
    BY DEF LockInv
  <2>2. IsFiniteSet({lock}) /\ Cardinality({lock}) = 1
    BY FS_Singleton
  <2>3. Cardinality({w \in Workers : Reconciling(w)}) <= Cardinality({lock})
    BY <2>1, <2>2, FS_Subset
  <2>4. QED
    BY <2>2, <2>3 DEF ReconcilersExclude
<1>2. QED
  BY <1>1, LockInvariance, PTL

-------------------------------------------------------------------------------
(***************************************************************************)
(* Jobs that stand still.  The mark of a job grows with every step of it,  *)
(* so a job that stands where a reconciler met it has not moved meanwhile: *)
(* one of the three answers, given at different times, names its state.    *)
(***************************************************************************)
Rank(state) ==
    CASE state = "none"      -> 0
      [] state = "delayed"   -> 1
      [] state = "waiting"   -> 2
      [] state = "active"    -> 3
      [] state = "failed"    -> 4
      [] state = "completed" -> 5

LEMMA RanksAre ==
    /\ Rank("none") = 0 /\ Rank("delayed") = 1 /\ Rank("waiting") = 2
    /\ Rank("active") = 3 /\ Rank("failed") = 4 /\ Rank("completed") = 5
BY DEF Rank

Mark(j) == 6 * (j.attempts + j.stalls) + Rank(j.state)

JobInv ==
    \A d \in Deployments :
        /\ handler[d].pc \in {"new", "enqueue"} => job[d].state = "none"
        /\ job[d].state = "none" => job[d].holder = None

\* The job of d stays where it stands, or moves on.
JobMovesOn(d) == Standing(job'[d]) = Standing(job[d]) \/ Mark(job'[d]) > Mark(job[d])

LEMMA MarksAre == ASSUME NEW j \in Jobs PROVE Mark(j) \in Nat /\ Mark(Standing(j)) = Mark(j)
BY DEF Jobs, Mark, Standing, Rank

LEMMA MarkGrows ==
    ASSUME NEW j \in Jobs, NEW k \in Jobs,
           \/ k.attempts = j.attempts /\ k.stalls = j.stalls /\ Rank(k.state) > Rank(j.state)
           \/ k.attempts + k.stalls = j.attempts + j.stalls + 1
    PROVE  Mark(k) > Mark(j)
<1>1. Rank(j.state) \in 0..5 /\ Rank(k.state) \in 0..5
  BY RanksAre DEF Jobs
<1>2. /\ j.attempts \in Nat /\ j.stalls \in Nat /\ k.attempts \in Nat /\ k.stalls \in Nat
  BY DEF Jobs
<1>3. QED
  BY <1>1, <1>2 DEF Mark

LEMMA SettledJobs ==
    ASSUME NEW j \in Jobs, NEW outcome \in {"ok", "error", "unrecoverable"}, j.state # "none"
    PROVE  LET k == SettledJob(j, outcome) IN
           /\ k.state # "none"
           /\ Standing(k) = Standing(j) \/ Mark(k) > Mark(j)
<1>1. PICK k : k = SettledJob(j, outcome)
  OBVIOUS
<1>2. CASE outcome = "ok"
  <2>1. k = [j EXCEPT !.state = "completed", !.holder = None]
    BY <1>1, <1>2 DEF SettledJob
  <2>2. k \in Jobs /\ k.state = "completed" /\ k.attempts = j.attempts /\ k.stalls = j.stalls
    BY <2>1 DEF Jobs
  <2>3. j.state # "completed" => Rank(k.state) > Rank(j.state)
    BY <2>2, RanksAre DEF Jobs
  <2>4. QED
    BY <1>1, <2>2, <2>3, MarkGrows DEF Standing
<1>3. CASE outcome # "ok"
  <2>1. PICK state \in {"failed", "delayed"} :
           k = [j EXCEPT !.state = state, !.holder = None, !.attempts = j.attempts + 1]
    BY <1>1, <1>3 DEF SettledJob
  <2>2. k = [state |-> state, attempts |-> j.attempts + 1, stalls |-> j.stalls, holder |-> None]
    BY <2>1 DEF Jobs
  <2>3. k \in Jobs /\ k.state # "none" /\ k.attempts = j.attempts + 1 /\ k.stalls = j.stalls
    BY <2>2 DEF Jobs
  <2>4. k.attempts + k.stalls = j.attempts + j.stalls + 1
    BY <2>3 DEF Jobs
  <2>5. QED
    BY <1>1, <2>3, <2>4, MarkGrows
<1>4. QED
  BY <1>2, <1>3

\* What a step does to the jobs, and to the place of their handlers.
JobStep(d) ==
    /\ JobMovesOn(d)
    /\ handler'[d].pc \in {"new", "enqueue"} => job'[d].state = "none"
    /\ job'[d].state = "none" => job'[d].holder = None

LEMMA NextJobs ==
    ASSUME TypeInv, JobInv, [Next]_vars, NEW d \in Deployments
    PROVE  JobStep(d)
<1> USE DEF TypeInv, Stores, Actors
<1>1. /\ job[d] \in Jobs /\ handler[d] \in EngagedHandlers /\ run \in [Runs -> EngagedRuns]
      /\ job \in [Deployments -> Jobs]
  OBVIOUS
<1>2. CASE job' = job /\ handler' = handler
  BY <1>2 DEF JobStep, JobInv, JobMovesOn
<1>3. ASSUME NEW e \in Deployments, CreateStep(e) PROVE JobStep(d)
  <2>1. CASE e # d
    <3>1. job'[d] = job[d] /\ handler'[d] = handler[d]
      BY <1>3, <2>1 DEF CreateStep, CreateDeployment, Enqueue, EnqueueRejects, EnqueueFailedRead,
                        EnqueueFailedCommit, EnqueueFailedAbort
    <3>2. QED
      BY <3>1 DEF JobStep, JobInv, JobMovesOn
  <2>2. CASE e = d /\ (Enqueue(d) \/ EnqueueRejects(d))
    <3>1. job[d].state = "none" /\ handler'[d].pc \notin {"new", "enqueue"}
      <4>1. job[d].state = "none"
        BY <2>2 DEF Enqueue, EnqueueRejects, JobInv
      <4>2. CASE Enqueue(d)
        BY <1>1, <4>1, <4>2 DEF Enqueue, EngagedHandlers, HandlerStates
      <4>3. CASE EnqueueRejects(d)
        BY <1>1, <4>1, <4>3 DEF EnqueueRejects, EngagedHandlers, HandlerStates
      <4>4. QED
        BY <2>2, <4>2, <4>3
    <3>2. job' = job \/ job'[d] = [job[d] EXCEPT !.state = "waiting"]
      BY <1>1, <2>2 DEF Enqueue, EnqueueRejects
    <3>3. CASE job' = job
      BY <3>1, <3>3 DEF JobStep, JobInv, JobMovesOn
    <3>4. CASE job'[d] = [job[d] EXCEPT !.state = "waiting"]
      <4>1. /\ job'[d] \in Jobs /\ job'[d].state = "waiting"
            /\ job'[d].attempts = job[d].attempts /\ job'[d].stalls = job[d].stalls
        BY <1>1, <3>4 DEF Jobs
      <4>2. Mark(job'[d]) > Mark(job[d])
        BY <1>1, <3>1, <4>1, MarkGrows, RanksAre
      <4>3. QED
        BY <3>1, <4>1, <4>2 DEF JobStep, JobMovesOn
    <3>5. QED
      BY <3>2, <3>3, <3>4
  <2>3. CASE e = d /\ ~(Enqueue(d) \/ EnqueueRejects(d))
    <3>1. job' = job /\ (handler'[d].pc \in {"new", "enqueue"} => handler[d].pc = "new")
      <4>1. CASE CreateDeployment(d)
        BY <4>1 DEF CreateDeployment
      <4>2. CASE EnqueueFailedRead(d)
        BY <1>1, <4>2 DEF EnqueueFailedRead, EngagedHandlers, HandlerStates
      <4>3. CASE EnqueueFailedCommit(d) \/ EnqueueFailedAbort(d)
        BY <1>1, <4>3 DEF EnqueueFailedCommit, EnqueueFailedAbort
      <4>4. QED
        BY <1>3, <2>3, <4>1, <4>2, <4>3 DEF CreateStep
    <3>2. QED
      BY <3>1 DEF JobStep, JobInv, JobMovesOn
  <2>4. QED
    BY <2>1, <2>2, <2>3
<1>4. ASSUME NEW c \in Requests, CancelStep(c) \/ \E e \in Deployments : CancelCheck(c, e)
      PROVE  job' = job /\ handler' = handler
  BY <1>4 DEF CancelStep, CancelCheck, CancelRead, CancelCommit, CancelAbort
<1>5. ASSUME handler' = handler, NEW e \in Deployments, \A f \in Deployments \ {e} : job'[f] = job[f],
             job[e].state # "none", job'[e].state # "none",
             Standing(job'[e]) = Standing(job[e]) \/ Mark(job'[e]) > Mark(job[e])
      PROVE  JobStep(d)
  BY <1>5 DEF JobStep, JobInv, JobMovesOn
<1>6. ASSUME NEW e \in Deployments, BullMQStep(e) PROVE JobStep(d)
  <2>1. handler' = handler /\ \A f \in Deployments \ {e} : job'[f] = job[f]
    BY <1>6 DEF BullMQStep, PromoteDelayed, StalledCheck
  <2>2. job[e] \in Jobs
    OBVIOUS
  <2>3. CASE PromoteDelayed(e)
    <3>1. job[e].state = "delayed" /\ job'[e] = [job[e] EXCEPT !.state = "waiting"]
      BY <2>3 DEF PromoteDelayed
    <3>2. /\ job'[e] \in Jobs /\ job'[e].state = "waiting"
          /\ job'[e].attempts = job[e].attempts /\ job'[e].stalls = job[e].stalls
      BY <2>2, <3>1 DEF Jobs
    <3>3. Rank(job'[e].state) > Rank(job[e].state)
      BY <3>1, <3>2, RanksAre
    <3>4. Mark(job'[e]) > Mark(job[e])
      BY <2>2, <3>2, <3>3, MarkGrows
    <3>5. QED
      BY <1>5, <2>1, <3>1, <3>2, <3>4
  <2>4. CASE StalledCheck(e)
    <3>1. job[e].state = "active" /\ job'[e] = StalledJob(job[e])
      BY <2>4 DEF StalledCheck
    <3>2. \/ job'[e] = [job[e] EXCEPT !.state = "failed"]
          \/ job'[e] = [job[e] EXCEPT !.state = "waiting", !.stalls = job[e].stalls + 1]
      BY <3>1 DEF StalledJob
    <3>3. /\ job'[e] \in Jobs /\ job'[e].state # "none" /\ job'[e].attempts = job[e].attempts
          /\ \/ job'[e].state = "failed" /\ job'[e].stalls = job[e].stalls
             \/ job'[e].stalls = job[e].stalls + 1
      <4>1. PICK j \in Jobs : j = job[e]
        BY <2>2
      <4>2. \/ job'[e] = [state |-> "failed", attempts |-> j.attempts, stalls |-> j.stalls,
                          holder |-> j.holder]
            \/ job'[e] = [state |-> "waiting", attempts |-> j.attempts, stalls |-> j.stalls + 1,
                          holder |-> j.holder]
        BY <3>2, <4>1 DEF Jobs
      <4>3. QED
        BY <4>1, <4>2 DEF Jobs
    <3>4. CASE job'[e].state = "failed" /\ job'[e].stalls = job[e].stalls
      <4>1. Mark(job'[e]) > Mark(job[e])
        BY <2>2, <3>1, <3>3, <3>4, MarkGrows, RanksAre
      <4>2. QED
        BY <1>5, <2>1, <3>1, <3>3, <4>1
    <3>5. CASE job'[e].stalls = job[e].stalls + 1
      <4>1. job'[e].attempts + job'[e].stalls = job[e].attempts + job[e].stalls + 1
        BY <2>2, <3>3, <3>5 DEF Jobs
      <4>2. Mark(job'[e]) > Mark(job[e])
        BY <2>2, <3>3, <4>1, MarkGrows
      <4>3. QED
        BY <1>5, <2>1, <3>1, <3>3, <4>2
    <3>6. QED
      BY <3>3, <3>4, <3>5
  <2>5. QED
    BY <1>6, <2>3, <2>4 DEF BullMQStep
<1>7. ASSUME NEW r \in Runs, NEW e \in Deployments, Pickup(r, e) PROVE JobStep(d)
  <2>1. /\ job[e].state = "waiting" /\ job'[e] = [job[e] EXCEPT !.state = "active", !.holder = r]
        /\ handler' = handler /\ \A f \in Deployments \ {e} : job'[f] = job[f]
    BY <1>7 DEF Pickup
  <2>2. job[e] \in Jobs
    OBVIOUS
  <2>3. /\ job'[e] \in Jobs /\ job'[e].state = "active"
        /\ job'[e].attempts = job[e].attempts /\ job'[e].stalls = job[e].stalls
    BY <2>1, <2>2 DEF Jobs
  <2>4. Rank(job'[e].state) > Rank(job[e].state)
    BY <2>1, <2>3, RanksAre
  <2>5. Mark(job'[e]) > Mark(job[e])
    BY <2>2, <2>3, <2>4, MarkGrows
  <2>6. QED
    BY <1>5, <2>1, <2>3, <2>5
<1>8. ASSUME NEW r \in Runs, Settle(r) PROVE JobStep(d)
  <2>1. run[r].dep \in Deployments /\ run[r].outcome \in {"ok", "error", "unrecoverable"}
    BY <1>1, <1>8 DEF Settle, EngagedRuns, RunStates
  <2>2. PICK e \in Deployments : e = run[r].dep
    BY <2>1
  <2>3. handler' = handler /\ \A f \in Deployments \ {e} : job'[f] = job[f]
    BY <1>8, <2>2 DEF Settle
  <2>4. CASE job[e].holder = r
    <3>1. job'[e] = SettledJob(job[e], run[r].outcome)
      BY <1>8, <2>2, <2>4 DEF Settle
    <3>2. job[e].state # "none"
      BY <2>4, MarkersAssumption DEF JobInv
    <3>3. job'[e].state # "none" /\ (Standing(job'[e]) = Standing(job[e]) \/ Mark(job'[e]) > Mark(job[e]))
      BY <2>1, <3>1, <3>2, SettledJobs
    <3>4. QED
      BY <1>5, <2>3, <3>2, <3>3
  <2>5. CASE job[e].holder # r
    <3>1. job'[d] = job[d]
      BY <1>8, <2>2, <2>3, <2>5 DEF Settle
    <3>2. QED
      BY <2>3, <3>1 DEF JobStep, JobInv, JobMovesOn
  <2>6. QED
    BY <2>4, <2>5
<1>9. ASSUME NEW r \in Runs, LoseLock(r) \/ Crash(r) PROVE JobStep(d)
  <2>1. run[r].dep \in Deployments
    BY <1>1, <1>9, MarkersAssumption DEF LoseLock, Crash, EngagedRuns, RunStates
  <2>2. handler' = handler /\ (job'[d] = job[d] \/ job'[d] = [job[d] EXCEPT !.holder = None])
    <3>1. CASE LoseLock(r)
      BY <2>1, <3>1 DEF LoseLock
    <3>2. CASE Crash(r)
      <4>1. PICK x : x = IF job[run[r].dep].holder = r THEN None ELSE job[run[r].dep].holder
        OBVIOUS
      <4>2. job' = [job EXCEPT ![run[r].dep].holder = x]
        BY <2>1, <3>2, <4>1 DEF Crash
      <4>3. x # None => [job[run[r].dep] EXCEPT !.holder = x] = job[run[r].dep]
        BY <2>1, <4>1 DEF Jobs
      <4>4. QED
        BY <2>1, <3>2, <4>1, <4>2, <4>3 DEF Crash
    <3>3. QED
      BY <1>9, <3>1, <3>2
  <2>3. Standing(job'[d]) = Standing(job[d]) /\ job'[d].state = job[d].state
        /\ job'[d].holder \in {None, job[d].holder}
    BY <1>1, <2>2 DEF Standing, Jobs
  <2>4. QED
    BY <2>2, <2>3 DEF JobStep, JobInv, JobMovesOn
<1>10. ASSUME NEW r \in Runs, RunStep(r), ~Settle(r) PROVE job' = job /\ handler' = handler
  BY <1>10, RunGoesOn
<1>11. QED
  BY <1>2, <1>3, <1>4, <1>6, <1>7, <1>8, <1>9, <1>10
     DEF Next, PipelineNext, Environment, Quiescent, vars

\* What a reconciliation that asks, or has asked, knows of its candidate's job.
Facing == {"getJob", "isActive", "isWaiting", "isDelayed", "fail"}

Knows(x) ==
    LET j == job[x.dep]
        still == Standing(j) = x.met
    IN x.pc \in Facing =>
        /\ Mark(x.met) <= Mark(j)
        /\ x.pc = "isWaiting" => (still /\ j.state = "active" => x.found)
        /\ x.pc = "isDelayed" => (still /\ j.state \in {"active", "waiting"} => x.found)
        /\ x.pc = "fail" => (still => j.state \notin {"waiting", "active", "delayed"})

MetInv == RecTypeInv /\ JobInv /\ \A w \in Workers : Knows(rec[w])

LEMMA StandingsAre ==
    ASSUME NEW j, NEW k, Standing(j) = Standing(k)
    PROVE  j.state = k.state /\ Mark(j) = Mark(k)
BY DEF Standing, Mark

\* What was known stays known, whatever the job does.
LEMMA StillKnows ==
    ASSUME TypeInv, TypeInv', NEW x \in EngagedRecs, Knows(x),
           \A d \in Deployments : JobMovesOn(d)
    PROVE  Knows(x)'
<1> SUFFICES ASSUME x.pc \in Facing PROVE Knows(x)'
  BY DEF Knows
<1>1. PICK d \in Deployments : d = x.dep
  BY DEF Facing, EngagedRecs
<1>2. job[d] \in Jobs /\ job'[d] \in Jobs /\ x.met \in Standings
  BY DEF TypeInv, Stores, EngagedRecs, RecStates
<1>3. Mark(x.met) \in Nat /\ Mark(job[d]) \in Nat /\ Mark(job'[d]) \in Nat
      /\ Mark(Standing(job'[d])) = Mark(job'[d])
  <2>1. Rank(x.met.state) \in 0..5
    BY <1>2, RanksAre DEF Standings
  <2>2. QED
    BY <1>2, <2>1, MarksAre DEF Standings, Mark
<1>4. CASE Standing(job'[d]) = Standing(job[d])
  BY <1>1, <1>4, StandingsAre DEF Knows
<1>5. CASE Mark(job'[d]) > Mark(job[d])
  <2>1. Mark(x.met) < Mark(job'[d])
    BY <1>1, <1>3, <1>5 DEF Knows
  <2>2. Standing(job'[d]) # x.met
    BY <1>3, <2>1
  <2>3. QED
    BY <1>1, <1>3, <2>1, <2>2 DEF Knows
<1>6. QED
  BY <1>1, <1>4, <1>5 DEF JobMovesOn

\* Each answer that was no is one the job's state has to differ from.
LEMMA AnswersAreKnown ==
    ASSUME RecTypeInv, NEW w \in Workers, RecOwnStep(w), Knows(rec[w])
    PROVE  Knows(rec[w])'
<1>1. rec[w] \in EngagedRecs /\ rec \in [Workers -> EngagedRecs] /\ TypeInv
  BY DEF RecTypeInv
<1>2. UNCHANGED job
  BY AsksAndReads DEF RecOwnStep, vars
<1>3. SUFFICES Knows(rec'[w])
  BY <1>2 DEF Knows
<1>4. CASE Query(w) \/ QueryFails(w) \/ EndOfList(w) \/ ReconcileAbort(w)
  <2>1. rec'[w].pc \in {"next", "release"}
    BY <1>1, <1>4 DEF Query, QueryFails, EndOfList, ReconcileAbort, Move, Continue, Free,
                      EngagedRecs, RecStates
  <2>2. QED
    BY <2>1 DEF Knows, Facing
<1>5. ASSUME NEW d \in Deployments, CheckHeartbeat(w, d) \/ CheckHeartbeatFails(w, d)
      PROVE  Knows(rec'[w])
  <2>1. PICK left \in SUBSET Deployments : left = rec[w].candidates \ {d}
    BY <1>1 DEF EngagedRecs, RecStates
  <2>2. rec'[w] = Free("next", left) \/ rec'[w] = Asking(d, left)
    BY <1>1, <1>5, <2>1 DEF CheckHeartbeat, CheckHeartbeatFails
  <2>3. CASE rec'[w] = Free("next", left)
    BY <2>3, FreeTypes DEF Knows, Facing
  <2>4. CASE rec'[w] = Asking(d, left)
    <3>1. rec'[w].pc = "getJob" /\ rec'[w].dep = d /\ rec'[w].met = Standing(job[d])
      BY <1>1, <2>4, AskingTypes
    <3>2. job[d] \in Jobs
      BY <1>1 DEF TypeInv, Stores
    <3>3. Mark(rec'[w].met) <= Mark(job[rec'[w].dep])
      BY <3>1, <3>2, MarksAre
    <3>4. QED
      BY <3>1, <3>3 DEF Knows
  <2>5. QED
    BY <2>2, <2>3, <2>4
<1>6. CASE GetJob(w)
  <2>1. PICK point \in {"fail", "isActive"} :
          /\ Move(w, point)
          /\ point = "fail" => job[rec[w].dep].state \in {"none", "completed"}
    BY <1>6 DEF GetJob
  <2>2. rec'[w] = [rec[w] EXCEPT !.pc = point]
    BY <1>1, <2>1 DEF Move
  <2>3. rec'[w].pc = point /\ rec'[w].dep = rec[w].dep /\ rec'[w].met = rec[w].met
    BY <1>1, <2>2 DEF EngagedRecs, RecStates
  <2>4. rec[w].pc \in Facing
    BY <1>6 DEF GetJob, Facing
  <2>5. QED
    BY <2>1, <2>3, <2>4 DEF Knows
<1>7. ASSUME IsActive(w) \/ IsWaiting(w) PROVE Knows(rec'[w])
  <2>1. CASE IsActive(w)
    <3>1. rec[w].pc = "isActive"
          /\ rec'[w] = [rec[w] EXCEPT !.pc = "isWaiting",
                                      !.found = rec[w].found \/ job[rec[w].dep].state = "active"]
      BY <1>1, <2>1 DEF IsActive, AskJob
    <3>2. /\ rec'[w].pc = "isWaiting" /\ rec'[w].dep = rec[w].dep /\ rec'[w].met = rec[w].met
          /\ job[rec[w].dep].state = "active" => rec'[w].found
      BY <1>1, <3>1 DEF EngagedRecs, RecStates
    <3>3. QED
      BY <3>1, <3>2 DEF Knows, Facing
  <2>2. CASE IsWaiting(w)
    <3>1. rec[w].pc = "isWaiting"
          /\ rec'[w] = [rec[w] EXCEPT !.pc = "isDelayed",
                                      !.found = rec[w].found \/ job[rec[w].dep].state = "waiting"]
      BY <1>1, <2>2 DEF IsWaiting, AskJob
    <3>2. /\ rec'[w].pc = "isDelayed" /\ rec'[w].dep = rec[w].dep /\ rec'[w].met = rec[w].met
          /\ rec[w].found \/ job[rec[w].dep].state = "waiting" => rec'[w].found
      BY <1>1, <3>1 DEF EngagedRecs, RecStates
    <3>3. QED
      BY <3>1, <3>2 DEF Knows, Facing
  <2>3. QED
    BY <1>7, <2>1, <2>2
<1>8. CASE IsDelayed(w)
  <2>1. CASE Continue(w)
    BY <1>1, <2>1, ContinueTo DEF Knows, Facing
  <2>2. CASE Move(w, "fail") /\ ~rec[w].found /\ job[rec[w].dep].state # "delayed"
    <3>1. rec'[w].pc = "fail" /\ rec'[w].dep = rec[w].dep /\ rec'[w].met = rec[w].met
      BY <1>1, <2>2 DEF Move, EngagedRecs, RecStates
    <3>2. rec[w].pc = "isDelayed"
      BY <1>8 DEF IsDelayed
    <3>3. QED
      BY <2>2, <3>1, <3>2 DEF Knows, Facing
  <2>3. QED
    BY <1>8, <2>1, <2>2 DEF IsDelayed
<1>9. CASE QueueCheckFails(w)
  <2>1. rec'[w].pc = "fail" /\ rec'[w].dep = rec[w].dep /\ rec'[w].met = NoJob
    BY <1>1, <1>9 DEF QueueCheckFails, EngagedRecs, RecStates
  <2>2. rec[w].dep \in Deployments
    BY <1>1, <1>9 DEF QueueCheckFails, EngagedRecs
  <2>3. job[rec[w].dep] \in Jobs
    BY <1>1, <2>2 DEF TypeInv, Stores
  <2>4. Mark(NoJob) = 0 /\ Mark(job[rec[w].dep]) \in Nat
    BY <2>3, MarksAre, RanksAre DEF NoJob, Mark
  <2>5. Standing(job[rec[w].dep]) = NoJob => job[rec[w].dep].state = "none"
    BY DEF Standing, NoJob
  <2>6. QED
    BY <2>1, <2>4, <2>5 DEF Knows
<1>10. CASE ReconcileRead(w)
  <2>1. CASE Continue(w)
    BY <1>1, <2>1, ContinueTo DEF Knows, Facing
  <2>2. CASE rec' = [rec EXCEPT ![w].seen = status[rec[w].dep]]
    <3>1. /\ rec'[w].pc = rec[w].pc /\ rec'[w].dep = rec[w].dep /\ rec'[w].met = rec[w].met
          /\ rec[w].pc = "fail"
      BY <1>1, <1>10, <2>2 DEF ReconcileRead, EngagedRecs, RecStates
    <3>2. QED
      BY <3>1 DEF Knows
  <2>3. QED
    BY <1>10, <2>1, <2>2 DEF ReconcileRead
<1>11. QED
  BY <1>4, <1>5, <1>6, <1>7, <1>8, <1>9, <1>10 DEF RecOwnStep

LEMMA MetInvariance == RecSpec => []MetInv
<1>1. RecInit => MetInv
  BY InitRecTypes DEF RecInit, Init, Free, MetInv, JobInv, Knows, Facing
<1>2. MetInv /\ [RecNext]_allVars => MetInv'
  <2> SUFFICES ASSUME MetInv, [RecNext]_allVars PROVE MetInv'
    OBVIOUS
  <2>1. /\ RecTypeInv /\ RecTypeInv' /\ TypeInv /\ TypeInv'
        /\ JobInv /\ \A w \in Workers : Knows(rec[w]) /\ rec[w] \in EngagedRecs
    BY NextRecTypes DEF MetInv, RecTypeInv
  <2>2. CASE [Next]_vars /\ UNCHANGED <<lock, rec>>
    <3>1. \A d \in Deployments : JobStep(d)
      BY <2>1, <2>2, NextJobs
    <3>2. JobInv' /\ \A d \in Deployments : JobMovesOn(d)
      BY <3>1 DEF JobStep, JobInv
    <3>3. ASSUME NEW w \in Workers PROVE Knows(rec[w])'
      <4>1. PICK x \in EngagedRecs : x = rec[w]
        BY <2>1
      <4>2. Knows(x)'
        BY <2>1, <3>2, <4>1, StillKnows
      <4>3. QED
        BY <2>2, <4>1, <4>2 DEF Knows
    <3>4. QED
      BY <2>1, <3>2, <3>3 DEF MetInv
  <2>3. ASSUME UNCHANGED <<job, handler>>,
               \A w \in Workers : Knows(rec[w])' \/ rec'[w] = rec[w]
        PROVE  MetInv'
    BY <2>1, <2>3 DEF MetInv, JobInv, Knows
  <2>4. ASSUME NEW w \in Workers, RecOwnStep(w) PROVE MetInv'
    <3>1. RecRecordStep(w) /\ UNCHANGED vars
      BY <2>1, <2>4, AsksAndReads DEF RecOwnStep
    <3>2. Knows(rec[w])'
      BY <2>1, <2>4, AnswersAreKnown
    <3>3. QED
      BY <2>3, <3>1, <3>2 DEF RecRecordStep, OwnRecord, vars
  <2>5. ASSUME NEW w \in Workers, ReconcileCommit(w) PROVE MetInv'
    <3>1. OwnRecord(w) /\ rec'[w].pc = "next" /\ UNCHANGED <<job, handler>>
      BY <2>1, <2>5, ContinueTo DEF ReconcileCommit
    <3>2. QED
      BY <2>3, <3>1 DEF OwnRecord, Knows, Facing
  <2>6. ASSUME NEW w \in Workers, Locking(w) PROVE MetInv'
    <3>1. OwnRecord(w) /\ rec'[w].pc \in {"query", "done"} /\ UNCHANGED vars
      BY <2>1, <2>6, LockSteps
    <3>2. QED
      BY <2>3, <3>1 DEF OwnRecord, Knows, Facing, vars
  <2>7. CASE LockExpires
    BY <2>3, <2>7 DEF LockExpires, vars
  <2>8. CASE Time
    BY <2>1, <2>3, <2>8, TimePasses DEF Time
  <2>9. QED
    BY <2>1, <2>2, <2>4, <2>5, <2>6, <2>7, <2>8, RecSteps
<1>3. QED
  BY <1>1, <1>2, PTL DEF RecSpec

\* No reconciler whose questions were answered comes to fail a deployment whose job
\* stands on its way to a run, or in one, as it stood at the look at the heartbeat:
\* whatever stalls, crashes and second runs did to that heartbeat.
THEOREM StandingJobsAreSpared == RecSpec => []StandingJobIsSpared
<1>1. MetInv => StandingJobIsSpared
  BY DEF MetInv, Knows, Facing, StandingJobIsSpared
<1>2. QED
  BY <1>1, MetInvariance, PTL

-------------------------------------------------------------------------------
(***************************************************************************)
(* Finished deployments.  The list of candidates may be old; what protects *)
(* a finished deployment is the read in the transaction of its transition. *)
(***************************************************************************)
\* The row is not in flight and no reconciliation has a transaction on it open.
RecClosed(d) == Closed(d) /\ \A w \in Workers : rec[w].dep = d => rec[w].seen = Unread

RecQuietInv ==
    /\ RecTypeInv
    /\ QuietInv
    /\ \A d \in Deployments : handler[d].pc = "new" => RecClosed(d)

\* Steps of a reconciliation leave a closed row alone.
LEMMA RecKeepsClosed ==
    ASSUME RecTypeInv, NEW d \in Deployments, RecClosed(d), NEW w \in Workers,
           RecOwnStep(w) \/ ReconcileCommit(w) \/ Locking(w)
    PROVE  /\ RecClosed(d)' /\ status'[d] = status[d]
           /\ UNCHANGED <<handler, request, run>>
<1>1. /\ OwnRecord(w)
      /\ rec'[w].dep = d => rec'[w].seen = Unread
      /\ status'[d] = status[d]
      /\ UNCHANGED <<handler, request, run>>
  <2>1. CASE RecOwnStep(w)
    <3>1. RecRecordStep(w) /\ UNCHANGED <<vars, lock>>
      BY <2>1, AsksAndReads DEF RecOwnStep
    <3>2. QED
      BY <3>1 DEF RecRecordStep, RecClosed, Closed, vars, dbVars
  <2>2. CASE ReconcileCommit(w)
    <3>1. rec[w].dep # d /\ rec[w].dep \in Deployments
      BY <2>2, Committing DEF ReconcileCommit, RecClosed
    <3>2. status'[d] = status[d]
      BY <2>2, <3>1, Committing DEF WriteTransition, RecTypeInv, TypeInv, Rows
    <3>3. QED
      BY <2>2, <3>2, Committing DEF RecRecordStep
  <2>3. CASE Locking(w)
    BY <2>3, LockSteps DEF vars, dbVars
  <2>4. QED
    BY <2>1, <2>2, <2>3
<1>2. Closed(d)'
  BY <1>1 DEF RecClosed, Closed, OpenTransaction
<1>3. QED
  BY <1>1, <1>2 DEF RecClosed, OwnRecord

LEMMA RecClosedStaysClosed ==
    ASSUME RecTypeInv, [RecNext]_allVars, NEW d \in Deployments, RecClosed(d), ~CreateDeployment(d)
    PROVE  RecClosed(d)' /\ status'[d] = status[d]
<1>1. CASE [Next]_vars /\ UNCHANGED <<lock, rec>>
  BY <1>1, ClosedStaysClosed DEF RecClosed, RecTypeInv
<1>2. CASE LockExpires
  BY <1>2 DEF LockExpires, RecClosed, Closed, OpenTransaction, vars, dbVars
<1>3. CASE Time
  <2>1. UNCHANGED <<status, handler, request, run, rec>>
    BY <1>3, TimePasses DEF Time
  <2>2. QED
    BY <2>1 DEF RecClosed, Closed, OpenTransaction
<1>4. QED
  BY <1>1, <1>2, <1>3, RecKeepsClosed, RecSteps

\* A step of the whole is one of the pipeline or leaves handlers and runs alone.
LEMMA HandlersAndRuns ==
    ASSUME RecTypeInv, [RecNext]_allVars
    PROVE  [Next]_vars \/ UNCHANGED <<handler, run>>
<1>1. ASSUME NEW w \in Workers, RecOwnStep(w) \/ ReconcileCommit(w) \/ Locking(w)
      PROVE  UNCHANGED <<handler, run>>
  <2>1. CASE RecOwnStep(w)
    BY <2>1, AsksAndReads DEF RecOwnStep, vars
  <2>2. CASE ReconcileCommit(w)
    BY <2>2, Committing
  <2>3. CASE Locking(w)
    BY <2>3, LockSteps DEF vars
  <2>4. QED
    BY <1>1, <2>1, <2>2, <2>3
<1>2. CASE Time
  BY <1>2, TimePasses DEF Time
<1>3. CASE LockExpires
  BY <1>3 DEF LockExpires, vars
<1>4. QED
  BY <1>1, <1>2, <1>3, RecSteps

LEMMA RecQuietInvariance == RecSpec => []RecQuietInv
<1>1. RecInit => RecQuietInv
  <2> SUFFICES ASSUME RecInit PROVE RecQuietInv
    OBVIOUS
  <2>1. RecTypeInv /\ Init
    BY InitRecTypes DEF RecInit
  <2>2. \A d \in Deployments : status[d] = "ABSENT" /\ RecClosed(d)
    BY DEF RecInit, Init, IdleRun, Free, Closed, RecClosed, OpenTransaction, InFlight
  <2>3. QED
    BY <2>1, <2>2 DEF RecQuietInv, QuietInv, RecClosed, RecTypeInv
<1>2. RecQuietInv /\ [RecNext]_allVars => RecQuietInv'
  <2> SUFFICES ASSUME RecQuietInv, [RecNext]_allVars PROVE RecQuietInv'
    OBVIOUS
  <2>1. RecTypeInv /\ RecTypeInv' /\ TypeInv /\ TypeInv'
    BY NextRecTypes DEF RecQuietInv, RecTypeInv
  <2>2. ASSUME NEW d \in Deployments, handler'[d].pc = "new"
        PROVE  status'[d] = "ABSENT" /\ RecClosed(d)'
    <3>1. handler[d].pc = "new" /\ ~CreateDeployment(d)
      <4>1. CASE [Next]_vars
        BY <2>1, <2>2, <4>1, NewWasNew
      <4>2. CASE UNCHANGED handler
        BY <2>1, <2>2, <4>2
           DEF CreateDeployment, TypeInv, Actors, EngagedHandlers, HandlerStates
      <4>3. QED
        BY <2>1, <4>1, <4>2, HandlersAndRuns
    <3>2. status[d] = "ABSENT" /\ RecClosed(d)
      BY <3>1 DEF RecQuietInv, QuietInv
    <3>3. QED
      BY <2>1, <3>1, <3>2, RecClosedStaysClosed
  <2>3. QED
    BY <2>1, <2>2 DEF RecQuietInv, QuietInv, RecClosed
<1>3. QED
  BY <1>1, <1>2, PTL DEF RecSpec

\* A reconciler whose list is older than the end of a deployment does not touch it,
\* whatever of its questions fail, unless the database fails a run's first check.
THEOREM ReconcilersLeaveFinishedAlone ==
    ASSUME "db" \notin Faults
    PROVE  RecSpec => ReconciledStaysFinished
<1>1. ASSUME RecQuietInv, [RecNext]_allVars, NEW d \in Deployments, RecFinished(d)
      PROVE  RecFinished(d)' /\ status'[d] = status[d]
  <2>1. RecClosed(d) /\ isTerminalStatus(status[d]) /\ Finished(d)
    BY <1>1, StatusesAre DEF RecFinished, Finished, RecClosed, Closed, isTerminalStatus, Terminal, InFlight
  <2>2. ~CreateDeployment(d)
    BY <1>1, <2>1 DEF RecQuietInv, QuietInv, CreateDeployment, isTerminalStatus, Terminal
  <2>3. RecClosed(d)' /\ status'[d] = status[d]
    BY <1>1, <2>1, <2>2, RecClosedStaysClosed DEF RecQuietInv
  <2>4. \A r \in Runs : run'[r].dep = d => run'[r].pc \in {"replay", "rejected", "settle"}
    <3>1. CASE [Next]_vars
      BY <1>1, <2>1, <3>1, RunsOfTheFinished DEF RecQuietInv
    <3>2. CASE UNCHANGED run
      BY <2>1, <3>2 DEF Finished
    <3>3. QED
      BY <1>1, <3>1, <3>2, HandlersAndRuns DEF RecQuietInv
  <2>5. QED
    BY <2>1, <2>3, <2>4 DEF RecFinished, Finished, RecClosed, Closed, isTerminalStatus
<1>2. RecQuietInv /\ [RecNext]_allVars =>
          [\A d \in Deployments : RecFinished(d) => RecFinished(d)' /\ status'[d] = status[d]]_allVars
  BY <1>1
<1>3. QED
  BY <1>2, RecQuietInvariance, PTL DEF RecSpec, ReconciledStaysFinished

===============================================================================
