----------------------- MODULE DeploymentPipelineProofs -----------------------
(***************************************************************************)
(* Theorems about the deployment pipeline, for every set of deployments,   *)
(* runs and requests and every combination of faults.                      *)
(***************************************************************************)
EXTENDS DeploymentPipeline, TLAPS

-------------------------------------------------------------------------------
(***************************************************************************)
(* The state machine.                                                      *)
(***************************************************************************)
\* The transition table is a table of statuses.
LEMMA StatusesAre ==
    /\ Statuses = {"QUEUED", "INITIALIZING", "CLONING", "BUILDING", "UPLOADING", "DEPLOYING",
                   "READY", "FAILED", "CANCELLED"}
    /\ Stored = Statuses \cup {"ABSENT"}
    /\ Phases \subseteq Statuses
    /\ "READY" \in Statuses /\ "FAILED" \in Statuses /\ "CANCELLED" \in Statuses
BY DEF Statuses, ALLOWED_STATE_TRANSITIONS, Stored, Phases

\* transitionDeploymentState writes only when the status it read is in flight,
\* is one the caller expected and may precede the new one.
LEMMA CommitIsLegal ==
    ASSUME NEW cur, NEW to, NEW expected \in SUBSET Statuses,
           Decision(cur, to, expected) = "commit"
    PROVE  cur \in InFlight /\ cur \in expected /\ isValidTransition(cur, to)
<1>1. cur \in expected /\ ~isTerminalStatus(cur) /\ isValidTransition(cur, to)
  BY DEF Decision
<1>2. QED
  BY <1>1, StatusesAre DEF isTerminalStatus, Terminal, InFlight

\* The program points the phases lead to.
LEMMA AfterPhaseIs ==
    ASSUME NEW phase \in Phases
    PROVE  AfterPhase(phase) \in {"loadEnv", "clone", "build", "upload", "READY"}
BY DEF Phases, AfterPhase

-------------------------------------------------------------------------------
(***************************************************************************)
(* Type correctness.  TypeOK is not inductive: that a run writes the row   *)
(* of a deployment, and not of None, depends on where the run is.  TypeInv *)
(* adds that whoever is at work is at work on a deployment, and that a     *)
(* transaction is open only where the code runs one.                       *)
(***************************************************************************)
Rows ==
    /\ status \in [Deployments -> Stored]
    /\ history \in [Deployments -> SUBSET (Stored \X Statuses)]
    /\ stale \in [Deployments -> BOOLEAN]
    /\ current \in Deployments \cup {None}

Stores ==
    /\ artifacts \in [Deployments -> SUBSET {"files", "manifest"}]
    /\ uploaded \subseteq Deployments
    /\ job \in [Deployments -> Jobs]
    /\ heartbeat \in [Deployments -> BOOLEAN]

EngagedHandlers == {h \in HandlerStates : h.seen # Unread => h.pc = "enqueueFailed"}

EngagedRequests ==
    {q \in RequestStates : /\ q.seen # Unread => q.pc = "transition"
                           /\ q.pc = "transition" => q.dep \in Deployments}

Writing == Phases \cup {"READY", "FAILED", "rejected"}

EngagedRuns ==
    {x \in RunStates : /\ x.seen # Unread => x.pc \in Writing
                       /\ x.pc # "idle" => x.dep \in Deployments}

Actors ==
    /\ handler \in [Deployments -> EngagedHandlers]
    /\ request \in [Requests -> EngagedRequests]
    /\ run \in [Runs -> EngagedRuns]

TypeInv == Rows /\ Stores /\ Actors

LEMMA TypeInvImpliesTypeOK == TypeInv => TypeOK
BY DEF TypeInv, TypeOK, Rows, Stores, Actors, EngagedHandlers, EngagedRequests, EngagedRuns

LEMMA InitTypeInv == Init => TypeInv
<1> SUFFICES ASSUME Init PROVE TypeInv
  OBVIOUS
<1> USE DEF Init
<1>1. Rows
  BY StatusesAre DEF Rows
<1>2. Stores
  BY DEF Stores, Jobs
<1>3. Actors
  BY DEF Actors, EngagedHandlers, EngagedRequests, EngagedRuns, HandlerStates, RequestStates,
         RunStates, IdleRun, RunPoints
<1>4. QED
  BY <1>1, <1>2, <1>3 DEF TypeInv

\* The three ways a run moves keep the type of the runs.
LEMMA GotoTypes ==
    ASSUME run \in [Runs -> EngagedRuns], NEW r \in Runs, run[r].pc # "idle",
           NEW point \in RunPoints, Goto(r, point)
    PROVE  run' \in [Runs -> EngagedRuns]
BY DEF Goto, EngagedRuns, RunStates

LEMMA GotoWithTypes ==
    ASSUME run \in [Runs -> EngagedRuns], NEW r \in Runs, run[r].pc # "idle",
           NEW point \in RunPoints, NEW result \in {"ok", "error", "unrecoverable"},
           GotoWith(r, point, result)
    PROVE  run' \in [Runs -> EngagedRuns]
BY DEF GotoWith, EngagedRuns, RunStates

LEMMA HoldTypes ==
    ASSUME Rows, run \in [Runs -> EngagedRuns], NEW r \in Runs,
           run[r].pc \in Writing, Hold(r)
    PROVE  run' \in [Runs -> EngagedRuns]
<1>1. run[r].dep \in Deployments /\ status[run[r].dep] \in Stored
  BY DEF EngagedRuns, Writing, Phases, Rows
<1>2. QED
  BY <1>1 DEF Hold, EngagedRuns, RunStates

LEMMA WriteTypes ==
    ASSUME Rows, NEW d \in Deployments, NEW from \in Stored, NEW to \in Statuses,
           WriteTransition(d, from, to)
    PROVE  Rows'
BY StatusesAre DEF Rows, WriteTransition

LEMMA PointsAre ==
    /\ RunPoints = {"INITIALIZING", "CLONING", "BUILDING", "UPLOADING", "DEPLOYING", "idle",
                    "replay", "heartbeat", "loadEnv", "clone", "build", "upload", "manifest",
                    "READY", "bind", "FAILED", "finally", "rejected", "settle"}
    /\ \A phase \in Phases : AfterPhase(phase) \in RunPoints
    /\ Phases = {"INITIALIZING", "CLONING", "BUILDING", "UPLOADING", "DEPLOYING"}
BY AfterPhaseIs DEF RunPoints, Phases

\* The create handler.
LEMMA CreateStepTypes ==
    ASSUME TypeInv, NEW d \in Deployments, CreateStep(d)
    PROVE  TypeInv'
<1> USE DEF TypeInv
<1>1. CASE CreateDeployment(d)
  <2>1. "ABSENT" \in Stored /\ "QUEUED" \in Statuses
    BY <1>1, StatusesAre DEF CreateDeployment, Actors, EngagedHandlers, HandlerStates
  <2>2. Rows'
    BY <1>1, <2>1, WriteTypes DEF CreateDeployment
  <2>3. Actors' /\ Stores'
    BY <1>1, StatusesAre DEF CreateDeployment, Actors, EngagedHandlers, HandlerStates, Stores
  <2>4. QED
    BY <2>2, <2>3
<1>2. CASE Enqueue(d)
  <2>1. Rows'
    BY <1>2 DEF Enqueue, Rows, dbVars
  <2>2. Actors'
    BY <1>2 DEF Enqueue, Actors, Rows, EngagedHandlers, HandlerStates
  <2>3. Stores'
    BY <1>2 DEF Enqueue, Stores, Jobs
  <2>4. QED
    BY <2>1, <2>2, <2>3
<1>3. CASE EnqueueRejects(d)
  <2>1. Rows'
    BY <1>3 DEF EnqueueRejects, Rows, dbVars
  <2>2. Actors'
    BY <1>3 DEF EnqueueRejects, Actors, Rows, EngagedHandlers, HandlerStates
  <2>3. Stores'
    BY <1>3 DEF EnqueueRejects, Stores, Jobs
  <2>4. QED
    BY <2>1, <2>2, <2>3
<1>4. CASE EnqueueFailedRead(d)
  <2>1. Rows'
    BY <1>4 DEF EnqueueFailedRead, Rows, dbVars
  <2>2. Actors'
    <3>1. status[d] \in Stored /\ handler[d] \in EngagedHandlers
      BY DEF Rows, Actors
    <3>2. handler'[d] \in EngagedHandlers
      BY <1>4, <3>1 DEF EnqueueFailedRead, Actors, EngagedHandlers, HandlerStates
    <3>3. handler' = [handler EXCEPT ![d] = handler'[d]]
      BY <1>4 DEF EnqueueFailedRead, Actors
    <3>4. QED
      BY <1>4, <3>2, <3>3 DEF EnqueueFailedRead, Actors
  <2>3. Stores'
    BY <1>4 DEF EnqueueFailedRead, Stores, Jobs
  <2>4. QED
    BY <2>1, <2>2, <2>3
<1>5. CASE EnqueueFailedCommit(d)
  <2>1. handler[d].seen \in Stored /\ "FAILED" \in Statuses
    BY <1>5, StatusesAre DEF EnqueueFailedCommit, Actors, EngagedHandlers, HandlerStates
  <2>2. Rows'
    BY <1>5, <2>1, WriteTypes DEF EnqueueFailedCommit
  <2>3. Actors' /\ Stores'
    BY <1>5, StatusesAre DEF EnqueueFailedCommit, Actors, EngagedHandlers, HandlerStates, Stores
  <2>4. QED
    BY <2>2, <2>3
<1>6. CASE EnqueueFailedAbort(d)
  <2>1. Rows'
    BY <1>6 DEF EnqueueFailedAbort, Rows, dbVars
  <2>2. Actors'
    BY <1>6 DEF EnqueueFailedAbort, Actors, Rows, EngagedHandlers, HandlerStates
  <2>3. Stores'
    BY <1>6 DEF EnqueueFailedAbort, Stores, Jobs
  <2>4. QED
    BY <2>1, <2>2, <2>3
<1>7. QED
  BY <1>1, <1>2, <1>3, <1>4, <1>5, <1>6 DEF CreateStep

\* Cancel requests.
LEMMA CancelStepTypes ==
    ASSUME TypeInv, NEW c \in Requests, CancelStep(c) \/ \E d \in Deployments : CancelCheck(c, d)
    PROVE  TypeInv'
<1> USE DEF TypeInv
<1>1. ASSUME NEW d \in Deployments, CancelCheck(c, d) PROVE TypeInv'
  <2>1. request'[c] \in EngagedRequests
    <3>1. request[c] \in RequestStates /\ ~(request[c].seen # Unread)
      BY <1>1 DEF CancelCheck, Actors, EngagedRequests
    <3>2. CASE isTerminalStatus(status[d])
      <4>1. request'[c] = [[[request[c] EXCEPT !.pc = "replied"] EXCEPT !.dep = d]
                              EXCEPT !.reply = "400"]
        BY <1>1, <3>2 DEF CancelCheck, Actors
      <4>2. QED
        BY <1>1, <3>1, <4>1 DEF EngagedRequests, RequestStates
    <3>3. CASE ~isTerminalStatus(status[d])
      <4>1. request'[c] = [[request[c] EXCEPT !.pc = "transition"] EXCEPT !.dep = d]
        BY <1>1, <3>3 DEF CancelCheck, Actors
      <4>2. QED
        BY <1>1, <3>1, <4>1 DEF EngagedRequests, RequestStates
    <3>4. QED
      BY <3>2, <3>3
  <2>2. request' = [request EXCEPT ![c] = request'[c]]
    BY <1>1 DEF CancelCheck, Actors
  <2>3. Actors'
    BY <1>1, <2>1, <2>2 DEF CancelCheck, Actors
  <2>4. Rows' /\ Stores'
    BY <1>1 DEF CancelCheck, dbVars, Rows, Stores
  <2>5. QED
    BY <2>3, <2>4
<1>2. CASE CancelRead(c)
  <2>1. request[c].dep \in Deployments /\ status[request[c].dep] \in Stored
    BY <1>2 DEF CancelRead, Actors, EngagedRequests, Rows
  <2>2. Actors'
    <3>1. request'[c] \in EngagedRequests
      BY <1>2, <2>1 DEF CancelRead, Actors, EngagedRequests, RequestStates
    <3>2. request' = [request EXCEPT ![c] = request'[c]]
      BY <1>2 DEF CancelRead, Actors
    <3>3. QED
      BY <1>2, <3>1, <3>2 DEF CancelRead, Actors
  <2>3. Rows' /\ Stores'
    BY <1>2 DEF CancelRead, dbVars, Rows, Stores
  <2>4. QED
    BY <2>2, <2>3
<1>3. CASE CancelCommit(c)
  <2>1. request[c].dep \in Deployments /\ request[c].seen \in Stored
    BY <1>3 DEF CancelCommit, Actors, EngagedRequests, RequestStates
  <2>2. Rows'
    BY <1>3, <2>1, StatusesAre, WriteTypes DEF CancelCommit
  <2>3. Actors' /\ Stores'
    BY <1>3, Zenon DEF CancelCommit, Actors, EngagedRequests, RequestStates, Stores
  <2>4. QED
    BY <2>2, <2>3
<1>4. CASE CancelAbort(c)
  <2>1. Actors'
    BY <1>4 DEF CancelAbort, Actors, EngagedRequests, RequestStates
  <2>2. Rows' /\ Stores'
    BY <1>4 DEF CancelAbort, dbVars, Rows, Stores
  <2>3. QED
    BY <2>1, <2>2
<1>5. QED
  BY <1>1, <1>2, <1>3, <1>4 DEF CancelStep

\* A step of a run that leaves everything but its own record alone.
LEMMA MoveTypes ==
    ASSUME TypeInv, NEW r \in Runs,
           \/ ReplayCheck(r) \/ ReplayCheckFails(r) \/ PhaseRead(r) \/ PhaseAbort(r)
           \/ LoadEnv(r) \/ LoadEnvFails(r) \/ Clone(r) \/ Build(r) \/ UploadRejected(r)
           \/ ReadyRead(r) \/ ReadyAbort(r) \/ BindFails(r) \/ FailRead(r) \/ FailAbort(r)
           \/ RejectedRead(r) \/ RejectedAbort(r)
    PROVE  TypeInv'
<1> USE PointsAre
<1>1. run \in [Runs -> EngagedRuns]
  BY DEF TypeInv, Actors
<1> SUFFICES run' \in [Runs -> EngagedRuns] /\ RunOnly
  BY DEF TypeInv, Rows, Stores, Actors, RunOnly, dbVars
<1>2. CASE ReplayCheck(r)
  BY <1>1, <1>2, GotoTypes, GotoWithTypes DEF ReplayCheck
<1>3. CASE ReplayCheckFails(r)
  BY <1>1, <1>3, GotoTypes, GotoWithTypes DEF ReplayCheckFails
<1>4. CASE PhaseRead(r)
  <2>1. run[r].pc \in Writing /\ run[r].pc # "idle" /\ Rows
    BY <1>4 DEF PhaseRead, Writing, TypeInv
  <2>2. Hold(r) \/ (\E p \in RunPoints : Goto(r, p))
          \/ (\E p \in RunPoints, o \in {"ok", "error"} : GotoWith(r, p, o))
    BY <1>4 DEF PhaseRead
  <2>3. QED
    BY <1>1, <1>4, <2>1, <2>2, HoldTypes, GotoTypes, GotoWithTypes DEF PhaseRead
<1>5. CASE PhaseAbort(r)
  BY <1>1, <1>5, GotoTypes, GotoWithTypes DEF PhaseAbort
<1>6. CASE LoadEnv(r)
  <2>1. run'[r] \in EngagedRuns
    <3>1. (run[r].dep \in ProductionBranch) \in BOOLEAN
      OBVIOUS
    <3>2. QED
      BY <1>1, <1>6, <3>1, Zenon DEF LoadEnv, EngagedRuns, RunStates, Writing
  <2>2. QED
    BY <1>1, <1>6, <2>1 DEF LoadEnv
<1>7. CASE LoadEnvFails(r)
  BY <1>1, <1>7, GotoTypes, GotoWithTypes DEF LoadEnvFails
<1>8. CASE Clone(r)
  BY <1>1, <1>8, GotoTypes, GotoWithTypes DEF Clone
<1>9. CASE Build(r)
  BY <1>1, <1>9, GotoTypes, GotoWithTypes DEF Build
<1>10. CASE UploadRejected(r)
  BY <1>1, <1>10, GotoTypes, GotoWithTypes DEF UploadRejected, UploadError
<1>11. CASE ReadyRead(r)
  <2>1. run[r].pc \in Writing /\ run[r].pc # "idle" /\ Rows
    BY <1>11 DEF ReadyRead, Writing, TypeInv
  <2>2. Hold(r) \/ (\E p \in RunPoints : Goto(r, p))
          \/ (\E p \in RunPoints, o \in {"ok", "error"} : GotoWith(r, p, o))
    BY <1>11 DEF ReadyRead
  <2>3. QED
    BY <1>1, <1>11, <2>1, <2>2, HoldTypes, GotoTypes, GotoWithTypes DEF ReadyRead
<1>12. CASE ReadyAbort(r) \/ BindFails(r)
  BY <1>1, <1>12, GotoTypes, GotoWithTypes DEF ReadyAbort, BindFails
<1>13. CASE FailRead(r)
  <2>1. run[r].pc \in Writing /\ run[r].pc # "idle" /\ Rows
    BY <1>13 DEF FailRead, Writing, TypeInv
  <2>2. Hold(r) \/ (\E p \in RunPoints : Goto(r, p))
          \/ (\E p \in RunPoints, o \in {"ok", "error"} : GotoWith(r, p, o))
    BY <1>13 DEF FailRead
  <2>3. QED
    BY <1>1, <1>13, <2>1, <2>2, HoldTypes, GotoTypes, GotoWithTypes DEF FailRead
<1>14. CASE FailAbort(r)
  BY <1>1, <1>14, GotoTypes, GotoWithTypes DEF FailAbort
<1>15. CASE RejectedRead(r)
  <2>1. run[r].pc \in Writing /\ run[r].pc # "idle" /\ Rows
    BY <1>15 DEF RejectedRead, Writing, TypeInv
  <2>2. Hold(r) \/ (\E p \in RunPoints : Goto(r, p))
          \/ (\E p \in RunPoints, o \in {"ok", "error"} : GotoWith(r, p, o))
    BY <1>15 DEF RejectedRead
  <2>3. QED
    BY <1>1, <1>15, <2>1, <2>2, HoldTypes, GotoTypes, GotoWithTypes DEF RejectedRead
<1>16. CASE RejectedAbort(r)
  BY <1>1, <1>16, GotoTypes, GotoWithTypes DEF RejectedAbort
<1>17. QED
  BY <1>2, <1>3, <1>4, <1>5, <1>6, <1>7, <1>8, <1>9, <1>10, <1>11, <1>12, <1>13, <1>14, <1>15, <1>16

\* A step of a run that also writes the row.
LEMMA RunWriteTypes ==
    ASSUME TypeInv, NEW r \in Runs,
           \/ PhaseCommit(r) \/ ReadyCommit(r) \/ FailCommit(r) \/ RejectedCommit(r)
           \/ BindProduction(r)
    PROVE  TypeInv'
<1> USE PointsAre
<1>1. run \in [Runs -> EngagedRuns] /\ Rows
  BY DEF TypeInv, Actors
<1> SUFFICES run' \in [Runs -> EngagedRuns] /\ RunAndRow /\ Rows'
  BY DEF TypeInv, Stores, Actors, RunAndRow
<1>2. run[r].dep \in Deployments /\ run[r].pc # "idle"
  BY <1>1 DEF PhaseCommit, ReadyCommit, FailCommit, RejectedCommit, BindProduction, EngagedRuns
<1>3. run[r].seen # Unread => run[r].seen \in Stored
  BY <1>1 DEF EngagedRuns, RunStates
<1>4. CASE PhaseCommit(r)
  <2>1. run' \in [Runs -> EngagedRuns] /\ RunAndRow
    BY <1>1, <1>2, <1>4, GotoTypes DEF PhaseCommit
  <2>2. Rows'
    BY <1>1, <1>2, <1>3, <1>4, StatusesAre, WriteTypes DEF PhaseCommit
  <2>3. QED
    BY <2>1, <2>2
<1>5. CASE ReadyCommit(r)
  <2>1. run' \in [Runs -> EngagedRuns] /\ RunAndRow
    BY <1>1, <1>2, <1>5, GotoTypes DEF ReadyCommit
  <2>2. Rows'
    BY <1>1, <1>2, <1>3, <1>5, StatusesAre, WriteTypes DEF ReadyCommit
  <2>3. QED
    BY <2>1, <2>2
<1>6. CASE FailCommit(r)
  <2>1. run' \in [Runs -> EngagedRuns] /\ RunAndRow
    BY <1>1, <1>2, <1>6, GotoTypes DEF FailCommit
  <2>2. Rows'
    BY <1>1, <1>2, <1>3, <1>6, StatusesAre, WriteTypes DEF FailCommit
  <2>3. QED
    BY <2>1, <2>2
<1>7. CASE RejectedCommit(r)
  <2>1. run' \in [Runs -> EngagedRuns] /\ RunAndRow
    BY <1>1, <1>2, <1>7, GotoTypes DEF RejectedCommit
  <2>2. Rows'
    BY <1>1, <1>2, <1>3, <1>7, StatusesAre, WriteTypes DEF RejectedCommit
  <2>3. QED
    BY <2>1, <2>2
<1>8. CASE BindProduction(r)
  BY <1>1, <1>2, <1>8, GotoWithTypes DEF BindProduction, Rows
<1>9. QED
  BY <1>4, <1>5, <1>6, <1>7, <1>8

\* The steps of a run that change the stores or the job.
LEMMA RunStoreTypes ==
    ASSUME TypeInv, NEW r \in Runs,
           \/ StartHeartbeat(r) \/ UploadFiles(r) \/ UploadManifest(r) \/ UploadFails(r)
           \/ Finally(r) \/ Settle(r) \/ LoseLock(r) \/ Crash(r)
           \/ \E d \in Deployments : Pickup(r, d)
    PROVE  TypeInv'
<1> USE PointsAre
<1>1. run \in [Runs -> EngagedRuns] /\ Rows /\ Stores
  BY DEF TypeInv, Actors
<1>2. run[r].dep \in Deployments \/ run[r].pc = "idle"
  BY <1>1 DEF EngagedRuns
<1> SUFFICES run' \in [Runs -> EngagedRuns] /\ Stores' /\ UNCHANGED <<dbVars, handler, request>>
  BY DEF TypeInv, Rows, Actors, dbVars
<1>3. IdleRun \in EngagedRuns
  BY DEF IdleRun, EngagedRuns, RunStates
<1>4. CASE StartHeartbeat(r)
  <2>1. run' \in [Runs -> EngagedRuns]
    BY <1>1, <1>4, GotoTypes, GotoWithTypes DEF StartHeartbeat
  <2>2. Stores' /\ UNCHANGED <<dbVars, handler, request>>
    BY <1>1, <1>2, <1>4 DEF StartHeartbeat, Stores
  <2>3. QED
    BY <2>1, <2>2
<1>5. CASE UploadFiles(r)
  <2>1. run' \in [Runs -> EngagedRuns]
    BY <1>1, <1>5, GotoTypes, GotoWithTypes DEF UploadFiles
  <2>2. Stores' /\ UNCHANGED <<dbVars, handler, request>>
    BY <1>1, <1>2, <1>5 DEF UploadFiles, Stores
  <2>3. QED
    BY <2>1, <2>2
<1>6. CASE UploadManifest(r)
  <2>1. run' \in [Runs -> EngagedRuns]
    BY <1>1, <1>6, GotoTypes, GotoWithTypes DEF UploadManifest
  <2>2. Stores' /\ UNCHANGED <<dbVars, handler, request>>
    BY <1>1, <1>2, <1>6 DEF UploadManifest, Stores
  <2>3. QED
    BY <2>1, <2>2
<1>7. CASE UploadFails(r)
  <2>1. run' \in [Runs -> EngagedRuns]
    BY <1>1, <1>7, GotoTypes, GotoWithTypes DEF UploadFails, UploadError
  <2>2. Stores' /\ UNCHANGED <<dbVars, handler, request>>
    BY <1>1, <1>2, <1>7 DEF UploadFails, Stores
  <2>3. QED
    BY <2>1, <2>2
<1>8. CASE Finally(r)
  <2>1. run' \in [Runs -> EngagedRuns]
    BY <1>1, <1>8, GotoTypes, GotoWithTypes DEF Finally
  <2>2. Stores' /\ UNCHANGED <<dbVars, handler, request>>
    BY <1>1, <1>2, <1>8 DEF Finally, Stores
  <2>3. QED
    BY <2>1, <2>2
<1>9. CASE Settle(r)
  <2>1. \A j \in Jobs : run[r].outcome \in {"ok", "error", "unrecoverable"}
                        => SettledJob(j, run[r].outcome) \in Jobs
    <3>1. SUFFICES ASSUME NEW j \in Jobs PROVE /\ SettledJob(j, "ok") \in Jobs
                                              /\ SettledJob(j, "error") \in Jobs
                                              /\ SettledJob(j, "unrecoverable") \in Jobs
      OBVIOUS
    <3>2. j.attempts + 1 \in Nat
      BY DEF Jobs
    <3>3. SettledJob(j, "ok") = [j EXCEPT !.state = "completed", !.holder = None]
      BY DEF SettledJob
    <3>4. SettledJob(j, "unrecoverable")
            = [j EXCEPT !.state = "failed", !.holder = None, !.attempts = j.attempts + 1]
      BY DEF SettledJob
    <3>5. \E s \in {"delayed", "failed"} : SettledJob(j, "error")
            = [j EXCEPT !.state = s, !.holder = None, !.attempts = j.attempts + 1]
      BY DEF SettledJob
    <3>6. QED
      BY <3>2, <3>3, <3>4, <3>5 DEF Jobs
  <2>2. run[r].outcome \in {"ok", "error", "unrecoverable"}
    BY <1>1 DEF EngagedRuns, RunStates
  <2>3. Stores'
    BY <1>1, <1>2, <1>9, <2>1, <2>2 DEF Settle, Stores
  <2>4. QED
    BY <1>1, <1>3, <1>9, <2>3 DEF Settle
<1>10. CASE LoseLock(r)
  BY <1>1, <1>10, Zenon DEF LoseLock, Stores, Jobs
<1>11. CASE Crash(r)
  <2>1. Stores'
    BY <1>1, <1>2, <1>11 DEF Crash, Stores, Jobs
  <2>2. QED
    BY <1>1, <1>3, <1>11, <2>1 DEF Crash
<1>12. ASSUME NEW d \in Deployments, Pickup(r, d)
      PROVE  run' \in [Runs -> EngagedRuns] /\ Stores' /\ UNCHANGED <<dbVars, handler, request>>
  <2>1. run'[r] \in EngagedRuns
    BY <1>1, <1>12 DEF Pickup, IdleRun, EngagedRuns, RunStates, Writing
  <2>2. run' \in [Runs -> EngagedRuns]
    BY <1>1, <1>12, <2>1 DEF Pickup
  <2>3. Stores'
    <3>1. job'[d] \in Jobs
      <4>1. job[d] \in Jobs /\ job'[d] = [job[d] EXCEPT !.state = "active", !.holder = r]
        BY <1>1, <1>12 DEF Pickup, Stores
      <4>2. QED
        BY <4>1 DEF Jobs
    <3>2. QED
      BY <1>1, <1>12, <3>1 DEF Pickup, Stores
  <2>4. QED
    BY <1>12, <2>2, <2>3 DEF Pickup
<1>13. QED
  BY <1>4, <1>5, <1>6, <1>7, <1>8, <1>9, <1>10, <1>11, <1>12

LEMMA BullMQStepTypes ==
    ASSUME TypeInv, NEW d \in Deployments, BullMQStep(d)
    PROVE  TypeInv'
<1> SUFFICES job' \in [Deployments -> Jobs]
  BY DEF TypeInv, Rows, Stores, Actors, BullMQStep, PromoteDelayed, StalledCheck, dbVars
<1>1. job \in [Deployments -> Jobs]
  BY DEF TypeInv, Stores
<1>2. CASE PromoteDelayed(d)
  BY <1>1, <1>2 DEF PromoteDelayed, Jobs
<1>3. CASE StalledCheck(d)
  <2>1. \A j \in Jobs : j.stalls + 1 \in Nat
    BY DEF Jobs
  <2>2. StalledJob(job[d]) \in Jobs
    BY <1>1, <2>1 DEF StalledJob, Jobs
  <2>3. QED
    BY <1>1, <1>3, <2>2 DEF StalledCheck
<1>4. QED
  BY <1>2, <1>3 DEF BullMQStep

LEMMA NextTypes == TypeInv /\ [Next]_vars => TypeInv'
<1> SUFFICES ASSUME TypeInv, [Next]_vars PROVE TypeInv'
  OBVIOUS
<1>1. ASSUME NEW r \in Runs,
             RunStep(r) \/ LoseLock(r) \/ Crash(r) \/ \E d \in Deployments : Pickup(r, d)
      PROVE  TypeInv'
  BY <1>1, MoveTypes, RunWriteTypes, RunStoreTypes DEF RunStep
<1>2. CASE UNCHANGED vars
  BY <1>2 DEF vars, dbVars, TypeInv, Rows, Stores, Actors
<1>3. QED
  BY <1>1, <1>2, CreateStepTypes, CancelStepTypes, BullMQStepTypes
     DEF Next, PipelineNext, Environment, Quiescent

\* In every reachable state TypeInv holds.
LEMMA TypeInvariance == Spec => []TypeInv
BY InitTypeInv, NextTypes, PTL DEF Spec

\* Every variable of the pipeline keeps its type, whatever the actors, BullMQ
\* and the faults do.
THEOREM TypeCorrectness == Spec => []TypeOK
BY TypeInvariance, TypeInvImpliesTypeOK, PTL

-------------------------------------------------------------------------------
(***************************************************************************)
(* The lifecycle events.  What an open transaction is going to write was   *)
(* decided on a row that others may have rewritten since, so the events    *)
(* are right only because the status that was read stays right to have     *)
(* read: it was explained then, events are never removed, and whether the  *)
(* table allows the move does not depend on the row.  That is OpenInv.     *)
(***************************************************************************)
\* What a transaction with from read and to about to be written must know.
Sound(d, from, to) == Explained(d, from) /\ from \in InFlight /\ isValidTransition(from, to)

\* The status a run is about to write.
Target(pc) == IF pc = "rejected" THEN "FAILED" ELSE pc

OpenInv ==
    /\ \A d \in Deployments :
          handler[d].seen # Unread => Sound(d, handler[d].seen, "FAILED")
    /\ \A c \in Requests :
          request[c].seen # Unread => Sound(request[c].dep, request[c].seen, "CANCELLED")
    /\ \A r \in Runs :
          run[r].seen # Unread => Sound(run[r].dep, run[r].seen, Target(run[r].pc))

HistoryInv == TypeInv /\ HistoryExplainsStatus /\ HistoryIsLegal /\ OpenInv

\* The one way a row changes.
Write(d, from, to) ==
    /\ WriteTransition(d, from, to)
    /\ Explained(d, from)
    /\ to \in Statuses
    /\ (from = "ABSENT" /\ to = "QUEUED") \/ (from \in InFlight /\ isValidTransition(from, to))

\* Every step leaves statuses and events alone or is such a write.
LEMMA StepWrites ==
    ASSUME HistoryInv, [Next]_vars
    PROVE  \/ UNCHANGED <<status, history>>
           \/ \E d \in Deployments, from \in Stored, to \in Statuses : Write(d, from, to)
<1> USE StatusesAre, PointsAre DEF HistoryInv, TypeInv
<1>1. ASSUME NEW d \in Deployments, CreateDeployment(d) PROVE Write(d, "ABSENT", "QUEUED")
  BY <1>1 DEF CreateDeployment, Write, Explained
<1>2. ASSUME NEW d \in Deployments, EnqueueFailedCommit(d)
      PROVE  Write(d, handler[d].seen, "FAILED") /\ handler[d].seen \in Stored
  BY <1>2 DEF EnqueueFailedCommit, Write, OpenInv, Sound, InFlight
<1>3. ASSUME NEW c \in Requests, CancelCommit(c)
      PROVE  /\ request[c].dep \in Deployments
             /\ request[c].seen \in Stored
             /\ Write(request[c].dep, request[c].seen, "CANCELLED")
  <2>1. request[c].dep \in Deployments
    BY <1>3 DEF CancelCommit, Actors, EngagedRequests
  <2>2. QED
    BY <1>3, <2>1 DEF CancelCommit, Write, OpenInv, Sound, InFlight
<1>4. ASSUME NEW r \in Runs,
             \/ PhaseCommit(r) \/ ReadyCommit(r) \/ FailCommit(r) \/ RejectedCommit(r)
      PROVE  /\ run[r].dep \in Deployments
             /\ run[r].seen \in Stored
             /\ \E to \in Statuses : Write(run[r].dep, run[r].seen, to)
  <2>1. run[r].dep \in Deployments
    BY <1>4 DEF PhaseCommit, ReadyCommit, FailCommit, RejectedCommit, Actors, EngagedRuns
  <2>2. Sound(run[r].dep, run[r].seen, Target(run[r].pc))
    BY <1>4 DEF PhaseCommit, ReadyCommit, FailCommit, RejectedCommit, OpenInv
  <2>3. Target(run[r].pc) \in Statuses
          /\ WriteTransition(run[r].dep, run[r].seen, Target(run[r].pc))
    BY <1>4 DEF PhaseCommit, ReadyCommit, FailCommit, RejectedCommit, Target
  <2>4. QED
    BY <2>1, <2>2, <2>3 DEF Write, Sound, InFlight
<1>5. ASSUME NEW d \in Deployments,
             \/ Enqueue(d) \/ EnqueueRejects(d) \/ EnqueueFailedRead(d) \/ EnqueueFailedAbort(d)
             \/ BullMQStep(d)
      PROVE  UNCHANGED <<status, history>>
  BY <1>5 DEF Enqueue, EnqueueRejects, EnqueueFailedRead, EnqueueFailedAbort, BullMQStep,
              PromoteDelayed, StalledCheck, dbVars
<1>6. ASSUME NEW c \in Requests,
             CancelRead(c) \/ CancelAbort(c) \/ \E d \in Deployments : CancelCheck(c, d)
      PROVE  UNCHANGED <<status, history>>
  BY <1>6 DEF CancelRead, CancelAbort, CancelCheck, dbVars
<1>7. ASSUME NEW r \in Runs,
             \/ ReplayCheck(r) \/ ReplayCheckFails(r) \/ StartHeartbeat(r) \/ PhaseRead(r)
             \/ PhaseAbort(r) \/ LoadEnv(r) \/ LoadEnvFails(r) \/ Clone(r) \/ Build(r)
             \/ UploadFiles(r) \/ UploadManifest(r) \/ UploadRejected(r) \/ UploadFails(r)
             \/ ReadyRead(r) \/ ReadyAbort(r) \/ BindFails(r) \/ BindProduction(r) \/ FailRead(r) \/ FailAbort(r)
             \/ Finally(r) \/ RejectedRead(r) \/ RejectedAbort(r) \/ Settle(r)
             \/ LoseLock(r) \/ Crash(r) \/ \E d \in Deployments : Pickup(r, d)
      PROVE  UNCHANGED <<status, history>>
  BY <1>7, Zenon DEF ReplayCheck, ReplayCheckFails, StartHeartbeat, PhaseRead, PhaseAbort, LoadEnv,
              LoadEnvFails, Clone, Build, UploadFiles, UploadManifest, UploadRejected, UploadFails,
              ReadyRead, ReadyAbort, BindFails, BindProduction, FailRead, FailAbort, Finally, RejectedRead,
              RejectedAbort, Settle, LoseLock, Crash, Pickup, RunOnly, dbVars
<1>8. CASE UNCHANGED vars
  BY <1>8 DEF vars, dbVars
<1>9. QED
  BY <1>1, <1>2, <1>3, <1>4, <1>5, <1>6, <1>7, <1>8
     DEF Next, PipelineNext, Quiescent, CreateStep, CancelStep, RunStep, Environment

\* What the events explain they go on explaining.
LEMMA ExplainedIsStable ==
    ASSUME HistoryInv,
           \/ UNCHANGED <<status, history>>
           \/ \E d \in Deployments, from \in Stored, to \in Statuses : Write(d, from, to),
           NEW e \in Deployments, NEW s, Explained(e, s)
    PROVE  Explained(e, s)'
BY DEF Write, WriteTransition, Explained, HistoryInv, TypeInv, Rows

LEMMA WritesKeepHistory ==
    ASSUME HistoryInv,
           \/ UNCHANGED <<status, history>>
           \/ \E d \in Deployments, from \in Stored, to \in Statuses : Write(d, from, to)
    PROVE  HistoryExplainsStatus' /\ HistoryIsLegal'
<1>1. CASE UNCHANGED <<status, history>>
  BY <1>1 DEF HistoryInv, HistoryExplainsStatus, HistoryIsLegal, Explained
<1>2. ASSUME NEW d \in Deployments, NEW from \in Stored, NEW to \in Statuses, Write(d, from, to)
      PROVE  HistoryExplainsStatus' /\ HistoryIsLegal'
  <2>1. /\ status' = [status EXCEPT ![d] = to]
        /\ history' = [history EXCEPT ![d] = @ \cup {<<from, to>>}]
        /\ status \in [Deployments -> Stored]
        /\ history \in [Deployments -> SUBSET (Stored \X Statuses)]
    BY <1>2 DEF Write, WriteTransition, HistoryInv, TypeInv, Rows
  <2>2. \A e \in Deployments, s \in Stored : Explained(e, s) => Explained(e, s)'
    BY <1>2, ExplainedIsStable
  <2>3. Explained(d, to)'
    <3>1. CASE from = to
      <4>1. Explained(d, to)
        BY <1>2, <3>1 DEF Write
      <4>2. QED
        BY <2>2, <4>1, StatusesAre
    <3>2. CASE from # to
      <4>1. <<from, to>> \in history'[d]
        BY <2>1
      <4>2. \E v \in history'[d] : v[2] = to /\ v[1] # to
        BY <3>2, <4>1
      <4>3. QED
        BY <4>2 DEF Explained
    <3>3. QED
      BY <3>1, <3>2
  <2>4. Explained(d, from)'
    BY <1>2, <2>2 DEF Write
  <2>5. HistoryExplainsStatus'
    <3>1. ASSUME NEW e \in Deployments PROVE Explained(e, status[e])'
      <4>1. CASE e = d
        <5>1. status'[e] = to
          BY <2>1, <4>1, StatusesAre
        <5>2. QED
          BY <2>3, <4>1, <5>1 DEF Explained
      <4>2. CASE e # d
        <5>1. status'[e] = status[e] /\ status[e] \in Stored
          BY <2>1, <4>2
        <5>2. Explained(e, status[e])
          BY DEF HistoryInv, HistoryExplainsStatus
        <5>3. \A x \in Stored : Explained(e, x) => Explained(e, x)'
          BY <2>2
        <5>4. QED
          BY <5>1, <5>2, <5>3 DEF Explained
      <4>3. QED
        BY <4>1, <4>2
    <3>2. ASSUME NEW e \in Deployments, NEW v \in history'[e] PROVE Explained(e, v[1])'
      <4>1. v \in history[e] \/ (e = d /\ v = <<from, to>>)
        BY <2>1
      <4>2. CASE v \in history[e]
        <5>1. v[1] \in Stored /\ Explained(e, v[1])
          BY <2>1, <4>2 DEF HistoryInv, HistoryExplainsStatus
        <5>2. QED
          BY <2>2, <5>1
      <4>3. CASE e = d /\ v = <<from, to>>
        BY <2>4, <4>3
      <4>4. QED
        BY <4>1, <4>2, <4>3
    <3>3. QED
      BY <3>1, <3>2 DEF HistoryExplainsStatus
  <2>6. HistoryIsLegal'
    BY <1>2, <2>1 DEF Write, HistoryInv, HistoryIsLegal
  <2>7. QED
    BY <2>5, <2>6
<1>3. QED
  BY <1>1, <1>2

\* A status that was just read and may be replaced is a sound one.
LEMMA ReadIsSound ==
    ASSUME HistoryInv, NEW d \in Deployments, NEW to, NEW expected \in SUBSET Statuses,
           Decision(status[d], to, expected) = "commit"
    PROVE  Sound(d, status[d], to)
BY CommitIsLegal DEF Sound, HistoryInv, HistoryExplainsStatus

\* In each kind of actor, what is open after a step was open before it, or is
\* what the actor just read.
LEMMA HandlersReadSoundly ==
    ASSUME HistoryInv, [Next]_vars, NEW d \in Deployments, handler'[d].seen # Unread
    PROVE  Sound(d, handler'[d].seen, "FAILED")
<1> USE DEF HistoryInv, TypeInv, Actors
<1>1. CASE handler'[d] = handler[d]
  BY <1>1 DEF OpenInv
<1>2. CASE EnqueueFailedRead(d)
  <2>1. CASE Decision(status[d], "FAILED", AnyStatus) = "commit"
    <3>1. handler'[d].seen = status[d]
      BY <1>2, <2>1 DEF EnqueueFailedRead, EngagedHandlers, HandlerStates
    <3>2. QED
      BY <2>1, <3>1, ReadIsSound DEF AnyStatus
  <2>2. CASE Decision(status[d], "FAILED", AnyStatus) # "commit"
    <3>1. handler'[d].seen = handler[d].seen
      BY <1>2, <2>2 DEF EnqueueFailedRead, EngagedHandlers, HandlerStates
    <3>2. QED
      BY <1>2, <3>1 DEF EnqueueFailedRead
  <2>3. QED
    BY <2>1, <2>2
<1>3. CASE \/ CreateDeployment(d) \/ Enqueue(d) \/ EnqueueRejects(d)
           \/ EnqueueFailedCommit(d) \/ EnqueueFailedAbort(d)
  <2>1. handler'[d].seen \in {Unread, handler[d].seen}
    <3>1. handler[d] \in EngagedHandlers
      OBVIOUS
    <3>2. CASE CreateDeployment(d)
      BY <3>1, <3>2 DEF CreateDeployment, EngagedHandlers, HandlerStates
    <3>3. CASE Enqueue(d)
      BY <3>1, <3>3 DEF Enqueue, EngagedHandlers, HandlerStates
    <3>4. CASE EnqueueRejects(d)
      BY <3>1, <3>4 DEF EnqueueRejects, EngagedHandlers, HandlerStates
    <3>5. CASE EnqueueFailedCommit(d) \/ EnqueueFailedAbort(d)
      BY <3>5 DEF EnqueueFailedCommit, EnqueueFailedAbort
    <3>6. QED
      BY <1>3, <3>2, <3>3, <3>4, <3>5
  <2>2. QED
    BY <2>1 DEF OpenInv
<1>4. ASSUME NEW e \in Deployments, e # d, CreateStep(e) PROVE handler'[d] = handler[d]
  BY <1>4 DEF CreateStep, CreateDeployment, Enqueue, EnqueueRejects, EnqueueFailedRead,
              EnqueueFailedCommit, EnqueueFailedAbort
<1>5. ASSUME NEW r \in Runs,
             RunStep(r) \/ LoseLock(r) \/ Crash(r) \/ \E e \in Deployments : Pickup(r, e)
      PROVE  handler' = handler
  BY <1>5, Zenon DEF RunStep, LoseLock, Crash, Pickup, RunOnly, RunAndRow,
              ReplayCheck, ReplayCheckFails, StartHeartbeat, PhaseRead, PhaseCommit,
              PhaseAbort, LoadEnv, LoadEnvFails, Clone, Build, UploadFiles, UploadManifest,
              UploadRejected, UploadFails, ReadyRead, ReadyCommit, ReadyAbort, BindFails, BindProduction,
              FailRead, FailCommit, FailAbort, Finally, RejectedRead, RejectedCommit,
              RejectedAbort, Settle
<1>6. ASSUME NEW c \in Requests, CancelStep(c) \/ \E e \in Deployments : CancelCheck(c, e)
      PROVE  handler' = handler
  BY <1>6 DEF CancelStep, CancelCheck, CancelRead, CancelCommit, CancelAbort
<1>7. ASSUME NEW e \in Deployments, BullMQStep(e) PROVE handler' = handler
  BY <1>7 DEF BullMQStep, PromoteDelayed, StalledCheck
<1>8. QED
  BY <1>1, <1>2, <1>3, <1>4, <1>5, <1>6, <1>7
     DEF Next, PipelineNext, Quiescent, CreateStep, Environment, vars

LEMMA RequestsReadSoundly ==
    ASSUME HistoryInv, [Next]_vars, NEW c \in Requests, request'[c].seen # Unread
    PROVE  Sound(request'[c].dep, request'[c].seen, "CANCELLED")
<1> USE DEF HistoryInv, TypeInv, Actors
<1>1. CASE request'[c] = request[c]
  BY <1>1 DEF OpenInv
<1>2. CASE CancelRead(c)
  <2>1. request[c].dep \in Deployments /\ request'[c].dep = request[c].dep
    BY <1>2 DEF CancelRead, EngagedRequests, RequestStates
  <2>2. CASE Decision(status[request[c].dep], "CANCELLED", InFlight) = "commit"
    <3>1. request'[c].seen = status[request[c].dep]
      BY <1>2, <2>2 DEF CancelRead, EngagedRequests, RequestStates
    <3>2. InFlight \subseteq Statuses
      BY StatusesAre DEF InFlight
    <3>3. QED
      BY <2>1, <2>2, <3>1, <3>2, ReadIsSound
  <2>3. CASE Decision(status[request[c].dep], "CANCELLED", InFlight) # "commit"
    <3>1. request'[c].seen = request[c].seen
      BY <1>2, <2>3 DEF CancelRead, EngagedRequests, RequestStates
    <3>2. QED
      BY <1>2, <3>1 DEF CancelRead
  <2>4. QED
    BY <2>2, <2>3
<1>3. ASSUME NEW d \in Deployments, CancelCheck(c, d) PROVE request'[c].seen = Unread
  BY <1>3 DEF CancelCheck, EngagedRequests, RequestStates
<1>4. CASE CancelCommit(c) \/ CancelAbort(c)
  BY <1>4 DEF CancelCommit, CancelAbort, EngagedRequests, RequestStates
<1>5. ASSUME NEW b \in Requests, b # c,
             CancelStep(b) \/ \E d \in Deployments : CancelCheck(b, d)
      PROVE  request'[c] = request[c]
  BY <1>5 DEF CancelStep, CancelCheck, CancelRead, CancelCommit, CancelAbort
<1>6. ASSUME NEW r \in Runs,
             RunStep(r) \/ LoseLock(r) \/ Crash(r) \/ \E e \in Deployments : Pickup(r, e)
      PROVE  request' = request
  BY <1>6, Zenon DEF RunStep, LoseLock, Crash, Pickup, RunOnly, RunAndRow,
              ReplayCheck, ReplayCheckFails, StartHeartbeat, PhaseRead, PhaseCommit,
              PhaseAbort, LoadEnv, LoadEnvFails, Clone, Build, UploadFiles, UploadManifest,
              UploadRejected, UploadFails, ReadyRead, ReadyCommit, ReadyAbort, BindFails, BindProduction,
              FailRead, FailCommit, FailAbort, Finally, RejectedRead, RejectedCommit,
              RejectedAbort, Settle
<1>7. ASSUME NEW d \in Deployments, CreateStep(d) \/ BullMQStep(d) PROVE request' = request
  BY <1>7 DEF CreateStep, CreateDeployment, Enqueue, EnqueueRejects, EnqueueFailedRead,
              EnqueueFailedCommit, EnqueueFailedAbort, BullMQStep, PromoteDelayed, StalledCheck
<1>8. QED
  BY <1>1, <1>2, <1>3, <1>4, <1>5, <1>6, <1>7
     DEF Next, PipelineNext, Quiescent, CancelStep, Environment, vars

LEMMA RunsReadSoundly ==
    ASSUME HistoryInv, [Next]_vars, NEW r \in Runs, run'[r].seen # Unread
    PROVE  Sound(run'[r].dep, run'[r].seen, Target(run'[r].pc))
<1> USE DEF HistoryInv, TypeInv, Actors
<1>1. CASE run'[r] = run[r]
  BY <1>1 DEF OpenInv
<1>2. run[r] \in EngagedRuns
  OBVIOUS
<1>3. ASSUME NEW expected \in SUBSET Statuses, Hold(r), run[r].pc \in Writing,
             Decision(status[run[r].dep], Target(run[r].pc), expected) = "commit"
      PROVE  Sound(run'[r].dep, run'[r].seen, Target(run'[r].pc))
  <2>1. run[r].dep \in Deployments
    BY <1>2, <1>3, PointsAre DEF Writing, EngagedRuns
  <2>2. run'[r] = [run[r] EXCEPT !.seen = status[run[r].dep]]
    BY <1>3 DEF Hold
  <2>3. run'[r].dep = run[r].dep /\ run'[r].pc = run[r].pc /\ run'[r].seen = status[run[r].dep]
    BY <1>2, <2>2 DEF EngagedRuns, RunStates
  <2>4. Sound(run[r].dep, status[run[r].dep], Target(run[r].pc))
    BY <1>3, <2>1, ReadIsSound
  <2>5. QED
    BY <2>3, <2>4
<1>4. ASSUME NEW point, Goto(r, point) \/ \E o : GotoWith(r, point, o)
      PROVE  run'[r].seen = Unread
  BY <1>2, <1>4 DEF Goto, GotoWith, EngagedRuns, RunStates
<1>5. /\ InFlight \subseteq Statuses
      /\ {"DEPLOYING", "READY"} \subseteq Statuses
      /\ \A phase \in Phases : Expected(phase) \subseteq Statuses
  <2>1. \A phase \in Phases : \E s \in InFlight : s # phase /\ phase \in ALLOWED_STATE_TRANSITIONS[s]
    BY PointsAre DEF InFlight, ALLOWED_STATE_TRANSITIONS
  <2>2. \A phase \in Phases :
          (CHOOSE s \in InFlight : s # phase /\ phase \in ALLOWED_STATE_TRANSITIONS[s]) \in InFlight
    BY <2>1
  <2>3. QED
    BY <2>2, StatusesAre DEF InFlight, Expected
<1>6. CASE PhaseRead(r)
  <2>1. run[r].pc \in Writing /\ Target(run[r].pc) = run[r].pc
    BY <1>6, PointsAre DEF PhaseRead, Writing, Target
  <2>2. CASE Decision(status[run[r].dep], run[r].pc, Expected(run[r].pc)) = "commit"
    BY <1>3, <1>5, <1>6, <2>1, <2>2 DEF PhaseRead
  <2>3. CASE Decision(status[run[r].dep], run[r].pc, Expected(run[r].pc)) # "commit"
    BY <1>4, <1>6, <2>3 DEF PhaseRead
  <2>4. QED
    BY <2>2, <2>3
<1>7. CASE ReadyRead(r)
  BY <1>3, <1>4, <1>5, <1>7 DEF ReadyRead, Writing, Target
<1>8. CASE FailRead(r)
  BY <1>3, <1>4, <1>5, <1>8 DEF FailRead, Writing, Target
<1>9. CASE RejectedRead(r)
  BY <1>3, <1>4, <1>5, <1>9 DEF RejectedRead, Writing, Target, AnyStatus
<1>10. CASE \/ ReplayCheck(r) \/ ReplayCheckFails(r) \/ StartHeartbeat(r)
            \/ PhaseCommit(r) \/ PhaseAbort(r) \/ LoadEnvFails(r) \/ Clone(r) \/ Build(r)
            \/ UploadFiles(r) \/ UploadManifest(r) \/ UploadRejected(r) \/ UploadFails(r)
            \/ ReadyCommit(r) \/ ReadyAbort(r) \/ BindFails(r) \/ BindProduction(r)
            \/ FailCommit(r) \/ FailAbort(r) \/ Finally(r) \/ RejectedCommit(r) \/ RejectedAbort(r)
  <2>1. \E point : Goto(r, point) \/ \E o : GotoWith(r, point, o)
    BY <1>10 DEF ReplayCheck, ReplayCheckFails, StartHeartbeat, PhaseCommit, PhaseAbort,
         LoadEnvFails, Clone, Build, UploadFiles, UploadManifest, UploadRejected, UploadFails,
         UploadError, ReadyCommit, ReadyAbort, BindFails, BindProduction, FailCommit, FailAbort, Finally,
         RejectedCommit, RejectedAbort
  <2>2. QED
    BY <1>4, <2>1
<1>11. CASE LoadEnv(r) \/ Settle(r) \/ Crash(r) \/ \E d \in Deployments : Pickup(r, d)
  <2>1. run'[r].seen = Unread
    <3>1. CASE LoadEnv(r)
      <4>1. run[r].seen = Unread
        BY <1>2, <3>1, PointsAre DEF LoadEnv, EngagedRuns, Writing
      <4>2. run'[r].seen = run[r].seen
        BY <1>2, <3>1 DEF LoadEnv, EngagedRuns, RunStates
      <4>3. QED
        BY <4>1, <4>2
    <3>2. CASE Settle(r) \/ Crash(r)
      BY <3>2 DEF Settle, Crash, IdleRun
    <3>3. ASSUME NEW d \in Deployments, Pickup(r, d) PROVE run'[r].seen = Unread
      BY <3>3 DEF Pickup, IdleRun
    <3>4. QED
      BY <1>11, <3>1, <3>2, <3>3
  <2>2. QED
    BY <2>1
<1>12. ASSUME NEW q \in Runs, q # r,
              RunStep(q) \/ Crash(q) \/ \E d \in Deployments : Pickup(q, d)
       PROVE  run'[r] = run[r]
  BY <1>12, Zenon DEF RunStep, Crash, Pickup, Goto, GotoWith, Hold, UploadError,
               ReplayCheck, ReplayCheckFails, StartHeartbeat, PhaseRead, PhaseCommit,
               PhaseAbort, LoadEnv, LoadEnvFails, Clone, Build, UploadFiles, UploadManifest,
               UploadRejected, UploadFails, ReadyRead, ReadyCommit, ReadyAbort, BindFails, BindProduction,
               FailRead, FailCommit, FailAbort, Finally, RejectedRead, RejectedCommit,
               RejectedAbort, Settle
<1>13. ASSUME NEW q \in Runs, LoseLock(q) PROVE run' = run
  BY <1>13 DEF LoseLock
<1>14. ASSUME NEW d \in Deployments, CreateStep(d) \/ BullMQStep(d) PROVE run' = run
  BY <1>14 DEF CreateStep, CreateDeployment, Enqueue, EnqueueRejects, EnqueueFailedRead,
               EnqueueFailedCommit, EnqueueFailedAbort, BullMQStep, PromoteDelayed, StalledCheck
<1>15. ASSUME NEW c \in Requests, CancelStep(c) \/ \E d \in Deployments : CancelCheck(c, d)
       PROVE  run' = run
  BY <1>15 DEF CancelStep, CancelCheck, CancelRead, CancelCommit, CancelAbort
<1>16. QED
  BY <1>1, <1>6, <1>7, <1>8, <1>9, <1>10, <1>11, <1>12, <1>13, <1>14, <1>15
     DEF Next, PipelineNext, Quiescent, RunStep, Environment, vars

LEMMA InitHistoryInv == Init => HistoryInv
<1> SUFFICES ASSUME Init PROVE HistoryInv
  OBVIOUS
<1>1. TypeInv
  BY InitTypeInv
<1>2. QED
  BY <1>1 DEF Init, IdleRun, HistoryInv, HistoryExplainsStatus, HistoryIsLegal, Explained, OpenInv

LEMMA NextHistoryInv == HistoryInv /\ [Next]_vars => HistoryInv'
<1> SUFFICES ASSUME HistoryInv, [Next]_vars PROVE HistoryInv'
  OBVIOUS
<1>1. TypeInv'
  BY NextTypes DEF HistoryInv
<1>2. \/ UNCHANGED <<status, history>>
      \/ \E d \in Deployments, from \in Stored, to \in Statuses : Write(d, from, to)
  BY StepWrites
<1>3. ASSUME NEW d \in Deployments, NEW s, NEW to, Sound(d, s, to) PROVE Sound(d, s, to)'
  BY <1>2, <1>3, ExplainedIsStable DEF Sound
<1>4. ASSUME NEW d \in Deployments, handler'[d].seen # Unread
      PROVE  Sound(d, handler[d].seen, "FAILED")'
  BY <1>3, <1>4, HandlersReadSoundly DEF Sound, Explained
<1>5. ASSUME NEW c \in Requests, request'[c].seen # Unread
      PROVE  Sound(request[c].dep, request[c].seen, "CANCELLED")'
  <2>1. request'[c].dep \in Deployments
    BY <1>1, <1>5 DEF TypeInv, Actors, EngagedRequests
  <2>2. QED
    BY <1>3, <1>5, <2>1, RequestsReadSoundly DEF Sound, Explained
<1>6. ASSUME NEW r \in Runs, run'[r].seen # Unread
      PROVE  Sound(run[r].dep, run[r].seen, Target(run[r].pc))'
  <2>1. run'[r].dep \in Deployments
    BY <1>1, <1>6, PointsAre DEF TypeInv, Actors, EngagedRuns, Writing
  <2>2. QED
    BY <1>3, <1>6, <2>1, RunsReadSoundly DEF Sound, Explained, Target
<1>7. QED
  BY <1>1, <1>2, <1>4, <1>5, <1>6, WritesKeepHistory DEF HistoryInv, OpenInv

LEMMA HistoryInvariance == Spec => []HistoryInv
BY InitHistoryInv, NextHistoryInv, PTL DEF Spec

\* The lifecycle events lead from a deployment's creation to the status it has,
\* however the transactions of the handler, the cancel requests and any number
\* of runs interleave and whatever fails.
THEOREM EventsExplainStatus == Spec => []HistoryExplainsStatus
BY HistoryInvariance, PTL DEF HistoryInv

\* No event records a move the transition table forbids.
THEOREM EventsAreLegal == Spec => []HistoryIsLegal
BY HistoryInvariance, PTL DEF HistoryInv

-------------------------------------------------------------------------------
(***************************************************************************)
(* What is published was uploaded.  A run checks no store before it makes  *)
(* its deployment READY: that the bundle was complete follows from where   *)
(* the run is, which is what UploadInv adds.                               *)
(***************************************************************************)
\* The points a run reaches, with the production settings, by way of a complete
\* upload only.
AfterUpload == {"DEPLOYING", "READY", "bind"}

UploadInv ==
    /\ TypeInv
    /\ PublishedWasUploaded
    /\ StrictUploads => \A r \in Runs : run[r].pc \in AfterUpload => run[r].dep \in uploaded

\* A bundle that was once complete is not forgotten.
LEMMA UploadedGrows == [Next]_vars => uploaded \subseteq uploaded'
BY Zenon DEF Next, PipelineNext, Quiescent, CreateStep, CancelStep, BullMQStep, RunStep, Environment,
       CreateDeployment, Enqueue, EnqueueRejects, EnqueueFailedRead, EnqueueFailedCommit,
       EnqueueFailedAbort, CancelCheck, CancelRead, CancelCommit, CancelAbort, PromoteDelayed,
       StalledCheck, LoseLock, Crash, Pickup, RunOnly, RunAndRow, vars,
       ReplayCheck, ReplayCheckFails, StartHeartbeat, PhaseRead, PhaseCommit, PhaseAbort,
       LoadEnv, LoadEnvFails, Clone, Build, UploadFiles, UploadManifest, UploadRejected,
       UploadFails, ReadyRead, ReadyCommit, ReadyAbort, BindFails, BindProduction, FailRead, FailCommit,
       FailAbort, Finally, RejectedRead, RejectedCommit, RejectedAbort, Settle

\* A run is past the upload only if it was before, or has just completed it.
LEMMA UploadComesFirst ==
    ASSUME UploadInv, [Next]_vars, StrictUploads, NEW r \in Runs, run'[r].pc \in AfterUpload
    PROVE  run'[r].dep \in uploaded'
<1> USE DEF UploadInv, TypeInv, Actors
<1>1. run[r] \in EngagedRuns /\ (run[r].pc \in AfterUpload => run[r].dep \in uploaded)
  OBVIOUS
<1>2. uploaded \subseteq uploaded'
  BY UploadedGrows
<1>3. CASE run'[r] = run[r]
  BY <1>1, <1>2, <1>3
<1>4. ASSUME NEW point, Goto(r, point) \/ \E o : GotoWith(r, point, o)
      PROVE  run'[r].pc = point /\ run'[r].dep = run[r].dep
  <2>1. CASE Goto(r, point)
    BY <1>1, <2>1 DEF Goto, EngagedRuns, RunStates
  <2>2. ASSUME NEW o, GotoWith(r, point, o)
        PROVE  run'[r].pc = point /\ run'[r].dep = run[r].dep
    BY <1>1, <2>2 DEF GotoWith, EngagedRuns, RunStates
  <2>3. QED
    BY <1>4, <2>1, <2>2
<1>5. ASSUME Hold(r) PROVE run'[r].pc = run[r].pc /\ run'[r].dep = run[r].dep
  BY <1>1, <1>5 DEF Hold, EngagedRuns, RunStates
<1>6. CASE ReplayCheck(r) \/ ReplayCheckFails(r) \/ StartHeartbeat(r) \/ LoadEnvFails(r)
           \/ Clone(r) \/ Build(r) \/ UploadFiles(r) \/ ReadyAbort(r) \/ BindFails(r) \/ BindProduction(r)
           \/ FailCommit(r) \/ FailAbort(r) \/ Finally(r) \/ RejectedCommit(r) \/ RejectedAbort(r)
  <2>1. \E point \in RunPoints \ AfterUpload : Goto(r, point) \/ \E o : GotoWith(r, point, o)
    BY <1>6, PointsAre DEF ReplayCheck, ReplayCheckFails, StartHeartbeat, LoadEnvFails, Clone,
       Build, UploadFiles, ReadyAbort, BindFails, BindProduction, FailCommit, FailAbort, Finally,
       RejectedCommit, RejectedAbort, AfterUpload
  <2>2. QED
    BY <1>4, <2>1
<1>7. CASE PhaseRead(r) \/ PhaseCommit(r) \/ PhaseAbort(r)
  <2>1. AfterPhase(run[r].pc) \in AfterUpload => run[r].pc \in AfterUpload
    BY <1>7, PointsAre DEF PhaseRead, PhaseCommit, PhaseAbort, AfterPhase, AfterUpload
  <2>2. Hold(r) \/ Goto(r, AfterPhase(run[r].pc)) \/ GotoWith(r, "finally", "ok")
    BY <1>7 DEF PhaseRead, PhaseCommit, PhaseAbort
  <2>3. CASE GotoWith(r, "finally", "ok")
    BY <1>4, <2>3 DEF AfterUpload
  <2>4. QED
    BY <1>1, <1>2, <1>4, <1>5, <2>1, <2>2, <2>3
<1>8. CASE ReadyRead(r) \/ ReadyCommit(r)
  <2>1. run[r].pc \in AfterUpload /\ (Hold(r) \/ Goto(r, "bind"))
    BY <1>8 DEF ReadyRead, ReadyCommit, AfterUpload
  <2>2. QED
    BY <1>1, <1>2, <1>4, <1>5, <2>1
<1>9. CASE UploadManifest(r)
  BY <1>4, <1>9 DEF UploadManifest
<1>10. CASE UploadRejected(r) \/ UploadFails(r)
  BY <1>4, <1>10 DEF UploadRejected, UploadFails, UploadError, AfterUpload
<1>11. CASE FailRead(r) \/ RejectedRead(r)
  <2>1. run[r].pc \notin AfterUpload
    BY <1>11 DEF FailRead, RejectedRead, AfterUpload
  <2>2. Hold(r) \/ \E point \in {"finally", "settle"} : Goto(r, point) \/ \E o : GotoWith(r, point, o)
    BY <1>11 DEF FailRead, RejectedRead
  <2>3. QED
    BY <1>4, <1>5, <2>1, <2>2 DEF AfterUpload
<1>12. CASE LoadEnv(r) \/ Settle(r) \/ Crash(r) \/ \E d \in Deployments : Pickup(r, d)
  <2>1. run'[r].pc \notin AfterUpload
    <3>1. CASE LoadEnv(r)
      <4>1. run'[r].pc = "CLONING"
        BY <1>1, <3>1 DEF LoadEnv, EngagedRuns, RunStates
      <4>2. QED
        BY <4>1 DEF AfterUpload
    <3>2. CASE Settle(r) \/ Crash(r)
      BY <3>2 DEF Settle, Crash, IdleRun, AfterUpload
    <3>3. ASSUME NEW d \in Deployments, Pickup(r, d) PROVE run'[r].pc \in {"replay", "rejected"}
      BY <3>3 DEF Pickup, IdleRun
    <3>4. QED
      BY <1>12, <3>1, <3>2, <3>3 DEF AfterUpload
  <2>2. QED
    BY <2>1
<1>13. ASSUME NEW q \in Runs, q # r,
              RunStep(q) \/ Crash(q) \/ \E d \in Deployments : Pickup(q, d)
       PROVE  run'[r] = run[r]
  BY <1>13, Zenon DEF RunStep, Crash, Pickup, Goto, GotoWith, Hold, UploadError,
               ReplayCheck, ReplayCheckFails, StartHeartbeat, PhaseRead, PhaseCommit,
               PhaseAbort, LoadEnv, LoadEnvFails, Clone, Build, UploadFiles, UploadManifest,
               UploadRejected, UploadFails, ReadyRead, ReadyCommit, ReadyAbort, BindFails, BindProduction,
               FailRead, FailCommit, FailAbort, Finally, RejectedRead, RejectedCommit,
               RejectedAbort, Settle
<1>14. ASSUME NEW q \in Runs, LoseLock(q) PROVE run' = run
  BY <1>14 DEF LoseLock
<1>15. ASSUME NEW d \in Deployments, CreateStep(d) \/ BullMQStep(d) PROVE run' = run
  BY <1>15 DEF CreateStep, CreateDeployment, Enqueue, EnqueueRejects, EnqueueFailedRead,
               EnqueueFailedCommit, EnqueueFailedAbort, BullMQStep, PromoteDelayed, StalledCheck
<1>16. ASSUME NEW c \in Requests, CancelStep(c) \/ \E d \in Deployments : CancelCheck(c, d)
       PROVE  run' = run
  BY <1>16 DEF CancelStep, CancelCheck, CancelRead, CancelCommit, CancelAbort
<1>17. QED
  BY <1>3, <1>6, <1>7, <1>8, <1>9, <1>10, <1>11, <1>12, <1>13, <1>14, <1>15, <1>16
     DEF Next, PipelineNext, Quiescent, RunStep, Environment, vars

\* Only a run past the upload makes a deployment READY or current.
LEMMA OnlyUploadedArePublished ==
    ASSUME UploadInv, [Next]_vars, StrictUploads, NEW d \in Deployments,
           status'[d] = "READY" \/ current' = d
    PROVE  status[d] = "READY" \/ current = d \/ d \in uploaded
<1> USE DEF UploadInv, TypeInv, Rows, Actors
<1>1. ASSUME NEW e \in Deployments, NEW from, NEW to \in Statuses \ {"READY"},
             WriteTransition(e, from, to)
      PROVE  (status'[d] = "READY" => status[d] = "READY") /\ current' = current
  BY <1>1 DEF WriteTransition
<1>2. ASSUME NEW e \in Deployments, CreateDeployment(e) \/ EnqueueFailedCommit(e)
      PROVE  status[d] = "READY" \/ current = d
  BY <1>1, <1>2, StatusesAre DEF CreateDeployment, EnqueueFailedCommit
<1>3. ASSUME NEW c \in Requests, CancelCommit(c) PROVE status[d] = "READY" \/ current = d
  <2>1. request[c].dep \in Deployments
    BY <1>3 DEF CancelCommit, EngagedRequests
  <2>2. QED
    BY <1>1, <1>3, <2>1, StatusesAre DEF CancelCommit
<1>4. ASSUME NEW r \in Runs, PhaseCommit(r) \/ FailCommit(r) \/ RejectedCommit(r)
      PROVE  status[d] = "READY" \/ current = d
  <2>1. run[r].dep \in Deployments
    BY <1>4, PointsAre DEF PhaseCommit, FailCommit, RejectedCommit, EngagedRuns
  <2>2. \E to \in Statuses \ {"READY"} : WriteTransition(run[r].dep, run[r].seen, to)
    BY <1>4, StatusesAre, PointsAre DEF PhaseCommit, FailCommit, RejectedCommit
  <2>3. QED
    BY <1>1, <2>1, <2>2
<1>5. ASSUME NEW r \in Runs, ReadyCommit(r) \/ BindProduction(r)
      PROVE  status[d] = "READY" \/ current = d \/ d \in uploaded
  <2>1. run[r].dep \in Deployments /\ run[r].dep \in uploaded
    BY <1>5 DEF ReadyCommit, BindProduction, EngagedRuns, AfterUpload
  <2>2. CASE d = run[r].dep
    BY <2>1, <2>2
  <2>3. CASE d # run[r].dep
    BY <1>5, <2>3 DEF ReadyCommit, BindProduction, WriteTransition
  <2>4. QED
    BY <2>2, <2>3
<1>6. ASSUME NEW e \in Deployments,
             \/ Enqueue(e) \/ EnqueueRejects(e) \/ EnqueueFailedRead(e) \/ EnqueueFailedAbort(e)
             \/ BullMQStep(e)
      PROVE  UNCHANGED <<status, current>>
  BY <1>6 DEF Enqueue, EnqueueRejects, EnqueueFailedRead, EnqueueFailedAbort, BullMQStep,
              PromoteDelayed, StalledCheck, dbVars
<1>7. ASSUME NEW c \in Requests,
             CancelRead(c) \/ CancelAbort(c) \/ \E e \in Deployments : CancelCheck(c, e)
      PROVE  UNCHANGED <<status, current>>
  BY <1>7 DEF CancelRead, CancelAbort, CancelCheck, dbVars
<1>8. ASSUME NEW r \in Runs,
             RunStep(r) \/ LoseLock(r) \/ Crash(r) \/ \E e \in Deployments : Pickup(r, e),
             ~(PhaseCommit(r) \/ FailCommit(r) \/ RejectedCommit(r)),
             ~(ReadyCommit(r) \/ BindProduction(r))
      PROVE  UNCHANGED <<status, current>>
  <2>1. \/ ReplayCheck(r) \/ ReplayCheckFails(r) \/ StartHeartbeat(r) \/ PhaseRead(r) \/ PhaseAbort(r)
        \/ LoadEnv(r) \/ LoadEnvFails(r) \/ Clone(r) \/ Build(r) \/ UploadFiles(r)
        \/ UploadManifest(r) \/ UploadRejected(r) \/ UploadFails(r) \/ ReadyRead(r) \/ ReadyAbort(r) \/ BindFails(r)
        \/ FailRead(r) \/ FailAbort(r) \/ Finally(r) \/ RejectedRead(r) \/ RejectedAbort(r)
        \/ Settle(r)
        \/ LoseLock(r) \/ Crash(r) \/ \E e \in Deployments : Pickup(r, e)
    BY <1>8 DEF RunStep
  <2>2. QED
    BY <2>1, Zenon DEF LoseLock, Crash, Pickup, RunOnly, dbVars,
        ReplayCheck, ReplayCheckFails, StartHeartbeat, PhaseRead, PhaseAbort, LoadEnv,
        LoadEnvFails, Clone, Build, UploadFiles, UploadManifest, UploadRejected, UploadFails,
        ReadyRead, ReadyAbort, BindFails, FailRead, FailAbort, Finally, RejectedRead, RejectedAbort,
        Settle
<1>9. QED
  BY <1>2, <1>3, <1>4, <1>5, <1>6, <1>7, <1>8
     DEF Next, PipelineNext, Quiescent, CreateStep, CancelStep, Environment, vars, dbVars

LEMMA InitUploadInv == Init => UploadInv
<1> SUFFICES ASSUME Init PROVE UploadInv
  OBVIOUS
<1>1. PublishedWasUploaded
  BY MarkersAssumption DEF Init, PublishedWasUploaded
<1>2. QED
  BY <1>1, InitTypeInv DEF Init, IdleRun, UploadInv, AfterUpload

LEMMA NextUploadInv == UploadInv /\ [Next]_vars => UploadInv'
<1> SUFFICES ASSUME UploadInv, [Next]_vars PROVE UploadInv'
  OBVIOUS
<1>1. TypeInv'
  BY NextTypes DEF UploadInv
<1>2. uploaded \subseteq uploaded'
  BY UploadedGrows
<1>3. ASSUME StrictUploads, NEW d \in Deployments, status'[d] = "READY" \/ current' = d
      PROVE  d \in uploaded'
  BY <1>2, <1>3, OnlyUploadedArePublished DEF UploadInv, PublishedWasUploaded
<1>4. QED
  BY <1>1, <1>3, UploadComesFirst DEF UploadInv, PublishedWasUploaded

\* With the production settings nothing is READY or current without a complete
\* upload, whatever runs, cancel requests, retries and crashes interleave.
THEOREM PublishedDeploymentsWereUploaded == Spec => []PublishedWasUploaded
BY InitUploadInv, NextUploadInv, PTL DEF Spec, UploadInv

-------------------------------------------------------------------------------
(***************************************************************************)
(* The end of a deployment.  A transaction begins only on a row that is in *)
(* flight.  Where none is open on a row that is not, no status is written  *)
(* and none will be.                                                       *)
(***************************************************************************)
Closed(d) == status[d] \notin InFlight /\ ~OpenTransaction(d)

\* A row that is not in flight is only read.
LEMMA ClosedIsRefused ==
    ASSUME NEW d \in Deployments, Closed(d), NEW to, NEW expected \in SUBSET Statuses
    PROVE  Decision(status[d], to, expected) # "commit"
BY CommitIsLegal DEF Closed

LEMMA ListsOfStatuses ==
    /\ AnyStatus \in SUBSET Statuses /\ InFlight \in SUBSET Statuses
    /\ {"DEPLOYING", "READY"} \in SUBSET Statuses
    /\ \A phase \in Phases : Expected(phase) \in SUBSET Statuses
<1>1. \A phase \in Phases : \E s \in InFlight : s # phase /\ phase \in ALLOWED_STATE_TRANSITIONS[s]
  BY PointsAre DEF InFlight, ALLOWED_STATE_TRANSITIONS
<1>2. \A phase \in Phases :
        (CHOOSE s \in InFlight : s # phase /\ phase \in ALLOWED_STATE_TRANSITIONS[s]) \in InFlight
  BY <1>1
<1>3. InFlight \subseteq Statuses /\ {"DEPLOYING", "READY"} \subseteq Statuses /\ AnyStatus = Statuses
  BY StatusesAre DEF InFlight, AnyStatus
<1>4. \A phase \in Phases : Expected(phase) \subseteq Statuses
  BY <1>2, <1>3, StatusesAre DEF Expected
<1>5. QED
  BY <1>3, <1>4

\* The two ways a run moves by itself.
LEMMA GoesTo ==
    ASSUME TypeInv, NEW r \in Runs, NEW point, Goto(r, point) \/ \E o : GotoWith(r, point, o)
    PROVE  /\ \A s \in Runs \ {r} : run'[s] = run[s]
           /\ run'[r].pc = point /\ run'[r].dep = run[r].dep /\ run'[r].seen = Unread
<1>1. run \in [Runs -> EngagedRuns] /\ run[r] \in EngagedRuns
  BY DEF TypeInv, Actors
<1>2. CASE Goto(r, point)
  <2>1. PICK y : y = [run[r] EXCEPT !.pc = point, !.seen = Unread]
    OBVIOUS
  <2>2. y.pc = point /\ y.dep = run[r].dep /\ y.seen = Unread
    BY <1>1, <2>1 DEF EngagedRuns, RunStates
  <2>3. run' = [run EXCEPT ![r] = y]
    BY <1>2, <2>1, Zenon DEF Goto
  <2>4. QED
    BY <1>1, <2>2, <2>3
<1>3. ASSUME NEW o, GotoWith(r, point, o)
      PROVE  /\ \A s \in Runs \ {r} : run'[s] = run[s]
             /\ run'[r].pc = point /\ run'[r].dep = run[r].dep /\ run'[r].seen = Unread
  <2>1. PICK y : y = [run[r] EXCEPT !.pc = point, !.seen = Unread, !.outcome = o]
    OBVIOUS
  <2>2. y.pc = point /\ y.dep = run[r].dep /\ y.seen = Unread
    BY <1>1, <2>1 DEF EngagedRuns, RunStates
  <2>3. run' = [run EXCEPT ![r] = y]
    BY <1>3, <2>1, Zenon DEF GotoWith
  <2>4. QED
    BY <1>1, <2>2, <2>3
<1>4. QED
  BY <1>2, <1>3

LEMMA HoldsOn ==
    ASSUME TypeInv, NEW r \in Runs, Hold(r)
    PROVE  /\ \A s \in Runs \ {r} : run'[s] = run[s]
           /\ run'[r].pc = run[r].pc /\ run'[r].dep = run[r].dep
BY DEF Hold, TypeInv, Actors, EngagedRuns, RunStates

\* What the handlers, the requests and the runs have to do with a closed row.
LEMMA ClosedBy ==
    ASSUME NEW d, status'[d] = status[d], Closed(d),
           handler'[d].seen = Unread,
           \A c \in Requests : request'[c].dep = d => request'[c].seen = Unread,
           \A r \in Runs : run'[r].dep = d => run'[r].seen = Unread
    PROVE  Closed(d)' /\ status'[d] = status[d]
BY DEF Closed, OpenTransaction

LEMMA CreateKeepsClosed ==
    ASSUME TypeInv, NEW d \in Deployments, Closed(d), NEW e \in Deployments, CreateStep(e),
           ~CreateDeployment(d)
    PROVE  Closed(d)' /\ status'[d] = status[d]
<1> USE DEF TypeInv, Actors
<1>1. handler[e] \in EngagedHandlers /\ handler[d].seen = Unread
  BY DEF Closed, OpenTransaction
<1>2. request' = request /\ run' = run
  BY DEF CreateStep, CreateDeployment, Enqueue, EnqueueRejects, EnqueueFailedRead,
         EnqueueFailedCommit, EnqueueFailedAbort
<1>3. status'[d] = status[d]
  <2>1. CASE CreateDeployment(e) \/ EnqueueFailedCommit(e)
    BY <1>1, <2>1 DEF CreateDeployment, EnqueueFailedCommit, WriteTransition, Rows
  <2>2. CASE Enqueue(e) \/ EnqueueRejects(e) \/ EnqueueFailedRead(e) \/ EnqueueFailedAbort(e)
    BY <2>2 DEF Enqueue, EnqueueRejects, EnqueueFailedRead, EnqueueFailedAbort, dbVars
  <2>3. QED
    BY <2>1, <2>2 DEF CreateStep
<1>4. handler'[d].seen = Unread
  <2>1. CASE EnqueueFailedRead(e)
    <3>1. CASE e = d
      <4>1. Decision(status[d], "FAILED", AnyStatus) # "commit"
        BY ClosedIsRefused, ListsOfStatuses
      <4>2. QED
        BY <1>1, <2>1, <3>1, <4>1 DEF EnqueueFailedRead, EngagedHandlers, HandlerStates
    <3>2. CASE e # d
      BY <1>1, <2>1, <3>2 DEF EnqueueFailedRead
    <3>3. QED
      BY <3>1, <3>2
  <2>2. CASE CreateDeployment(e)
    BY <1>1, <2>2 DEF CreateDeployment
  <2>3. CASE Enqueue(e)
    BY <1>1, <2>3 DEF Enqueue, EngagedHandlers, HandlerStates
  <2>4. CASE EnqueueRejects(e)
    BY <1>1, <2>4 DEF EnqueueRejects, EngagedHandlers, HandlerStates
  <2>5. CASE EnqueueFailedCommit(e) \/ EnqueueFailedAbort(e)
    BY <1>1, <2>5 DEF EnqueueFailedCommit, EnqueueFailedAbort
  <2>6. QED
    BY <2>1, <2>2, <2>3, <2>4, <2>5 DEF CreateStep
<1>5. QED
  BY <1>2, <1>3, <1>4, ClosedBy DEF Closed, OpenTransaction

LEMMA CancelKeepsClosed ==
    ASSUME TypeInv, NEW d \in Deployments, Closed(d), NEW c \in Requests,
           CancelStep(c) \/ \E e \in Deployments : CancelCheck(c, e)
    PROVE  Closed(d)' /\ status'[d] = status[d]
<1> USE DEF TypeInv, Actors
<1>1. /\ request[c] \in EngagedRequests
      /\ \A b \in Requests : request[b].dep = d => request[b].seen = Unread
      /\ handler[d].seen = Unread
  BY DEF Closed, OpenTransaction
<1>2. handler' = handler /\ run' = run
  BY DEF CancelStep, CancelCheck, CancelRead, CancelCommit, CancelAbort
<1>3. status'[d] = status[d]
  <2>1. CASE CancelCommit(c)
    BY <1>1, <2>1 DEF CancelCommit, WriteTransition, Rows
  <2>2. CASE CancelRead(c) \/ CancelAbort(c) \/ \E e \in Deployments : CancelCheck(c, e)
    BY <2>2, Zenon DEF CancelRead, CancelAbort, CancelCheck, dbVars
  <2>3. QED
    BY <2>1, <2>2 DEF CancelStep
<1>4. /\ request'[c].dep = d => request'[c].seen = Unread
      /\ \A b \in Requests \ {c} : request'[b] = request[b]
  <2>1. CASE CancelRead(c)
    <3>1. CASE request[c].dep = d
      <4>1. Decision(status[d], "CANCELLED", InFlight) # "commit"
        BY ClosedIsRefused, ListsOfStatuses
      <4>2. QED
        BY <1>1, <2>1, <3>1, <4>1 DEF CancelRead, EngagedRequests, RequestStates
    <3>2. CASE request[c].dep # d
      BY <1>1, <2>1, <3>2 DEF CancelRead, EngagedRequests, RequestStates
    <3>3. QED
      BY <3>1, <3>2
  <2>2. CASE CancelCommit(c)
    BY <1>1, <2>2 DEF CancelCommit, EngagedRequests, RequestStates
  <2>3. CASE CancelAbort(c)
    BY <1>1, <2>3 DEF CancelAbort, EngagedRequests, RequestStates
  <2>4. ASSUME NEW e \in Deployments, CancelCheck(c, e)
        PROVE  <1>4!1 /\ <1>4!2
    BY <1>1, <2>4 DEF CancelCheck, EngagedRequests, RequestStates
  <2>5. QED
    BY <2>1, <2>2, <2>3, <2>4 DEF CancelStep
<1>5. QED
  BY <1>1, <1>2, <1>3, <1>4, ClosedBy DEF Closed, OpenTransaction

\* What a run's own steps write: a row it has read in this transaction.
RunWrite(r) == PhaseCommit(r) \/ ReadyCommit(r) \/ FailCommit(r) \/ RejectedCommit(r)
RunRead(r) == PhaseRead(r) \/ ReadyRead(r) \/ FailRead(r) \/ RejectedRead(r)
RunMove(r) ==
    \/ ReplayCheck(r) \/ ReplayCheckFails(r) \/ StartHeartbeat(r) \/ PhaseAbort(r)
    \/ LoadEnv(r) \/ LoadEnvFails(r) \/ Clone(r) \/ Build(r)
    \/ UploadFiles(r) \/ UploadManifest(r) \/ UploadRejected(r) \/ UploadFails(r)
    \/ ReadyAbort(r) \/ BindFails(r) \/ BindProduction(r) \/ FailAbort(r) \/ Finally(r)
    \/ RejectedAbort(r) \/ Settle(r) \/ LoseLock(r) \/ Crash(r)

LEMMA RunsTouchNobody ==
    ASSUME NEW r \in Runs, RunWrite(r) \/ RunRead(r) \/ RunMove(r) \/ \E e \in Deployments : Pickup(r, e)
    PROVE  handler' = handler /\ request' = request
BY Zenon DEF RunWrite, RunRead, RunMove, LoseLock, Crash, Pickup, RunOnly, RunAndRow,
       ReplayCheck, ReplayCheckFails, StartHeartbeat, PhaseRead, PhaseCommit,
       PhaseAbort, LoadEnv, LoadEnvFails, Clone, Build, UploadFiles, UploadManifest,
       UploadRejected, UploadFails, ReadyRead, ReadyCommit, ReadyAbort, BindFails, BindProduction,
       FailRead, FailCommit, FailAbort, Finally, RejectedRead, RejectedCommit,
       RejectedAbort, Settle

\* What a step of a run that neither reads for a transaction nor writes does to the runs.
LEMMA MovesAreQuiet ==
    ASSUME TypeInv, NEW r \in Runs, RunMove(r)
    PROVE  /\ status' = status
           /\ \A s \in Runs \ {r} : run'[s] = run[s]
           /\ run'[r].dep \in {run[r].dep, None}
           /\ run'[r].seen \in {run[r].seen, Unread}
<1> USE DEF TypeInv, Actors
<1>1. run[r] \in EngagedRuns
  OBVIOUS
<1>2. CASE \E point : Goto(r, point) \/ \E o : GotoWith(r, point, o)
  <2>1. /\ \A s \in Runs \ {r} : run'[s] = run[s]
        /\ run'[r].dep = run[r].dep
        /\ run'[r].seen = Unread
    BY <1>2, GoesTo
  <2>2. status' = status
    BY <1>1, <1>2 DEF RunMove, ReplayCheck, ReplayCheckFails, StartHeartbeat, PhaseAbort,
         LoadEnv, LoadEnvFails, Clone, Build, UploadFiles, UploadManifest, UploadRejected,
         UploadFails, ReadyAbort, BindFails, BindProduction, FailAbort, Finally, RejectedAbort, Settle,
         LoseLock, Crash, RunOnly, RunAndRow, dbVars
  <2>3. QED
    BY <2>1, <2>2
<1>3. CASE LoadEnv(r)
  BY <1>1, <1>3 DEF LoadEnv, RunOnly, dbVars, EngagedRuns, RunStates
<1>4. CASE Settle(r) \/ Crash(r)
  <2>1. run' = [run EXCEPT ![r] = IdleRun] /\ status' = status
    BY <1>4 DEF Settle, Crash, dbVars
  <2>2. QED
    BY <2>1 DEF IdleRun
<1>5. CASE LoseLock(r)
  BY <1>5 DEF LoseLock, dbVars
<1>6. QED
  BY <1>2, <1>3, <1>4, <1>5
     DEF RunMove, ReplayCheck, ReplayCheckFails, StartHeartbeat, PhaseAbort,
         LoadEnvFails, Clone, Build, UploadFiles, UploadManifest, UploadRejected, UploadError,
         UploadFails, ReadyAbort, BindFails, BindProduction, FailAbort, Finally, RejectedAbort

\* A read of a closed row opens no transaction.
LEMMA ReadsAreRefused ==
    ASSUME TypeInv, NEW d \in Deployments, Closed(d), NEW r \in Runs, RunRead(r)
    PROVE  /\ status' = status
           /\ \A s \in Runs \ {r} : run'[s] = run[s]
           /\ run'[r].dep = run[r].dep
           /\ run[r].dep = d =>
                \/ run[r].pc \in Phases
                      /\ \/ status[d] = "CANCELLED" /\ GotoWith(r, "finally", "ok")
                         \/ status[d] # "CANCELLED" /\ Goto(r, AfterPhase(run[r].pc))
                \/ run[r].pc = "READY" /\ Goto(r, "bind")
                \/ run[r].pc = "FAILED" /\ Goto(r, "finally")
                \/ run[r].pc = "rejected" /\ (Goto(r, "settle") \/ GotoWith(r, "settle", "error"))
<1> USE DEF TypeInv, Actors
<1>1. run[r] \in EngagedRuns
  OBVIOUS
<1>2. status' = status
  BY DEF RunRead, PhaseRead, ReadyRead, FailRead, RejectedRead, RunOnly, dbVars
<1>3. \/ Hold(r)
      \/ \E point : Goto(r, point) \/ \E o : GotoWith(r, point, o)
  BY DEF RunRead, PhaseRead, ReadyRead, FailRead, RejectedRead
<1>4. (\A s \in Runs \ {r} : run'[s] = run[s]) /\ run'[r].dep = run[r].dep
  BY <1>3, GoesTo, HoldsOn
<1>5. ASSUME run[r].dep = d, PhaseRead(r)
      PROVE  \/ status[d] = "CANCELLED" /\ GotoWith(r, "finally", "ok")
             \/ status[d] # "CANCELLED" /\ Goto(r, AfterPhase(run[r].pc))
  <2>1. run[r].pc \in Phases /\ Expected(run[r].pc) \in SUBSET Statuses
    BY <1>5, ListsOfStatuses DEF PhaseRead
  <2>2. Decision(status[d], run[r].pc, Expected(run[r].pc)) # "commit"
    BY <2>1, ClosedIsRefused
  <2>3. status[d] = "CANCELLED" => Decision(status[d], run[r].pc, Expected(run[r].pc)) = "terminal"
    BY <2>1, PointsAre DEF Decision, isTerminalStatus, Terminal
  <2>4. QED
    BY <1>5, <2>2, <2>3 DEF PhaseRead
<1>6. ASSUME run[r].dep = d, ReadyRead(r) PROVE Goto(r, "bind")
  BY <1>6, ClosedIsRefused, ListsOfStatuses DEF ReadyRead
<1>7. ASSUME run[r].dep = d, FailRead(r) PROVE Goto(r, "finally")
  BY <1>7, ClosedIsRefused, ListsOfStatuses DEF FailRead
<1>8. ASSUME run[r].dep = d, RejectedRead(r)
      PROVE  Goto(r, "settle") \/ GotoWith(r, "settle", "error")
  BY <1>8, ClosedIsRefused, ListsOfStatuses DEF RejectedRead
<1>9. QED
  BY <1>2, <1>4, <1>5, <1>6, <1>7, <1>8 DEF RunRead, PhaseRead, ReadyRead, FailRead, RejectedRead

\* A run that writes writes another row.
LEMMA WritesAreElsewhere ==
    ASSUME TypeInv, NEW d \in Deployments, Closed(d), NEW r \in Runs, RunWrite(r)
    PROVE  /\ status'[d] = status[d]
           /\ \A s \in Runs \ {r} : run'[s] = run[s]
           /\ run'[r].dep = run[r].dep
           /\ run[r].dep # d
<1> USE DEF TypeInv, Actors
<1>1. run[r] \in EngagedRuns /\ run[r].seen # Unread /\ run[r].dep # d
  BY DEF RunWrite, PhaseCommit, ReadyCommit, FailCommit, RejectedCommit, Closed, OpenTransaction
<1>2. \E to : WriteTransition(run[r].dep, run[r].seen, to)
  BY DEF RunWrite, PhaseCommit, ReadyCommit, FailCommit, RejectedCommit
<1>3. \E point : Goto(r, point)
  BY DEF RunWrite, PhaseCommit, ReadyCommit, FailCommit, RejectedCommit
<1>4. status'[d] = status[d]
  BY <1>1, <1>2 DEF WriteTransition, Rows
<1>5. (\A s \in Runs \ {r} : run'[s] = run[s]) /\ run'[r].dep = run[r].dep
  BY <1>3, GoesTo
<1>6. QED
  BY <1>1, <1>4, <1>5

LEMMA PickedUp ==
    ASSUME TypeInv, NEW r \in Runs, NEW e \in Deployments, Pickup(r, e)
    PROVE  /\ status' = status
           /\ \A s \in Runs \ {r} : run'[s] = run[s]
           /\ run'[r].pc \in {"replay", "rejected"}
           /\ run'[r].seen = Unread
BY DEF Pickup, IdleRun, dbVars, TypeInv, Actors

\* A run is changed by its own steps only.
LEMMA OwnSteps ==
    ASSUME TypeInv, [Next]_vars, NEW r \in Runs, run'[r] # run[r]
    PROVE  RunWrite(r) \/ RunRead(r) \/ RunMove(r) \/ \E e \in Deployments : Pickup(r, e)
<1>1. ASSUME NEW s \in Runs,
             RunStep(s) \/ LoseLock(s) \/ Crash(s) \/ \E e \in Deployments : Pickup(s, e)
      PROVE  s = r /\ (RunWrite(s) \/ RunRead(s) \/ RunMove(s) \/ \E e \in Deployments : Pickup(s, e))
  <2>1. RunWrite(s) \/ RunRead(s) \/ RunMove(s) \/ \E e \in Deployments : Pickup(s, e)
    BY <1>1 DEF RunStep, RunWrite, RunRead, RunMove
  <2>2. CASE RunWrite(s)
    <3>1. \E point : Goto(s, point)
      BY <2>2 DEF RunWrite, PhaseCommit, ReadyCommit, FailCommit, RejectedCommit
    <3>2. QED
      BY <2>2, <3>1, GoesTo
  <2>3. CASE RunRead(s)
    <3>1. Hold(s) \/ \E point : Goto(s, point) \/ \E o : GotoWith(s, point, o)
      BY <2>3 DEF RunRead, PhaseRead, ReadyRead, FailRead, RejectedRead
    <3>2. QED
      BY <2>3, <3>1, GoesTo, HoldsOn
  <2>4. CASE RunMove(s)
    BY <2>4, MovesAreQuiet
  <2>5. CASE \E e \in Deployments : Pickup(s, e)
    BY <2>5, PickedUp
  <2>6. QED
    BY <2>1, <2>2, <2>3, <2>4, <2>5
<1>2. ASSUME NEW e \in Deployments, CreateStep(e) \/ BullMQStep(e) PROVE run' = run
  BY <1>2 DEF CreateStep, CreateDeployment, Enqueue, EnqueueRejects, EnqueueFailedRead,
              EnqueueFailedCommit, EnqueueFailedAbort, BullMQStep, PromoteDelayed, StalledCheck
<1>3. ASSUME NEW c \in Requests, CancelStep(c) \/ \E e \in Deployments : CancelCheck(c, e)
      PROVE  run' = run
  BY <1>3 DEF CancelStep, CancelCheck, CancelRead, CancelCommit, CancelAbort
<1>4. QED
  BY <1>1, <1>2, <1>3 DEF Next, PipelineNext, Environment, Quiescent, vars

\* Only its creation makes a closed row anything else.
LEMMA ClosedStaysClosed ==
    ASSUME TypeInv, [Next]_vars, NEW d \in Deployments, Closed(d), ~CreateDeployment(d)
    PROVE  Closed(d)' /\ status'[d] = status[d]
<1>1. /\ handler[d].seen = Unread
      /\ \A c \in Requests : request[c].dep = d => request[c].seen = Unread
      /\ \A s \in Runs : run[s].dep = d => run[s].seen = Unread
  BY DEF Closed, OpenTransaction
<1>2. d # None
  BY MarkersAssumption
<1>3. ASSUME NEW r \in Runs, RunStep(r) \/ LoseLock(r) \/ Crash(r) \/ \E e \in Deployments : Pickup(r, e)
      PROVE  Closed(d)' /\ status'[d] = status[d]
  <2>1. RunWrite(r) \/ RunRead(r) \/ RunMove(r) \/ \E e \in Deployments : Pickup(r, e)
    BY <1>3 DEF RunStep, RunWrite, RunRead, RunMove
  <2>2. handler' = handler /\ request' = request
    BY <2>1, RunsTouchNobody
  <2>3. /\ status'[d] = status[d]
        /\ \A s \in Runs \ {r} : run'[s] = run[s]
        /\ run'[r].dep = d => run'[r].seen = Unread
    <3>1. CASE RunWrite(r)
      BY <3>1, WritesAreElsewhere
    <3>2. CASE RunRead(r)
      <4>1. run[r].dep = d => run'[r].seen = Unread
        BY <3>2, ReadsAreRefused, GoesTo
      <4>2. QED
        BY <3>2, <4>1, ReadsAreRefused
    <3>3. CASE RunMove(r)
      BY <1>1, <1>2, <3>3, MovesAreQuiet
    <3>4. CASE \E e \in Deployments : Pickup(r, e)
      BY <3>4, PickedUp
    <3>5. QED
      BY <2>1, <3>1, <3>2, <3>3, <3>4
  <2>4. QED
    BY <1>1, <2>2, <2>3, ClosedBy
<1>4. ASSUME NEW e \in Deployments, BullMQStep(e)
      PROVE  Closed(d)' /\ status'[d] = status[d]
  BY <1>4 DEF BullMQStep, PromoteDelayed, StalledCheck, Closed, OpenTransaction, dbVars
<1>5. CASE UNCHANGED vars
  BY <1>5 DEF vars, dbVars, Closed, OpenTransaction
<1>6. QED
  BY <1>3, <1>4, <1>5, CreateKeepsClosed, CancelKeepsClosed
     DEF Next, PipelineNext, Environment, Quiescent

\* A deployment that was not asked for has no row, and nobody reads for it.
QuietInv == TypeInv /\ \A d \in Deployments : handler[d].pc = "new" => status[d] = "ABSENT" /\ Closed(d)

LEMMA NewWasNew ==
    ASSUME TypeInv, [Next]_vars, NEW d \in Deployments, handler'[d].pc = "new"
    PROVE  handler[d].pc = "new" /\ ~CreateDeployment(d)
<1> USE DEF TypeInv, Actors
<1>1. handler[d] \in EngagedHandlers
  OBVIOUS
<1>2. CASE handler'[d] = handler[d]
  BY <1>1, <1>2 DEF CreateDeployment, EngagedHandlers, HandlerStates
<1>3. CASE CreateStep(d)
  <2>1. CASE CreateDeployment(d)
    BY <1>1, <2>1 DEF CreateDeployment, EngagedHandlers, HandlerStates
  <2>2. CASE Enqueue(d)
    BY <1>1, <2>2 DEF Enqueue, EngagedHandlers, HandlerStates
  <2>3. CASE EnqueueRejects(d)
    BY <1>1, <2>3 DEF EnqueueRejects, EngagedHandlers, HandlerStates
  <2>4. CASE EnqueueFailedRead(d)
    BY <1>1, <2>4 DEF EnqueueFailedRead, EngagedHandlers, HandlerStates
  <2>5. CASE EnqueueFailedCommit(d) \/ EnqueueFailedAbort(d)
    BY <2>5 DEF EnqueueFailedCommit, EnqueueFailedAbort
  <2>6. QED
    BY <1>3, <2>1, <2>2, <2>3, <2>4, <2>5 DEF CreateStep
<1>4. ASSUME NEW e \in Deployments, e # d, CreateStep(e) PROVE handler'[d] = handler[d]
  BY <1>4 DEF CreateStep, CreateDeployment, Enqueue, EnqueueRejects, EnqueueFailedRead,
              EnqueueFailedCommit, EnqueueFailedAbort
<1>5. ASSUME NEW r \in Runs,
             RunStep(r) \/ LoseLock(r) \/ Crash(r) \/ \E e \in Deployments : Pickup(r, e)
      PROVE  handler' = handler
  <2>1. RunWrite(r) \/ RunRead(r) \/ RunMove(r) \/ \E e \in Deployments : Pickup(r, e)
    BY <1>5 DEF RunStep, RunWrite, RunRead, RunMove
  <2>2. QED
    BY <2>1, RunsTouchNobody
<1>6. ASSUME NEW c \in Requests, CancelStep(c) \/ \E e \in Deployments : CancelCheck(c, e)
      PROVE  handler' = handler
  BY <1>6 DEF CancelStep, CancelCheck, CancelRead, CancelCommit, CancelAbort
<1>7. ASSUME NEW e \in Deployments, BullMQStep(e) PROVE handler' = handler
  BY <1>7 DEF BullMQStep, PromoteDelayed, StalledCheck
<1>8. QED
  BY <1>2, <1>3, <1>4, <1>5, <1>6, <1>7 DEF Next, PipelineNext, Environment, Quiescent, vars

LEMMA QuietInvariance == Spec => []QuietInv
<1>1. Init => QuietInv
  <2> SUFFICES ASSUME Init PROVE QuietInv
    OBVIOUS
  <2>1. TypeInv
    BY InitTypeInv
  <2>2. \A d \in Deployments : status[d] = "ABSENT" /\ Closed(d)
    BY DEF Init, IdleRun, Closed, OpenTransaction, InFlight
  <2>3. QED
    BY <2>1, <2>2 DEF QuietInv
<1>2. QuietInv /\ [Next]_vars => QuietInv'
  <2> SUFFICES ASSUME QuietInv, [Next]_vars PROVE QuietInv'
    OBVIOUS
  <2>1. TypeInv'
    BY NextTypes DEF QuietInv
  <2>2. ASSUME NEW d \in Deployments, handler'[d].pc = "new"
        PROVE  status'[d] = "ABSENT" /\ Closed(d)'
    BY <2>2, NewWasNew, ClosedStaysClosed DEF QuietInv
  <2>3. QED
    BY <2>1, <2>2 DEF QuietInv
<1>3. QED
  BY <1>1, <1>2, PTL DEF Spec

\* Where a run of a finished deployment may be.
LEMMA RunsOfTheFinished ==
    ASSUME QuietInv, [Next]_vars, "db" \notin Faults, NEW d \in Deployments, Finished(d),
           NEW r \in Runs, run'[r].dep = d
    PROVE  run'[r].pc \in {"replay", "rejected", "settle"}
<1> USE DEF QuietInv
<1>1. Closed(d) /\ isTerminalStatus(status[d])
  BY StatusesAre DEF Finished, Closed, isTerminalStatus, Terminal, InFlight
<1>2. run[r].dep = d => run[r].pc \in {"replay", "rejected", "settle"} /\ run[r].seen = Unread
  BY DEF Finished, OpenTransaction
<1>3. CASE run'[r] = run[r]
  BY <1>2, <1>3
<1>4. CASE \E e \in Deployments : Pickup(r, e)
  BY <1>4, PickedUp
<1>5. CASE RunWrite(r)
  BY <1>1, <1>5, WritesAreElsewhere
<1>6. CASE RunRead(r)
  <2>1. run[r].dep = d
    BY <1>1, <1>6, ReadsAreRefused
  <2>2. run[r].pc \in {"replay", "rejected", "settle"}
    BY <1>2, <2>1
  <2>3. Goto(r, "settle") \/ GotoWith(r, "settle", "error")
    BY <1>1, <1>6, <2>1, <2>2, PointsAre, ReadsAreRefused
  <2>4. QED
    BY <2>3, GoesTo
<1>7. CASE RunMove(r)
  <2>1. run[r].dep = d
    BY <1>7, MovesAreQuiet, MarkersAssumption
  <2>2. run[r].pc \in {"replay", "rejected", "settle"}
    BY <1>2, <2>1
  <2>3. ReplayCheck(r) \/ Settle(r) \/ LoseLock(r) \/ Crash(r)
    BY <1>7, <2>2, PointsAre
       DEF RunMove, ReplayCheckFails, StartHeartbeat, PhaseAbort, LoadEnv, LoadEnvFails, Clone,
           Build, UploadFiles, UploadManifest, UploadRejected, UploadFails, ReadyAbort, BindFails,
           BindProduction, FailAbort, Finally, RejectedAbort
  <2>4. CASE ReplayCheck(r)
    BY <1>1, <2>1, <2>4, GoesTo DEF ReplayCheck
  <2>5. CASE Settle(r) \/ Crash(r)
    <3>1. run'[r] = IdleRun
      BY <2>5 DEF Settle, Crash, TypeInv, Actors
    <3>2. QED
      BY <3>1, MarkersAssumption DEF IdleRun
  <2>6. CASE LoseLock(r)
    BY <1>2, <2>6 DEF LoseLock
  <2>7. QED
    BY <2>3, <2>4, <2>5, <2>6
<1>8. QED
  BY <1>3, <1>4, <1>5, <1>6, <1>7, OwnSteps

\* A finished deployment stays finished, for any number of runs and requests and
\* any stalls, crashes and failed calls of Queue.add, unless the database fails
\* (the check against a repeated run is then passed).
THEOREM FinishedDeploymentsRest ==
    ASSUME "db" \notin Faults
    PROVE  Spec => FinishedStaysFinished
<1>1. ASSUME QuietInv, [Next]_vars, NEW d \in Deployments, Finished(d)
      PROVE  Finished(d)' /\ status'[d] = status[d]
  <2>1. Closed(d) /\ isTerminalStatus(status[d])
    BY <1>1, StatusesAre DEF Finished, Closed, isTerminalStatus, Terminal, InFlight
  <2>2. ~CreateDeployment(d)
    BY <1>1, <2>1 DEF QuietInv, CreateDeployment, isTerminalStatus, Terminal
  <2>3. Closed(d)' /\ status'[d] = status[d]
    BY <1>1, <2>1, <2>2, ClosedStaysClosed DEF QuietInv
  <2>4. \A r \in Runs : run'[r].dep = d => run'[r].pc \in {"replay", "rejected", "settle"}
    BY <1>1, RunsOfTheFinished
  <2>5. QED
    BY <2>1, <2>3, <2>4 DEF Finished, Closed, isTerminalStatus
<1>2. QuietInv /\ [Next]_vars =>
          [\A d \in Deployments : Finished(d) => Finished(d)' /\ status'[d] = status[d]]_vars
  BY <1>1
<1>3. QED
  BY <1>2, QuietInvariance, PTL DEF Spec, FinishedStaysFinished

\* The phases whose work follows the commit of their status.
LEMMA PhasesOfWork ==
    ASSUME TypeInv, [Next]_vars, "db" \notin Faults, NEW d \in Deployments,
           status[d] = "CANCELLED", Closed(d), NEW r \in Runs, run'[r].dep = d,
           run'[r].pc \in {"clone", "build", "upload"}
    PROVE  run'[r].pc = run[r].pc
<1>1. CASE run'[r] = run[r]
  BY <1>1
<1>2. CASE \E e \in Deployments : Pickup(r, e)
  BY <1>2, PickedUp
<1>3. CASE RunWrite(r)
  BY <1>3, WritesAreElsewhere
<1>4. CASE RunRead(r)
  <2>1. run[r].dep = d
    BY <1>4, ReadsAreRefused
  <2>2. run'[r].pc \in {"finally", "bind", "settle"}
    BY <1>4, <2>1, ReadsAreRefused, GoesTo
  <2>3. QED
    BY <2>2
<1>5. CASE RunMove(r)
  <2>1. CASE \E point \in {"settle", "heartbeat", "INITIALIZING", "CLONING", "BUILDING", "FAILED",
                           "UPLOADING", "manifest", "DEPLOYING", "finally", "rejected"} :
               Goto(r, point) \/ \E o : GotoWith(r, point, o)
    BY <2>1, GoesTo
  <2>2. CASE LoadEnv(r)
    BY <2>2 DEF LoadEnv, TypeInv, Actors, EngagedRuns, RunStates
  <2>3. CASE Settle(r) \/ Crash(r)
    <3>1. run'[r] = IdleRun
      BY <2>3 DEF Settle, Crash, TypeInv, Actors
    <3>2. QED
      BY <3>1, MarkersAssumption DEF IdleRun
  <2>4. CASE LoseLock(r)
    BY <2>4 DEF LoseLock
  <2>5. QED
    BY <1>5, <2>1, <2>2, <2>3, <2>4
       DEF RunMove, ReplayCheck, ReplayCheckFails, StartHeartbeat, PhaseAbort, LoadEnvFails, Clone,
           Build, UploadFiles, UploadManifest, UploadRejected, UploadFails, UploadError, ReadyAbort, BindFails,
           BindProduction, FailAbort, Finally, RejectedAbort
<1>6. QED
  BY <1>1, <1>2, <1>3, <1>4, <1>5, OwnSteps

\* Once a cancellation stands and no transaction is open, it is final and no run
\* begins another phase, unless the database fails (an exception of a phase's
\* transition is swallowed and the phase is begun).
THEOREM CancellationsHold ==
    ASSUME "db" \notin Faults
    PROVE  Spec => CancellationIsFinal
<1>1. ASSUME QuietInv, [Next]_vars, NEW d \in Deployments, status[d] = "CANCELLED", ~OpenTransaction(d)
      PROVE  /\ status'[d] = "CANCELLED"
             /\ \A r \in Runs : run'[r].dep = d /\ run'[r].pc \in {"clone", "build", "upload"} =>
                   run'[r].pc = run[r].pc
  <2>1. Closed(d)
    BY <1>1 DEF Closed, InFlight
  <2>2. ~CreateDeployment(d)
    BY <1>1 DEF QuietInv, CreateDeployment
  <2>3. QED
    BY <1>1, <2>1, <2>2, ClosedStaysClosed, PhasesOfWork DEF QuietInv
<1>2. QuietInv /\ [Next]_vars =>
          [\A d \in Deployments : status[d] = "CANCELLED" /\ ~OpenTransaction(d) =>
              /\ status'[d] = "CANCELLED"
              /\ \A r \in Runs : run'[r].dep = d /\ run'[r].pc \in {"clone", "build", "upload"} =>
                    run'[r].pc = run[r].pc]_vars
  BY <1>1
<1>3. QED
  BY <1>2, QuietInvariance, PTL DEF Spec, CancellationIsFinal

-------------------------------------------------------------------------------
(***************************************************************************)
(* One run at a time.  Without stalls a job that is active is held by the  *)
(* one run that is at work on its deployment.                              *)
(***************************************************************************)
HeldInv ==
    /\ \A r \in Runs : run[r].pc # "idle" => /\ job[run[r].dep].state = "active"
                                             /\ job[run[r].dep].holder = r
    /\ \A d \in Deployments : handler[d].pc \in {"new", "enqueue"} => job[d].state = "none"

LEMMA RunGoesOn ==
    ASSUME TypeInv, NEW r \in Runs, RunStep(r), ~Settle(r)
    PROVE  /\ run[r].pc # "idle"
           /\ UNCHANGED <<job, handler>>
           /\ \A s \in Runs \ {r} : run'[s] = run[s]
           /\ run'[r].dep = run[r].dep
<1>1. CASE RunWrite(r)
  <2>1. /\ run[r].pc \in Writing /\ UNCHANGED <<job, handler, heartbeat>>
        /\ \E point : Goto(r, point) /\ (run[r].pc = "rejected" => point = "settle")
    BY <1>1, PointsAre
       DEF RunWrite, PhaseCommit, ReadyCommit, FailCommit, RejectedCommit, RunAndRow, Writing
  <2>2. QED
    BY <2>1, PointsAre, GoesTo DEF Writing, TimerOn
<1>2. CASE RunRead(r)
  <2>1. /\ run[r].pc \in Writing /\ UNCHANGED <<job, handler, heartbeat>>
        /\ \/ Hold(r)
           \/ \E point : /\ Goto(r, point) \/ \E o : GotoWith(r, point, o)
                         /\ run[r].pc = "rejected" => point = "settle"
    BY <1>2, PointsAre
       DEF RunRead, PhaseRead, ReadyRead, FailRead, RejectedRead, RunOnly, Writing
  <2>2. QED
    BY <2>1, PointsAre, GoesTo, HoldsOn DEF Writing, TimerOn
<1>3. CASE ReplayCheck(r) \/ ReplayCheckFails(r)
  <2>1. /\ run[r].pc = "replay" /\ UNCHANGED <<job, handler, heartbeat>>
        /\ \E point \in {"settle", "heartbeat"} : Goto(r, point)
    BY <1>3 DEF ReplayCheck, ReplayCheckFails, RunOnly
  <2>2. QED
    BY <2>1, GoesTo DEF TimerOn
<1>4. CASE StartHeartbeat(r)
  BY <1>4, GoesTo DEF StartHeartbeat
<1>5. CASE Finally(r)
  <2>1. /\ run[r].pc = "finally" /\ UNCHANGED <<job, handler>>
        /\ heartbeat' = [heartbeat EXCEPT ![run[r].dep] = FALSE]
        /\ \E point \in {"settle", "rejected"} : Goto(r, point)
    BY <1>5 DEF Finally
  <2>2. QED
    BY <2>1, GoesTo DEF TimerOn
<1>6. CASE RejectedAbort(r)
  BY <1>6, GoesTo DEF RejectedAbort, RunOnly, TimerOn
<1>7. CASE LoadEnv(r)
  BY <1>7 DEF LoadEnv, RunOnly, TimerOn, TypeInv, Actors, EngagedRuns, RunStates
<1>8. CASE \/ PhaseAbort(r) \/ LoadEnvFails(r) \/ Clone(r) \/ Build(r)
           \/ UploadFiles(r) \/ UploadManifest(r) \/ UploadRejected(r) \/ UploadFails(r)
           \/ ReadyAbort(r) \/ BindFails(r) \/ BindProduction(r) \/ FailAbort(r)
  <2>1. /\ run[r].pc \notin {"idle", "replay", "heartbeat", "rejected", "settle"}
        /\ UNCHANGED <<job, handler, heartbeat>>
        /\ \E point : Goto(r, point) \/ \E o : GotoWith(r, point, o)
    BY <1>8, PointsAre
       DEF PhaseAbort, LoadEnvFails, Clone, Build, UploadFiles, UploadManifest, UploadRejected,
           UploadFails, UploadError, ReadyAbort, BindFails, BindProduction, FailAbort, RunOnly, RunAndRow
  <2>2. QED
    BY <2>1, GoesTo DEF TimerOn
<1>9. QED
  BY <1>1, <1>2, <1>3, <1>4, <1>5, <1>6, <1>7, <1>8 DEF RunStep, RunWrite, RunRead

\* Whose step a job's state and its handler's place change by.
LEMMA NextHeld ==
    ASSUME TypeInv, HeldInv, [Next]_vars, "stall" \notin Faults
    PROVE  HeldInv'
<1> USE DEF TypeInv, Stores, Actors
<1>1. ASSUME NEW r \in Runs PROVE run[r] \in EngagedRuns /\ (run[r].pc # "idle" => run[r].dep \in Deployments)
  BY DEF EngagedRuns
<1>2. ASSUME NEW d \in Deployments
      PROVE  handler[d] \in EngagedHandlers /\ job[d] \in Jobs
  OBVIOUS
<1>3. ASSUME NEW d \in Deployments, CreateStep(d) PROVE HeldInv'
  <2>1. run' = run /\ \A e \in Deployments \ {d} : job'[e] = job[e] /\ handler'[e] = handler[e]
    BY <1>3 DEF CreateStep, CreateDeployment, Enqueue, EnqueueRejects, EnqueueFailedRead,
                EnqueueFailedCommit, EnqueueFailedAbort
  <2>2. CASE CreateDeployment(d)
    BY <1>2, <2>1, <2>2 DEF CreateDeployment, HeldInv, EngagedHandlers, HandlerStates
  <2>3. CASE Enqueue(d) \/ EnqueueRejects(d)
    <3>1. job[d].state = "none"
      BY <2>3 DEF Enqueue, EnqueueRejects, HeldInv
    <3>2. \A r \in Runs : run[r].pc # "idle" => run[r].dep \in Deployments \ {d}
      BY <1>1, <3>1 DEF HeldInv
    <3>3. handler'[d].pc \notin {"new", "enqueue"}
      <4>1. CASE Enqueue(d)
        BY <1>2, <4>1 DEF Enqueue, EngagedHandlers, HandlerStates
      <4>2. CASE EnqueueRejects(d)
        BY <1>2, <4>2 DEF EnqueueRejects, EngagedHandlers, HandlerStates
      <4>3. QED
        BY <2>3, <4>1, <4>2
    <3>4. QED
      BY <2>1, <3>2, <3>3 DEF HeldInv
  <2>4. CASE EnqueueFailedRead(d) \/ EnqueueFailedCommit(d) \/ EnqueueFailedAbort(d)
    <3>1. job' = job
      BY <2>4 DEF EnqueueFailedRead, EnqueueFailedCommit, EnqueueFailedAbort
    <3>2. handler'[d].pc \notin {"new", "enqueue"}
      <4>1. CASE EnqueueFailedRead(d)
        BY <1>2, <4>1 DEF EnqueueFailedRead, EngagedHandlers, HandlerStates
      <4>2. CASE EnqueueFailedCommit(d) \/ EnqueueFailedAbort(d)
        BY <4>2 DEF EnqueueFailedCommit, EnqueueFailedAbort
      <4>3. QED
        BY <2>4, <4>1, <4>2
    <3>3. QED
      BY <2>1, <3>1, <3>2 DEF HeldInv
  <2>5. QED
    BY <1>3, <2>2, <2>3, <2>4 DEF CreateStep
<1>4. ASSUME NEW c \in Requests, CancelStep(c) \/ \E e \in Deployments : CancelCheck(c, e)
      PROVE  HeldInv'
  BY <1>4, Zenon DEF CancelStep, CancelCheck, CancelRead, CancelCommit, CancelAbort, HeldInv
<1>5. ASSUME NEW d \in Deployments, BullMQStep(d) PROVE HeldInv'
  <2>1. run' = run /\ handler' = handler /\ \A e \in Deployments \ {d} : job'[e] = job[e]
    BY <1>5 DEF BullMQStep, PromoteDelayed, StalledCheck
  <2>2. job[d].state = "delayed" \/ (job[d].state = "active" /\ job[d].holder = None)
    BY <1>5 DEF BullMQStep, PromoteDelayed, StalledCheck
  <2>3. \A r \in Runs : run[r].pc # "idle" => run[r].dep \in Deployments \ {d}
    BY <1>1, <2>2, MarkersAssumption DEF HeldInv
  <2>4. handler[d].pc \notin {"new", "enqueue"}
    BY <2>2 DEF HeldInv
  <2>5. QED
    BY <2>1, <2>3, <2>4 DEF HeldInv
<1>6. ASSUME NEW r \in Runs, NEW d \in Deployments, Pickup(r, d) PROVE HeldInv'
  <2>1. /\ handler' = handler
        /\ job'[d].state = "active" /\ job'[d].holder = r
        /\ \A e \in Deployments \ {d} : job'[e] = job[e]
    BY <1>2, <1>6 DEF Pickup, Jobs
  <2>2. run'[r].dep = d /\ \A s \in Runs \ {r} : run'[s] = run[s]
    BY <1>6 DEF Pickup, IdleRun
  <2>3. \A s \in Runs : run[s].pc # "idle" => run[s].dep \in Deployments \ {d}
    BY <1>1, <1>6 DEF Pickup, HeldInv
  <2>4. handler[d].pc \notin {"new", "enqueue"}
    BY <1>6 DEF Pickup, HeldInv
  <2>5. QED
    BY <2>1, <2>2, <2>3, <2>4 DEF HeldInv
<1>7. ASSUME NEW r \in Runs, Settle(r) \/ Crash(r) PROVE HeldInv'
  <2>1. run[r].pc # "idle" /\ handler' = handler /\ run' = [run EXCEPT ![r] = IdleRun]
    BY <1>7 DEF Settle, Crash
  <2>2. \A e \in Deployments \ {run[r].dep} : job'[e] = job[e]
    BY <1>7 DEF Settle, Crash
  <2>3. \A s \in Runs \ {r} : run[s].pc # "idle" => run[s].dep \in Deployments \ {run[r].dep}
    BY <1>1, <2>1 DEF HeldInv
  <2>4. run[r].dep \in Deployments /\ handler[run[r].dep].pc \notin {"new", "enqueue"}
    BY <1>1, <2>1 DEF HeldInv
  <2>5. QED
    BY <2>1, <2>2, <2>3, <2>4 DEF HeldInv, IdleRun
<1>8. ASSUME NEW r \in Runs, RunStep(r), ~Settle(r) PROVE HeldInv'
  BY <1>8, RunGoesOn DEF HeldInv
<1>9. ASSUME NEW r \in Runs, LoseLock(r) PROVE FALSE
  BY <1>9 DEF LoseLock
<1>10. CASE UNCHANGED vars
  BY <1>10 DEF vars, HeldInv
<1>11. QED
  BY <1>3, <1>4, <1>5, <1>6, <1>7, <1>8, <1>9, <1>10 DEF Next, PipelineNext, Environment, Quiescent

-------------------------------------------------------------------------------
(***************************************************************************)
(* The promised lifecycle.  The one run of a deployment is the only one    *)
(* who writes its row, so every transaction still finds the row it         *)
(* decided on.  A second attempt begins at the first phase again: its      *)
(* phases are refused, without an end of the run, until it comes to where  *)
(* the attempt before it was.  So the status may be ahead of the run but   *)
(* never behind it, and is DEPLOYING when the run comes to READY.          *)
(***************************************************************************)
\* The statuses the deployment of a run may have when the run is at pc.
Reached(pc) ==
    CASE pc \in {"heartbeat", "INITIALIZING"}         -> InFlight
      [] pc \in {"loadEnv", "CLONING"}                -> InFlight \ {"QUEUED"}
      [] pc \in {"clone", "BUILDING"}                 -> InFlight \ {"QUEUED", "INITIALIZING"}
      [] pc \in {"build", "UPLOADING"}                -> {"BUILDING", "UPLOADING", "DEPLOYING"}
      [] pc \in {"upload", "manifest", "DEPLOYING"}   -> {"UPLOADING", "DEPLOYING"}
      [] pc = "READY"                                 -> {"DEPLOYING"}
      [] pc = "bind"                                  -> {"READY"}
      [] OTHER                                        -> Statuses

\* Nobody writes the row while the run that holds its job is at work: what the run
\* has read is what is there, and at least what the run's own phases have written.
OnlyWriter ==
    /\ \A d \in Deployments : /\ handler[d].pc # "enqueueFailed"
                              /\ handler[d].pc # "new" => status[d] \in Statuses
    /\ \A r \in Runs : /\ run[r].pc # "idle" => status[run[r].dep] \in Reached(run[r].pc)
                       /\ run[r].seen # Unread => run[r].seen = status[run[r].dep]

\* What a step does to the row of d, seen from the promised lifecycle.
Advances(d) ==
    \/ UNCHANGED <<status, current>>
    \/ /\ UNCHANGED status
       /\ status[d] = "READY" /\ current' = d
    \/ \E to \in Statuses :
          /\ status[d] \in InFlight /\ isValidTransition(status[d], to)
          /\ status' = [status EXCEPT ![d] = to]
          /\ current' = IF to = "READY" THEN d ELSE current

LEMMA TablesAgree ==
    Lifecycle!ALLOWED_STATE_TRANSITIONS = ALLOWED_STATE_TRANSITIONS /\ Lifecycle!Statuses = Statuses
BY DEF Lifecycle!ALLOWED_STATE_TRANSITIONS, ALLOWED_STATE_TRANSITIONS, Lifecycle!Statuses, Statuses

LEMMA AdvancesIsPromised ==
    ASSUME TypeInv, NEW d \in Deployments, Advances(d)
    PROVE  [Lifecycle!Next]_(Lifecycle!vars)
<1>1. CASE UNCHANGED <<status, current>>
  BY <1>1 DEF Lifecycle!vars
<1>2. CASE UNCHANGED status /\ status[d] = "READY" /\ current' = d
  BY <1>2 DEF Lifecycle!Next, Lifecycle!Serve
<1>3. ASSUME NEW to \in Statuses, status[d] \in InFlight, isValidTransition(status[d], to),
             status' = [status EXCEPT ![d] = to], current' = IF to = "READY" THEN d ELSE current
      PROVE  [Lifecycle!Next]_(Lifecycle!vars)
  <2>1. CASE to = status[d]
    <3>1. status' = status /\ to # "READY"
      BY <1>3, <2>1 DEF TypeInv, Rows, InFlight
    <3>2. QED
      BY <1>3, <3>1 DEF Lifecycle!vars
  <2>2. CASE to \in ALLOWED_STATE_TRANSITIONS[status[d]]
    <3>1. status[d] \in Statuses
      BY <1>3, StatusesAre DEF InFlight
    <3>2. Lifecycle!Move(d, to)
      BY <1>3, <2>2, <3>1, TablesAgree DEF Lifecycle!Move
    <3>3. QED
      BY <3>2, TablesAgree DEF Lifecycle!Next
  <2>3. QED
    BY <1>3, <2>1, <2>2 DEF isValidTransition
<1>4. QED
  BY <1>1, <1>2, <1>3 DEF Advances

\* The two statuses a phase accepts.
LEMMA ExpectedIs ==
    /\ Expected("INITIALIZING") = {"INITIALIZING", "QUEUED"}
    /\ Expected("CLONING") = {"CLONING", "INITIALIZING"}
    /\ Expected("BUILDING") = {"BUILDING", "CLONING"}
    /\ Expected("UPLOADING") = {"UPLOADING", "BUILDING"}
    /\ Expected("DEPLOYING") = {"DEPLOYING", "UPLOADING"}
<1>1. ASSUME NEW phase, NEW p,
             \A s : s \in InFlight /\ s # phase /\ phase \in ALLOWED_STATE_TRANSITIONS[s] <=> s = p
      PROVE  Expected(phase) = {phase, p}
  BY <1>1 DEF Expected
<1> USE DEF InFlight, ALLOWED_STATE_TRANSITIONS
<1>2. \A s : s \in InFlight /\ s # "INITIALIZING" /\ "INITIALIZING" \in ALLOWED_STATE_TRANSITIONS[s]
            <=> s = "QUEUED"
  OBVIOUS
<1>3. \A s : s \in InFlight /\ s # "CLONING" /\ "CLONING" \in ALLOWED_STATE_TRANSITIONS[s]
            <=> s = "INITIALIZING"
  OBVIOUS
<1>4. \A s : s \in InFlight /\ s # "BUILDING" /\ "BUILDING" \in ALLOWED_STATE_TRANSITIONS[s]
            <=> s = "CLONING"
  OBVIOUS
<1>5. \A s : s \in InFlight /\ s # "UPLOADING" /\ "UPLOADING" \in ALLOWED_STATE_TRANSITIONS[s]
            <=> s = "BUILDING"
  OBVIOUS
<1>6. \A s : s \in InFlight /\ s # "DEPLOYING" /\ "DEPLOYING" \in ALLOWED_STATE_TRANSITIONS[s]
            <=> s = "UPLOADING"
  OBVIOUS
<1> HIDE DEF InFlight, ALLOWED_STATE_TRANSITIONS
<1>7. QED
  BY <1>1, <1>2, <1>3, <1>4, <1>5, <1>6

\* Whichever way a phase ends, the status is the phase's or a later one.
LEMMA PhasesPass ==
    ASSUME NEW phase \in Phases
    PROVE  /\ phase \in Reached(AfterPhase(phase))
           /\ Reached(phase) \subseteq InFlight
           /\ \A s \in Reached(phase) :
                 Decision(s, phase, Expected(phase)) # "commit" => s \in Reached(AfterPhase(phase))
<1> USE ExpectedIs DEF Reached, AfterPhase, InFlight, Decision, isTerminalStatus, Terminal,
                       isValidTransition, ALLOWED_STATE_TRANSITIONS
<1>1. CASE phase = "INITIALIZING"
  BY <1>1
<1>2. CASE phase = "CLONING"
  BY <1>2
<1>3. CASE phase = "BUILDING"
  BY <1>3
<1>4. CASE phase = "UPLOADING"
  BY <1>4
<1>5. CASE phase = "DEPLOYING"
  BY <1>5
<1>6. QED
  BY <1>1, <1>2, <1>3, <1>4, <1>5 DEF Phases

LEMMA ReachedIs ==
    /\ \A pc : Reached(pc) \subseteq Statuses
    /\ \A pc : pc \in {"replay", "FAILED", "finally", "rejected", "settle"} => Reached(pc) = Statuses
    /\ Reached("heartbeat") = InFlight /\ Reached("INITIALIZING") = InFlight
    /\ Reached("loadEnv") = Reached("CLONING")
    /\ Reached("clone") = Reached("BUILDING")
    /\ Reached("build") = Reached("UPLOADING")
    /\ Reached("upload") = Reached("manifest") /\ Reached("upload") = Reached("DEPLOYING")
    /\ Reached("READY") = {"DEPLOYING"} /\ Reached("bind") = {"READY"}
BY StatusesAre DEF Reached, InFlight

\* What a step of run r makes of the row of its deployment and of the run.
KeepsUp(r) ==
    /\ Advances(run[r].dep)
    /\ run'[r].dep = run[r].dep
    /\ status'[run[r].dep] \in Reached(run'[r].pc)
    /\ run'[r].seen # Unread => run'[r].seen = status'[run[r].dep]

\* A step that leaves the row alone and goes on.
LEMMA MovesOn ==
    ASSUME TypeInv, NEW r \in Runs, status' = status,
           Advances(run[r].dep),
           NEW point, Goto(r, point) \/ \E o : GotoWith(r, point, o),
           status[run[r].dep] \in Reached(point)
    PROVE  KeepsUp(r)
BY GoesTo DEF KeepsUp

LEMMA HoldKeepsUp ==
    ASSUME TypeInv, NEW r \in Runs, Hold(r), UNCHANGED <<status, current>>,
           status[run[r].dep] \in Reached(run[r].pc)
    PROVE  KeepsUp(r)
<1>1. run'[r].seen = status[run[r].dep]
  BY DEF Hold, TypeInv, Actors, EngagedRuns, RunStates
<1>2. QED
  BY <1>1, HoldsOn DEF KeepsUp, Advances

LEMMA WritesKeepUp ==
    ASSUME HistoryInv, OnlyWriter, NEW r \in Runs, RunWrite(r)
    PROVE  KeepsUp(r)
<1>1. TypeInv /\ run[r].seen # Unread /\ run[r].pc \in Writing
  BY PointsAre DEF HistoryInv, RunWrite, PhaseCommit, ReadyCommit, FailCommit, RejectedCommit, Writing
<1>2. PICK d \in Deployments : d = run[r].dep
  BY <1>1 DEF TypeInv, Actors, EngagedRuns, Writing, Phases
<1>3. PICK to : to = Target(run[r].pc)
  OBVIOUS
<1>4. /\ status[d] \in InFlight /\ isValidTransition(status[d], to)
  BY <1>1, <1>2, <1>3 DEF OnlyWriter, HistoryInv, OpenInv, Sound
<1>5. WriteTransition(d, run[r].seen, to)
  BY <1>2, <1>3, PointsAre DEF RunWrite, PhaseCommit, ReadyCommit, FailCommit, RejectedCommit, Target
<1>6. to \in Statuses
  BY <1>1, <1>3, StatusesAre, PointsAre DEF Target, Writing
<1>7. Advances(d)
  BY <1>4, <1>5, <1>6 DEF Advances, WriteTransition
<1>8. status'[d] = to
  BY <1>1, <1>2, <1>5 DEF WriteTransition, TypeInv, Rows
<1>9. PICK point : Goto(r, point) /\ to \in Reached(point)
  <2>1. CASE PhaseCommit(r)
    <3>1. run[r].pc \in Phases /\ to = run[r].pc
      BY <1>3, <2>1, PointsAre DEF PhaseCommit, Target
    <3>2. QED
      BY <2>1, <3>1, PhasesPass DEF PhaseCommit
  <2>2. CASE ReadyCommit(r)
    BY <1>3, <2>2, ReachedIs DEF ReadyCommit, Target
  <2>3. CASE FailCommit(r) \/ RejectedCommit(r)
    BY <1>6, <2>3, ReachedIs DEF FailCommit, RejectedCommit
  <2>4. QED
    BY <2>1, <2>2, <2>3 DEF RunWrite
<1>10. QED
  BY <1>1, <1>2, <1>7, <1>8, <1>9, GoesTo DEF KeepsUp

LEMMA ReadsKeepUp ==
    ASSUME TypeInv, OnlyWriter, NEW r \in Runs, RunRead(r)
    PROVE  KeepsUp(r)
<1>1. UNCHANGED <<status, current>> /\ run[r].pc \in Writing
  BY PointsAre DEF RunRead, PhaseRead, ReadyRead, FailRead, RejectedRead, RunOnly, dbVars, Writing
<1>2. status[run[r].dep] \in Reached(run[r].pc)
  BY <1>1, PointsAre DEF OnlyWriter, Writing
<1>3. Advances(run[r].dep)
  BY <1>1 DEF Advances
<1>4. CASE Hold(r)
  BY <1>1, <1>2, <1>4, HoldKeepsUp
<1>5. CASE PhaseRead(r) /\ ~Hold(r)
  <2>1. run[r].pc \in Phases /\ Decision(status[run[r].dep], run[r].pc, Expected(run[r].pc)) # "commit"
    BY <1>5 DEF PhaseRead
  <2>2. status[run[r].dep] \in Reached(AfterPhase(run[r].pc))
    BY <1>2, <2>1, PhasesPass
  <2>3. status[run[r].dep] # "CANCELLED"
    BY <1>2, <2>1, PhasesPass DEF InFlight
  <2>4. Goto(r, AfterPhase(run[r].pc))
    BY <1>5, <2>1, <2>3 DEF PhaseRead
  <2>5. QED
    BY <1>1, <1>3, <2>2, <2>4, MovesOn
<1>6. CASE ReadyRead(r)
  <2>1. status[run[r].dep] = "DEPLOYING"
    BY <1>2, <1>6, ReachedIs DEF ReadyRead
  <2>2. Decision("DEPLOYING", "READY", {"DEPLOYING", "READY"}) = "commit"
    BY DEF Decision, isTerminalStatus, Terminal, isValidTransition, ALLOWED_STATE_TRANSITIONS
  <2>3. Hold(r)
    BY <1>6, <2>1, <2>2 DEF ReadyRead
  <2>4. QED
    BY <1>4, <2>3
<1>7. CASE (FailRead(r) \/ RejectedRead(r)) /\ ~Hold(r)
  <2>1. \E point \in {"finally", "settle"} : Goto(r, point) \/ \E o : GotoWith(r, point, o)
    BY <1>7 DEF FailRead, RejectedRead
  <2>2. status[run[r].dep] \in Reached("finally") /\ status[run[r].dep] \in Reached("settle")
    BY <1>2, ReachedIs
  <2>3. QED
    BY <1>1, <1>3, <2>1, <2>2, MovesOn
<1>8. QED
  BY <1>4, <1>5, <1>6, <1>7 DEF RunRead

LEMMA OtherStepsKeepUp ==
    ASSUME TypeInv, OnlyWriter, NEW r \in Runs, RunStep(r), "db" \notin Faults,
           ~RunWrite(r), ~RunRead(r), ~Settle(r)
    PROVE  KeepsUp(r)
<1>1. status' = status /\ run[r].pc # "idle"
  <2>1. RunMove(r)
    BY DEF RunStep, RunWrite, RunRead, RunMove
  <2>2. QED
    BY <2>1, MovesAreQuiet, RunGoesOn
<1>2. PICK s : s = status[run[r].dep]
  OBVIOUS
<1>3. s \in Reached(run[r].pc)
  BY <1>1, <1>2 DEF OnlyWriter
<1>4. CASE BindProduction(r)
  <2>1. s = "READY"
    BY <1>3, <1>4, ReachedIs DEF BindProduction
  <2>2. Advances(run[r].dep)
    BY <1>1, <1>2, <1>4, <2>1 DEF BindProduction, Advances
  <2>3. s \in Reached("finally")
    BY <1>3, ReachedIs
  <2>4. QED
    BY <1>1, <1>2, <1>4, <2>2, <2>3, MovesOn DEF BindProduction
<1>5. ASSUME ~BindProduction(r) PROVE UNCHANGED <<status, current>> /\ Advances(run[r].dep)
  BY <1>1, <1>5 DEF RunStep, RunWrite, RunRead, ReplayCheck, ReplayCheckFails, StartHeartbeat,
         PhaseAbort, LoadEnv, LoadEnvFails, Clone, Build, UploadFiles, UploadManifest, UploadRejected,
         UploadFails, ReadyAbort, BindFails, FailAbort, Finally, RejectedAbort, RunOnly, dbVars, Advances
<1>6. CASE LoadEnv(r)
  <2>1. /\ run'[r].pc = "CLONING" /\ run'[r].dep = run[r].dep
        /\ run'[r].seen = run[r].seen /\ run[r].seen = Unread
    BY <1>6, PointsAre DEF LoadEnv, TypeInv, Actors, EngagedRuns, RunStates, Writing
  <2>2. s \in Reached("CLONING")
    BY <1>3, <1>6, ReachedIs DEF LoadEnv
  <2>3. ~BindProduction(r)
    BY <1>6 DEF LoadEnv, BindProduction
  <2>4. QED
    BY <1>1, <1>2, <1>5, <2>1, <2>2, <2>3 DEF KeepsUp
<1>7. CASE \E point : /\ Goto(r, point) \/ \E o : GotoWith(r, point, o)
                      /\ s \in Reached(point)
  BY <1>1, <1>2, <1>4, <1>5, <1>7, MovesOn
<1>8. CASE ReplayCheck(r)
  <2>1. s \in Statuses
    BY <1>3, ReachedIs
  <2>2. ~isTerminalStatus(s) => s \in InFlight
    BY <2>1, StatusesAre DEF isTerminalStatus, Terminal, InFlight
  <2>3. QED
    BY <1>2, <1>7, <1>8, <2>1, <2>2, ReachedIs DEF ReplayCheck
<1>9. CASE StartHeartbeat(r)
  BY <1>3, <1>7, <1>9, ReachedIs DEF StartHeartbeat
<1>10. CASE Clone(r) \/ Build(r)
  BY <1>3, <1>7, <1>10, ReachedIs DEF Clone, Build
<1>11. CASE UploadFiles(r) \/ UploadManifest(r) \/ UploadRejected(r) \/ UploadFails(r)
  BY <1>3, <1>7, <1>11, ReachedIs DEF UploadFiles, UploadManifest, UploadRejected, UploadFails, UploadError
<1>12. CASE Finally(r)
  BY <1>3, <1>7, <1>12, ReachedIs DEF Finally
<1>13. QED
  BY <1>4, <1>6, <1>8, <1>9, <1>10, <1>11, <1>12
     DEF RunStep, RunWrite, RunRead, ReplayCheckFails, PhaseAbort, LoadEnvFails, ReadyAbort, BindFails,
         FailAbort, RejectedAbort

LifecycleInv == HistoryInv /\ QuietInv /\ HeldInv /\ OnlyWriter

\* A step of somebody who is at work on the deployment of run r, and on no other run's.
LEMMA RunsStepAlone ==
    ASSUME LifecycleInv, NEW r \in Runs, KeepsUp(r), run[r].pc # "idle", handler' = handler,
           \A s \in Runs \ {r} : run'[s] = run[s]
    PROVE  OnlyWriter'
<1>1. TypeInv /\ run[r].dep \in Deployments
  BY DEF LifecycleInv, HistoryInv, TypeInv, Actors, EngagedRuns
<1>2. ASSUME NEW s \in Runs \ {r}, run[s].pc # "idle" PROVE run[s].dep \in Deployments \ {run[r].dep}
  BY <1>1, <1>2 DEF LifecycleInv, HeldInv, TypeInv, Actors, EngagedRuns
<1>3. ASSUME NEW d \in Deployments \ {run[r].dep} PROVE status'[d] = status[d]
  BY <1>1, <1>3 DEF KeepsUp, Advances, TypeInv, Rows
<1>4. status'[run[r].dep] \in Statuses
  BY ReachedIs DEF KeepsUp
<1>5. \A s \in Runs : run[s].seen # Unread => run[s].pc # "idle"
  BY <1>1 DEF TypeInv, Actors, EngagedRuns, Writing, Phases
<1>6. \A d \in Deployments : /\ handler'[d].pc # "enqueueFailed"
                             /\ handler'[d].pc # "new" => status'[d] \in Statuses
  BY <1>3, <1>4 DEF LifecycleInv, OnlyWriter
<1>7. ASSUME NEW s \in Runs
      PROVE  /\ run'[s].pc # "idle" => status'[run'[s].dep] \in Reached(run'[s].pc)
             /\ run'[s].seen # Unread => run'[s].seen = status'[run'[s].dep]
  <2>1. CASE s = r
    BY <2>1 DEF KeepsUp
  <2>2. CASE s # r
    BY <1>2, <1>3, <1>5, <2>2 DEF LifecycleInv, OnlyWriter
  <2>3. QED
    BY <2>1, <2>2
<1>8. QED
  BY <1>6, <1>7 DEF OnlyWriter

LEMMA NextLifecycle ==
    ASSUME Requests = {}, Faults \subseteq {"crash"}, LifecycleInv, [Next]_vars
    PROVE  OnlyWriter' /\ [Lifecycle!Next]_(Lifecycle!vars)
<1>1. "db" \notin Faults /\ "enqueue" \notin Faults /\ "stall" \notin Faults
  OBVIOUS
<1>2. TypeInv /\ OnlyWriter /\ HistoryInv /\ HeldInv /\ QuietInv
  BY DEF LifecycleInv, HistoryInv
<1>3. handler \in [Deployments -> EngagedHandlers] /\ status \in [Deployments -> Stored]
  BY <1>2 DEF TypeInv, Actors, Rows
<1>4. UNCHANGED <<status, current>> => [Lifecycle!Next]_(Lifecycle!vars)
  BY DEF Lifecycle!vars
<1>5. ASSUME NEW d \in Deployments, CreateDeployment(d)
      PROVE  OnlyWriter' /\ [Lifecycle!Next]_(Lifecycle!vars)
  <2>1. status[d] = "ABSENT"
    BY <1>2, <1>5 DEF QuietInv, CreateDeployment
  <2>2. /\ status' = [status EXCEPT ![d] = "QUEUED"] /\ current' = current /\ run' = run
        /\ handler'[d].pc = "enqueue" /\ \A e \in Deployments \ {d} : handler'[e] = handler[e]
    BY <1>3, <1>5 DEF CreateDeployment, WriteTransition, EngagedHandlers, HandlerStates
  <2>3. Lifecycle!Create(d)
    BY <2>1, <2>2 DEF Lifecycle!Create
  <2>4. ASSUME NEW s \in Runs, run[s].pc # "idle" PROVE run[s].dep \in Deployments \ {d}
    <3>1. run[s].dep \in Deployments /\ job[d].state = "none"
      BY <1>2, <1>5, <2>4 DEF TypeInv, Actors, EngagedRuns, HeldInv, CreateDeployment
    <3>2. QED
      BY <1>2, <2>4, <3>1 DEF HeldInv
  <2>5. \A s \in Runs : run[s].seen # Unread => run[s].pc # "idle"
    BY <1>2 DEF TypeInv, Actors, EngagedRuns, Writing, Phases
  <2>6. OnlyWriter'
    BY <1>2, <1>3, <2>2, <2>4, <2>5, StatusesAre DEF OnlyWriter
  <2>7. QED
    BY <2>3, <2>6 DEF Lifecycle!Next
<1>6. ASSUME NEW d \in Deployments, CreateStep(d), ~CreateDeployment(d)
      PROVE  OnlyWriter' /\ UNCHANGED <<status, current>>
  <2>1. Enqueue(d)
    BY <1>1, <1>2, <1>3, <1>6
       DEF CreateStep, EnqueueRejects, EnqueueFailedRead, EnqueueFailedCommit, EnqueueFailedAbort,
           OnlyWriter, EngagedHandlers
  <2>2. /\ UNCHANGED <<status, current, run>> /\ handler[d].pc = "enqueue" /\ handler'[d].pc = "replied"
        /\ \A e \in Deployments \ {d} : handler'[e] = handler[e]
    BY <1>3, <2>1 DEF Enqueue, dbVars, EngagedHandlers, HandlerStates
  <2>3. QED
    BY <1>2, <2>2 DEF OnlyWriter
<1>7. ASSUME NEW d \in Deployments, BullMQStep(d)
      PROVE  OnlyWriter' /\ UNCHANGED <<status, current>>
  BY <1>2, <1>7 DEF BullMQStep, PromoteDelayed, StalledCheck, dbVars, OnlyWriter
<1>8. ASSUME NEW r \in Runs, NEW d \in Deployments, Pickup(r, d)
      PROVE  OnlyWriter' /\ UNCHANGED <<status, current>>
  <2>1. UNCHANGED <<status, current, handler>>
    BY <1>8 DEF Pickup, dbVars
  <2>2. run'[r].dep = d /\ run'[r].pc \in {"replay", "rejected"} /\ run'[r].seen = Unread
    BY <1>2, <1>8 DEF Pickup, IdleRun, TypeInv, Actors
  <2>3. status[d] \in Statuses
    BY <1>2, <1>8 DEF Pickup, HeldInv, OnlyWriter
  <2>4. QED
    BY <1>2, <1>8, <2>1, <2>2, <2>3, PickedUp, ReachedIs DEF OnlyWriter
<1>9. ASSUME NEW r \in Runs, Settle(r) \/ Crash(r)
      PROVE  OnlyWriter' /\ UNCHANGED <<status, current>>
  <2>1. UNCHANGED <<status, current, handler>> /\ run' = [run EXCEPT ![r] = IdleRun]
    BY <1>9 DEF Settle, Crash, dbVars
  <2>2. run'[r].pc = "idle" /\ run'[r].seen = Unread /\ \A s \in Runs \ {r} : run'[s] = run[s]
    BY <1>2, <2>1 DEF IdleRun, TypeInv, Actors
  <2>3. QED
    BY <1>2, <2>1, <2>2 DEF OnlyWriter
<1>10. ASSUME NEW r \in Runs, RunStep(r), ~Settle(r)
       PROVE  OnlyWriter' /\ [Lifecycle!Next]_(Lifecycle!vars)
  <2>1. run[r].pc # "idle" /\ handler' = handler /\ \A s \in Runs \ {r} : run'[s] = run[s]
    BY <1>2, <1>10, RunGoesOn
  <2>2. KeepsUp(r)
    <3>1. CASE RunWrite(r)
      BY <1>2, <3>1, WritesKeepUp
    <3>2. CASE RunRead(r)
      BY <1>2, <3>2, ReadsKeepUp
    <3>3. QED
      BY <1>1, <1>2, <1>10, <3>1, <3>2, OtherStepsKeepUp
  <2>3. run[r].dep \in Deployments
    BY <1>2, <2>1 DEF TypeInv, Actors, EngagedRuns
  <2>4. [Lifecycle!Next]_(Lifecycle!vars)
    BY <1>2, <2>2, <2>3, AdvancesIsPromised DEF KeepsUp
  <2>5. OnlyWriter'
    BY <2>1, <2>2, RunsStepAlone
  <2>6. QED
    BY <2>4, <2>5
<1>11. ASSUME NEW r \in Runs, LoseLock(r) PROVE FALSE
  BY <1>1, <1>11 DEF LoseLock
<1>12. CASE UNCHANGED vars
  BY <1>2, <1>12 DEF vars, dbVars, OnlyWriter, Lifecycle!vars
<1>13. QED
  BY <1>4, <1>5, <1>6, <1>7, <1>8, <1>9, <1>10, <1>11, <1>12
     DEF Next, PipelineNext, Environment, Quiescent

LEMMA LifecycleInvariance ==
    ASSUME Requests = {}, Faults \subseteq {"crash"}
    PROVE  Spec => []LifecycleInv
<1>1. Init => HeldInv /\ OnlyWriter
  BY DEF Init, HeldInv, OnlyWriter, IdleRun
<1>2. HistoryInv /\ QuietInv /\ HeldInv /\ OnlyWriter /\ [Next]_vars => HeldInv' /\ OnlyWriter'
  <2>1. SUFFICES ASSUME HistoryInv, QuietInv, HeldInv, OnlyWriter, [Next]_vars
                 PROVE  HeldInv' /\ OnlyWriter'
    OBVIOUS
  <2>2. HeldInv'
    BY <2>1, NextHeld DEF HistoryInv
  <2>3. OnlyWriter'
    BY <2>1, NextLifecycle DEF LifecycleInv
  <2>4. QED
    BY <2>2, <2>3
<1>3. QED
  BY <1>1, <1>2, HistoryInvariance, QuietInvariance, PTL DEF Spec, LifecycleInv

\* The pipeline implements the promised lifecycle: beside crashes and second attempts,
\* without cancel requests and live second runs, no deployment repeats or skips a phase
\* or leaves a terminal status, and only a READY one becomes the current deployment
\* (state-machine.ts, apps/worker/src/index.ts).
THEOREM PipelineImplementsLifecycle ==
    ASSUME Requests = {}, Faults \subseteq {"crash"}
    PROVE  Spec => ImplementsLifecycle
<1>1. Init => Lifecycle!Init
  BY DEF Init, Lifecycle!Init
<1>2. LifecycleInv /\ [Next]_vars => [Lifecycle!Next]_(Lifecycle!vars)
  BY NextLifecycle
<1>3. QED
  BY <1>1, <1>2, LifecycleInvariance, PTL DEF Spec, ImplementsLifecycle, Lifecycle!Spec

===============================================================================
