----------------------------- MODULE WebhookIntake -----------------------------
(***************************************************************************)
(* The handler of GitHub's webhooks: how a delivery becomes a build.       *)
(*                                                                         *)
(* GitHub numbers its deliveries, and a delivery may arrive again: sent by *)
(* hand after a failure, or twice at once.  The handler remembers a        *)
(* delivery in two places, a Redis key that expires and a database row     *)
(* with a unique constraint, and forgets it when it fails, so that it can  *)
(* be sent again.  Every await of the handler is a step: the attempts of   *)
(* one delivery interleave, and the API's process may die between any two. *)
(*                                                                         *)
(* Attempts that are answered before the delivery is remembered (a bad     *)
(* signature, a bad header, a ping) change nothing and are left out.       *)
(***************************************************************************)
CONSTANTS
    Attempts,       \* HTTP requests
    Deliveries,     \* values of X-GitHub-Delivery
    Malformed,      \* deliveries whose body is not JSON
    Installations,  \* events about the GitHub App's installations
    Pushes,         \* pushes that name a repository; all else is answered at once
    Tracked,        \* pushes to the branch of a registered project
    Faults,         \* which faults may happen, of IntakeFaults
    None

\* "redis"   a command is refused: the server answers with an error, or the first
\*           connection of the process fails
\* "db"      a statement or transaction throws; a commit may have succeeded
\* "enqueue" Queue.add rejects, for the same reasons: the job is not stored
\* "crash"   the API's process dies
\* "expiry"  the Redis key is gone: a day has passed, or Redis lost its data
IntakeFaults == {"redis", "db", "enqueue", "crash", "expiry"}

ASSUME IntakeAssumption ==
    /\ Malformed \subseteq Deliveries
    /\ Installations \subseteq Deliveries \ Malformed
    /\ Pushes \subseteq Deliveries \ (Malformed \cup Installations)
    /\ Tracked \subseteq Pushes
    /\ Faults \subseteq IntakeFaults
    /\ None \notin Deliveries

VARIABLES
    key,       \* deliveries with a Redis key webhook:delivery:<id>
    recorded,  \* deliveries with a row in webhook_deliveries
    attempt    \* what each attempt is at

vars == <<key, recorded, attempt>>

\* Named for the statement that comes next; dead is a request whose process died.
AttemptPoints == {"idle", "setKey", "createRow", "installation", "findProject", "createDeployment",
                  "enqueue", "failDeployment", "delKey", "deleteRow", "answered", "dead"}

\* malformed: 400; duplicate, ignored, handled: 200; built: 201; error: 500 or 503.
Answers == {"none", "malformed", "duplicate", "ignored", "handled", "built", "error"}

\* A deployment a push created: without a job, or with one.
DeploymentsOfAttempt == {"none", "row", "job"}

AttemptStates ==
    [pc : AttemptPoints, delivery : Deliveries \cup {None}, reverts : BOOLEAN,
     deployment : DeploymentsOfAttempt, answer : Answers]

Init ==
    /\ key = {}
    /\ recorded = {}
    /\ attempt = [a \in Attempts |-> [pc |-> "idle", delivery |-> None, reverts |-> FALSE,
                                      deployment |-> "none", answer |-> "none"]]

At(a, point) == attempt[a].pc = point
Goto(a, point) == attempt' = [attempt EXCEPT ![a] = [@ EXCEPT !.pc = point]]
Answer(a, r) == attempt' = [attempt EXCEPT ![a] = [@ EXCEPT !.pc = "answered", !.answer = r]]
AttemptOnly == UNCHANGED <<key, recorded>>

-------------------------------------------------------------------------------
(***************************************************************************)
(* Remembering the delivery.                                               *)
(***************************************************************************)
\* Deviation: a request without a delivery id is let in.
ReceiveUnchecked(a, v) ==
    /\ At(a, "idle")
    /\ attempt' = [attempt EXCEPT ![a] = [@ EXCEPT !.pc = "setKey", !.delivery = None]]
    /\ AttemptOnly

Receive(a, v) ==
    /\ At(a, "idle")
    /\ attempt' = [attempt EXCEPT ![a] = [@ EXCEPT !.pc = "setKey", !.delivery = v]]
    /\ AttemptOnly

\* After the key the body is parsed; one that is no JSON takes the key away again.
Parse(a) ==
    IF attempt[a].delivery \in Malformed THEN Goto(a, "delKey") ELSE Goto(a, "createRow")

SetKey(a) ==
    /\ At(a, "setKey")
    /\ attempt[a].delivery \notin key
    /\ key' = key \cup {attempt[a].delivery}
    /\ Parse(a)
    /\ UNCHANGED recorded

KeyExists(a) ==
    /\ At(a, "setKey")
    /\ attempt[a].delivery \in key
    /\ Answer(a, "duplicate")
    /\ AttemptOnly

\* The handler goes on: the database's constraint is left.
SetKeyFails(a) ==
    /\ "redis" \in Faults
    /\ At(a, "setKey")
    /\ Parse(a)
    /\ AttemptOnly

AfterRow(a) ==
    LET v == attempt[a].delivery
    IN CASE v \in Installations -> Goto(a, "installation")
         [] v \in Pushes        -> Goto(a, "findProject")
         [] OTHER               -> Answer(a, "ignored")

\* Deviation: a row that is there is no reason to stop.
CreateRowAnyway(a) ==
    /\ At(a, "createRow")
    /\ recorded' = recorded \cup {attempt[a].delivery}
    /\ AfterRow(a)
    /\ UNCHANGED key

CreateRow(a) ==
    /\ At(a, "createRow")
    /\ attempt[a].delivery \notin recorded
    /\ recorded' = recorded \cup {attempt[a].delivery}
    /\ AfterRow(a)
    /\ UNCHANGED key

RowExists(a) ==
    /\ At(a, "createRow")
    /\ attempt[a].delivery \in recorded
    /\ Answer(a, "duplicate")
    /\ AttemptOnly

\* Deviation: every error is taken for the unique constraint's.
CreateRowFailsAsDuplicate(a) ==
    /\ "db" \in Faults
    /\ At(a, "createRow")
    /\ Answer(a, "duplicate")
    /\ AttemptOnly

\* Another error than the constraint's: the key is deleted, the exception goes on.
CreateRowFails(a) ==
    /\ "db" \in Faults
    /\ At(a, "createRow")
    /\ recorded' \in {recorded, recorded \cup {attempt[a].delivery}}
    /\ Goto(a, "delKey")
    /\ UNCHANGED key

-------------------------------------------------------------------------------
(***************************************************************************)
(* Events about installations.  Their statements are in no try block.      *)
(***************************************************************************)
Install(a) ==
    /\ At(a, "installation")
    /\ Answer(a, "handled")
    /\ AttemptOnly

InstallFails(a) ==
    /\ "db" \in Faults
    /\ At(a, "installation")
    /\ Answer(a, "error")
    /\ AttemptOnly

-------------------------------------------------------------------------------
(***************************************************************************)
(* Pushes.                                                                 *)
(***************************************************************************)
\* The catch around a push reverts both records.
Revert(a) == attempt' = [attempt EXCEPT ![a] = [@ EXCEPT !.pc = "delKey", !.reverts = TRUE]]

FindProject(a) ==
    /\ At(a, "findProject")
    /\ IF attempt[a].delivery \in Tracked THEN Goto(a, "createDeployment") ELSE Answer(a, "ignored")
    /\ AttemptOnly

FindProjectFails(a) ==
    /\ "db" \in Faults
    /\ At(a, "findProject")
    /\ Revert(a)
    /\ AttemptOnly

CreateDeployment(a) ==
    /\ At(a, "createDeployment")
    /\ attempt' = [attempt EXCEPT ![a] = [@ EXCEPT !.pc = "enqueue", !.deployment = "row"]]
    /\ AttemptOnly

CreateDeploymentFails(a) ==
    /\ "db" \in Faults
    /\ At(a, "createDeployment")
    /\ \E committed \in {"none", "row"} :
          attempt' = [attempt EXCEPT ![a] = [@ EXCEPT !.pc = "delKey", !.reverts = TRUE,
                                                      !.deployment = committed]]
    /\ AttemptOnly

\* Deviation: the answer is in the same catch as what went before.
EnqueueThenRevert(a) ==
    /\ At(a, "enqueue")
    /\ attempt' = [attempt EXCEPT ![a] = [@ EXCEPT !.pc = "delKey", !.reverts = TRUE,
                                                   !.deployment = "job"]]
    /\ AttemptOnly

Enqueue(a) ==
    /\ At(a, "enqueue")
    /\ attempt' = [attempt EXCEPT ![a] = [@ EXCEPT !.pc = "answered", !.answer = "built",
                                                   !.deployment = "job"]]
    /\ AttemptOnly

EnqueueRejects(a) ==
    /\ "enqueue" \in Faults
    /\ At(a, "enqueue")
    /\ Goto(a, "failDeployment")
    /\ AttemptOnly

\* QUEUED may not become FAILED, so that the transition throws and the outer
\* catch reverts; if it does not (the deployment was cancelled meanwhile), the
\* inner one does the same.  They differ in the answer, 500 or 503.
FailDeployment(a) ==
    /\ At(a, "failDeployment")
    /\ Revert(a)
    /\ AttemptOnly

-------------------------------------------------------------------------------
(***************************************************************************)
(* Forgetting the delivery.                                                *)
(***************************************************************************)
\* Only a push goes on to the row; a malformed body is answered 400, an error
\* of the row's creation is thrown.
AfterKey(a) ==
    CASE attempt[a].reverts                -> Goto(a, "deleteRow")
      [] attempt[a].delivery \in Malformed -> Answer(a, "malformed")
      [] OTHER                             -> Answer(a, "error")

DelKey(a) ==
    /\ At(a, "delKey")
    /\ key' = key \ {attempt[a].delivery}
    /\ AfterKey(a)
    /\ UNCHANGED recorded

\* One try block holds both statements of a revert: the row stays as well.
DelKeyFails(a) ==
    /\ "redis" \in Faults
    /\ At(a, "delKey")
    /\ IF attempt[a].delivery \in Malformed THEN Answer(a, "malformed") ELSE Answer(a, "error")
    /\ AttemptOnly

DeleteRow(a) ==
    /\ At(a, "deleteRow")
    /\ recorded' = recorded \ {attempt[a].delivery}
    /\ Answer(a, "error")
    /\ UNCHANGED key

DeleteRowFails(a) ==
    /\ "db" \in Faults
    /\ At(a, "deleteRow")
    /\ Answer(a, "error")
    /\ recorded' \in {recorded, recorded \ {attempt[a].delivery}}
    /\ UNCHANGED key

-------------------------------------------------------------------------------
(***************************************************************************)
(* The environment.                                                        *)
(***************************************************************************)
InProgress(a) == attempt[a].pc \notin {"idle", "answered", "dead"}

\* The API is one process: all its requests die.
Crash ==
    /\ "crash" \in Faults
    /\ \E a \in Attempts : InProgress(a)
    /\ attempt' = [a \in Attempts |-> IF InProgress(a) THEN [attempt[a] EXCEPT !.pc = "dead"]
                                                       ELSE attempt[a]]
    /\ AttemptOnly

KeyExpires(v) ==
    /\ "expiry" \in Faults
    /\ v \in key
    /\ key' = key \ {v}
    /\ UNCHANGED <<recorded, attempt>>

Quiescent ==
    /\ \A a \in Attempts : ~InProgress(a) /\ ~At(a, "idle")
    /\ UNCHANGED vars

PushStep(a) ==
    \/ FindProject(a) \/ FindProjectFails(a) \/ CreateDeployment(a) \/ CreateDeploymentFails(a)
    \/ Enqueue(a) \/ EnqueueRejects(a) \/ FailDeployment(a)

RememberStep(a) ==
    \/ SetKey(a) \/ KeyExists(a) \/ SetKeyFails(a) \/ CreateRow(a) \/ RowExists(a) \/ CreateRowFails(a)

ForgetStep(a) == DelKey(a) \/ DelKeyFails(a) \/ DeleteRow(a) \/ DeleteRowFails(a)

Next ==
    \/ \E a \in Attempts, v \in Deliveries : Receive(a, v)
    \/ \E a \in Attempts : RememberStep(a) \/ PushStep(a) \/ ForgetStep(a) \/ Install(a) \/ InstallFails(a)
    \/ \E v \in Deliveries : KeyExpires(v)
    \/ Crash
    \/ Quiescent

Spec == Init /\ [][Next]_vars

-------------------------------------------------------------------------------
(***************************************************************************)
(* Properties.                                                             *)
(***************************************************************************)
\* Types of the variables; an attempt that has begun has its delivery.
IntakeTypeOK ==
    /\ key \subseteq Deliveries
    /\ recorded \subseteq Deliveries
    /\ attempt \in [Attempts -> AttemptStates]
    /\ \A a \in Attempts : attempt[a].pc # "idle" => attempt[a].delivery \in Deliveries

\* A delivery is built once, however often it arrives, whatever fails and
\* whichever of its two records is lost or reverted in between.
OneBuildPerDelivery ==
    \A a, b \in Attempts :
        /\ attempt[a].deployment = "job"
        /\ attempt[b].deployment = "job"
        /\ attempt[a].delivery = attempt[b].delivery
        => a = b

\* The row of a delivery that was built is never reverted, although the reverts
\* name the delivery and not the attempt that recorded it.
BuiltIsRecorded ==
    \A a \in Attempts : attempt[a].deployment = "job" => attempt[a].delivery \in recorded

\* GitHub is not told of a duplicate of a delivery that nobody worked on: among
\* the attempts of a delivery there is one that was answered otherwise, died, or
\* is in progress.
DuplicatesHaveAnOriginal ==
    \A a \in Attempts :
        attempt[a].answer = "duplicate" =>
            \E b \in Attempts :
                /\ attempt[b].delivery = attempt[a].delivery
                /\ attempt[b].answer # "duplicate"

===============================================================================
