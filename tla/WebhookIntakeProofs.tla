-------------------------- MODULE WebhookIntakeProofs --------------------------
(***************************************************************************)
(* Theorems about WebhookIntake, for every set of attempts and deliveries  *)
(* and any faults.                                                         *)
(***************************************************************************)
EXTENDS WebhookIntake, TLAPS

-------------------------------------------------------------------------------
(***************************************************************************)
(* Types, and what a move does to the records of the attempts.             *)
(***************************************************************************)
LEMMA InitTypes == Init => IntakeTypeOK
  BY DEF Init, IntakeTypeOK, AttemptStates, AttemptPoints, Answers, DeploymentsOfAttempt

OthersKept(a) == \A b \in Attempts \ {a} : attempt'[b] = attempt[b]

\* The attempt is now at the given point, with the given reverts, deployment and answer.
Becomes(a, point, reverts, deployment, answer) ==
    /\ attempt' \in [Attempts -> AttemptStates]
    /\ attempt'[a].pc = point
    /\ attempt'[a].delivery = attempt[a].delivery
    /\ attempt'[a].reverts = reverts
    /\ attempt'[a].deployment = deployment
    /\ attempt'[a].answer = answer
    /\ OthersKept(a)

LEMMA GotoBecomes ==
  ASSUME IntakeTypeOK, NEW a \in Attempts, NEW point \in AttemptPoints, Goto(a, point)
  PROVE  Becomes(a, point, attempt[a].reverts, attempt[a].deployment, attempt[a].answer)
  <1>1. attempt[a] \in AttemptStates /\ attempt'[a] = [attempt[a] EXCEPT !.pc = point] /\ OthersKept(a)
    BY DEF IntakeTypeOK, Goto, OthersKept
  <1>2. attempt'[a] \in AttemptStates
    BY <1>1 DEF AttemptStates
  <1>3. QED
    BY <1>1, <1>2 DEF Becomes, Goto, IntakeTypeOK, AttemptStates

LEMMA AnswerBecomes ==
  ASSUME IntakeTypeOK, NEW a \in Attempts, NEW r \in Answers, Answer(a, r)
  PROVE  Becomes(a, "answered", attempt[a].reverts, attempt[a].deployment, r)
  <1>1. /\ attempt[a] \in AttemptStates /\ OthersKept(a)
        /\ attempt'[a] = [attempt[a] EXCEPT !.pc = "answered", !.answer = r]
    BY DEF IntakeTypeOK, Answer, OthersKept
  <1>2. attempt'[a] \in AttemptStates
    BY <1>1 DEF AttemptStates, AttemptPoints
  <1>3. QED
    BY <1>1, <1>2 DEF Becomes, Answer, IntakeTypeOK, AttemptStates

LEMMA RevertBecomes ==
  ASSUME IntakeTypeOK, NEW a \in Attempts, Revert(a)
  PROVE  Becomes(a, "delKey", TRUE, attempt[a].deployment, attempt[a].answer)
  <1>1. /\ attempt[a] \in AttemptStates /\ OthersKept(a)
        /\ attempt'[a] = [attempt[a] EXCEPT !.pc = "delKey", !.reverts = TRUE]
    BY DEF IntakeTypeOK, Revert, OthersKept
  <1>2. attempt'[a] \in AttemptStates
    BY <1>1 DEF AttemptStates, AttemptPoints
  <1>3. QED
    BY <1>1, <1>2 DEF Becomes, Revert, IntakeTypeOK, AttemptStates

-------------------------------------------------------------------------------
(***************************************************************************)
(* The inductive invariant.  The owner of a delivery is the attempt that   *)
(* created its row, as long as it may still build or revert; whoever is    *)
(* answered "duplicate" met a record, and a record has an attempt that     *)
(* made it and came further.                                               *)
(***************************************************************************)
Shape(a) ==
    /\ attempt[a].pc = "idle" => attempt[a].delivery = None
    /\ attempt[a].reverts => attempt[a].pc \in {"delKey", "deleteRow", "answered", "dead"}
    /\ attempt[a].deployment = "job" => attempt[a].pc = "answered"
    /\ attempt[a].answer # "none" <=> attempt[a].pc = "answered"

Working == {"installation", "findProject", "createDeployment", "enqueue", "failDeployment", "deleteRow"}

Owner(a) ==
    \/ attempt[a].deployment = "job"
    \/ attempt[a].pc \in Working
    \/ attempt[a].pc = "delKey" /\ attempt[a].reverts

OwnersRecorded == \A a \in Attempts : Owner(a) => attempt[a].delivery \in recorded

OneOwner ==
    \A a, b \in Attempts :
        Owner(a) /\ Owner(b) /\ attempt[a].delivery = attempt[b].delivery => a = b

Beyond(c, v, points) ==
    attempt[c].delivery = v /\ attempt[c].answer # "duplicate" /\ attempt[c].pc \notin points

RowsHaveAnOriginal ==
    \A v \in recorded : \E c \in Attempts : Beyond(c, v, {"idle", "setKey", "createRow"})

KeysHaveAnOriginal ==
    \A v \in key : \E c \in Attempts : Beyond(c, v, {"idle", "setKey"})

OwnerInv == IntakeTypeOK /\ (\A a \in Attempts : Shape(a)) /\ OwnersRecorded /\ OneOwner

IntakeInv == OwnerInv /\ RowsHaveAnOriginal /\ KeysHaveAnOriginal /\ DuplicatesHaveAnOriginal

LEMMA InitIntakeInv == Init => IntakeInv
  BY InitTypes DEF Init, IntakeInv, OwnerInv, Shape, Owner, Working, OwnersRecorded, OneOwner,
     RowsHaveAnOriginal, KeysHaveAnOriginal, DuplicatesHaveAnOriginal

LEMMA RememberStepKeepsOwners ==
  ASSUME OwnerInv, NEW a \in Attempts, RememberStep(a)
  PROVE  OwnerInv'
  <1> USE DEF Becomes, OthersKept, OwnerInv, Shape, Owner, Working, OwnersRecorded, OneOwner, IntakeTypeOK, At
  <1>1. CASE SetKey(a) \/ SetKeyFails(a)
    <2>1. Goto(a, "delKey") \/ Goto(a, "createRow")
      BY <1>1 DEF SetKey, SetKeyFails, Parse
    <2>2. \E p \in {"delKey", "createRow"} :
             Becomes(a, p, attempt[a].reverts, attempt[a].deployment, attempt[a].answer)
      BY <2>1, GotoBecomes DEF AttemptPoints
    <2>3. QED
      BY <1>1, <2>2 DEF SetKey, SetKeyFails, AttemptOnly
  <1>2. CASE KeyExists(a) \/ RowExists(a)
    <2>1. Becomes(a, "answered", attempt[a].reverts, attempt[a].deployment, "duplicate")
      BY <1>2, AnswerBecomes DEF KeyExists, RowExists, Answers
    <2>2. QED
      BY <1>2, <2>1 DEF KeyExists, RowExists, AttemptOnly
  <1>3. CASE CreateRow(a)
    <2>1. \/ \E p \in Working : Becomes(a, p, attempt[a].reverts, attempt[a].deployment, attempt[a].answer)
          \/ Becomes(a, "answered", attempt[a].reverts, attempt[a].deployment, "ignored")
      BY <1>3, GotoBecomes, AnswerBecomes DEF CreateRow, AfterRow, AttemptPoints, Answers
    <2>2. QED
      BY <1>3, <2>1 DEF CreateRow
  <1>4. CASE CreateRowFails(a)
    <2>1. Becomes(a, "delKey", attempt[a].reverts, attempt[a].deployment, attempt[a].answer)
      BY <1>4, GotoBecomes DEF CreateRowFails, AttemptPoints
    <2>2. QED
      BY <1>4, <2>1 DEF CreateRowFails
  <1>5. QED
    BY <1>1, <1>2, <1>3, <1>4 DEF RememberStep

\* The two steps that change what an attempt has created.
LEMMA CreateBecomes ==
  ASSUME IntakeTypeOK, NEW a \in Attempts,
         NEW p \in {"enqueue", "delKey"}, NEW r \in BOOLEAN, NEW d \in DeploymentsOfAttempt,
         \/ /\ attempt' = [attempt EXCEPT ![a] = [@ EXCEPT !.pc = p, !.deployment = d]]
            /\ r = attempt[a].reverts
         \/ attempt' = [attempt EXCEPT ![a] = [@ EXCEPT !.pc = p, !.reverts = r, !.deployment = d]]
  PROVE  Becomes(a, p, r, d, attempt[a].answer)
  <1>1. /\ attempt[a] \in AttemptStates /\ OthersKept(a)
        /\ \/ attempt'[a] = [attempt[a] EXCEPT !.pc = p, !.deployment = d] /\ r = attempt[a].reverts
           \/ attempt'[a] = [attempt[a] EXCEPT !.pc = p, !.reverts = r, !.deployment = d]
    BY DEF IntakeTypeOK, OthersKept
  <1>2. attempt'[a] \in AttemptStates
    BY <1>1 DEF AttemptStates, AttemptPoints
  <1>3. QED
    BY <1>1, <1>2 DEF Becomes, IntakeTypeOK, AttemptStates

LEMMA EnqueueBecomes ==
  ASSUME IntakeTypeOK, NEW a \in Attempts, Enqueue(a)
  PROVE  Becomes(a, "answered", attempt[a].reverts, "job", "built")
  <1>1. /\ attempt[a] \in AttemptStates /\ OthersKept(a)
        /\ attempt'[a] = [attempt[a] EXCEPT !.pc = "answered", !.answer = "built", !.deployment = "job"]
    BY DEF IntakeTypeOK, OthersKept, Enqueue
  <1>2. attempt'[a] \in AttemptStates
    BY <1>1 DEF AttemptStates, AttemptPoints, Answers, DeploymentsOfAttempt
  <1>3. QED
    BY <1>1, <1>2 DEF Becomes, IntakeTypeOK, AttemptStates, Enqueue

\* What a step of a push, or about an installation, does: the attempt stays the owner, or is answered.
LEMMA PushBecomes ==
  ASSUME OwnerInv, NEW a \in Attempts, PushStep(a) \/ Install(a) \/ InstallFails(a)
  PROVE  /\ AttemptOnly
         /\ \/ \E p \in Working, d \in {"none", "row"} :
                  Becomes(a, p, attempt[a].reverts, d, attempt[a].answer)
            \/ \E d \in {"none", "row"} : Becomes(a, "delKey", TRUE, d, attempt[a].answer)
            \/ \E w \in Answers \ {"none", "duplicate"}, d \in DeploymentsOfAttempt :
                  Becomes(a, "answered", attempt[a].reverts, d, w)
         /\ attempt[a].pc \in Working \ {"deleteRow"}
         /\ attempt[a].deployment # "job"
  <1> USE DEF Working, AttemptPoints, Answers, DeploymentsOfAttempt
  <1>1. IntakeTypeOK /\ attempt[a] \in AttemptStates
    BY DEF OwnerInv, IntakeTypeOK
  <1>2. attempt[a].pc \in Working \ {"deleteRow"} /\ AttemptOnly
    BY DEF PushStep, Install, InstallFails, FindProject, FindProjectFails, CreateDeployment,
       CreateDeploymentFails, Enqueue, EnqueueRejects, FailDeployment, At
  <1>3. attempt[a].deployment \in {"none", "row"}
    BY <1>1, <1>2 DEF OwnerInv, Shape, AttemptStates
  <1>4. CASE FindProject(a)
    BY <1>1, <1>2, <1>3, <1>4, GotoBecomes, AnswerBecomes DEF FindProject
  <1>5. CASE FindProjectFails(a) \/ FailDeployment(a)
    BY <1>1, <1>2, <1>3, <1>5, RevertBecomes DEF FindProjectFails, FailDeployment
  <1>6. CASE CreateDeployment(a)
    <2>1. Becomes(a, "enqueue", attempt[a].reverts, "row", attempt[a].answer)
      BY <1>1, <1>6, CreateBecomes DEF CreateDeployment, AttemptStates
    <2>2. QED
      BY <1>2, <1>3, <2>1
  <1>7. CASE CreateDeploymentFails(a)
    <2>1. PICK d \in {"none", "row"} :
             attempt' = [attempt EXCEPT ![a] = [@ EXCEPT !.pc = "delKey", !.reverts = TRUE,
                                                         !.deployment = d]]
      BY <1>7 DEF CreateDeploymentFails
    <2>2. Becomes(a, "delKey", TRUE, d, attempt[a].answer)
      BY <1>1, <2>1, CreateBecomes
    <2>3. QED
      BY <1>2, <1>3, <2>2
  <1>8. CASE Enqueue(a)
    BY <1>1, <1>2, <1>3, <1>8, EnqueueBecomes
  <1>9. CASE EnqueueRejects(a)
    BY <1>1, <1>2, <1>3, <1>9, GotoBecomes DEF EnqueueRejects
  <1>10. CASE Install(a) \/ InstallFails(a)
    BY <1>1, <1>2, <1>3, <1>10, AnswerBecomes DEF Install, InstallFails
  <1>11. QED
    BY <1>4, <1>5, <1>6, <1>7, <1>8, <1>9, <1>10 DEF PushStep

LEMMA PushStepKeepsOwners ==
  ASSUME OwnerInv, NEW a \in Attempts, PushStep(a) \/ Install(a) \/ InstallFails(a)
  PROVE  OwnerInv'
  <1> USE DEF Becomes, OthersKept, OwnerInv, Shape, Owner, Working, OwnersRecorded, OneOwner, IntakeTypeOK
  <1>1. UNCHANGED <<key, recorded>> /\ attempt[a].pc \in Working \ {"deleteRow"} /\ attempt[a].deployment # "job"
    BY PushBecomes DEF AttemptOnly
  <1>2. ASSUME NEW p \in Working, NEW d \in {"none", "row"},
               Becomes(a, p, attempt[a].reverts, d, attempt[a].answer)
        PROVE  OwnerInv'
    <2>1. Shape(a)' /\ Owner(a)'
      BY <1>1, <1>2
    <2>2. QED
      BY <1>1, <1>2, <2>1
  <1>3. ASSUME NEW d \in {"none", "row"}, Becomes(a, "delKey", TRUE, d, attempt[a].answer)
        PROVE  OwnerInv'
    BY <1>1, <1>3
  <1>4. ASSUME NEW w \in Answers \ {"none", "duplicate"}, NEW d \in DeploymentsOfAttempt,
               Becomes(a, "answered", attempt[a].reverts, d, w)
        PROVE  OwnerInv'
    <2>1. Shape(a)'
      BY <1>1, <1>4
    <2>2. \A b \in Attempts : (Owner(b)' => Owner(b)) /\ (b # a => Shape(b)')
      BY <1>1, <1>4
    <2>3. QED
      BY <1>1, <1>4, <2>1, <2>2
  <1> HIDE DEF Becomes, OwnerInv, IntakeTypeOK, Working
  <1>5. QED
    BY <1>2, <1>3, <1>4, PushBecomes

LEMMA ForgetStepKeepsOwners ==
  ASSUME OwnerInv, NEW a \in Attempts, ForgetStep(a)
  PROVE  OwnerInv'
  <1> USE DEF Becomes, OthersKept, OwnerInv, Shape, Owner, Working, OwnersRecorded, OneOwner, IntakeTypeOK, At
  <1>1. ASSUME NEW w \in {"malformed", "error"}, Answer(a, w)
        PROVE  Becomes(a, "answered", attempt[a].reverts, attempt[a].deployment, w)
    BY <1>1, AnswerBecomes DEF Answers
  <1>2. CASE DelKey(a)
    <2>1. \/ \E w \in {"malformed", "error"} :
                 Becomes(a, "answered", attempt[a].reverts, attempt[a].deployment, w)
          \/ /\ attempt[a].reverts
             /\ Becomes(a, "deleteRow", attempt[a].reverts, attempt[a].deployment, attempt[a].answer)
      BY <1>1, <1>2, GotoBecomes DEF DelKey, AfterKey, AttemptPoints
    <2>2. QED
      BY <1>2, <2>1 DEF DelKey
  <1>3. CASE DelKeyFails(a)
    <2>1. \E w \in {"malformed", "error"} :
             Becomes(a, "answered", attempt[a].reverts, attempt[a].deployment, w)
      BY <1>1, <1>3 DEF DelKeyFails
    <2>2. QED
      BY <1>3, <2>1 DEF DelKeyFails, AttemptOnly
  <1>4. CASE DeleteRow(a) \/ DeleteRowFails(a)
    <2>1. Becomes(a, "answered", attempt[a].reverts, attempt[a].deployment, "error")
      BY <1>1, <1>4 DEF DeleteRow, DeleteRowFails
    <2>2. /\ recorded' \in {recorded, recorded \ {attempt[a].delivery}}
          /\ UNCHANGED key
          /\ Owner(a) /\ attempt[a].deployment # "job"
      BY <1>4 DEF DeleteRow, DeleteRowFails
    <2>3. QED
      BY <2>1, <2>2
  <1>5. QED
    BY <1>2, <1>3, <1>4 DEF ForgetStep

LEMMA ReceiveBecomes ==
  ASSUME IntakeTypeOK, NEW a \in Attempts, NEW v \in Deliveries, Receive(a, v)
  PROVE  /\ attempt' \in [Attempts -> AttemptStates]
         /\ attempt'[a].pc = "setKey" /\ attempt'[a].delivery = v
         /\ attempt'[a].reverts = attempt[a].reverts
         /\ attempt'[a].deployment = attempt[a].deployment
         /\ attempt'[a].answer = attempt[a].answer
         /\ OthersKept(a)
         /\ attempt[a].pc = "idle" /\ UNCHANGED <<key, recorded>>
  <1>1. /\ attempt[a] \in AttemptStates /\ OthersKept(a)
        /\ attempt'[a] = [attempt[a] EXCEPT !.pc = "setKey", !.delivery = v]
    BY DEF IntakeTypeOK, OthersKept, Receive
  <1>2. attempt'[a] \in AttemptStates
    BY <1>1 DEF AttemptStates, AttemptPoints
  <1>3. QED
    BY <1>1, <1>2 DEF IntakeTypeOK, AttemptStates, Receive, At, AttemptOnly

LEMMA CrashBecomes ==
  ASSUME IntakeTypeOK, Crash
  PROVE  /\ attempt' \in [Attempts -> AttemptStates] /\ UNCHANGED <<key, recorded>>
         /\ \A a \in Attempts :
               \/ attempt'[a] = attempt[a] /\ ~InProgress(a)
               \/ /\ InProgress(a) /\ attempt'[a].pc = "dead"
                  /\ attempt'[a].delivery = attempt[a].delivery
                  /\ attempt'[a].reverts = attempt[a].reverts
                  /\ attempt'[a].deployment = attempt[a].deployment
                  /\ attempt'[a].answer = attempt[a].answer
  <1>1. ASSUME NEW a \in Attempts
        PROVE  /\ attempt'[a] \in AttemptStates
               /\ \/ attempt'[a] = attempt[a] /\ ~InProgress(a)
                  \/ /\ InProgress(a) /\ attempt'[a].pc = "dead"
                     /\ attempt'[a].delivery = attempt[a].delivery
                     /\ attempt'[a].reverts = attempt[a].reverts
                     /\ attempt'[a].deployment = attempt[a].deployment
                     /\ attempt'[a].answer = attempt[a].answer
    <2>1. attempt[a] \in AttemptStates
      BY DEF IntakeTypeOK
    <2>2. CASE InProgress(a)
      <3>1. attempt'[a] = [attempt[a] EXCEPT !.pc = "dead"]
        BY <2>2 DEF Crash
      <3>2. QED
        BY <2>1, <2>2, <3>1 DEF AttemptStates, AttemptPoints
    <2>3. CASE ~InProgress(a)
      BY <2>1, <2>3 DEF Crash
    <2>4. QED
      BY <2>2, <2>3
  <1>2. attempt' = [a \in Attempts |-> attempt'[a]]
    BY DEF Crash
  <1>3. QED
    BY <1>1, <1>2 DEF Crash, AttemptOnly

LEMMA OwnerInvIsInductive == OwnerInv /\ [Next]_vars => OwnerInv'
  <1> SUFFICES ASSUME OwnerInv, [Next]_vars PROVE OwnerInv'
    OBVIOUS
  <1>1. ASSUME NEW a \in Attempts, NEW v \in Deliveries, Receive(a, v) PROVE OwnerInv'
    <2>1. IntakeTypeOK /\ Shape(a) /\ ~Owner(a) /\ ~(Owner(a)')
      BY <1>1, ReceiveBecomes DEF OwnerInv, Shape, Owner, Working
    <2>2. \A b \in Attempts : (Owner(b)' <=> Owner(b)) /\ Shape(b)'
      BY <1>1, <2>1, ReceiveBecomes, IntakeAssumption DEF OwnerInv, Shape, Owner, Working, OthersKept
    <2>3. QED
      BY <1>1, <2>1, <2>2, ReceiveBecomes
         DEF OwnerInv, OwnersRecorded, OneOwner, OthersKept, IntakeTypeOK
  <1>2. CASE Crash
    <2>1. \A b \in Attempts : (Owner(b)' => Owner(b)) /\ Shape(b)'
      BY <1>2, CrashBecomes DEF OwnerInv, Shape, Owner, Working, InProgress
    <2>2. QED
      BY <1>2, <2>1, CrashBecomes DEF OwnerInv, OwnersRecorded, OneOwner, IntakeTypeOK, InProgress
  <1>3. ASSUME NEW v \in Deliveries, KeyExpires(v) PROVE OwnerInv'
    BY <1>3 DEF KeyExpires, OwnerInv, Shape, Owner, OwnersRecorded, OneOwner, IntakeTypeOK
  <1>4. CASE UNCHANGED vars
    BY <1>4 DEF vars, OwnerInv, Shape, Owner, OwnersRecorded, OneOwner, IntakeTypeOK
  <1>5. QED
    BY <1>1, <1>2, <1>3, <1>4, RememberStepKeepsOwners, PushStepKeepsOwners, ForgetStepKeepsOwners
       DEF Next, Quiescent

LEMMA OwnersAreKept == Spec => []OwnerInv
  <1>1. Init => OwnerInv
    BY InitIntakeInv DEF IntakeInv
  <1>2. QED
    BY <1>1, OwnerInvIsInductive, PTL DEF Spec

\* Keys, rows and the records of the attempts keep their types, and an attempt
\* that has begun has its delivery.
THEOREM IntakeTypeCorrectness == Spec => []IntakeTypeOK
  <1>1. OwnerInv => IntakeTypeOK
    BY DEF OwnerInv
  <1>2. QED
    BY <1>1, OwnersAreKept, PTL

\* However many requests bring a delivery, in whatever order and with whatever
\* failures and reverts, one of them at most starts its build.
THEOREM DeliveriesAreBuiltOnce == Spec => []OneBuildPerDelivery
  <1>1. OwnerInv => OneBuildPerDelivery
    BY DEF OwnerInv, OneOwner, Owner, OneBuildPerDelivery
  <1>2. QED
    BY <1>1, OwnersAreKept, PTL

\* The row of a delivery that is built stays, whoever reverts.
THEOREM BuiltDeliveriesAreRecorded == Spec => []BuiltIsRecorded
  <1>1. OwnerInv => BuiltIsRecorded
    BY DEF OwnerInv, OwnersRecorded, Owner, BuiltIsRecorded
  <1>2. QED
    BY <1>1, OwnersAreKept, PTL

-------------------------------------------------------------------------------
(***************************************************************************)
(* Originals.                                                              *)
(***************************************************************************)
OriginalInv == RowsHaveAnOriginal /\ KeysHaveAnOriginal /\ DuplicatesHaveAnOriginal

\* A step of an attempt that is not answered "duplicate" by it, and comes further.
Advances(a) ==
    /\ OthersKept(a)
    /\ attempt'[a].delivery = attempt[a].delivery
    /\ attempt'[a].answer # "duplicate"
    /\ attempt'[a].pc \notin {"idle", "setKey"}
    /\ attempt'[a].pc = "createRow" => attempt[a].pc = "setKey"
    /\ recorded' \subseteq recorded \cup {attempt[a].delivery}
    /\ attempt'[a].pc = "createRow" => recorded' \subseteq recorded
    /\ key' \subseteq key \cup {attempt[a].delivery}

LEMMA AdvanceKeepsOriginals ==
  ASSUME OriginalInv, NEW a \in Attempts, Advances(a)
  PROVE  OriginalInv'
  <1> USE DEF Advances, OthersKept, Beyond
  <1>1. RowsHaveAnOriginal'
    <2> SUFFICES ASSUME NEW v \in recorded'
                 PROVE  \E c \in Attempts : Beyond(c, v, {"idle", "setKey", "createRow"})'
      BY DEF RowsHaveAnOriginal
    <2>1. CASE v \in recorded
      BY <2>1 DEF OriginalInv, RowsHaveAnOriginal
    <2>2. CASE v \notin recorded
      BY <2>2
    <2>3. QED
      BY <2>1, <2>2
  <1>2. KeysHaveAnOriginal'
    BY DEF OriginalInv, KeysHaveAnOriginal
  <1>3. DuplicatesHaveAnOriginal'
    BY DEF OriginalInv, DuplicatesHaveAnOriginal
  <1>4. QED
    BY <1>1, <1>2, <1>3 DEF OriginalInv

\* An attempt that meets a record: the record's original is another attempt.
LEMMA DuplicateHasAnOriginal ==
  ASSUME OwnerInv, OriginalInv, NEW a \in Attempts, KeyExists(a) \/ RowExists(a)
  PROVE  OriginalInv'
  <1>1. /\ attempt'[a].delivery = attempt[a].delivery /\ OthersKept(a)
        /\ attempt'[a].answer = "duplicate" /\ UNCHANGED <<key, recorded>>
    BY AnswerBecomes DEF Becomes, KeyExists, RowExists, Answers, OwnerInv, AttemptOnly
  <1>2. \A v \in recorded : \E c \in Attempts \ {a} : Beyond(c, v, {"idle", "setKey", "createRow"})
    BY DEF OriginalInv, RowsHaveAnOriginal, Beyond, KeyExists, RowExists, At
  <1>3. \A v \in key : \E c \in Attempts \ {a} : Beyond(c, v, {"idle", "setKey"})
    <2> SUFFICES ASSUME NEW v \in key PROVE \E c \in Attempts \ {a} : Beyond(c, v, {"idle", "setKey"})
      OBVIOUS
    <2>1. PICK c \in Attempts : Beyond(c, v, {"idle", "setKey"})
      BY DEF OriginalInv, KeysHaveAnOriginal
    <2>2. CASE c # a
      BY <2>1, <2>2
    <2>3. CASE c = a
      <3>1. attempt[a].delivery = v /\ v \in recorded
        BY <2>1, <2>3 DEF Beyond, KeyExists, RowExists, At
      <3>2. QED
        BY <1>2, <3>1 DEF Beyond
    <2>4. QED
      BY <2>2, <2>3
  <1>4. \E c \in Attempts \ {a} :
           attempt[c].delivery = attempt[a].delivery /\ attempt[c].answer # "duplicate"
    BY <1>2, <1>3 DEF KeyExists, RowExists, Beyond
  <1>5. QED
    BY <1>1, <1>2, <1>3, <1>4
       DEF OriginalInv, RowsHaveAnOriginal, KeysHaveAnOriginal, DuplicatesHaveAnOriginal, Beyond, OthersKept

LEMMA StepKeepsOriginals ==
  ASSUME OwnerInv, OriginalInv, NEW a \in Attempts,
         \/ RememberStep(a) \/ PushStep(a) \/ ForgetStep(a) \/ Install(a) \/ InstallFails(a)
  PROVE  OriginalInv'
  <1> USE DEF Becomes, Advances
  <1>1. IntakeTypeOK
    BY DEF OwnerInv
  <1>2. ~KeyExists(a) /\ ~RowExists(a) => Advances(a)
    <2>0. attempt[a].answer = "none" \/ attempt[a].pc \in {"answered"}
      BY DEF OwnerInv, Shape
    <2>1. CASE SetKey(a) \/ SetKeyFails(a)
      <3>1. Goto(a, "delKey") \/ Goto(a, "createRow")
        BY <2>1 DEF SetKey, SetKeyFails, Parse
      <3>2. QED
        BY <1>1, <2>0, <2>1, <3>1, GotoBecomes DEF SetKey, SetKeyFails, AttemptOnly, AttemptPoints, At
    <2>2. CASE CreateRow(a)
      BY <1>1, <2>0, <2>2, GotoBecomes, AnswerBecomes
         DEF CreateRow, AfterRow, AttemptPoints, Answers, At
    <2>3. CASE CreateRowFails(a)
      BY <1>1, <2>0, <2>3, GotoBecomes DEF CreateRowFails, AttemptPoints, At
    <2>4. CASE PushStep(a) \/ Install(a) \/ InstallFails(a)
      BY <2>0, <2>4, PushBecomes DEF Working, AttemptOnly
    <2>5. CASE DelKey(a)
      BY <1>1, <2>0, <2>5, GotoBecomes, AnswerBecomes DEF DelKey, AfterKey, AttemptPoints, Answers, At
    <2>6. CASE DelKeyFails(a) \/ DeleteRow(a) \/ DeleteRowFails(a)
      BY <1>1, <2>6, AnswerBecomes DEF DelKeyFails, DeleteRow, DeleteRowFails, AttemptOnly, Answers
    <2>7. QED
      BY <2>1, <2>2, <2>3, <2>4, <2>5, <2>6 DEF RememberStep, ForgetStep
  <1>3. QED
    BY <1>2, AdvanceKeepsOriginals, DuplicateHasAnOriginal

LEMMA OriginalInvIsInductive == OwnerInv /\ OriginalInv /\ [Next]_vars => OriginalInv'
  <1> SUFFICES ASSUME OwnerInv, OriginalInv, [Next]_vars PROVE OriginalInv'
    OBVIOUS
  <1> USE DEF OriginalInv, RowsHaveAnOriginal, KeysHaveAnOriginal, DuplicatesHaveAnOriginal, Beyond
  <1>1. ASSUME NEW a \in Attempts, NEW v \in Deliveries, Receive(a, v) PROVE OriginalInv'
    <2>1. attempt[a].pc = "idle" /\ attempt[a].delivery = None /\ attempt[a].answer # "duplicate"
      BY <1>1 DEF Receive, At, OwnerInv, Shape
    <2>2. /\ OthersKept(a) /\ attempt'[a].answer # "duplicate" /\ UNCHANGED <<key, recorded>>
      BY <1>1, <2>1, ReceiveBecomes DEF OwnerInv
    <2>3. \A b, c \in Attempts :
             attempt[b].answer = "duplicate" /\ attempt[c].delivery = attempt[b].delivery => c # a
      <3>1. \A b \in Attempts : attempt[b].answer = "duplicate" => attempt[b].delivery # None
        BY IntakeAssumption DEF OwnerInv, Shape, IntakeTypeOK
      <3>2. QED
        BY <2>1, <3>1
    <2>4. QED
      BY <2>1, <2>2, <2>3 DEF OthersKept
  <1>2. CASE Crash
    BY <1>2, CrashBecomes DEF OwnerInv
  <1>3. ASSUME NEW v \in Deliveries, KeyExpires(v) PROVE OriginalInv'
    BY <1>3 DEF KeyExpires
  <1>4. CASE UNCHANGED vars
    BY <1>4 DEF vars
  <1> HIDE DEF OriginalInv
  <1>5. QED
    BY <1>1, <1>2, <1>3, <1>4, StepKeepsOriginals DEF Next, Quiescent

\* GitHub is told "already processed" only if another request of the delivery was
\* answered otherwise, died, or is in progress.
THEOREM DuplicatesAreRepetitions == Spec => []DuplicatesHaveAnOriginal
  <1>1. Init => OriginalInv
    BY InitIntakeInv DEF IntakeInv, OriginalInv
  <1>2. OriginalInv => DuplicatesHaveAnOriginal
    BY DEF OriginalInv
  <1>3. QED
    BY <1>1, <1>2, OwnersAreKept, OriginalInvIsInductive, PTL DEF Spec

===============================================================================
