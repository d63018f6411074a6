------------------------ MODULE ArtifactGatewayProofs ------------------------
(***************************************************************************)
(* Theorems about the production pointer, for any number of deployments,   *)
(* runs, other transitions and concurrent promote and rollback requests,   *)
(* and about the gateway beside the writers of the pointer, for any number *)
(* of commits and visits as well.  A step of the pointer is one of         *)
(* ProductionPointer's, so its invariant carries over to the gateway.      *)
(***************************************************************************)
EXTENDS ArtifactGateway, TLAPS

-------------------------------------------------------------------------------
(***************************************************************************)
(* Type correctness, with what each actor knows of the deployment it is at *)
(* work on.  The key is a fact that no step takes back: a deployment is    *)
(* READY or deleted, or one of the two causes has happened to it.          *)
(***************************************************************************)
Sound(d) ==
    /\ d \in Deployments
    /\ row[d] \in {"READY", "DELETED"} \/ d \in overtaken \cup refused

RowsOK ==
    /\ row \in [Deployments -> Rows]
    /\ \A d \in Old : row[d] \in {"READY", "DELETED"}
    /\ \A d \in Deployments \ Old : row[d] # "DELETED"

\* Neither a run nor a transition starts on an old deployment.
RunOK(x) ==
    /\ x \in RunStates
    /\ x.pc # "idle" => x.dep \in Deployments \ Old
    /\ x.pc = "bind" /\ x.success => Sound(x.dep)

WriterOK(x) ==
    /\ x \in WriterStates
    /\ x.pc # "idle" => x.dep \in Deployments \ Old

\* A request's target was READY when it was validated.
SwapOK(x) ==
    /\ x \in SwapStates
    /\ x.pc \in {"stat", "read", "write"} => Sound(x.target)

CleanerOK ==
    /\ cleaner \in [pc : {"idle", "next", "delete"}, eligible : SUBSET Old, dep : Pointers]
    /\ cleaner.pc = "delete" => cleaner.dep \in Old

PlainTypes ==
    /\ bundle \in [Deployments -> BOOLEAN]
    /\ current \in Pointers
    /\ version \in Nat
    /\ audit \in [old : Pointers, new : Pointers]
    /\ since \subseteq Pointers
    /\ overtaken \subseteq Deployments
    /\ refused \subseteq Deployments

ActorsOK ==
    /\ run \in [Runs -> RunStates]
    /\ \A r \in Runs : RunOK(run[r])
    /\ writer \in [Writers -> WriterStates]
    /\ \A w \in Writers : WriterOK(writer[w])
    /\ swap \in [Swaps -> SwapStates]
    /\ \A q \in Swaps : SwapOK(swap[q])
    /\ CleanerOK

PointerInv == RowsOK /\ PlainTypes /\ ActorsOK /\ UnservableHasACause

LEMMA InitPointerInv == Init => PointerInv
<1> SUFFICES ASSUME Init PROVE PointerInv
  OBVIOUS
<1> USE PointerAssumption DEF Init, Pointers
<1>1. RowsOK
  BY DEF RowsOK, Rows
<1>2. PlainTypes
  BY DEF PlainTypes, NoAudit
<1>3. ActorsOK
  <2>1. NoRun \in RunStates /\ NoWriter \in WriterStates /\ NoSwap \in SwapStates
    BY DEF NoRun, RunStates, NoWriter, WriterStates, NoSwap, SwapStates, Operations
  <2>2. RunOK(NoRun) /\ WriterOK(NoWriter) /\ SwapOK(NoSwap)
    BY <2>1 DEF RunOK, WriterOK, SwapOK, NoRun, NoWriter, NoSwap
  <2>3. QED
    BY <2>1, <2>2 DEF ActorsOK, CleanerOK
<1>4. UnservableHasACause
  BY DEF UnservableHasACause
<1>5. QED
  BY <1>1, <1>2, <1>3, <1>4 DEF PointerInv

\* What every step must do for the actors that it is not a step of: keep the rows,
\* and take nothing back that Sound says.
Stable ==
    /\ RowsOK'
    /\ overtaken \subseteq overtaken' /\ refused \subseteq refused'
    /\ \A d \in Deployments : Sound(d) => Sound(d)'

LEMMA OthersStay ==
    ASSUME PointerInv, Stable
    PROVE  /\ \A r \in Runs : run'[r] = run[r] => RunOK(run[r])'
           /\ \A w \in Writers : writer'[w] = writer[w] => WriterOK(writer[w])'
           /\ \A q \in Swaps : swap'[q] = swap[q] => SwapOK(swap[q])'
<1>1. \A d : Sound(d) => Sound(d)'
  BY DEF Stable, Sound
<1>2. QED
  BY <1>1 DEF PointerInv, ActorsOK, RunOK, WriterOK, SwapOK

\* A step that leaves rows and causes alone is stable.
LEMMA SameRowsAreStable ==
    ASSUME PointerInv, UNCHANGED <<row, overtaken, refused>>
    PROVE  Stable
BY DEF Stable, Sound, PointerInv, RowsOK

-------------------------------------------------------------------------------
(***************************************************************************)
(* The runs.                                                               *)
(***************************************************************************)
LEMMA RunStepIsStable ==
    ASSUME PointerInv, NEW r \in Runs, RunStep(r)
    PROVE  Stable
<1>1. CASE ReadyWrite(r)
  <2>1. run[r].dep \in Deployments \ Old
    BY <1>1 DEF ReadyWrite, PointerInv, ActorsOK, RunOK
  <2>2. row' = [row EXCEPT ![run[r].dep] = "READY"] /\ UNCHANGED <<overtaken, refused>>
    BY <1>1 DEF ReadyWrite
  <2>3. QED
    BY <2>1, <2>2 DEF Stable, Sound, PointerInv, RowsOK, Rows
<1>2. CASE Bind(r)
  BY <1>2 DEF Bind, Stable, Sound, PointerInv, RowsOK
<1>3. CASE ~ReadyWrite(r) /\ ~Bind(r)
  BY <1>3, SameRowsAreStable DEF RunStep, Start, Upload, ReadyRead, ReadyRefused, GiveUp, RunOnly
<1>4. QED
  BY <1>1, <1>2, <1>3

LEMMA RunStepKeepsTypes ==
    ASSUME PointerInv, NEW r \in Runs, RunStep(r)
    PROVE  PlainTypes'
<1> USE PointerAssumption DEF PlainTypes, Pointers
<1>1. PlainTypes /\ (run[r].pc # "idle" => run[r].dep \in Deployments)
  BY DEF PointerInv, ActorsOK, RunOK
<1>2. CASE ReadyWrite(r)
  BY <1>1, <1>2 DEF ReadyWrite, PointTo
<1>3. CASE Bind(r)
  BY <1>1, <1>3 DEF Bind, PointTo
<1>4. CASE Upload(r)
  BY <1>1, <1>4 DEF Upload
<1>5. CASE ~ReadyWrite(r) /\ ~Bind(r) /\ ~Upload(r)
  BY <1>1, <1>5 DEF RunStep, Start, ReadyRead, ReadyRefused, GiveUp, RunOnly
<1>6. QED
  BY <1>2, <1>3, <1>4, <1>5

\* After its transition a run knows whether READY was granted.
LEMMA AfterReadyIsOK ==
    ASSUME PointerInv, Stable, NEW r \in Runs, run[r].pc # "idle", NEW won \in BOOLEAN,
           AfterReady(r, won), NEW d, d = run[r].dep, won => Sound(d)'
    PROVE  RunOK(run[r])'
<1>1. run[r] \in RunStates /\ run[r].dep \in Deployments \ Old /\ run \in [Runs -> RunStates]
  BY DEF PointerInv, ActorsOK, RunOK
<1>2. CASE run[r].dep \in Production
  <2>1. run'[r] = [run[r] EXCEPT !.pc = "bind", !.success = won]
    BY <1>1, <1>2 DEF AfterReady
  <2>2. /\ run'[r] \in RunStates /\ run'[r].dep = d /\ run'[r].success = won
    BY <1>1, <2>1 DEF RunStates
  <2>3. QED
    BY <1>1, <2>2 DEF RunOK
<1>3. CASE run[r].dep \notin Production
  BY <1>1, <1>3 DEF AfterReady, NoRun, RunOK, RunStates, Pointers
<1>4. QED
  BY <1>2, <1>3

LEMMA RunStepKeepsActors ==
    ASSUME PointerInv, NEW r \in Runs, RunStep(r)
    PROVE  ActorsOK'
<1>1. Stable
  BY RunStepIsStable
<1>2. /\ run \in [Runs -> RunStates] /\ run[r] \in RunStates
      /\ run[r].pc # "idle" => run[r].dep \in Deployments \ Old
      /\ run[r].pc = "bind" /\ run[r].success => Sound(run[r].dep)
  BY DEF PointerInv, ActorsOK, RunOK
<1>3. UNCHANGED <<writer, swap, cleaner>>
  BY DEF RunStep, Start, Upload, ReadyRead, ReadyRefused, ReadyWrite, Bind, GiveUp, RunOnly
<1>4. \A p \in Runs \ {r} : run'[p] = run[p]
  BY <1>2 DEF RunStep, Start, Upload, ReadyRead, ReadyRefused, AfterReady, ReadyWrite, Bind, GiveUp
<1>5. DOMAIN run' = Runs /\ run' = [p \in Runs |-> run'[p]]
  BY <1>2 DEF RunStep, Start, Upload, ReadyRead, ReadyRefused, AfterReady, ReadyWrite, Bind, GiveUp
<1>6. RunOK(run[r])'
  <2>1. ASSUME NEW d \in Deployments, Start(r, d) PROVE RunOK(run[r])'
    <3>1. run'[r] = [pc |-> "running", dep |-> d, success |-> FALSE] /\ d \notin Old
      BY <1>2, <2>1 DEF Start
    <3>2. QED
      BY <3>1 DEF RunOK, RunStates, Pointers
  <2>2. CASE Upload(r)
    BY <1>1, <2>2, OthersStay DEF Upload
  <2>3. CASE ReadyRead(r)
    <3>1. run'[r] = [run[r] EXCEPT !.pc = "write"] /\ run[r].pc = "running"
      BY <1>2, <2>3 DEF ReadyRead
    <3>2. run'[r] \in RunStates /\ run'[r].pc = "write" /\ run'[r].dep = run[r].dep
      BY <1>2, <3>1 DEF RunStates
    <3>3. QED
      BY <1>2, <3>1, <3>2 DEF RunOK
  <2>4. CASE ReadyRefused(r)
    <3> DEFINE granted == row[run[r].dep] = "READY"
    <3>1. run[r].pc = "running" /\ AfterReady(r, granted) /\ granted \in BOOLEAN
      BY <2>4 DEF ReadyRefused
    <3>2. PICK d : d = run[r].dep /\ granted = (row[d] = "READY")
      OBVIOUS
    <3> HIDE DEF granted
    <3>3. PICK won \in BOOLEAN : won = granted
      BY <3>1
    <3>4. won => Sound(d)'
      <4>1. d \in Deployments
        BY <1>2, <3>1, <3>2
      <4>2. won => Sound(d)
        BY <3>2, <3>3, <4>1 DEF Sound
      <4>3. QED
        BY <1>1, <4>1, <4>2 DEF Stable
    <3>5. QED
      BY <1>1, <3>1, <3>2, <3>3, <3>4, AfterReadyIsOK
  <2>5. CASE ReadyWrite(r)
    <3>1. PICK d : d = run[r].dep /\ run[r].pc = "write" /\ AfterReady(r, TRUE)
      BY <2>5 DEF ReadyWrite
    <3>2. Sound(d)'
      BY <1>2, <2>5, <3>1 DEF ReadyWrite, Sound, PointerInv, RowsOK
    <3>3. QED
      BY <1>1, <3>1, <3>2, AfterReadyIsOK
  <2>6. CASE Bind(r) \/ GiveUp(r)
    <3>1. run'[r] = NoRun
      BY <1>2, <2>6 DEF Bind, GiveUp
    <3>2. QED
      BY <3>1 DEF NoRun, RunOK, RunStates, Pointers
  <2>7. QED
    BY <2>1, <2>2, <2>3, <2>4, <2>5, <2>6 DEF RunStep
<1>7. \A p \in Runs : RunOK(run[p])'
  BY <1>1, <1>4, <1>6, OthersStay
<1>8. run' \in [Runs -> RunStates]
  BY <1>5, <1>7 DEF RunOK
<1>9. /\ writer' \in [Writers -> WriterStates] /\ swap' \in [Swaps -> SwapStates]
      /\ CleanerOK'
  BY <1>3 DEF PointerInv, ActorsOK, CleanerOK
<1>10. QED
  BY <1>1, <1>3, <1>7, <1>8, <1>9, OthersStay DEF ActorsOK

LEMMA RunStepKeepsPointerInv ==
    ASSUME PointerInv, NEW r \in Runs, RunStep(r)
    PROVE  PointerInv' /\ Stable
<1>1. Stable
  BY RunStepIsStable
<1>2. UnservableHasACause'
  <2>1. CASE ReadyWrite(r)
    <3>1. run[r].dep \in Deployments
      BY <2>1 DEF ReadyWrite, PointerInv, ActorsOK, RunOK
    <3>2. QED
      BY <2>1, <3>1 DEF ReadyWrite, PointTo, UnservableHasACause, PointerInv, RowsOK
  <2>2. CASE Bind(r)
    <3>1. /\ run[r].dep \in Deployments \ Old
          /\ run[r].success => Sound(run[r].dep)
      BY <2>2 DEF Bind, PointerInv, ActorsOK, RunOK
    <3>2. row[run[r].dep] # "DELETED"
      BY <3>1 DEF PointerInv, RowsOK
    <3>3. /\ current' = run[r].dep /\ UNCHANGED <<row, overtaken>>
          /\ refused' = IF run[r].success THEN refused ELSE refused \cup {run[r].dep}
      BY <2>2 DEF Bind, PointTo
    <3>4. QED
      BY <3>1, <3>2, <3>3 DEF UnservableHasACause, Sound
  <2>3. CASE ~ReadyWrite(r) /\ ~Bind(r)
    BY <2>3 DEF RunStep, Start, Upload, ReadyRead, ReadyRefused, GiveUp, RunOnly,
       UnservableHasACause, PointerInv
  <2>4. QED
    BY <2>1, <2>2, <2>3
<1>3. QED
  BY <1>1, <1>2, RunStepKeepsTypes, RunStepKeepsActors DEF PointerInv, Stable

-------------------------------------------------------------------------------
(***************************************************************************)
(* The other transitions.                                                  *)
(***************************************************************************)
LEMMA WriterStepKeepsPointerInv ==
    ASSUME PointerInv, NEW w \in Writers, WriterStep(w)
    PROVE  PointerInv' /\ Stable
<1>1. /\ writer \in [Writers -> WriterStates] /\ writer[w] \in WriterStates
      /\ writer[w].pc # "idle" => writer[w].dep \in Deployments \ Old
  BY DEF PointerInv, ActorsOK, WriterOK
<1>2. UNCHANGED <<bundle, current, version, audit, since, refused, run, swap, cleaner>>
  BY DEF WriterStep, ChangeRead, ChangeWrite, ChangeAborts, WriterOnly
<1>3. CASE ChangeWrite(w)
  <2>1. PICK d :
        /\ d = writer[w].dep /\ d \in Deployments \ Old /\ writer[w].to \in Rows \ {"DELETED"}
        /\ row' = [row EXCEPT ![d] = writer[w].to] /\ row \in [Deployments -> Rows]
        /\ overtaken' = IF row[d] = "READY" THEN overtaken \cup {d} ELSE overtaken
        /\ row[d] # "DELETED"
    BY <1>1, <1>3 DEF ChangeWrite, WriterStates, Rows, PointerInv, RowsOK
  <2>2. RowsOK'
    BY <2>1 DEF PointerInv, RowsOK
  <2>3. \A e \in Deployments : Sound(e) => Sound(e)'
    BY <1>2, <2>1 DEF Sound
  <2>4. PlainTypes'
    BY <1>2, <2>1 DEF PointerInv, PlainTypes
  <2>5. UnservableHasACause'
    <3>1. current' # None => current \in Deployments /\ current' = current
      BY <1>2 DEF PointerInv, PlainTypes, Pointers
    <3>2. CASE current = d
      BY <1>2, <2>1, <3>1, <3>2 DEF PointerInv, UnservableHasACause
    <3>3. CASE current # d
      BY <1>2, <2>1, <3>1, <3>3 DEF PointerInv, UnservableHasACause
    <3>4. QED
      BY <3>2, <3>3
  <2>6. writer' = [writer EXCEPT ![w] = NoWriter]
    BY <1>3 DEF ChangeWrite
  <2>7. /\ WriterOK(NoWriter)' /\ NoWriter \in WriterStates
    BY DEF NoWriter, WriterOK, WriterStates, Pointers
  <2>8. Stable
    BY <1>2, <2>1, <2>2, <2>3 DEF Stable
  <2>9. ActorsOK'
    <3>1. \A v \in Writers : WriterOK(writer[v])'
      BY <1>1, <2>6, <2>7, <2>8, OthersStay
    <3>2. writer' \in [Writers -> WriterStates]
      BY <1>1, <2>6, <2>7
    <3>3. CleanerOK' /\ run' \in [Runs -> RunStates] /\ swap' \in [Swaps -> SwapStates]
      BY <1>2 DEF PointerInv, ActorsOK, CleanerOK
    <3>4. QED
      BY <1>2, <2>8, <3>1, <3>2, <3>3, OthersStay DEF ActorsOK
  <2>10. QED
    BY <2>2, <2>4, <2>5, <2>8, <2>9 DEF PointerInv
<1>4. CASE ~ChangeWrite(w)
  <2>1. UNCHANGED <<row, overtaken>>
    BY <1>4 DEF WriterStep, ChangeRead, ChangeAborts, WriterOnly
  <2>2. Stable
    BY <1>2, <2>1, SameRowsAreStable
  <2>3. PICK x : writer' = [writer EXCEPT ![w] = x] /\ WriterOK(x)
    <3>1. CASE ChangeAborts(w)
      <4>1. writer' = [writer EXCEPT ![w] = NoWriter] /\ WriterOK(NoWriter)
        BY <3>1 DEF ChangeAborts, NoWriter, WriterOK, WriterStates, Pointers
      <4>2. QED
        BY <4>1
    <3>2. ASSUME NEW d \in Deployments, ChangeRead(w, d)
          PROVE  \E x : writer' = [writer EXCEPT ![w] = x] /\ WriterOK(x)
      <4>1. PICK to \in {"BUILDING", "FAILED", "CANCELLED"} :
               writer' = [writer EXCEPT ![w] = [pc |-> "write", dep |-> d, to |-> to]]
        BY <3>2 DEF ChangeRead
      <4>2. d \notin Old
        BY <3>2 DEF ChangeRead, PointerInv, RowsOK
      <4>3. WriterOK([pc |-> "write", dep |-> d, to |-> to])
        BY <4>2 DEF WriterOK, WriterStates, Pointers
      <4>4. QED
        BY <4>1, <4>3
    <3>3. QED
      BY <1>4, <3>1, <3>2 DEF WriterStep
  <2>4. WriterOK(x)' /\ x \in WriterStates
    BY <2>3 DEF WriterOK
  <2>5. ActorsOK'
    <3>1. \A v \in Writers : WriterOK(writer[v])'
      BY <1>1, <2>2, <2>3, <2>4, OthersStay
    <3>2. writer' \in [Writers -> WriterStates]
      BY <1>1, <2>3, <2>4
    <3>3. CleanerOK' /\ run' \in [Runs -> RunStates] /\ swap' \in [Swaps -> SwapStates]
      BY <1>2 DEF PointerInv, ActorsOK, CleanerOK
    <3>4. QED
      BY <1>2, <2>2, <3>1, <3>2, <3>3, OthersStay DEF ActorsOK
  <2>6. PlainTypes' /\ UnservableHasACause'
    BY <1>2, <2>1 DEF PointerInv, PlainTypes, UnservableHasACause
  <2>7. QED
    BY <2>2, <2>5, <2>6 DEF PointerInv, Stable
<1>5. QED
  BY <1>3, <1>4

-------------------------------------------------------------------------------
(***************************************************************************)
(* The requests.                                                           *)
(***************************************************************************)
\* A request whose next state is OK, and that changes at most the pointer.
LEMMA SwapChangeIsOK ==
    ASSUME PointerInv, NEW q \in Swaps, NEW y, SwapOK(y), swap' = [swap EXCEPT ![q] = y],
           UNCHANGED <<row, overtaken, refused, run, writer, cleaner>>
    PROVE  RowsOK' /\ ActorsOK'
<1>1. Stable
  BY SameRowsAreStable
<1>2. SwapOK(y)' /\ y \in SwapStates
  <2>1. \A d : Sound(d) => Sound(d)'
    BY <1>1 DEF Stable, Sound
  <2>2. QED
    BY <2>1 DEF SwapOK
<1>3. swap \in [Swaps -> SwapStates]
  BY DEF PointerInv, ActorsOK
<1>4. (\A p \in Swaps : SwapOK(swap[p])') /\ swap' \in [Swaps -> SwapStates]
  BY <1>1, <1>2, <1>3, OthersStay
<1>5. CleanerOK' /\ run' \in [Runs -> RunStates] /\ writer' \in [Writers -> WriterStates]
  BY DEF PointerInv, ActorsOK, CleanerOK
<1>6. QED
  BY <1>1, <1>4, <1>5, OthersStay DEF ActorsOK, Stable

LEMMA SwapStepKeepsPointerInv ==
    ASSUME PointerInv, NEW q \in Swaps, SwapStep(q)
    PROVE  PointerInv' /\ Stable
<1> DEFINE x == swap[q]
<1>1. /\ x \in SwapStates /\ SwapOK(x)
      /\ x.pc \in {"stat", "read", "write"} => Sound(x.target) /\ x.target \in Deployments
      /\ PlainTypes /\ RowsOK /\ UnservableHasACause
  BY DEF PointerInv, ActorsOK, SwapOK, Sound
<1>2. UNCHANGED <<row, bundle, overtaken, refused, run, writer, cleaner>>
  BY DEF SwapStep, Validate, Stat, StatIsIgnored, SwapRead, SwapWrite, SwapConflicts, SwapFails,
     SwapOnly
<1>3. ASSUME NEW r \in {"swapped", "already", "400", "409", "500"}, Reply(q, r)
      PROVE  \E y : SwapOK(y) /\ swap' = [swap EXCEPT ![q] = y]
  <2> DEFINE y == [NoSwap EXCEPT !.pc = "replied", !.reply = r]
  <2>1. y \in SwapStates /\ y.pc = "replied"
    BY DEF NoSwap, SwapStates, Operations, Pointers
  <2>2. SwapOK(y)
    BY <2>1 DEF SwapOK
  <2>3. swap' = [swap EXCEPT ![q] = y]
    BY <1>3 DEF Reply
  <2>4. QED
    BY <2>2, <2>3
<1>4. \E y : SwapOK(y) /\ swap' = [swap EXCEPT ![q] = y]
  <2>1. ASSUME NEW op \in Operations, NEW d \in Deployments, Validate(q, op, d)
        PROVE  \E y : SwapOK(y) /\ swap' = [swap EXCEPT ![q] = y]
    <3>1. CASE row[d] = "READY"
      <4> DEFINE act == (current = d)
                 y == [x EXCEPT !.pc = "stat", !.op = op, !.target = d, !.active = act]
      <4>1. act \in BOOLEAN
        OBVIOUS
      <4>2. swap' = [swap EXCEPT ![q] = y]
        BY <2>1, <3>1 DEF Validate
      <4> HIDE DEF act
      <4>3. y \in SwapStates /\ y.target = d
        BY <1>1, <4>1 DEF SwapStates, Pointers
      <4>4. SwapOK(y)
        BY <3>1, <4>3 DEF SwapOK, Sound
      <4>5. QED
        BY <4>2, <4>4
    <3>2. CASE row[d] # "READY"
      BY <1>3, <2>1, <3>2 DEF Validate
    <3>3. QED
      BY <3>1, <3>2
  <2>2. CASE Stat(q) \/ StatIsIgnored(q)
    <3>1. swap' = [swap EXCEPT ![q].pc = "read"] \/ \E r \in {"already", "400", "409"} : Reply(q, r)
      BY <2>2 DEF Stat, StatIsIgnored, AfterStat
    <3>2. CASE swap' = [swap EXCEPT ![q].pc = "read"]
      <4> DEFINE y == [x EXCEPT !.pc = "read"]
      <4>1. y \in SwapStates /\ y.target = x.target /\ x.pc = "stat"
        BY <1>1, <2>2 DEF SwapStates, Stat, StatIsIgnored
      <4>2. SwapOK(y) /\ swap' = [swap EXCEPT ![q] = y]
        BY <1>1, <3>2, <4>1 DEF SwapOK
      <4>3. QED
        BY <4>2
    <3>3. QED
      BY <1>3, <3>1, <3>2
  <2>3. CASE SwapRead(q)
    <3> DEFINE y == [x EXCEPT !.pc = "write", !.old = current, !.version = version]
    <3>1. y \in SwapStates /\ y.target = x.target /\ x.pc = "read"
      BY <1>1, <2>3 DEF SwapStates, SwapRead, PlainTypes
    <3>2. SwapOK(y) /\ swap' = [swap EXCEPT ![q] = y]
      BY <1>1, <2>3, <3>1 DEF SwapOK, SwapRead
    <3>3. QED
      BY <3>2
  <2>4. CASE SwapWrite(q) \/ SwapConflicts(q) \/ SwapFails(q)
    BY <1>3, <2>4 DEF SwapWrite, SwapConflicts, SwapFails
  <2>5. QED
    BY <2>1, <2>2, <2>3, <2>4 DEF SwapStep
<1>5. RowsOK' /\ ActorsOK'
  BY <1>2, <1>4, SwapChangeIsOK
<1>6. PlainTypes' /\ UnservableHasACause'
  <2>1. CASE SwapWrite(q)
    <3>1. /\ Sound(x.target) /\ x.target \in Deployments /\ row[x.target] # "DELETED"
          /\ current' = x.target /\ version' = version + 1 /\ since' = {x.target}
          /\ audit' = [old |-> x.old, new |-> x.target] /\ x.old \in Pointers
      BY <1>1, <2>1 DEF SwapWrite, SwapStates
    <3>2. PlainTypes'
      BY <1>1, <1>2, <3>1 DEF PlainTypes, Pointers
    <3>3. QED
      BY <1>2, <3>1, <3>2 DEF UnservableHasACause, Sound
  <2>2. CASE ~SwapWrite(q)
    <3>1. UNCHANGED <<current, version, audit, since>>
      BY <2>2 DEF SwapStep, Validate, Stat, StatIsIgnored, SwapRead, SwapConflicts, SwapFails,
         SwapOnly
    <3>2. QED
      BY <1>1, <1>2, <3>1 DEF PlainTypes, UnservableHasACause
  <2>3. QED
    BY <2>1, <2>2
<1>7. QED
  BY <1>2, <1>5, <1>6, SameRowsAreStable DEF PointerInv

-------------------------------------------------------------------------------
(***************************************************************************)
(* The cleanup.                                                            *)
(***************************************************************************)
LEMMA CleanerStepKeepsPointerInv ==
    ASSUME PointerInv, CleanerStep
    PROVE  PointerInv' /\ Stable
<1> USE PointerAssumption DEF PlainTypes, CleanerOK, Pointers
<1>1. RowsOK /\ PlainTypes /\ ActorsOK /\ CleanerOK /\ UnservableHasACause
  BY DEF PointerInv, ActorsOK
<1>2. UNCHANGED <<version, audit, overtaken, refused, run, writer, swap>>
  BY DEF CleanerStep, SelectOld, RemoveObjects, RemoveObjectsFails, DeleteRow, DeleteRowFails,
     EndOfPass, CleanerOnly
<1>3. Stable /\ PlainTypes' /\ UnservableHasACause' /\ CleanerOK'
  <2>1. CASE DeleteRow
    <3>1. PICK d :
          /\ d = cleaner.dep /\ d \in Old /\ d \in Deployments /\ row \in [Deployments -> Rows]
          /\ row' = [row EXCEPT ![d] = "DELETED"] /\ bundle' = bundle
          /\ current' = IF current = d THEN None ELSE current
          /\ since' = IF current = d THEN since \cup {None} ELSE since
          /\ cleaner' = [cleaner EXCEPT !.pc = "next"]
      BY <1>1, <2>1 DEF DeleteRow, RowsOK
    <3>2. RowsOK'
      BY <1>1, <3>1 DEF RowsOK, Rows
    <3>3. \A e \in Deployments : Sound(e) => Sound(e)'
      BY <1>2, <3>1 DEF Sound
    <3>4. PlainTypes' /\ CleanerOK'
      BY <1>1, <1>2, <3>1
    <3>5. UnservableHasACause'
      BY <1>1, <1>2, <3>1 DEF UnservableHasACause
    <3>6. QED
      BY <1>2, <3>2, <3>3, <3>4, <3>5 DEF Stable
  <2>2. CASE ~DeleteRow
    <3>1. UNCHANGED <<row, current, since>>
      BY <2>2 DEF CleanerStep, SelectOld, RemoveObjects, RemoveObjectsFails, DeleteRowFails,
         EndOfPass, CleanerOnly
    <3>2. Stable /\ UnservableHasACause'
      BY <1>1, <1>2, <3>1, SameRowsAreStable DEF UnservableHasACause
    <3>3. PlainTypes' /\ CleanerOK'
      <4>1. CASE SelectOld
        BY <1>1, <4>1 DEF SelectOld, CleanerOnly
      <4>2. CASE DeleteRowFails \/ EndOfPass
        BY <1>1, <4>2 DEF DeleteRowFails, EndOfPass, CleanerOnly
      <4>3. ASSUME NEW d \in Deployments, RemoveObjects(d) PROVE PlainTypes' /\ CleanerOK'
        BY <1>1, <4>3 DEF RemoveObjects
      <4>4. ASSUME NEW d \in Deployments, RemoveObjectsFails(d) PROVE PlainTypes' /\ CleanerOK'
        BY <1>1, <4>4 DEF RemoveObjectsFails
      <4>5. QED
        BY <2>2, <4>1, <4>2, <4>3, <4>4 DEF CleanerStep
    <3>4. QED
      BY <3>2, <3>3
  <2>3. QED
    BY <2>1, <2>2
<1>4. run' \in [Runs -> RunStates] /\ writer' \in [Writers -> WriterStates]
      /\ swap' \in [Swaps -> SwapStates]
  BY <1>1, <1>2 DEF ActorsOK
<1>5. ActorsOK'
  BY <1>2, <1>3, <1>4, OthersStay DEF ActorsOK
<1>6. QED
  BY <1>3, <1>5 DEF PointerInv, Stable

LEMMA StutterKeepsPointerInv ==
    ASSUME PointerInv, UNCHANGED vars
    PROVE  PointerInv' /\ Stable
<1>1. Stable
  BY SameRowsAreStable DEF vars
<1>2. QED
  BY <1>1 DEF vars, PointerInv, RowsOK, PlainTypes, ActorsOK, RunOK, WriterOK, SwapOK, Sound,
     CleanerOK, UnservableHasACause

LEMMA StepKeepsPointerInv == PointerInv /\ [Next]_vars => PointerInv' /\ Stable
BY RunStepKeepsPointerInv, WriterStepKeepsPointerInv, SwapStepKeepsPointerInv,
   CleanerStepKeepsPointerInv, StutterKeepsPointerInv DEF Next

LEMMA NextPointerInv == PointerInv /\ [Next]_vars => PointerInv'
BY StepKeepsPointerInv

LEMMA PointerInvariance == Spec => []PointerInv
BY InitPointerInv, NextPointerInv, PTL DEF Spec

LEMMA PointerInvImplies == PointerInv => PointerTypeOK /\ UnservableHasACause
BY PointerAssumption DEF PointerInv, RowsOK, PlainTypes, ActorsOK, PointerTypeOK, CleanerOK

\* Every variable keeps its type.
THEOREM PointerTypeCorrectness == Spec => []PointerTypeOK
BY PointerInvariance, PointerInvImplies, PTL

\* Whatever runs, cancels, requests and the cleanup do at once, production names a
\* deployment that has its row, and one that is not READY only after a stale
\* transition overwrote its READY or its run bound it although READY was refused.
THEOREM UnservableIsExplained == Spec => []UnservableHasACause
BY PointerInvariance, PointerInvImplies, PTL

-------------------------------------------------------------------------------
(***************************************************************************)
(* The audit trail.  A request that would still pass the version check     *)
(* read the pointer after the last audited swap, because each such swap    *)
(* raises the version above every one that was read before.                *)
(***************************************************************************)
ChainInv ==
    /\ PointerInv
    /\ current \in since
    /\ \A q \in Swaps : swap[q].pc = "write" =>
          /\ swap[q].version <= version
          /\ swap[q].version = version => swap[q].old \in since

LEMMA InitChainInv == Init => ChainInv
BY InitPointerInv DEF Init, ChainInv, NoSwap

LEMMA NextChainInv == ChainInv /\ [Next]_vars => ChainInv'
<1> SUFFICES ASSUME ChainInv, [Next]_vars PROVE ChainInv'
  OBVIOUS
<1>1. PointerInv'
  BY NextPointerInv DEF ChainInv
<1> SUFFICES /\ current' \in since'
             /\ \A p \in Swaps : swap'[p].pc = "write" =>
                   /\ swap'[p].version <= version'
                   /\ swap'[p].version = version' => swap'[p].old \in since'
  BY <1>1 DEF ChainInv
<1>2. /\ version \in Nat
      /\ swap \in [Swaps -> SwapStates]
      /\ \A p \in Swaps : swap[p].version \in Nat
  BY DEF ChainInv, PointerInv, PlainTypes, ActorsOK, SwapStates
<1>3. CASE (\E r \in Runs : RunStep(r)) \/ (\E w \in Writers : WriterStep(w)) \/ CleanerStep
  <2>1. /\ UNCHANGED <<swap, version>>
        /\ since \subseteq since'
        /\ current' = current \/ current' \in since'
    BY <1>3 DEF RunStep, Start, Upload, ReadyRead, ReadyRefused, ReadyWrite, Bind, GiveUp, RunOnly,
       PointTo, WriterStep, ChangeRead, ChangeWrite, ChangeAborts, WriterOnly, CleanerStep,
       SelectOld, DeleteRow, DeleteRowFails, EndOfPass, RemoveObjects, RemoveObjectsFails,
       CleanerOnly
  <2>2. QED
    BY <2>1 DEF ChainInv
<1>4. ASSUME NEW q \in Swaps, SwapStep(q), ~SwapWrite(q)
      PROVE  /\ UNCHANGED <<current, since, version>>
             /\ \A p \in Swaps : swap'[p].pc = "write" =>
                   \/ swap'[p] = swap[p]
                   \/ swap'[p].version = version /\ swap'[p].old = current
  <2>1. UNCHANGED <<current, since, version>>
    BY <1>4 DEF SwapStep, Validate, Stat, StatIsIgnored, SwapRead, SwapConflicts, SwapFails, SwapOnly
  <2>2. ASSUME NEW r, Reply(q, r) PROVE swap'[q].pc = "replied"
    BY <1>2, <2>2 DEF Reply, NoSwap
  <2>3. \A p \in Swaps \ {q} : swap'[p] = swap[p]
    <3>1. ASSUME NEW op \in Operations, NEW d \in Deployments, Validate(q, op, d)
          PROVE  \A p \in Swaps \ {q} : swap'[p] = swap[p]
      BY <1>2, <3>1 DEF Validate, Reply
    <3>2. CASE Stat(q) \/ StatIsIgnored(q)
      BY <1>2, <3>2 DEF Stat, StatIsIgnored, AfterStat, Reply
    <3>3. CASE SwapRead(q)
      BY <1>2, <3>3 DEF SwapRead
    <3>4. CASE SwapConflicts(q) \/ SwapFails(q)
      BY <1>2, <3>4 DEF SwapConflicts, SwapFails, Reply
    <3>5. QED
      BY <1>4, <3>1, <3>2, <3>3, <3>4 DEF SwapStep
  <2>4. CASE SwapRead(q)
    <3>1. swap'[q].version = version /\ swap'[q].old = current
      BY <1>2, <2>4 DEF SwapRead, SwapStates
    <3>2. QED
      BY <2>1, <2>3, <3>1
  <2>5. CASE ~SwapRead(q)
    <3>1. swap'[q].pc # "write"
      <4>1. ASSUME NEW op \in Operations, NEW d \in Deployments, Validate(q, op, d)
            PROVE  swap'[q].pc # "write"
        <5>1. CASE row[d] = "READY"
          BY <1>2, <4>1, <5>1 DEF Validate, SwapStates
        <5>2. CASE row[d] # "READY"
          BY <2>2, <4>1, <5>2 DEF Validate
        <5>3. QED
          BY <5>1, <5>2
      <4>2. CASE Stat(q) \/ StatIsIgnored(q)
        <5>1. swap' = [swap EXCEPT ![q].pc = "read"] \/ \E r : Reply(q, r)
          BY <4>2 DEF Stat, StatIsIgnored, AfterStat
        <5>2. QED
          BY <1>2, <2>2, <5>1 DEF SwapStates
      <4>3. CASE SwapConflicts(q) \/ SwapFails(q)
        BY <2>2, <4>3 DEF SwapConflicts, SwapFails
      <4>4. QED
        BY <1>4, <2>5, <4>1, <4>2, <4>3 DEF SwapStep
    <3>2. QED
      BY <2>1, <2>3, <3>1
  <2>6. QED
    BY <2>4, <2>5
<1>5. ASSUME NEW q \in Swaps, SwapWrite(q)
      PROVE  /\ current' \in since' /\ version' = version + 1
             /\ \A p \in Swaps : swap'[p].pc = "write" => swap'[p] = swap[p]
  BY <1>2, <1>5 DEF SwapWrite, Reply, NoSwap
<1>6. CASE UNCHANGED vars
  BY <1>6 DEF vars, ChainInv
<1>7. ASSUME NEW q \in Swaps, SwapStep(q)
      PROVE  /\ current' \in since'
             /\ \A p \in Swaps : swap'[p].pc = "write" =>
                   /\ swap'[p].version <= version'
                   /\ swap'[p].version = version' => swap'[p].old \in since'
  <2>1. CASE SwapWrite(q)
    BY <1>2, <1>5, <2>1 DEF ChainInv
  <2>2. CASE ~SwapWrite(q)
    BY <1>2, <1>4, <1>7, <2>2 DEF ChainInv
  <2>3. QED
    BY <2>1, <2>2
<1>8. QED
  BY <1>3, <1>6, <1>7 DEF Next

LEMMA AuditStepChains == ChainInv /\ [Next]_vars => [audit' # audit => audit'.old \in since]_vars
<1> SUFFICES ASSUME ChainInv, Next, audit' # audit PROVE audit'.old \in since
  BY DEF vars
<1>1. PICK q \in Swaps : SwapWrite(q)
  BY DEF Next, RunStep, Start, Upload, ReadyRead, ReadyRefused, ReadyWrite, Bind, GiveUp, RunOnly,
     WriterStep, ChangeRead, ChangeWrite, ChangeAborts, WriterOnly, CleanerStep, SelectOld,
     DeleteRow, DeleteRowFails, EndOfPass, RemoveObjects, RemoveObjectsFails, CleanerOnly,
     SwapStep, Validate, Stat, StatIsIgnored, SwapRead, SwapConflicts, SwapFails, SwapOnly
<1>2. QED
  BY <1>1 DEF SwapWrite, ChainInv

\* The old deployment of every audited swap is one the pointer named since the
\* audited swap before it: of two requests that read the same version only one
\* is audited.
THEOREM AuditTrailChains == Spec => AuditsChain
BY InitChainInv, NextChainInv, AuditStepChains, PTL DEF Spec, AuditsChain

-------------------------------------------------------------------------------
(***************************************************************************)
(* The gateway: its operators.                                             *)
(***************************************************************************)
\* findFirst finds one of the rows, and the newest, unless there is none.
LEMMA NewestFound ==
    ASSUME NEW deps \in SUBSET Deployments
    PROVE  /\ deps = {} => Newest(deps) = None
           /\ deps # {} => /\ Newest(deps) \in deps
                           /\ \A e \in deps : CreatedAt[e] <= CreatedAt[Newest(deps)]
BY GatewayAssumption DEF Newest

Gone(h) ==
    CASE h.kind = "id"     -> ~There(h.of)
      [] h.kind = "slug"   -> TRUE
      [] h.kind = "commit" -> \A d \in Deployments : Commit[d] = h.of => ~There(d)

\* What the gateway finds for a host of either kind but production.
LEMMA TargetFound ==
    ASSUME PointerInv, NEW h \in Hosts, h.kind # "slug"
    PROVE  /\ GatewayTarget(h) \in Pointers
           /\ GatewayTarget(h) = None => Gone(h)
           /\ GatewayTarget(h) # None => There(GatewayTarget(h))
<1>1. CASE h.kind = "id"
  BY <1>1, PointerAssumption DEF Hosts, GatewayTarget, Gone, There, Pointers
<1>2. CASE h.kind = "commit"
  <2> DEFINE deps == {d \in Deployments : Commit[d] = h.of /\ There(d)}
  <2>1. GatewayTarget(h) = Newest(deps)
    BY <1>2 DEF GatewayTarget
  <2>2. CASE deps = {}
    BY <1>2, <2>1, <2>2, NewestFound DEF Gone, Pointers
  <2>3. CASE deps # {}
    BY <2>1, <2>3, NewestFound, PointerAssumption DEF Pointers
  <2>4. QED
    BY <2>2, <2>3
<1>3. QED
  BY <1>1, <1>2 DEF Hosts

-------------------------------------------------------------------------------
(***************************************************************************)
(* The invariant: what a visit of production saw is sound still.           *)
(***************************************************************************)
ViewOK(x) ==
    /\ x \in ViewStates
    /\ x.pc = "answered" \/ x.answer = "none"
    /\ x.pc = "project" => x.host.kind = "slug"
    /\ x.pc = "deployment" /\ x.host.kind = "slug" => Sound(x.saw)
    /\ x.pc = "object" => x.dep \in Deployments
    /\ x.host.kind = "slug" /\ x.answer = "403" => x.dep \in overtaken \cup refused

GatewayInv == PointerInv /\ \A v \in Views : ViewOK(view[v])

ViewsOK ==
    /\ view \in [Views -> ViewStates]
    /\ GatewayInv

LEMMA InitGatewayInv == GatewayInit => ViewsOK
<1> SUFFICES ASSUME GatewayInit PROVE ViewsOK
  OBVIOUS
<1>1. PointerInv
  BY InitPointerInv DEF GatewayInit
<1>2. \A h \in Hosts : NoView(h) \in ViewStates
  BY DEF NoView, ViewStates, Pointers
<1>3. \A v \in Views : ViewOK(view[v])
  <2> TAKE v \in Views
  <2>1. PICK h \in Hosts : view[v] = NoView(h)
    BY DEF GatewayInit
  <2>2. QED
    BY <1>2, <2>1 DEF ViewOK, NoView
<1>4. view \in [Views -> ViewStates]
  BY <1>2 DEF GatewayInit
<1>5. QED
  BY <1>1, <1>3, <1>4 DEF ViewsOK, GatewayInv

\* A step of the others leaves a visit as it is, and what it knows true.
LEMMA PointerStepKeepsViews ==
    ASSUME PointerInv, [Next]_vars, NEW x, ViewOK(x)
    PROVE  ViewOK(x)'
<1>1. Stable
  BY StepKeepsPointerInv
<1>2. \A d : Sound(d) => Sound(d)'
  BY <1>1 DEF Stable, Sound
<1>3. QED
  BY <1>1, <1>2 DEF ViewOK, Stable

\* A step of a visit changes this visit only; that it keeps ViewOK is shown
\* field by field.
LEMMA ViewChanges ==
    ASSUME ViewsOK, NEW v \in Views, UNCHANGED vars, NEW y,
           ViewOK(y), view' = [view EXCEPT ![v] = y]
    PROVE  ViewsOK'
<1>1. PointerInv'
  BY StutterKeepsPointerInv DEF ViewsOK, GatewayInv
<1>2. ASSUME NEW x, ViewOK(x) PROVE ViewOK(x)'
  BY <1>2, PointerStepKeepsViews DEF ViewsOK, GatewayInv
<1>3. view' \in [Views -> ViewStates]
  BY DEF ViewsOK, ViewOK
<1>4. \A w \in Views : view'[w] = view[w] \/ view'[w] = y
  BY DEF ViewsOK
<1>5. \A w \in Views : ViewOK(view[w])'
  <2> TAKE w \in Views
  <2>1. CASE view'[w] = y
    BY <1>2, <2>1
  <2>2. CASE view'[w] = view[w]
    BY <1>2, <2>2 DEF ViewsOK, GatewayInv
  <2>3. QED
    BY <1>4, <2>1, <2>2
<1>6. QED
  BY <1>1, <1>3, <1>5 DEF ViewsOK, GatewayInv

\* An answer: 403 is for a deployment with a cause, if the host is production's.
LEMMA AnswerIsOK ==
    ASSUME NEW x, ViewOK(x), NEW r \in {"200", "403", "404"}, NEW dep \in Pointers,
           NEW saw \in Pointers, NEW ref \in BOOLEAN, NEW y,
           y = [x EXCEPT !.pc = "answered", !.saw = saw, !.dep = dep, !.refused = ref,
                         !.answer = r],
           r = "403" /\ x.host.kind = "slug" => dep \in overtaken \cup refused
    PROVE  ViewOK(y)
<1>1. y \in ViewStates /\ y.pc = "answered" /\ y.answer = r /\ y.host = x.host /\ y.dep = dep
  BY DEF ViewOK, ViewStates
<1>2. QED
  BY <1>1 DEF ViewOK

\* The page is delivered.
LEMMA DeliveryIsOK ==
    ASSUME NEW x, ViewOK(x), x.pc = "object", x.answer = "none", NEW y,
           y = [x EXCEPT !.pc = Resolving(x.host), !.path = "asset", !.page = x.dep]
    PROVE  ViewOK(y)
<1>1. /\ Resolving(x.host) \in {"project", "deployment"}
      /\ Resolving(x.host) = "deployment" => x.host.kind # "slug"
      /\ Resolving(x.host) = "project" => x.host.kind = "slug"
  BY DEF Resolving
<1>2. /\ y \in ViewStates /\ y.pc = Resolving(x.host) /\ y.answer = "none" /\ y.host = x.host
  BY <1>1 DEF ViewOK, ViewStates
<1>3. QED
  BY <1>1, <1>2 DEF ViewOK

LEMMA ViewStepKeepsViews ==
    ASSUME ViewsOK, NEW v \in Views, ViewStep(v)
    PROVE  ViewsOK'
<1> DEFINE x == view[v]
<1>1. /\ ViewOK(x) /\ x \in ViewStates /\ x.host \in Hosts
      /\ x.dep \in Pointers /\ x.saw \in Pointers /\ x.refused \in BOOLEAN
      /\ PointerInv /\ view \in [Views -> ViewStates] /\ current \in Pointers
  BY DEF ViewsOK, GatewayInv, ViewOK, ViewStates, PointerInv, PlainTypes
<1>2. UNCHANGED vars
  BY DEF ViewStep, Open, ReadProject, ReadDeployment, ServePage, ServeAsset, StorageRefuses, ViewOnly
<1>3. ASSUME NEW y, ViewOK(y), view' = [view EXCEPT ![v] = y] PROVE ViewsOK'
  BY <1>2, <1>3, ViewChanges
<1>4. CASE Open(v)
  <2>1. PICK path \in {"index", "route"} :
           view' = [view EXCEPT ![v] = [@ EXCEPT !.pc = Resolving(view[v].host), !.path = path]]
    BY <1>4 DEF Open
  <2> DEFINE y == [x EXCEPT !.pc = Resolving(x.host), !.path = path]
  <2>2. /\ x.pc = "idle" /\ x.answer = "none"
        /\ Resolving(x.host) \in {"project", "deployment"}
        /\ Resolving(x.host) = "deployment" => x.host.kind # "slug"
        /\ Resolving(x.host) = "project" => x.host.kind = "slug"
    BY <1>1, <1>4 DEF Open, ViewOK, Resolving
  <2>3. /\ y \in ViewStates /\ y.pc = Resolving(x.host) /\ y.answer = "none" /\ y.host = x.host
    BY <1>1, <2>2 DEF ViewStates
  <2>4. ViewOK(y) /\ view' = [view EXCEPT ![v] = y]
    BY <2>1, <2>2, <2>3 DEF ViewOK
  <2>5. QED
    BY <1>3, <2>4
<1>5. CASE ReadProject(v)
  <2>1. x.pc = "project" /\ x.answer = "none"
    BY <1>1, <1>5 DEF ReadProject, ViewOK
  <2>2. CASE current = None
    <3> DEFINE y == [x EXCEPT !.pc = "answered", !.saw = None, !.dep = None, !.refused = x.refused,
                              !.answer = "404"]
    <3>1. ViewOK(y)
      <4>1. None \in Pointers /\ "404" \in {"200", "403", "404"} /\ "404" # "403"
        BY DEF Pointers
      <4>2. QED
        BY <1>1, <4>1, AnswerIsOK
    <3>2. view' = [view EXCEPT ![v] = y]
      <4>1. [x EXCEPT !.pc = "answered", !.saw = None, !.dep = None, !.answer = "404"] = y
        BY <1>1 DEF ViewStates
      <4>2. QED
        BY <1>5, <2>2, <4>1 DEF ReadProject
    <3>3. QED
      BY <1>3, <3>1, <3>2
  <2>3. CASE current # None
    <3> DEFINE y == [x EXCEPT !.pc = "deployment", !.saw = current]
    <3>1. /\ y \in ViewStates /\ y.pc = "deployment" /\ y.answer = "none" /\ y.saw = current
      BY <1>1, <2>1 DEF ViewStates
    <3>2. Sound(current)
      BY <1>1, <2>3 DEF PointerInv, UnservableHasACause, Sound, Pointers
    <3>3. ViewOK(y)
      BY <3>1, <3>2 DEF ViewOK
    <3>4. QED
      BY <1>3, <1>5, <2>3, <3>3 DEF ReadProject
  <2>4. QED
    BY <2>2, <2>3
<1>6. CASE ReadDeployment(v)
  <2>1. PICK d : d = Target(v)
    OBVIOUS
  <2>2. x.pc = "deployment" /\ x.answer = "none"
    BY <1>1, <1>6 DEF ReadDeployment, ViewOK
  <2>3. /\ d \in Pointers
        /\ d # None => There(d)
        /\ d # None /\ x.host.kind = "slug" => Sound(d)
    <3>1. CASE x.host.kind = "slug"
      <4>1. Sound(x.saw) /\ d = IF There(x.saw) THEN x.saw ELSE None
        BY <1>1, <2>1, <2>2, <3>1 DEF ViewOK, Target
      <4>2. QED
        BY <4>1, PointerAssumption DEF Sound, Pointers
    <3>2. CASE x.host.kind # "slug"
      <4>1. d = GatewayTarget(x.host)
        BY <2>1, <3>2 DEF Target
      <4>2. QED
        BY <1>1, <3>2, <4>1, TargetFound
    <3>3. QED
      BY <3>1, <3>2
  <2>4. view' = [view EXCEPT ![v] =
           CASE d = None -> [x EXCEPT !.pc = "answered", !.dep = None, !.answer = "404"]
             [] d # None /\ row[d] # "READY" ->
                    [x EXCEPT !.pc = "answered", !.dep = d, !.answer = "403"]
             [] OTHER -> [x EXCEPT !.pc = "object", !.dep = d]]
    BY <1>6, <2>1 DEF ReadDeployment
  <2>5. ASSUME NEW r \in {"200", "403", "404"},
               view' = [view EXCEPT ![v] = [x EXCEPT !.pc = "answered", !.dep = d, !.answer = r]],
               r = "403" /\ x.host.kind = "slug" => d \in overtaken \cup refused
        PROVE  ViewsOK'
    <3> DEFINE y == [x EXCEPT !.pc = "answered", !.saw = x.saw, !.dep = d, !.refused = x.refused,
                              !.answer = r]
    <3>1. ViewOK(y)
      BY <1>1, <2>3, <2>5, AnswerIsOK
    <3>2. [x EXCEPT !.pc = "answered", !.dep = d, !.answer = r] = y
      BY <1>1 DEF ViewStates
    <3>3. QED
      BY <1>3, <2>5, <3>1, <3>2
  <2>6. CASE d = None
    BY <2>4, <2>5, <2>6
  <2>7. CASE d # None /\ row[d] # "READY"
    <3>1. x.host.kind = "slug" => d \in overtaken \cup refused
      BY <2>3, <2>7 DEF Sound, There
    <3>2. QED
      BY <2>4, <2>5, <2>7, <3>1
  <2>8. CASE d # None /\ row[d] = "READY"
    <3> DEFINE y == [x EXCEPT !.pc = "object", !.dep = d]
    <3>1. /\ y \in ViewStates /\ y.pc = "object" /\ y.answer = "none" /\ y.dep = d
      BY <1>1, <2>2, <2>3 DEF ViewStates
    <3>2. ViewOK(y)
      BY <2>3, <2>8, <3>1 DEF ViewOK, Pointers
    <3>3. QED
      BY <1>3, <2>4, <2>8, <3>2
  <2>9. QED
    BY <2>6, <2>7, <2>8
<1>7. ASSUME NEW r \in {"200", "404"}, NEW ref \in BOOLEAN,
             view' = [view EXCEPT ![v] = [x EXCEPT !.pc = "answered", !.refused = ref, !.answer = r]]
      PROVE  ViewsOK'
  <2> DEFINE y == [x EXCEPT !.pc = "answered", !.saw = x.saw, !.dep = x.dep, !.refused = ref,
                            !.answer = r]
  <2>1. ViewOK(y)
    BY <1>1, AnswerIsOK
  <2>2. [x EXCEPT !.pc = "answered", !.refused = ref, !.answer = r] = y
    BY <1>1 DEF ViewStates
  <2>3. QED
    BY <1>3, <1>7, <2>1, <2>2
<1>8. ASSUME NEW r \in {"200", "404"}, Show(v, r) PROVE ViewsOK'
  <2>1. [x EXCEPT !.pc = "answered", !.answer = r]
          = [x EXCEPT !.pc = "answered", !.refused = x.refused, !.answer = r]
    BY <1>1 DEF ViewStates
  <2>2. view' = [view EXCEPT ![v] = [x EXCEPT !.pc = "answered", !.answer = r]]
    BY <1>8 DEF Show
  <2>3. QED
    BY <1>1, <1>7, <2>1, <2>2
<1>9. ASSUME x.pc = "object", DeliverPage(v) PROVE ViewsOK'
  <2>1. x.answer = "none"
    BY <1>1, <1>9 DEF ViewOK
  <2>2. QED
    BY <1>1, <1>3, <1>9, <2>1, DeliveryIsOK DEF DeliverPage
<1>10. CASE ServePage(v)
  BY <1>8, <1>9, <1>10 DEF ServePage
<1>11. CASE ServeAsset(v)
  BY <1>8, <1>11 DEF ServeAsset
<1>12. CASE StorageRefuses(v)
  <2>1. CASE DeliverPage(v)
    BY <1>9, <1>12, <2>1 DEF StorageRefuses
  <2>2. CASE ~DeliverPage(v)
    BY <1>7, <1>12, <2>2 DEF StorageRefuses
  <2>3. QED
    BY <2>1, <2>2
<1>13. QED
  BY <1>4, <1>5, <1>6, <1>10, <1>11, <1>12 DEF ViewStep

LEMMA NextGatewayInv == ViewsOK /\ [GatewayNext]_gatewayVars => ViewsOK'
<1> SUFFICES ASSUME ViewsOK, [GatewayNext]_gatewayVars PROVE ViewsOK'
  OBVIOUS
<1>1. CASE [Next]_vars /\ UNCHANGED view
  BY <1>1, NextPointerInv, PointerStepKeepsViews DEF ViewsOK, GatewayInv
<1>2. ASSUME NEW v \in Views, ViewStep(v) PROVE ViewsOK'
  BY <1>2, ViewStepKeepsViews
<1>3. QED
  BY <1>1, <1>2 DEF GatewayNext, gatewayVars

LEMMA GatewayInvariance == GatewaySpec => []ViewsOK
BY InitGatewayInv, NextGatewayInv, PTL DEF GatewaySpec

-------------------------------------------------------------------------------
(***************************************************************************)
(* What follows from it.                                                   *)
(***************************************************************************)
LEMMA ViewsOKImplies == ViewsOK => GatewayTypeOK /\ ForbiddenHasACause
BY PointerInvImplies DEF ViewsOK, GatewayInv, GatewayTypeOK, ViewOK, ForbiddenHasACause

\* Every variable keeps its type, the pointer's and the visits'.
THEOREM GatewayTypeCorrectness == GatewaySpec => []GatewayTypeOK
BY GatewayInvariance, ViewsOKImplies, PTL

\* A visitor of the production host is told 403 only for a deployment whose READY a
\* stale transition overwrote or whose run bound it although READY was refused: no
\* request and no cleanup between the two queries of the resolution is a cause.
THEOREM ForbiddenIsExplained == GatewaySpec => []ForbiddenHasACause
BY GatewayInvariance, ViewsOKImplies, PTL

LEMMA StepAnswersWithReason ==
    ASSUME ViewsOK, NEW v \in Views, ViewStep(v), NEW u \in Views,
           view'[u].answer = "404", view[u].answer # "404"
    PROVE  Missing(view'[u])
<1> DEFINE x == view[v]
           y == view'[v]
<1>1. /\ ViewOK(x) /\ x \in ViewStates /\ x.host \in Hosts /\ PointerInv
      /\ view \in [Views -> ViewStates]
  BY DEF ViewsOK, GatewayInv, ViewOK, ViewStates
<1>2. u = v
  BY <1>1 DEF ViewStep, Open, ReadProject, ReadDeployment, ServePage, ServeAsset, StorageRefuses,
     DeliverPage, Show
<1>3. y.answer = "404" /\ x.answer # "404"
  BY <1>2
<1>4. ~Open(v) /\ ~DeliverPage(v)
  <2>1. ASSUME NEW path, NEW page,
               y = [x EXCEPT !.pc = Resolving(x.host), !.path = path, !.page = page]
        PROVE  FALSE
    BY <1>1, <1>3, <2>1 DEF ViewStates
  <2>2. CASE Open(v)
    <3>1. PICK path : y = [x EXCEPT !.pc = Resolving(x.host), !.path = path]
      BY <1>1, <2>2 DEF Open
    <3>2. QED
      BY <1>1, <1>3, <3>1 DEF ViewStates
  <2>3. CASE DeliverPage(v)
    BY <1>1, <2>1, <2>3 DEF DeliverPage
  <2>4. QED
    BY <2>2, <2>3
<1>5. CASE ReadProject(v)
  <2>1. CASE current = None
    <3>1. y = [x EXCEPT !.pc = "answered", !.saw = None, !.dep = None, !.answer = "404"]
      BY <1>1, <1>5, <2>1 DEF ReadProject
    <3>2. y.dep = None /\ y.saw = None /\ y.host = x.host
      BY <1>1, <3>1 DEF ViewStates
    <3>3. x.host.kind = "slug"
      BY <1>1, <1>5 DEF ReadProject, ViewOK
    <3>4. QED
      BY <1>2, <3>2, <3>3 DEF Missing, There
  <2>2. CASE current # None
    <3>1. y = [x EXCEPT !.pc = "deployment", !.saw = current]
      BY <1>1, <1>5, <2>2 DEF ReadProject
    <3>2. QED
      BY <1>1, <1>3, <3>1 DEF ViewStates
  <2>3. QED
    BY <2>1, <2>2
<1>6. CASE ReadDeployment(v)
  <2>1. PICK d : d = Target(v)
    OBVIOUS
  <2>2. y = CASE d = None -> [x EXCEPT !.pc = "answered", !.dep = None, !.answer = "404"]
              [] d # None /\ row[d] # "READY" ->
                     [x EXCEPT !.pc = "answered", !.dep = d, !.answer = "403"]
              [] OTHER -> [x EXCEPT !.pc = "object", !.dep = d]
    BY <1>1, <1>6, <2>1 DEF ReadDeployment
  <2>3. d = None
    BY <1>1, <1>3, <2>2 DEF ViewStates
  <2>4. y.dep = None /\ y.host = x.host /\ y.saw = x.saw
    BY <1>1, <2>2, <2>3 DEF ViewStates
  <2>5. CASE x.host.kind = "slug"
    <3>1. Sound(x.saw)
      BY <1>1, <1>6, <2>5 DEF ReadDeployment, ViewOK
    <3>2. ~There(x.saw)
      BY <2>1, <2>3, <2>5, <3>1, PointerAssumption DEF Target, Sound
    <3>3. QED
      BY <1>2, <2>4, <2>5, <3>2 DEF Missing
  <2>6. CASE x.host.kind # "slug"
    <3>1. Gone(x.host)
      BY <1>1, <2>1, <2>3, <2>6, TargetFound DEF Target
    <3>2. CASE x.host.kind = "id"
      BY <1>2, <2>4, <3>1, <3>2 DEF Gone, Missing
    <3>3. CASE x.host.kind = "commit"
      BY <1>2, <2>4, <3>1, <3>3 DEF Gone, Missing
    <3>4. QED
      BY <1>1, <2>6, <3>2, <3>3 DEF Hosts
  <2>7. QED
    BY <2>5, <2>6
<1>7. CASE ServePage(v) \/ ServeAsset(v)
  <2>1. PICK r : y = [x EXCEPT !.pc = "answered", !.answer = r]
    BY <1>1, <1>4, <1>7 DEF ServePage, ServeAsset, Show
  <2>2. y.dep = x.dep /\ y.path = x.path /\ y.page = x.page
    BY <1>1, <2>1 DEF ViewStates
  <2>3. x.dep \in Deployments /\ x.dep # None
    BY <1>1, <1>7, PointerAssumption DEF ServePage, ServeAsset, ViewOK
  <2>4. CASE ServePage(v)
    BY <1>2, <1>4, <2>2, <2>3, <2>4 DEF ServePage, Missing
  <2>5. CASE ServeAsset(v)
    <3>1. x.path = "asset" /\ ~(bundle[x.dep] /\ x.dep = x.page)
      <4>1. CASE bundle[x.dep] /\ x.dep = x.page
        <5>1. y = [x EXCEPT !.pc = "answered", !.answer = "200"]
          BY <1>1, <2>5, <4>1 DEF ServeAsset, Show
        <5>2. QED
          BY <1>1, <1>3, <5>1 DEF ViewStates
      <4>2. QED
        BY <2>5, <4>1 DEF ServeAsset
    <3>2. QED
      BY <1>2, <2>2, <2>3, <3>1 DEF Missing
  <2>6. QED
    BY <1>7, <2>4, <2>5
<1>8. CASE StorageRefuses(v)
  <2>1. y = [x EXCEPT !.pc = "answered", !.refused = TRUE, !.answer = "404"]
    BY <1>1, <1>4, <1>8 DEF StorageRefuses
  <2>2. y.refused
    BY <1>1, <2>1 DEF ViewStates
  <2>3. QED
    BY <1>2, <2>2 DEF Missing
<1>9. QED
  BY <1>4, <1>5, <1>6, <1>7, <1>8 DEF ViewStep

\* No visitor is told 404 without a reason, for any number of deployments of a
\* commit, whatever is published, swapped and deleted during the visit.
THEOREM NotFoundIsExplained == GatewaySpec => NotFoundHasACause
<1>1. ViewsOK /\ [GatewayNext]_gatewayVars =>
        [\A v \in Views :
            view'[v].answer = "404" /\ view[v].answer # "404" => Missing(view'[v])]_gatewayVars
  BY StepAnswersWithReason DEF GatewayNext
<1>2. QED
  BY GatewayInvariance, <1>1, PTL DEF GatewaySpec, NotFoundHasACause

-------------------------------------------------------------------------------
(***************************************************************************)
(* The gateway and the TLS endpoint.                                       *)
(***************************************************************************)
LEMMA TargetsAgree == PointerInv => EndpointsAgree
<1> SUFFICES ASSUME PointerInv, NEW h \in Hosts
             PROVE  LET served == GatewayTarget(h)
                        certified == TlsTarget(h)
                    IN /\ certified # None => row[certified] = "READY"
                       /\ served # None /\ row[served] = "READY" => certified = served
                       /\ certified # None /\ certified # served =>
                              /\ h.kind = "commit"
                              /\ row[served] # "READY" /\ CreatedAt[served] > CreatedAt[certified]
  BY DEF EndpointsAgree
<1> DEFINE served == GatewayTarget(h)
           certified == TlsTarget(h)
<1>1. CASE h.kind = "id"
  <2>1. h.of \in Deployments /\ h.of # None
    BY <1>1, PointerAssumption DEF Hosts
  <2>2. served = IF There(h.of) THEN h.of ELSE None
    BY <1>1 DEF GatewayTarget
  <2>3. certified = IF row[h.of] = "READY" THEN h.of ELSE None
    BY <1>1 DEF TlsTarget
  <2> HIDE DEF served, certified
  <2>4. QED
    BY <2>1, <2>2, <2>3 DEF There, served, certified
<1>2. CASE h.kind = "slug"
  <2>1. served = IF There(current) THEN current ELSE None
    BY <1>2 DEF GatewayTarget
  <2>2. certified = IF There(current) /\ row[current] = "READY" THEN current ELSE None
    BY <1>2 DEF TlsTarget
  <2>3. QED
    BY <2>1, <2>2 DEF There
<1>3. CASE h.kind = "commit"
  <2> DEFINE there == {d \in Deployments : Commit[d] = h.of /\ There(d)}
             ready == {d \in Deployments : Commit[d] = h.of /\ row[d] = "READY"}
  <2>1. served = Newest(there) /\ certified = Newest(ready)
    BY <1>3 DEF GatewayTarget, TlsTarget
  <2>2. ready \subseteq there
    BY PointerAssumption DEF There
  <2>3. \A d \in there : row[d] = "READY" => d \in ready
    OBVIOUS
  <2>4. None \notin there
    BY DEF There
  <2>5. /\ there = {} => served = None
        /\ there # {} => served \in there /\ \A e \in there : CreatedAt[e] <= CreatedAt[served]
    <3> HIDE DEF served, certified
    <3>1. there \in SUBSET Deployments
      OBVIOUS
    <3> HIDE DEF there
    <3>2. QED
      BY <2>1, <3>1, NewestFound
  <2>6. /\ ready = {} => certified = None
        /\ ready # {} => certified \in ready /\ \A e \in ready : CreatedAt[e] <= CreatedAt[certified]
    <3> HIDE DEF served, certified
    <3>1. ready \in SUBSET Deployments
      OBVIOUS
    <3> HIDE DEF ready
    <3>2. QED
      BY <2>1, <3>1, NewestFound
  <2>7. \A d \in there : d \in Deployments /\ CreatedAt[d] \in Nat
    BY GatewayAssumption
  <2>8. \A d \in ready : row[d] = "READY"
    OBVIOUS
  <2> HIDE DEF there, ready, served, certified
  <2>9. certified # None => certified \in ready /\ ready # {} /\ there # {}
    BY <2>2, <2>6
  <2>10. certified # None => row[certified] = "READY"
    BY <2>8, <2>9
  <2>11. ASSUME served # None, row[served] = "READY" PROVE certified = served
    <3>1. served \in there /\ served \in ready
      BY <2>3, <2>5, <2>11
    <3>2. certified \in ready /\ certified \in there
      BY <2>2, <2>6, <3>1
    <3>3. CreatedAt[served] <= CreatedAt[certified] /\ CreatedAt[certified] <= CreatedAt[served]
      BY <2>5, <2>6, <3>1, <3>2
    <3>4. CreatedAt[served] = CreatedAt[certified]
      BY <2>7, <3>1, <3>2, <3>3
    <3>5. QED
      BY <2>7, <3>1, <3>2, <3>4, GatewayAssumption
  <2>12. ASSUME certified # None, certified # served
         PROVE  row[served] # "READY" /\ CreatedAt[served] > CreatedAt[certified]
    <3>1. certified \in there /\ served \in there /\ CreatedAt[certified] <= CreatedAt[served]
      BY <2>2, <2>5, <2>9, <2>12
    <3>2. row[served] # "READY"
      BY <2>4, <2>11, <2>12, <3>1
    <3>3. CreatedAt[served] # CreatedAt[certified]
      BY <2>7, <2>12, <3>1, GatewayAssumption
    <3>4. QED
      BY <2>7, <3>1, <3>2, <3>3
  <2>13. QED
    BY <1>3, <2>10, <2>11, <2>12 DEF served, certified
<1>4. QED
  BY <1>1, <1>2, <1>3 DEF Hosts

\* The gateway and the TLS endpoint mean the same deployment, and differ only
\* where a commit waits for its redeploy.
THEOREM CertificatesMatchServing == GatewaySpec => []EndpointsAgree
<1>1. ViewsOK => EndpointsAgree
  BY TargetsAgree DEF ViewsOK, GatewayInv
<1>2. QED
  BY <1>1, GatewayInvariance, PTL

\* The visits leave the pointer alone, so what is proved of it holds beside them.
THEOREM GatewayLeavesPointerAlone == GatewaySpec => Spec
<1>1. GatewayInit => Init
  BY DEF GatewayInit
<1>2. [GatewayNext]_gatewayVars => [Next]_vars
  BY Zenon DEF GatewayNext, gatewayVars, ViewStep, Open, ReadProject, ReadDeployment, ServePage,
     ServeAsset, StorageRefuses, ViewOnly
<1>3. QED
  BY <1>1, <1>2, PTL DEF GatewaySpec, Spec

===============================================================================
