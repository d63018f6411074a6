------------------------- MODULE BuildWorkspaceProofs -------------------------
(***************************************************************************)
(* Theorems about what builds leave behind, for any number of runs and any *)
(* faults.  One invariant carries all of them: of each run, what it may    *)
(* still hold and, when no run goes on beside another, what it has made so *)
(* far; of the row, that nothing is built any more once it is READY.       *)
(***************************************************************************)
EXTENDS BuildWorkspace, TLAPS

\* The points before a run has a container, and those that need one.
BeforeBuild == {"idle", "clone", "mkdir", "cloning", "build", "create"}
InContainer == {"transfer", "transferring", "building", "extract", "extracting"}

\* A container lives no longer than the part of the run that needs it, a git that
\* nobody waits for was given up or lost, and only a build can be built.
RunOK(x) ==
    /\ x.container # "none" =>
          x.pc \in InContainer \cup {"removeContainer", "dead"} \/ "remove" \in blame
    /\ x.git # "none" => x.pc = "cloning" \/ blame \cap {"crash", "timeout"} # {}
    /\ x.pc \in BeforeBuild \cup InContainer => ~x.built

\* What a run that is alone has at each point: from git's exit code to the bundle
\* everything is whole.
WholeSoFar(x) ==
    /\ x.pc \in {"build", "create", "transfer", "transferring"} => dir.source = "whole"
    /\ x.pc \in {"transferring", "building"} => x.source = "whole"
    /\ x.pc \in {"extract", "extracting"} => x.output = "whole"
    /\ x.pc = "extracting" => dir.output # "none"
    /\ x.pc = "removeContainer" /\ x.built => dir.output = "whole"
    /\ x.pc \in {"upload", "audit", "put", "putting"} => dir.output = "whole"
    /\ x.pc \in {"put", "putting"} => x.listed = "whole"
    /\ x.pc \in {"deploy", "ready"} => objects = "whole" \/ status = "deleted"

\* Once the row is READY, its run has nothing left to do but to clean up.
Settled(x) == status = "READY" => objects = "whole" /\ x.pc \in Over \cup {"clean"}

DirHasACause == dir.exists => blame \cap {"crash", "remove", "timeout"} # {}

RestTypeOK ==
    /\ status \in Statuses
    /\ dir \in [exists : BOOLEAN, source : Trees, output : Trees]
    /\ objects \in Bundles
    /\ cleaner \in {"idle", "check", "prune"}
    /\ blame \subseteq {"overlap", "timeout", "kill", "remove", "crash"}

WorkspaceInv ==
    /\ WorkspaceTypeOK
    /\ cleaner = "prune" => status = "deleted"
    /\ \A r \in Runs : RunOK(run[r])
    /\ (\A r \in Runs : ~Live(r)) => DirHasACause
    /\ "overlap" \notin blame =>
          /\ status = "READY" => objects = "whole"
          /\ \A q, r \in Runs : Live(q) /\ Live(r) => q = r
          /\ \A r \in Runs : WholeSoFar(run[r]) /\ Settled(run[r])

\* What is enough for a run that moves to this state.
Fits(x) ==
    /\ RestTypeOK
    /\ RunOK(x)
    /\ x.pc \in Over => DirHasACause
    /\ "overlap" \notin blame => WholeSoFar(x) /\ Settled(x)

LEMMA InitWorkspaceInv == Init => WorkspaceInv
BY DEF Init, WorkspaceInv, WorkspaceTypeOK, Statuses, Trees, Bundles, NoDir, RunStates, Points,
   RunOK, BeforeBuild, InContainer, DirHasACause, WholeSoFar, Settled, Live, Over

-------------------------------------------------------------------------------
(***************************************************************************)
(* A run that goes on, and one that only its git or nobody waits for.      *)
(***************************************************************************)
\* A run that is at another point, and nothing else.
Advanced(x, y, p) ==
    /\ x.pc = p
    /\ x.git = y.git /\ x.container = y.container /\ x.built = y.built
    /\ x.source = y.source /\ x.output = y.output /\ x.listed = y.listed

LEMMA Goes ==
    ASSUME run \in [Runs -> RunStates], NEW r \in Runs, NEW p \in Points, Goto(r, p)
    PROVE  \E x \in RunStates : Advanced(x, run[r], p) /\ run' = [run EXCEPT ![r] = x]
<1>1. PICK x : x = [run[r] EXCEPT !.pc = p]
  OBVIOUS
<1>2. x \in RunStates
  BY <1>1 DEF RunStates
<1>3. run' = [run EXCEPT ![r] = x]
  BY <1>1 DEF Goto
<1>4. Advanced(x, run[r], p)
  BY <1>1 DEF RunStates, Advanced
<1>5. QED
  BY <1>2, <1>3, <1>4

\* What a run has is nobody else's, for when one run is live, no other is.
LEMMA RunMoves ==
    ASSUME WorkspaceInv, NEW r \in Runs, Live(r),
           NEW x \in RunStates, run' = [run EXCEPT ![r] = x], Fits(x)',
           blame \subseteq blame', cleaner' = cleaner, status = "deleted" => status' = "deleted"
    PROVE  WorkspaceInv'
<1> USE DEF WorkspaceInv, WorkspaceTypeOK, Fits
<1>1. /\ run' \in [Runs -> RunStates]
      /\ run'[r] = x
      /\ \A q \in Runs : q # r => run'[q] = run[q]
  OBVIOUS
<1>2. WorkspaceTypeOK'
  BY <1>1 DEF RestTypeOK
<1>3. \A q \in Runs : RunOK(run[q])'
  BY <1>1 DEF RunOK
<1>4. (\A q \in Runs : ~Live(q))' => DirHasACause'
  BY <1>1 DEF Live
<1>5. ASSUME "overlap" \notin blame'
      PROVE  /\ (\A q, p \in Runs : Live(q) /\ Live(p) => q = p)'
             /\ \A q \in Runs : WholeSoFar(run[q])' /\ Settled(run[q])'
  <2>1. \A q \in Runs : q # r => run'[q].pc \in Over
    BY <1>1, <1>5 DEF Live
  <2>2. ASSUME NEW q \in Runs, q # r PROVE WholeSoFar(run[q])' /\ Settled(run[q])'
    BY <1>1, <1>5, <2>1, <2>2 DEF WholeSoFar, Settled, Over
  <2>3. QED
    BY <1>1, <1>5, <2>1, <2>2 DEF Live
<1>6. "overlap" \notin blame' => (status' = "READY" => objects' = "whole")
  BY DEF Settled
<1>7. QED
  BY <1>2, <1>3, <1>4, <1>5, <1>6

-------------------------------------------------------------------------------
(***************************************************************************)
(* The steps of a run that is live, one by one.                            *)
(***************************************************************************)
\* What the invariant says of one run that is live.
LEMMA LiveRun ==
    ASSUME WorkspaceInv, NEW r \in Runs, Live(r)
    PROVE  run[r] \in RunStates /\ Fits(run[r])
BY DEF WorkspaceInv, WorkspaceTypeOK, Live, Fits, RestTypeOK

LEMMA PhaseKeepsInv ==
    ASSUME WorkspaceInv, NEW r \in Runs, NEW here, NEW next,
           <<here, next>> \in {<<"clone", "mkdir">>, <<"build", "create">>, <<"upload", "audit">>,
                               <<"deploy", "ready">>},
           Phase(r, here, next)
    PROVE  WorkspaceInv'
<1> USE DEF Fits, RestTypeOK, RunOK, BeforeBuild, InContainer, WholeSoFar, Settled, Over,
            Advanced, At
<1>1. Live(r) /\ run \in [Runs -> RunStates]
  BY DEF Live, WorkspaceInv, WorkspaceTypeOK, Phase
<1>2. run[r] \in RunStates /\ Fits(run[r])
  BY <1>1, LiveRun
<1>3. PICK p \in {"clean", next} : Goto(r, p)
  BY DEF Phase
<1>4. PICK x \in RunStates : Advanced(x, run[r], p) /\ run' = [run EXCEPT ![r] = x]
  BY <1>1, <1>3, Goes DEF Points
<1>5. Fits(x)'
  BY <1>2, <1>4 DEF Phase, RunOnly
<1>6. QED
  BY <1>1, <1>4, <1>5, RunMoves DEF Phase, RunOnly

LEMMA CloneKeepsInv ==
    ASSUME WorkspaceInv, NEW r \in Runs, StartClone(r) \/ CloneTimesOut(r)
    PROVE  WorkspaceInv'
<1> USE DEF Fits, RestTypeOK, RunOK, BeforeBuild, InContainer, WholeSoFar, Settled, Over,
            Advanced, At
<1>1. Live(r) /\ run \in [Runs -> RunStates]
  BY DEF Live, WorkspaceInv, WorkspaceTypeOK, StartClone, CloneTimesOut
<1>2. run[r] \in RunStates /\ Fits(run[r])
  BY <1>1, LiveRun
<1>3. CASE StartClone(r)
  <2>1. CASE dir.source = "none" /\ dir.output = "none"
    <3>1. PICK x : x = [run[r] EXCEPT !.pc = "cloning", !.git = "running"]
      OBVIOUS
    <3>2. /\ x \in RunStates /\ x.pc = "cloning"
          /\ x.container = run[r].container /\ x.built = run[r].built
      BY <1>1, <3>1, Zenon DEF RunStates, Points
    <3>3. run' = [run EXCEPT ![r] = x]
      BY <1>3, <2>1, <3>1 DEF StartClone
    <3>4. Fits(x)'
      BY <1>2, <1>3, <3>2, <3>3 DEF StartClone
    <3>5. QED
      BY <1>1, <1>3, <3>2, <3>3, <3>4, RunMoves DEF StartClone
  <2>2. CASE ~(dir.source = "none" /\ dir.output = "none")
    <3>1. Goto(r, "fail")
      BY <1>3, <2>2 DEF StartClone, Goto
    <3>2. PICK x \in RunStates : Advanced(x, run[r], "fail") /\ run' = [run EXCEPT ![r] = x]
      BY <1>1, <3>1, Goes DEF Points
    <3>3. Fits(x)'
      BY <1>2, <1>3, <3>2 DEF StartClone
    <3>4. QED
      BY <1>1, <1>3, <3>2, <3>3, RunMoves, Zenon DEF StartClone
  <2>3. QED
    BY <2>1, <2>2
<1>4. CASE CloneTimesOut(r)
  <2>1. PICK x \in RunStates : Advanced(x, run[r], "fail") /\ run' = [run EXCEPT ![r] = x]
    BY <1>1, <1>4, Goes DEF CloneTimesOut, Points
  <2>2. Fits(x)'
    BY <1>2, <1>4, <2>1 DEF CloneTimesOut, Blame
  <2>3. QED
    BY <1>1, <1>4, <2>1, <2>2, RunMoves DEF CloneTimesOut, Blame
<1>5. QED
  BY <1>3, <1>4

LEMMA BuildKeepsInv ==
    ASSUME WorkspaceInv, NEW r \in Runs,
           \/ CreateContainer(r) \/ CreateFails(r) \/ Transfer(r) \/ StartContainer(r)
           \/ BuildStep(r) \/ BuildTimesOut(r) \/ KillFails(r) \/ Extract(r) \/ Extracted(r)
           \/ RemoveContainer(r) \/ RemoveContainerFails(r)
    PROVE  WorkspaceInv'
<1> USE DEF Fits, RestTypeOK, RunOK, BeforeBuild, InContainer, WholeSoFar, Settled, Over,
            Advanced, At
<1>1. Live(r) /\ run \in [Runs -> RunStates]
  BY DEF Live, WorkspaceInv, WorkspaceTypeOK, CreateContainer, CreateFails, Transfer,
     StartContainer, BuildStep, BuildSucceeds, BuildFails, BuildTimesOut, KillFails, Extract,
     Extracted, RemoveContainer, RemoveContainerFails
<1>2. run[r] \in RunStates /\ Fits(run[r])
  BY <1>1, LiveRun
<1>3. CASE CreateContainer(r)
  <2>1. PICK x : x = [run[r] EXCEPT !.pc = "transfer", !.container = "created"]
    OBVIOUS
  <2>2. /\ x \in RunStates /\ x.pc = "transfer" /\ x.git = run[r].git /\ x.built = run[r].built
        /\ x.container = "created"
    BY <1>1, <1>2, <2>1 DEF RunStates, Points, Trees
  <2>3. run' = [run EXCEPT ![r] = x]
    BY <1>3, <2>1 DEF CreateContainer
  <2>4. Fits(x)'
    BY <1>2, <1>3, <2>2 DEF CreateContainer
  <2>5. QED
    BY <1>1, <1>3, <2>2, <2>3, <2>4, RunMoves DEF CreateContainer
<1>4. CASE CreateFails(r)
  <2>1. PICK x \in RunStates : Advanced(x, run[r], "fail") /\ run' = [run EXCEPT ![r] = x]
    BY <1>1, <1>4, Goes DEF CreateFails, Points
  <2>2. Fits(x)'
    BY <1>2, <1>4, <2>1 DEF CreateFails
  <2>3. QED
    BY <1>1, <1>4, <2>1, <2>2, RunMoves DEF CreateFails
<1>5. CASE Transfer(r)
  <2>1. PICK x : x = [run[r] EXCEPT !.pc = "transferring", !.source = dir.source]
    OBVIOUS
  <2>2. /\ x \in RunStates /\ x.pc = "transferring" /\ x.git = run[r].git /\ x.built = run[r].built
        /\ x.container = run[r].container /\ x.source = dir.source
    BY <1>1, <1>2, <2>1 DEF RunStates, Points, Trees
  <2>3. run' = [run EXCEPT ![r] = x]
    BY <1>5, <2>1 DEF Transfer
  <2>4. Fits(x)'
    BY <1>2, <1>5, <2>2 DEF Transfer, RunOnly
  <2>5. QED
    BY <1>1, <1>5, <2>2, <2>3, <2>4, RunMoves DEF Transfer, RunOnly
<1>6. CASE StartContainer(r)
  <2>1. PICK x : x = [run[r] EXCEPT !.pc = "building", !.container = "running",
                                    !.source = Seen(run[r].source, dir.source)]
    OBVIOUS
  <2>2. Seen(run[r].source, dir.source) \in Trees
    BY <1>2 DEF Seen, Trees
  <2>3. /\ x \in RunStates /\ x.pc = "building" /\ x.git = run[r].git /\ x.built = run[r].built
        /\ x.container = "running" /\ x.source = Seen(run[r].source, dir.source)
    BY <1>1, <1>2, <2>1, <2>2 DEF RunStates, Points
  <2>4. run' = [run EXCEPT ![r] = x]
    BY <1>6, <2>1 DEF StartContainer
  <2>5. Fits(x)'
    BY <1>2, <1>6, <2>3 DEF StartContainer, RunOnly, Seen
  <2>6. QED
    BY <1>1, <1>6, <2>3, <2>4, <2>5, RunMoves DEF StartContainer, RunOnly
<1>7. CASE BuildSucceeds(r)
  <2>1. PICK x : x = [run[r] EXCEPT !.pc = "extract", !.output = run[r].source]
    OBVIOUS
  <2>2. /\ x \in RunStates /\ x.pc = "extract" /\ x.git = run[r].git /\ x.built = run[r].built
        /\ x.container = run[r].container /\ x.output = run[r].source
    BY <1>1, <1>2, <2>1 DEF RunStates, Points, Trees
  <2>3. run' = [run EXCEPT ![r] = x]
    BY <1>7, <2>1 DEF BuildSucceeds
  <2>4. Fits(x)'
    BY <1>2, <1>7, <2>2 DEF BuildSucceeds, RunOnly
  <2>5. QED
    BY <1>1, <1>7, <2>2, <2>3, <2>4, RunMoves DEF BuildSucceeds, RunOnly
<1>8. CASE BuildFails(r)
  <2>1. PICK x \in RunStates :
            Advanced(x, run[r], "removeContainer") /\ run' = [run EXCEPT ![r] = x]
    BY <1>1, <1>8, Goes DEF BuildFails, Points
  <2>2. Fits(x)'
    BY <1>2, <1>8, <2>1 DEF BuildFails, RunOnly
  <2>3. QED
    BY <1>1, <1>8, <2>1, <2>2, RunMoves DEF BuildFails, RunOnly
<1>9. CASE BuildTimesOut(r)
  <2>1. PICK x : x = [run[r] EXCEPT !.pc = "removeContainer", !.expired = TRUE]
    OBVIOUS
  <2>2. /\ x \in RunStates /\ x.pc = "removeContainer" /\ x.git = run[r].git
        /\ x.built = run[r].built
        /\ x.container = run[r].container
    BY <1>1, <1>2, <2>1 DEF RunStates, Points, Trees
  <2>3. run' = [run EXCEPT ![r] = x]
    BY <1>9, <2>1 DEF BuildTimesOut
  <2>4. Fits(x)'
    BY <1>2, <1>9, <2>2 DEF BuildTimesOut, RunOnly
  <2>5. QED
    BY <1>1, <1>9, <2>2, <2>3, <2>4, RunMoves DEF BuildTimesOut, RunOnly
<1>10. CASE KillFails(r)
  <2>1. PICK x : x = [run[r] EXCEPT !.expired = TRUE]
    OBVIOUS
  <2>2. /\ x \in RunStates /\ x.pc = "building" /\ x.git = run[r].git /\ x.built = run[r].built
        /\ x.container = run[r].container /\ x.source = run[r].source
    BY <1>1, <1>2, <1>10, <2>1 DEF KillFails, RunStates, Points, Trees
  <2>3. run' = [run EXCEPT ![r] = x]
    BY <1>10, <2>1 DEF KillFails
  <2>4. Fits(x)'
    BY <1>2, <1>10, <2>2 DEF KillFails, Blame
  <2>5. QED
    BY <1>1, <1>10, <2>2, <2>3, <2>4, RunMoves DEF KillFails, Blame
<1>11. CASE Extract(r)
  <2>1. PICK x \in RunStates : Advanced(x, run[r], "extracting") /\ run' = [run EXCEPT ![r] = x]
    BY <1>1, <1>11, Goes DEF Extract, Points
  <2>2. Fits(x)'
    BY <1>2, <1>11, <2>1 DEF Extract, Trees
  <2>3. QED
    BY <1>1, <1>11, <2>1, <2>2, RunMoves DEF Extract, Trees
<1>12. CASE Extracted(r)
  <2>1. PICK x : x = [run[r] EXCEPT !.pc = "removeContainer", !.built = TRUE]
    OBVIOUS
  <2>2. /\ x \in RunStates /\ x.pc = "removeContainer" /\ x.git = run[r].git /\ x.built = TRUE
        /\ x.container = run[r].container
    BY <1>1, <1>2, <2>1 DEF RunStates, Points, Trees
  <2>3. run' = [run EXCEPT ![r] = x]
    BY <1>12, <2>1 DEF Extracted
  <2>4. PICK o \in Trees :
            /\ dir' = [dir EXCEPT !.exists = TRUE, !.output = o]
            /\ run[r].output = "whole" /\ dir.output # "none" => o = "whole"
    <3>1. PICK o : o = IF run[r].output # "none" /\ dir.output = "none" THEN "partial"
                       ELSE IF run[r].output = "none" THEN dir.output ELSE run[r].output
      OBVIOUS
    <3>2. o \in Trees
      BY <1>2, <3>1 DEF Trees, RunStates
    <3>3. dir' = [dir EXCEPT !.exists = TRUE, !.output = o]
      BY <1>2, <1>12, <3>1 DEF Extracted
    <3>4. QED
      BY <3>1, <3>2, <3>3
  <2>5. Fits(x)'
    BY <1>2, <1>12, <2>2, <2>4 DEF Extracted
  <2>6. QED
    BY <1>1, <1>12, <2>2, <2>3, <2>5, RunMoves, Zenon DEF Extracted
<1>13. CASE RemoveContainer(r)
  <2>1. PICK p \in {"upload", "fail"} : p = AfterBuild(r)
    BY DEF AfterBuild
  <2>2. PICK x : x = [run[r] EXCEPT !.pc = p, !.container = "none"]
    OBVIOUS
  <2>3. /\ x \in RunStates /\ x.pc = p /\ x.git = run[r].git /\ x.built = run[r].built
        /\ x.container = "none"
    BY <1>1, <1>2, <2>2 DEF RunStates, Points
  <2>4. run' = [run EXCEPT ![r] = x]
    BY <1>13, <2>1, <2>2 DEF RemoveContainer
  <2>5. Fits(x)'
    BY <1>2, <1>13, <2>1, <2>3 DEF RemoveContainer, RunOnly, AfterBuild
  <2>6. QED
    BY <1>1, <1>13, <2>3, <2>4, <2>5, RunMoves DEF RemoveContainer, RunOnly
<1>14. CASE RemoveContainerFails(r)
  <2>1. PICK p \in {"upload", "fail"} : p = AfterBuild(r)
    BY DEF AfterBuild
  <2>2. PICK x \in RunStates : Advanced(x, run[r], p) /\ run' = [run EXCEPT ![r] = x]
    BY <1>1, <1>14, <2>1, Goes DEF RemoveContainerFails, Points
  <2>3. Fits(x)'
    BY <1>2, <1>14, <2>1, <2>2 DEF RemoveContainerFails, Blame, AfterBuild
  <2>4. QED
    BY <1>1, <1>14, <2>2, <2>3, RunMoves DEF RemoveContainerFails, Blame
<1>15. QED
  BY <1>3, <1>4, <1>5, <1>6, <1>7, <1>8, <1>9, <1>10, <1>11, <1>12, <1>13, <1>14 DEF BuildStep

LEMMA UploadKeepsInv ==
    ASSUME WorkspaceInv, NEW r \in Runs,
           \/ Audit(r) \/ AuditRefuses(r) \/ Put(r) \/ PutRest(r) \/ PutFails(r) \/ Undo(r)
           \/ UndoFails(r)
    PROVE  WorkspaceInv'
<1> USE DEF Fits, RestTypeOK, RunOK, BeforeBuild, InContainer, WholeSoFar, Settled, Over,
            Advanced, At
<1>1. Live(r) /\ run \in [Runs -> RunStates]
  BY DEF Live, WorkspaceInv, WorkspaceTypeOK, Audit, AuditRefuses, Put, PutRest, PutFails, Undo,
     UndoFails
<1>2. run[r] \in RunStates /\ Fits(run[r])
  BY <1>1, LiveRun
<1>3. CASE Audit(r)
  <2>1. CASE dir.output = "none"
    <3>1. Goto(r, "fail")
      BY <1>3, <2>1 DEF Audit, Goto
    <3>2. PICK x \in RunStates : Advanced(x, run[r], "fail") /\ run' = [run EXCEPT ![r] = x]
      BY <1>1, <3>1, Goes DEF Points
    <3>3. Fits(x)'
      BY <1>2, <1>3, <3>2 DEF Audit, RunOnly
    <3>4. QED
      BY <1>1, <1>3, <3>2, <3>3, RunMoves, Zenon DEF Audit, RunOnly
  <2>2. CASE dir.output # "none"
    <3>1. PICK x : x = [run[r] EXCEPT !.pc = "put", !.listed = dir.output]
      OBVIOUS
    <3>2. /\ x \in RunStates /\ x.pc = "put" /\ x.git = run[r].git /\ x.built = run[r].built
          /\ x.container = run[r].container /\ x.listed = dir.output
      BY <1>1, <1>2, <3>1 DEF RunStates, Points, Trees
    <3>3. run' = [run EXCEPT ![r] = x]
      BY <1>3, <2>2, <3>1 DEF Audit
    <3>4. Fits(x)'
      BY <1>2, <1>3, <3>2, <3>3 DEF Audit, RunOnly
    <3>5. QED
      BY <1>1, <1>3, <3>2, <3>3, <3>4, RunMoves DEF Audit, RunOnly
  <2>3. QED
    BY <2>1, <2>2
<1>4. CASE AuditRefuses(r)
  <2>1. PICK x \in RunStates : Advanced(x, run[r], "fail") /\ run' = [run EXCEPT ![r] = x]
    BY <1>1, <1>4, Goes DEF AuditRefuses, Points
  <2>2. Fits(x)'
    BY <1>2, <1>4, <2>1 DEF AuditRefuses, RunOnly
  <2>3. QED
    BY <1>1, <1>4, <2>1, <2>2, RunMoves DEF AuditRefuses, RunOnly
<1>5. CASE Put(r)
  <2>1. PICK p \in {"undo", "putting"} : Goto(r, p) /\ (p = "undo" => dir.output = "none")
    BY <1>5 DEF Put
  <2>2. PICK x \in RunStates : Advanced(x, run[r], p) /\ run' = [run EXCEPT ![r] = x]
    BY <1>1, <2>1, Goes DEF Points
  <2>3. Fits(x)'
    BY <1>2, <1>5, <2>1, <2>2 DEF Put, Bundles, Trees
  <2>4. QED
    BY <1>1, <1>5, <2>1, <2>2, <2>3, RunMoves DEF Put, Bundles, Trees
<1>6. CASE PutRest(r)
  <2>1. PICK p \in {"undo", "deploy"} : Goto(r, p) /\ (p = "undo" <=> dir.output = "none")
    BY <1>6 DEF PutRest
  <2>2. PICK x \in RunStates : Advanced(x, run[r], p) /\ run' = [run EXCEPT ![r] = x]
    BY <1>1, <2>1, Goes DEF Points
  <2>3. Fits(x)'
    BY <1>2, <1>6, <2>1, <2>2 DEF PutRest, Bundles, Trees
  <2>4. QED
    BY <1>1, <1>6, <2>1, <2>2, <2>3, RunMoves DEF PutRest, Bundles, Trees
<1>7. CASE PutFails(r)
  <2>1. PICK x \in RunStates : Advanced(x, run[r], "undo") /\ run' = [run EXCEPT ![r] = x]
    BY <1>1, <1>7, Goes DEF PutFails, Points
  <2>2. Fits(x)'
    BY <1>2, <1>7, <2>1 DEF PutFails, RunOnly
  <2>3. QED
    BY <1>1, <1>7, <2>1, <2>2, RunMoves DEF PutFails, RunOnly
<1>8. CASE Undo(r)
  <2>1. PICK x \in RunStates : Advanced(x, run[r], "fail") /\ run' = [run EXCEPT ![r] = x]
    BY <1>1, <1>8, Goes DEF Undo, Points
  <2>2. Fits(x)'
    BY <1>2, <1>8, <2>1 DEF Undo, Bundles, Trees
  <2>3. QED
    BY <1>1, <1>8, <2>1, <2>2, RunMoves DEF Undo, Bundles, Trees
<1>9. CASE UndoFails(r)
  <2>1. PICK x \in RunStates : Advanced(x, run[r], "fail") /\ run' = [run EXCEPT ![r] = x]
    BY <1>1, <1>9, Goes DEF UndoFails, Points
  <2>2. Fits(x)'
    BY <1>2, <1>9, <2>1 DEF UndoFails, RunOnly
  <2>3. QED
    BY <1>1, <1>9, <2>1, <2>2, RunMoves DEF UndoFails, RunOnly
<1>10. QED
  BY <1>3, <1>4, <1>5, <1>6, <1>7, <1>8, <1>9

LEMMA EndKeepsInv ==
    ASSUME WorkspaceInv, NEW r \in Runs,
           \/ Publish(r) \/ Fail(r) \/ FailIsLost(r) \/ CleanFails(r) \/ Crash(r)
    PROVE  WorkspaceInv'
<1> USE DEF Fits, RestTypeOK, RunOK, BeforeBuild, InContainer, WholeSoFar, Settled, Over,
            Advanced, At
<1>1. Live(r) /\ run \in [Runs -> RunStates]
  BY DEF Live, WorkspaceInv, WorkspaceTypeOK, Publish, Fail, FailIsLost, CleanFails, Crash
<1>2. run[r] \in RunStates /\ Fits(run[r])
  BY <1>1, LiveRun
<1>3. CASE Publish(r)
  <2>1. PICK x \in RunStates : Advanced(x, run[r], "clean") /\ run' = [run EXCEPT ![r] = x]
    BY <1>1, <1>3, Goes DEF Publish, Points
  <2>2. Fits(x)'
    BY <1>2, <1>3, <2>1 DEF Publish, Statuses
  <2>3. QED
    BY <1>1, <1>3, <2>1, <2>2, RunMoves DEF Publish, Statuses
<1>4. CASE Fail(r)
  <2>1. PICK x \in RunStates : Advanced(x, run[r], "clean") /\ run' = [run EXCEPT ![r] = x]
    BY <1>1, <1>4, Goes DEF Fail, Points
  <2>2. Fits(x)'
    BY <1>2, <1>4, <2>1 DEF Fail, Statuses
  <2>3. QED
    BY <1>1, <1>4, <2>1, <2>2, RunMoves DEF Fail, Statuses
<1>5. CASE FailIsLost(r)
  <2>1. PICK x \in RunStates : Advanced(x, run[r], "clean") /\ run' = [run EXCEPT ![r] = x]
    BY <1>1, <1>5, Goes DEF FailIsLost, Points
  <2>2. Fits(x)'
    BY <1>2, <1>5, <2>1 DEF FailIsLost, RunOnly
  <2>3. QED
    BY <1>1, <1>5, <2>1, <2>2, RunMoves DEF FailIsLost, RunOnly
<1>6. CASE CleanFails(r)
  <2>1. PICK x \in RunStates : Advanced(x, run[r], "done") /\ run' = [run EXCEPT ![r] = x]
    BY <1>1, <1>6, Goes DEF CleanFails, Points
  <2>2. Fits(x)'
    BY <1>2, <1>6, <2>1 DEF CleanFails, Blame, DirHasACause
  <2>3. QED
    BY <1>1, <1>6, <2>1, <2>2, RunMoves DEF CleanFails, Blame, DirHasACause
<1>7. CASE Crash(r)
  <2>1. PICK git \in {run[r].git, "none"} :
            run' = [run EXCEPT ![r] = [@ EXCEPT !.pc = "dead", !.git = git]]
    BY <1>7 DEF Crash
  <2>2. PICK x : x = [run[r] EXCEPT !.pc = "dead", !.git = git]
    OBVIOUS
  <2>3. x \in RunStates /\ x.pc = "dead" /\ x.container = run[r].container
    BY <1>1, <1>2, <2>1, <2>2 DEF RunStates, Points
  <2>4. run' = [run EXCEPT ![r] = x]
    BY <2>1, <2>2
  <2>5. Fits(x)'
    BY <1>2, <1>7, <2>3, <2>4 DEF Crash, Blame, DirHasACause
  <2>6. QED
    BY <1>1, <1>7, <2>3, <2>4, <2>5, RunMoves DEF Crash, Blame, DirHasACause
<1>8. QED
  BY <1>3, <1>4, <1>5, <1>6, <1>7

-------------------------------------------------------------------------------
(***************************************************************************)
(* Steps that are not, or not only, those of a live run.                   *)
(***************************************************************************)
\* What nobody waits for ends, of a run that is over.
LEMMA GitEnds ==
    ASSUME WorkspaceInv, NEW r \in Runs, ~Live(r),
           NEW x \in RunStates, run' = [run EXCEPT ![r] = x],
           Advanced(x, [run[r] EXCEPT !.git = "none"], run[r].pc),
           dir' \in [exists : BOOLEAN, source : Trees, output : Trees],
           dir'.exists = dir.exists, dir'.output = dir.output,
           dir'.source = dir.source \/ dir.source # "whole",
           UNCHANGED <<status, objects, cleaner, blame>>
    PROVE  WorkspaceInv'
<1> USE DEF WorkspaceInv, WorkspaceTypeOK
<1>1. /\ run' \in [Runs -> RunStates] /\ run'[r] = x
      /\ \A q \in Runs : q # r => run'[q] = run[q]
  OBVIOUS
<1>2. /\ x.pc = run[r].pc /\ x.git = "none" /\ x.container = run[r].container
      /\ x.built = run[r].built /\ x.pc \in Over
  BY DEF Advanced, RunStates, Live
<1>3. WorkspaceTypeOK'
  BY <1>1
<1>4. \A q \in Runs : RunOK(run[q])'
  BY <1>1, <1>2 DEF RunOK
<1>5. \A q \in Runs : Live(q)' <=> Live(q)
  BY <1>1, <1>2 DEF Live
<1>6. (\A q \in Runs : ~Live(q))' => DirHasACause'
  BY <1>5 DEF DirHasACause
<1>7. ASSUME "overlap" \notin blame, NEW q \in Runs
      PROVE  WholeSoFar(run[q])' /\ Settled(run[q])'
  <2>1. CASE q = r
    BY <1>1, <1>2, <1>7, <2>1 DEF WholeSoFar, Settled, Over
  <2>2. CASE q # r
    BY <1>1, <1>7, <2>2 DEF WholeSoFar, Settled
  <2>3. QED
    BY <2>1, <2>2
<1>8. QED
  BY <1>3, <1>4, <1>5, <1>6, <1>7

LEMMA GitKeepsInv ==
    ASSUME WorkspaceInv, NEW r \in Runs, GitWrites(r) \/ GitSucceeds(r) \/ GitFails(r)
    PROVE  WorkspaceInv'
<1>1. run \in [Runs -> RunStates] /\ run[r] \in RunStates /\ RunOK(run[r])
  BY DEF WorkspaceInv, WorkspaceTypeOK
<1>2. CASE GitWrites(r)
  <2> USE DEF WorkspaceInv, WorkspaceTypeOK
  <2>1. WorkspaceTypeOK'
    BY <1>2 DEF GitWrites, Trees
  <2>2. (\A q \in Runs : ~Live(q))' => DirHasACause'
    BY <1>1, <1>2 DEF GitWrites, RunOK, Live, Over, DirHasACause
  <2>3. ASSUME "overlap" \notin blame, NEW q \in Runs
        PROVE  WholeSoFar(run[q])' /\ Settled(run[q])'
    BY <1>2, <2>3 DEF GitWrites, WholeSoFar, Settled
  <2>4. QED
    BY <1>2, <2>1, <2>2, <2>3 DEF GitWrites, RunOK, Live
<1>3. ASSUME NEW next \in {"build", "fail"}, next = IF GitSucceeds(r) THEN "build" ELSE "fail",
             GitSucceeds(r) \/ GitFails(r)
      PROVE  WorkspaceInv'
  <2>1. PICK p \in Points : p = AfterGit(r, next)
    BY <1>1, <1>3 DEF RunStates, Points, AfterGit
  <2>2. PICK x : x = [run[r] EXCEPT !.git = "none", !.pc = p]
    OBVIOUS
  <2>3. x \in RunStates
    BY <1>1, <2>2 DEF RunStates
  <2>4. run' = [run EXCEPT ![r] = x]
    BY <1>3, <2>1, <2>2 DEF GitSucceeds, GitFails
  <2>5. /\ x.pc = p /\ x.git = "none" /\ x.container = run[r].container /\ x.built = run[r].built
        /\ x.source = run[r].source /\ x.output = run[r].output /\ x.listed = run[r].listed
    BY <1>1, <2>2 DEF RunStates
  <2>6. /\ dir' \in [exists : BOOLEAN, source : Trees, output : Trees]
        /\ dir'.exists = dir.exists /\ dir'.output = dir.output
        /\ dir'.source = dir.source \/ dir.source # "whole"
        /\ next = "build" => dir'.source = "whole"
        /\ UNCHANGED <<status, objects, cleaner, blame>>
    BY <1>3 DEF WorkspaceInv, WorkspaceTypeOK, GitSucceeds, GitFails, RunOnly, Trees
  <2>7. CASE Live(r)
    <3>1. Fits(run[r])
      BY <2>7, LiveRun
    <3>2. Fits(x)'
      BY <1>3, <2>1, <2>5, <2>6, <2>7, <3>1 DEF Fits, RestTypeOK, RunOK, WholeSoFar, Settled,
         BeforeBuild, InContainer, Over, Live, AfterGit, At
    <3>3. QED
      BY <2>3, <2>4, <2>6, <2>7, <3>2, RunMoves
  <2>8. CASE ~Live(r)
    <3>1. Advanced(x, [run[r] EXCEPT !.git = "none"], run[r].pc)
      BY <1>1, <2>1, <2>5, <2>8 DEF Live, Over, Advanced, AfterGit, At, RunStates
    <3>2. QED
      BY <2>3, <2>4, <2>6, <2>8, <3>1, GitEnds
  <2>9. QED
    BY <2>7, <2>8
<1>4. QED
  BY <1>2, <1>3

\* The directory goes, and with it what any git in it has; without an overlap that is
\* no other run's.
LEMMA RemovalKeepsInv ==
    ASSUME WorkspaceInv, NEW r \in Runs, Live(r),
           NEW y \in RunStates, RemoveDir([run EXCEPT ![r] = y]), RunOK(y),
           y.pc \in {"done", "fail"}, "overlap" \notin blame => Settled(y),
           UNCHANGED <<status, objects, cleaner, blame>>
    PROVE  WorkspaceInv'
<1> USE DEF WorkspaceInv, WorkspaceTypeOK
<1>1. PICK runs \in [Runs -> RunStates] : runs = [run EXCEPT ![r] = y]
  OBVIOUS
<1>2. /\ runs[r] = y
      /\ \A q \in Runs : RunOK(runs[q]) /\ (q # r => runs[q] = run[q])
  BY <1>1
<1>3. ASSUME NEW q \in Runs
      PROVE  /\ run'[q] \in RunStates
             /\ run'[q].pc = runs[q].pc /\ run'[q].container = runs[q].container
             /\ run'[q].built = runs[q].built
             /\ run'[q].git # "none" => runs[q].git # "none"
  <2>1. PICK g : g = IF runs[q].git = "running" THEN "adrift" ELSE runs[q].git
    OBVIOUS
  <2>2. run'[q] = [runs[q] EXCEPT !.git = g]
    BY <1>1, <2>1 DEF RemoveDir
  <2>3. runs[q] \in RunStates
    OBVIOUS
  <2>4. QED
    BY <2>1, <2>2, <2>3 DEF RunStates
<1>4. run' \in [Runs -> RunStates]
  <2>1. PICK F : F = [q \in Runs |-> [runs[q] EXCEPT !.git = IF @ = "running" THEN "adrift" ELSE @]]
    OBVIOUS
  <2>2. run' = F
    BY <1>1, <2>1 DEF RemoveDir
  <2>3. \A q \in Runs : F[q] \in RunStates
    BY <1>3, <2>2
  <2>4. QED
    BY <2>1, <2>2, <2>3
<1>5. WorkspaceTypeOK' /\ dir'.exists = FALSE
  BY <1>4 DEF RemoveDir, NoDir, Trees
<1>6. \A q \in Runs : RunOK(run[q])'
  BY <1>2, <1>3 DEF RunOK
<1>7. ASSUME "overlap" \notin blame
      PROVE  /\ (\A q, p \in Runs : Live(q) /\ Live(p) => q = p)'
             /\ \A q \in Runs : WholeSoFar(run[q])' /\ Settled(run[q])'
  <2>1. \A q \in Runs : q # r => run'[q].pc \in Over
    BY <1>2, <1>3, <1>7 DEF Live
  <2>2. ASSUME NEW q \in Runs PROVE WholeSoFar(run[q])' /\ Settled(run[q])'
    <3>1. run'[q].pc \in Over \cup {"fail"} /\ (q = r => run'[q].pc = y.pc)
      BY <1>2, <1>3, <2>1 DEF Over
    <3>2. WholeSoFar(run[q])'
      BY <3>1 DEF WholeSoFar, Over
    <3>3. Settled(run[q])'
      BY <1>7, <2>1, <3>1 DEF Settled
    <3>4. QED
      BY <3>2, <3>3
  <2>3. QED
    BY <2>1, <2>2 DEF Live
<1>8. QED
  BY <1>5, <1>6, <1>7 DEF DirHasACause

LEMMA DirGoesKeepsInv ==
    ASSUME WorkspaceInv, NEW r \in Runs, Clean(r) \/ TooLarge(r)
    PROVE  WorkspaceInv'
<1>1. Live(r) /\ run[r] \in RunStates /\ Fits(run[r])
  BY LiveRun DEF Clean, TooLarge, At, Live, Over
<1>2. CASE Clean(r)
  <2>1. PICK y : y = [run[r] EXCEPT !.pc = "done"]
    OBVIOUS
  <2>2. y \in RunStates /\ Advanced(y, run[r], "done")
    BY <1>1, <2>1 DEF RunStates, Points, Advanced
  <2>3. RemoveDir([run EXCEPT ![r] = y])
    BY <1>2, <2>1 DEF Clean
  <2>4. RunOK(y) /\ ("overlap" \notin blame => Settled(y))
    BY <1>1, <1>2, <2>2 DEF Clean, At, Advanced, Fits, RunOK, BeforeBuild, InContainer, Settled,
       Over
  <2>5. QED
    BY <1>1, <1>2, <2>2, <2>3, <2>4, RemovalKeepsInv DEF Clean, Advanced
<1>3. CASE TooLarge(r)
  <2>1. PICK y : y = [run[r] EXCEPT !.git = "none", !.pc = "fail"]
    OBVIOUS
  <2>2. /\ y \in RunStates /\ y.pc = "fail" /\ y.git = "none"
        /\ y.container = run[r].container /\ y.built = run[r].built
    BY <1>1, <2>1 DEF RunStates, Points
  <2>3. RemoveDir([run EXCEPT ![r] = y])
    BY <1>3, <2>1 DEF TooLarge
  <2>4. RunOK(y) /\ ("overlap" \notin blame => Settled(y))
    BY <1>1, <1>3, <2>2 DEF TooLarge, At, Fits, RunOK, BeforeBuild, InContainer, Settled, Over
  <2>5. QED
    BY <1>1, <1>3, <2>2, <2>3, <2>4, RemovalKeepsInv DEF TooLarge
<1>4. QED
  BY <1>2, <1>3

\* The job is given out while a run goes on, and that is noted, or none does.
LEMMA StartKeepsInv ==
    ASSUME WorkspaceInv, NEW r \in Runs, Start(r)
    PROVE  WorkspaceInv'
<1> USE DEF WorkspaceInv, WorkspaceTypeOK
<1>1. PICK p \in {"done", "clone"} : Goto(r, p) /\ (status = "READY" => p = "done")
  BY DEF Start
<1>2. PICK x \in RunStates : Advanced(x, run[r], p) /\ run' = [run EXCEPT ![r] = x]
  BY <1>1, Goes DEF Points
<1>3. /\ run' \in [Runs -> RunStates] /\ run'[r] = x
      /\ \A q \in Runs : q # r => run'[q] = run[q]
  BY <1>2
<1>4. x.pc = p /\ RunOK(x) /\ run[r].pc = "idle"
  BY <1>2 DEF Start, At, Advanced, RunOK, BeforeBuild, InContainer
<1>5. /\ blame' \in {blame, blame \cup {"overlap"}}
      /\ UNCHANGED <<status, dir, objects, cleaner>>
  BY DEF Start
<1>6. WorkspaceTypeOK'
  BY <1>3, <1>5
<1>7. \A q \in Runs : RunOK(run[q])'
  BY <1>3, <1>4, <1>5 DEF RunOK
<1>8. (\A q \in Runs : ~Live(q))' => DirHasACause'
  BY <1>3, <1>4, <1>5 DEF Live, Over, DirHasACause
<1>9. ASSUME "overlap" \notin blame'
      PROVE  /\ (\A q, s \in Runs : Live(q) /\ Live(s) => q = s)'
             /\ \A q \in Runs : WholeSoFar(run[q])' /\ Settled(run[q])'
  <2>1. \A q \in Runs : run[q].pc \in Over
    BY <1>9 DEF Start, Live
  <2>2. \A q \in Runs : q # r => run'[q].pc \in Over
    BY <1>3, <2>1
  <2>3. ASSUME NEW q \in Runs PROVE WholeSoFar(run[q])' /\ Settled(run[q])'
    BY <1>1, <1>3, <1>4, <1>5, <1>9, <2>2 DEF WholeSoFar, Settled, Over
  <2>4. QED
    BY <2>2, <2>3 DEF Live
<1>10. QED
  BY <1>5, <1>6, <1>7, <1>8, <1>9

\* The row from outside, the pruning, and nothing.
LEMMA OutsideKeepsInv ==
    ASSUME WorkspaceInv, Cancel \/ DeleteRow \/ CleanerStep \/ UNCHANGED vars
    PROVE  WorkspaceInv'
<1> USE DEF WorkspaceInv, WorkspaceTypeOK, RunOK, DirHasACause, WholeSoFar, Settled, Live
<1>1. CASE Cancel
  BY <1>1 DEF Cancel, Statuses
<1>2. CASE DeleteRow
  BY <1>2 DEF DeleteRow, Statuses
<1>3. CASE ListPrefixes
  BY <1>3 DEF ListPrefixes, CleanerGoto
<1>4. CASE CheckRow
  BY <1>4 DEF CheckRow, CleanerGoto
<1>5. CASE Prune
  BY <1>5 DEF Prune, CleanerGoto, Bundles, Trees
<1>6. CASE PruneFails
  BY <1>6 DEF PruneFails, CleanerGoto
<1>7. CASE UNCHANGED vars
  BY <1>7 DEF vars
<1>8. QED
  BY <1>1, <1>2, <1>3, <1>4, <1>5, <1>6, <1>7 DEF CleanerStep

-------------------------------------------------------------------------------
LEMMA NextWorkspaceInv == WorkspaceInv /\ [Next]_vars => WorkspaceInv'
<1> SUFFICES ASSUME WorkspaceInv, [Next]_vars PROVE WorkspaceInv'
  OBVIOUS
<1>1. ASSUME NEW r \in Runs, RunStep(r) PROVE WorkspaceInv'
  <2>1. CASE \/ Phase(r, "clone", "mkdir") \/ Phase(r, "build", "create")
             \/ Phase(r, "upload", "audit") \/ Phase(r, "deploy", "ready")
    BY <2>1, PhaseKeepsInv
  <2>2. QED
    BY <1>1, <2>1, CloneKeepsInv, BuildKeepsInv, UploadKeepsInv, EndKeepsInv, DirGoesKeepsInv
    DEF RunStep
<1>2. ASSUME NEW r \in Runs, GitStep(r) PROVE WorkspaceInv'
  BY <1>2, GitKeepsInv, DirGoesKeepsInv DEF GitStep
<1>3. QED
  BY <1>1, <1>2, StartKeepsInv, BuildKeepsInv, EndKeepsInv, OutsideKeepsInv DEF Next, Quiescent

LEMMA WorkspaceInvariance == Spec => []WorkspaceInv
BY InitWorkspaceInv, NextWorkspaceInv, PTL DEF Spec

\* The types of all variables, for any number of runs.
THEOREM WorkspaceTypeCorrectness == Spec => []WorkspaceTypeOK
<1>1. WorkspaceInv => WorkspaceTypeOK
  BY DEF WorkspaceInv
<1>2. QED
  BY <1>1, WorkspaceInvariance, PTL

\* A published deployment has the complete output of a complete checkout, whatever
\* died, hung or was given up before, unless two runs went on at once.  (The clean-up
\* of deployments past their time to live is not in this module.)
THEOREM PublishedStaysWhole == Spec => []PublishedIsWhole
<1>1. WorkspaceInv => PublishedIsWhole
  BY DEF WorkspaceInv, PublishedIsWhole
<1>2. QED
  BY <1>1, WorkspaceInvariance, PTL

\* A container that outlives its run and a directory that outlives all runs are
\* left by a death, a removal that failed or a git that was given up, whether or
\* not runs overlap.
THEOREM LeftoversAreExplained == Spec => []LeftoversHaveACause
<1>1. WorkspaceInv => LeftoversHaveACause
  BY DEF WorkspaceInv, LeftoversHaveACause, RunOK, InContainer, At, DirHasACause
<1>2. QED
  BY <1>1, WorkspaceInvariance, PTL

===============================================================================
