-------------------------- MODULE MCArtifactGateway --------------------------
(***************************************************************************)
(* ArtifactGateway for TLC: one old and one new deployment of one commit.  *)
(***************************************************************************)
EXTENDS ArtifactGateway, FiniteSets, TLC

CONSTANTS o1, d1, c1

SameCommit == (o1 :> c1) @@ (d1 :> c1)
OldBeforeNew == (o1 :> 1) @@ (d1 :> 2)

\* Bound: a behaviour is followed up to the answer of a visit; what comes after it
\* is a behaviour in which the visit is never opened.
UpToAnAnswer == \A v \in Views : view[v].pc # "answered"

\* Bound: of the runs, transitions, requests and cleanup passes at most MaxAtWork are
\* under way at once; in a behaviour with a visit there is one request, and of the
\* others one is under way at a time while the visit lasts.
MaxAtWork == 2
FewAtWork ==
    LET work == Cardinality({r \in Runs : run[r].pc # "idle"})
                + Cardinality({w \in Writers : writer[w].pc # "idle"})
                + Cardinality({q \in Swaps : swap[q].pc \in {"stat", "read", "write"}})
                + (IF cleaner.pc = "idle" THEN 0 ELSE 1)
    IN /\ work <= MaxAtWork
       /\ (\E v \in Views : view[v].pc # "idle") =>
             work <= 1 /\ Cardinality({q \in Swaps : swap[q].pc # "idle"}) <= 1

\* Requests are interchangeable.
SwapSymmetry == Permutations(Swaps)

===============================================================================
