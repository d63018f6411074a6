------------------------------ MODULE MCProjects ------------------------------
(***************************************************************************)
(* Projects for TLC: two users, one of whom installs the App.              *)
(***************************************************************************)
EXTENDS Projects, TLC

CONSTANTS u1, u2, n1, s1

FirstSlug == n1 :> s1

\* Requests are interchangeable, and so are the ids of projects.
RequestSymmetry == Permutations(Requests) \cup Permutations(Ids)

Busy(set, f) == Cardinality({x \in set : f[x].pc # "idle"})

\* Bounds: what is under way at once, and the events and projects of a behaviour,
\* fewer of both together once an event has been sent.
FewAtWork ==
    LET work == Busy(Requests, request) + Busy(Handlers, handler)
                + Cardinality(sent) + Cardinality(removing)
        happened == github.count + Cardinality({p \in Ids : project[p].st # "none"})
    IN work <= 2 /\ happened <= 2 /\ (github.count > 0 => work + happened <= 3)

===============================================================================
