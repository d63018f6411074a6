--------------------------- MODULE MCReconciliation ---------------------------
(***************************************************************************)
(* Reconciliation for TLC.                                                 *)
(***************************************************************************)
EXTENDS Reconciliation, TLC

\* Starts of a worker are interchangeable, and so are runs; only configurations
\* without liveness properties use this.
Symmetry == Permutations(Workers) \cup Permutations(Runs)

\* The second reconciler starts beside one run, two runs work beside one reconciler.
FewActors ==
    (\A r \in Runs : run[r].pc # "idle") => Cardinality({w \in Workers : rec[w].pc # "start"}) <= 1

\* No guard of the system reads the variables that are left out, and no property
\* but the type invariant, which the pipeline's own runs check for them.
Control == <<status, stale, job, heartbeat, handler, request, run, lock, rec>>

===============================================================================
