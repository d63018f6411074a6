--------------------------- MODULE DeploymentStates ---------------------------
(***************************************************************************)
(* The deployment state machine shared by the API, the worker and the      *)
(* reconciler: which status may follow which, and what one call of         *)
(* transitionDeploymentState decides once it has read the row.             *)
(*                                                                         *)
(* The module has no variables.  The transaction that surrounds the        *)
(* decision (a read, then a write that other transactions may precede) is  *)
(* a matter for the modules that use it.                                   *)
(***************************************************************************)

\* The transition relation, a status mapped to the statuses it may become.
ALLOWED_STATE_TRANSITIONS ==
    [QUEUED       |-> {"INITIALIZING", "CANCELLED"},
     INITIALIZING |-> {"CLONING", "FAILED", "CANCELLED"},
     CLONING      |-> {"BUILDING", "FAILED", "CANCELLED"},
     BUILDING     |-> {"UPLOADING", "FAILED", "CANCELLED"},
     UPLOADING    |-> {"DEPLOYING", "FAILED", "CANCELLED"},
     DEPLOYING    |-> {"READY", "FAILED", "CANCELLED"},
     READY        |-> {},
     FAILED       |-> {},
     CANCELLED    |-> {}]

Statuses == DOMAIN ALLOWED_STATE_TRANSITIONS

Terminal == {"READY", "FAILED", "CANCELLED"}

\* The list callers pass as expectedStatus when any unfinished status will do.
InFlight == {"QUEUED", "INITIALIZING", "CLONING", "BUILDING", "UPLOADING", "DEPLOYING"}

\* Callers that leave expectedStatus out.
AnyStatus == Statuses

isTerminalStatus(s) == s \in Terminal

isValidTransition(from, to) == from = to \/ to \in ALLOWED_STATE_TRANSITIONS[from]

-------------------------------------------------------------------------------
\* Deviation: the transition table is not consulted.
DecisionWithoutTable(cur, to, expected) ==
    CASE isTerminalStatus(cur) /\ cur = to  -> "noop"
      [] isTerminalStatus(cur) /\ cur # to  -> "terminal"
      [] ~isTerminalStatus(cur) /\ cur \notin expected -> "conflict"
      [] OTHER -> "commit"

(***************************************************************************)
(* What transitionDeploymentState does on a row whose status is cur:       *)
(*   "noop"     success without a write: already in this terminal status   *)
(*   "terminal" refused: already in another terminal status                *)
(*   "conflict" refused: the status is not one the caller expected         *)
(*   "invalid"  InvalidStateTransitionError is thrown                      *)
(*   "commit"   the status is written and a lifecycle event is appended    *)
(* The order of the tests is the order of the code's early returns.        *)
(***************************************************************************)
Decision(cur, to, expected) ==
    CASE isTerminalStatus(cur) /\ cur = to  -> "noop"
      [] isTerminalStatus(cur) /\ cur # to  -> "terminal"
      [] ~isTerminalStatus(cur) /\ cur \notin expected -> "conflict"
      [] ~isTerminalStatus(cur) /\ cur \in expected /\ ~isValidTransition(cur, to) -> "invalid"
      [] OTHER -> "commit"

Outcomes == {"noop", "terminal", "conflict", "invalid", "commit"}

===============================================================================
