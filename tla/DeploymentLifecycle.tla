------------------------- MODULE DeploymentLifecycle -------------------------
(***************************************************************************)
(* What the deployment state machine promises to its users: a deployment   *)
(* is created QUEUED, moves only along the transition table, stays where   *)
(* it is once it is terminal, and becomes the project's current deployment *)
(* when, and only when, it is READY.                                       *)
(***************************************************************************)
EXTENDS DeploymentStates

CONSTANTS Deployments, None

VARIABLES status, current

vars == <<status, current>>

Init ==
    /\ status = [d \in Deployments |-> "ABSENT"]
    /\ current = None

Create(d) ==
    /\ status[d] = "ABSENT"
    /\ status' = [status EXCEPT ![d] = "QUEUED"]
    /\ UNCHANGED current

Move(d, s) ==
    /\ status[d] \in Statuses
    /\ s \in ALLOWED_STATE_TRANSITIONS[status[d]]
    /\ status' = [status EXCEPT ![d] = s]
    /\ current' = IF s = "READY" THEN d ELSE current

\* The worker's own pointer write, after the deployment became READY.
Serve(d) ==
    /\ status[d] = "READY"
    /\ current' = d
    /\ UNCHANGED status

Next == \E d \in Deployments : Create(d) \/ Serve(d) \/ \E s \in Statuses : Move(d, s)

Spec == Init /\ [][Next]_vars

===============================================================================
