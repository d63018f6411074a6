--------------------------- MODULE MCWebhookIntake ---------------------------
(***************************************************************************)
(* WebhookIntake for TLC.                                                  *)
(***************************************************************************)
EXTENDS WebhookIntake, TLC

\* Attempts are interchangeable.
AttemptSymmetry == Permutations(Attempts)

===============================================================================
