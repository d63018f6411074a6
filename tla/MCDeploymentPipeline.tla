------------------------ MODULE MCDeploymentPipeline ------------------------
(***************************************************************************)
(* DeploymentPipeline for TLC.                                             *)
(***************************************************************************)
EXTENDS DeploymentPipeline, TLC

\* Runs are interchangeable; only runs without liveness properties use this.
RunSymmetry == Permutations(Runs)

===============================================================================
