--------------------------- MODULE MCBuildWorkspace ---------------------------
(***************************************************************************)
(* BuildWorkspace for TLC.  Its run checks liveness, so the runs are not   *)
(* declared symmetric.                                                     *)
(***************************************************************************)
EXTENDS BuildWorkspace

===============================================================================
