------------------------------ MODULE MCNineCfg ------------------------------
(* A prefix of two architectures and one user, for the run on NineCfg. *)
EXTENDS NineCfg
=============================================================================
