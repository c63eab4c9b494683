------------------------------ MODULE MCDirect ------------------------------
(* Instances of Direct for TLC; no symmetry, the run checks liveness.      *)
EXTENDS Direct
=============================================================================
