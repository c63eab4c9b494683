----------------------------- MODULE MCPresence -----------------------------
(* Presence for TLC: three connections of one user and either store.  The   *)
(* run checks liveness, so that it has no symmetry.                         *)
EXTENDS Presence
=============================================================================
