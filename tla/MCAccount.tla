----------------------------- MODULE MCAccount -----------------------------
(* Instances of Account for TLC.                                           *)
EXTENDS Account, TLC

\* Requests and providers are interchangeable.
Symmetry == Permutations(Requests) \cup Permutations(Providers)
=============================================================================
