----------------------------- MODULE MCGateway -----------------------------
(* Instances of Gateway for TLC.                                           *)
EXTENDS Gateway, TLC

\* Connections, users and publishers are interchangeable in safety runs.
Symmetry == Permutations(Conns) \cup Permutations(Users)
              \cup Permutations(Publishers)
=============================================================================
