------------------------------ MODULE MCAccess ------------------------------
(* Instance of Access for TLC.                                             *)
EXTENDS Access, TLC

\* Requests are interchangeable; so are the users other than the owner.
Symmetry == Permutations(Requests) \cup Permutations(Users \ {Owner})
=============================================================================
