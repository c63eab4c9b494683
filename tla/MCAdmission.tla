---------------------------- MODULE MCAdmission ----------------------------
(* Instances of Admission for TLC.                                         *)
EXTENDS Admission, TLC

\* Requests are interchangeable.
Symmetry == Permutations(Requests)
=============================================================================
