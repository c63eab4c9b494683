----------------------------- MODULE MCTimeline -----------------------------
(* Instances of Timeline for TLC.                                          *)
EXTENDS Timeline, TLC

\* Requests and client ids are interchangeable; so are the users that are
\* neither the creator nor moderators.  Used in the runs of safety properties.
Symmetry == Permutations(Requests) \cup Permutations(ClientIds)
              \cup Permutations(Users \ ({Owner} \cup Moderators))
=============================================================================
