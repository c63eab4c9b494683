------------------------------ MODULE MCFleet ------------------------------
(* Instances of Fleet for TLC.                                             *)
EXTENDS Fleet, TLC

\* Every process has a node number of its own.
Distinct == CHOOSE f \in [Processes -> 0..MaxNode] :
              \A p, q \in Processes : f[p] = f[q] => p = q

\* Requests, users and jobs are interchangeable.
Symmetry == Permutations(Requests) \cup Permutations(Uploaders)
              \cup Permutations(Jobs)

\* Bound: a request comes in, or a clock moves, after the last job has ended, and
\* only in a release without a skipped job.
JobsAtRest == \A j \in Jobs : jobs[j] \in {"ok", "failed"}
Untouched  == /\ \A r \in Requests : stage[r] = "idle"
              /\ \A p \in Processes : clock[p] = 1
Bound == JobsAtRest \/ Untouched
=============================================================================
