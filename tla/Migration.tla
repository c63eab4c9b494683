----------------------------- MODULE Migration -----------------------------
(***************************************************************************)
(* Migration jobs of a release.  A job opens one connection for the named  *)
(* lock of MySQL and runs the DDL on other connections: it compares the    *)
(* schema with the one it wants and executes the missing statements one by *)
(* one, without a transaction.  A job that does not get the lock in time   *)
(* skips the migration and reports success.  Jobs are killed, and the      *)
(* connection of the lock breaks.                                          *)
(***************************************************************************)
EXTENDS Naturals, FiniteSets

CONSTANTS
  Jobs,        \* runs of cmd/migrate
  Statements,  \* how many statements the new schema takes
  Nobody

ASSUME MigrationAssumption == Statements \in Nat /\ Nobody \notin Jobs

VARIABLES
  lock,    \* the job whose connection holds gotobeta_migrate
  schema,  \* the number of statements executed
  todo,    \* the next statement of each job's plan
  jobs,    \* how far each job is
  lost     \* jobs that run without their lock and do not know

migrationVars == <<lock, schema, todo, jobs, lost>>

MigrationInit ==
  /\ lock = Nobody /\ schema = 0
  /\ todo = [j \in Jobs |-> 1]
  /\ jobs = [j \in Jobs |-> "idle"]
  /\ lost = {}

JobIs(j, s) == jobs' = [jobs EXCEPT ![j] = s]

Start(j) ==
  /\ jobs[j] = "idle" /\ JobIs(j, "waiting")
  /\ UNCHANGED <<lock, schema, todo, lost>>

\* Mutation: the answer of GET_LOCK is not looked at.
GetLockAnyway(j) ==
  /\ jobs[j] = "waiting"
  /\ lock' = IF lock = Nobody THEN j ELSE lock
  /\ JobIs(j, "locked")
  /\ UNCHANGED <<schema, todo, lost>>

GetLock(j) ==
  /\ jobs[j] = "waiting" /\ lock = Nobody
  /\ lock' = j /\ JobIs(j, "locked")
  /\ UNCHANGED <<schema, todo, lost>>

\* 30 seconds have passed, the lock was held all the time: nil is returned.
Skip(j) ==
  /\ jobs[j] = "waiting" /\ lock # Nobody
  /\ JobIs(j, "skipped")
  /\ UNCHANGED <<lock, schema, todo, lost>>

\* Schema.Create looks at the tables
Inspect(j) ==
  /\ jobs[j] = "locked"
  /\ todo' = [todo EXCEPT ![j] = schema + 1]
  /\ JobIs(j, "migrating")
  /\ UNCHANGED <<lock, schema, lost>>

\* and executes what is missing; a statement that another job has executed since
\* then fails, and the job with it.
Execute(j) ==
  /\ jobs[j] = "migrating" /\ todo[j] <= Statements
  /\ IF todo[j] = schema + 1
       THEN /\ schema' = schema + 1
            /\ todo' = [todo EXCEPT ![j] = @ + 1] /\ UNCHANGED jobs
       ELSE JobIs(j, "failed") /\ UNCHANGED <<schema, todo>>
  /\ UNCHANGED <<lock, lost>>

\* RELEASE_LOCK and the end of the connection; the plan is gone with the job.
Release(j) ==
  /\ lock' = IF lock = j THEN Nobody ELSE lock
  /\ lost' = lost \ {j}
  /\ todo' = [todo EXCEPT ![j] = 1]
  /\ UNCHANGED schema

\* RELEASE_LOCK fails on a connection that is broken, and the job with it.
Finish(j) ==
  /\ jobs[j] = "migrating" /\ todo[j] > Statements
  /\ Release(j) /\ JobIs(j, IF j \in lost THEN "failed" ELSE "ok")

\* A failed job gives the lock back; so does the end of a process, whenever.
Ended(j) ==
  /\ \/ jobs[j] \in {"waiting", "locked", "migrating"}
     \/ jobs[j] = "failed" /\ j \in lost \cup {lock}
  /\ Release(j) /\ JobIs(j, "failed")

\* The connection of the lock breaks; the job does not notice and goes on.
LoseLock(j) ==
  /\ lock = j /\ jobs[j] \in {"locked", "migrating"}
  /\ lock' = Nobody /\ lost' = lost \cup {j}
  /\ UNCHANGED <<schema, todo, jobs>>

\* The platform starts a failed job again (backoffLimit).
Again(j) ==
  /\ jobs[j] = "failed" /\ j \notin lost \cup {lock}
  /\ JobIs(j, "waiting")
  /\ UNCHANGED <<lock, schema, todo, lost>>

MigrationNext == \E j \in Jobs :
  Start(j) \/ GetLock(j) \/ Skip(j) \/ Inspect(j) \/ Execute(j) \/ Finish(j)
    \/ Ended(j) \/ LoseLock(j) \/ Again(j)

MigrationSpec == MigrationInit /\ [][MigrationNext]_migrationVars
-----------------------------------------------------------------------------
(* Properties.                                                             *)

Running == {j \in Jobs : jobs[j] \in {"locked", "migrating"}}

\* "Only one of several migrations executes DDL": jobs run at the same time only
\* if the connection of a lock broke under all of them but one.
OneMigrator == \A j, k \in Running : j # k => j \in lost \/ k \in lost
=============================================================================
