------------------------------- MODULE Fleet -------------------------------
(***************************************************************************)
(* A release: the migration jobs run before the processes of the server    *)
(* are rolled out, and those serve the requests of the media module with   *)
(* ids of their own generators.                                            *)
(***************************************************************************)
EXTENDS Media, Migration

VARIABLE serving  \* the processes of the new version have been rolled out

fleetVars == <<idVars, mediaVars, migrationVars, serving>>

FleetInit == IdsInit /\ MediaInit /\ MigrationInit /\ serving = FALSE

\* Mutation: the roll-out does not wait for the jobs.
RollOutEarly ==
  /\ ~ serving
  /\ \E j \in Jobs : jobs[j] # "idle"
  /\ serving' = TRUE
  /\ UNCHANGED <<idVars, mediaVars, migrationVars>>

\* The hook of the deployment waits for a job that reports success.
RollOut ==
  /\ ~ serving
  /\ \E j \in Jobs : jobs[j] \in {"ok", "skipped"}
  /\ serving' = TRUE
  /\ UNCHANGED <<idVars, mediaVars, migrationVars>>

FleetNext ==
  \/ MigrationNext /\ UNCHANGED <<idVars, mediaVars, serving>>
  \/ RollOut
  \/ serving /\ MediaNext /\ UNCHANGED <<migrationVars, serving>>

FleetSpec == FleetInit /\ [][FleetNext]_fleetVars
-----------------------------------------------------------------------------
(* Properties.                                                             *)

\* The server meets the schema it was built for, unless a job gave up waiting
\* for the lock, which counts as success although the holder may still be at it
\* or fail.
ReleaseIsMigrated ==
  serving => schema = Statements \/ \E j \in Jobs : jobs[j] = "skipped"
=============================================================================
