------------------------------- MODULE MCSync -------------------------------
(* Instance of Sync for TLC.  Devices share nothing but the timeline and    *)
(* its events, so that one device shows what each of them can meet.         *)
EXTENDS Sync
=============================================================================
