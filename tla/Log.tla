-------------------------------- MODULE Log --------------------------------
(***************************************************************************)
(* What the timeline of a conversation promises to whoever reads it: a log *)
(* that is written one entry at a time at its end, in which nothing is     *)
(* lost, repeated or rewritten.  Users post entries; an entry may quote an *)
(* earlier one; a recall is an entry too and takes effect with it.  A seq  *)
(* is announced when its entry can be read, if at all.                     *)
(***************************************************************************)
EXTENDS Naturals

CONSTANTS
  Moderators,  \* users who may recall the messages of others
  None

VARIABLES
  log,       \* the entries by seq: id, kind, by, key, ref
  recalled,  \* the seqs of recalled entries
  announced  \* the seqs announced to the members

vars == <<log, recalled, announced>>

Init == log = [s \in {} |-> None] /\ recalled = {} /\ announced = {}

Names(s, id) == log[s].id = id

\* Entry e is added at the end, under an id that is not in use.
Append(e, n) ==
  /\ DOMAIN log = 1..n
  /\ log' = [s \in 1..(n + 1) |-> IF s = n + 1 THEN e ELSE log[s]]
  /\ \A s \in DOMAIN log : ~ Names(s, e.id)
  /\ UNCHANGED announced

\* A client_msg_id is posted once, and what is quoted comes first.
Post(e, n) ==
  /\ Append(e, n)
  /\ e.kind = "user"
  /\ \A s \in DOMAIN log : log[s].key # e.key
  /\ e.ref = None \/ \E s \in DOMAIN log : Names(s, e.ref)
  /\ UNCHANGED recalled

MayRecall(u, s) == u \in Moderators \/ (log[s].kind = "user" /\ log[s].by = u)

\* The recall entry and the status of the recalled entry are one step.
Recall(e, n) ==
  /\ Append(e, n)
  /\ e.kind = "recall"
  /\ \E s \in DOMAIN log : /\ Names(s, e.ref)
                           /\ MayRecall(e.by, s)
                           /\ recalled' = recalled \cup {s}

Announce ==
  /\ \E s \in DOMAIN log : announced' = announced \cup {s}
  /\ UNCHANGED <<log, recalled>>

Next ==
  \/ \E n \in DOMAIN log \cup {0} : \E s \in DOMAIN log' :
       Post(log'[s], n) \/ Recall(log'[s], n)
  \/ Announce

Spec == Init /\ [][Next]_vars
=============================================================================
