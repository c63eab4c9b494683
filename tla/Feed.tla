-------------------------------- MODULE Feed --------------------------------
(***************************************************************************)
(* What the synchronisation of a conversation promises to the devices of   *)
(* its members: the timeline only grows, and every device holds a prefix   *)
(* of it that only grows (nothing lost, nothing twice, nothing reordered). *)
(***************************************************************************)
EXTENDS Naturals, Sequences

CONSTANTS Devices

VARIABLES
  last,  \* the number of messages in the timeline
  view   \* the seqs each device has received, in the order it got them

Prefix(n) == [s \in 1..n |-> s]

Init == last = 0 /\ view = [d \in Devices |-> <<>>]

Grow == last' = last + 1 /\ UNCHANGED view

Receive(d) ==
  /\ \E n \in (Len(view[d]) + 1)..last : view' = [view EXCEPT ![d] = Prefix(n)]
  /\ UNCHANGED last

Next == Grow \/ \E d \in Devices : Receive(d)

Spec == Init /\ [][Next]_<<last, view>>
=============================================================================
