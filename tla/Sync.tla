-------------------------------- MODULE Sync --------------------------------
(***************************************************************************)
(* The push-pull delivery of one conversation to the devices of its        *)
(* members.  A committed message is announced by an event, which becomes a *)
(* signal frame in the send buffer of every connected device; signals may  *)
(* be lost, late or out of order.  A device that learns of a seq it does   *)
(* not hold, or that (re)connects, pulls pages of the timeline over HTTP;  *)
(* pulls time out, are repeated and may be answered late.                  *)
(*                                                                         *)
(* The timeline is the one module Timeline keeps: 1..last without holes,   *)
(* append-only, each signal after its commit.  The device is not part of   *)
(* the repository: it behaves as the code and the design document expect.  *)
(***************************************************************************)
EXTENDS Integers, Sequences, FiniteSets, SequencesExt, FiniteSetsExt

CONSTANTS
  Devices,
  BufSize,    \* capacity of the send buffer of a connection
  PageLimit,  \* rows of a page
  MaxSeq,     \* bound: messages of a behaviour
  MaxPulls    \* bound: answers on their way to one device

ASSUME SyncAssumption == /\ BufSize \in Nat \ {0} /\ PageLimit \in Nat \ {0}
                         /\ MaxSeq \in Nat /\ MaxPulls \in Nat \ {0}

VARIABLES
  last,    \* messages committed
  events,  \* committed messages whose event is not published yet
  link,    \* WebSocket connection of each device: "down" or "up"
  frames,  \* send buffer of its connection
  view,    \* rows each device holds
  heard,   \* the largest seq each device heard of
  resync,  \* devices that have to catch up after a (re)connection
  pages,   \* answers to pulls on their way to each device
  silent   \* the event of the newest message was lost

vars == <<last, events, link, frames, view, heard, resync, pages, silent>>

AuthOK == 0   \* the first frame of a connection; signals are seqs

Init ==
  /\ last = 0 /\ events = {}
  /\ link = [d \in Devices |-> "down"]
  /\ frames = [d \in Devices |-> <<>>]
  /\ view = [d \in Devices |-> <<>>]
  /\ heard = [d \in Devices |-> 0]
  /\ resync = {}
  /\ pages = [d \in Devices |-> {}]
  /\ silent = FALSE

Cursor(d) == IF view[d] = <<>> THEN 0 ELSE Last(view[d])

-----------------------------------------------------------------------------
(* The server                                                              *)

Commit ==
  /\ last < MaxSeq
  /\ last' = last + 1
  /\ events' = events \cup {last + 1}
  /\ silent' = FALSE
  /\ UNCHANGED <<link, frames, view, heard, resync, pages>>

\* Mutation: a full buffer drops the signal and the connection stays.
DispatchDropping(s) ==
  /\ s \in events
  /\ events' = events \ {s}
  /\ frames' = [d \in Devices |->
                  IF link[d] = "up" /\ Len(frames[d]) < BufSize
                    THEN Append(frames[d], s) ELSE frames[d]]
  /\ UNCHANGED <<last, link, view, heard, resync, pages, silent>>

\* OnMessageCreated: a signal to every connected device; a connection whose
\* buffer is full is closed instead (Conn.Send).
Dispatch(s) ==
  /\ s \in events
  /\ events' = events \ {s}
  /\ link' = [d \in Devices |-> IF Len(frames[d]) = BufSize THEN "down"
                                ELSE link[d]]
  /\ frames' = [d \in Devices |->
                  IF link[d] = "up" /\ Len(frames[d]) < BufSize
                    THEN Append(frames[d], s) ELSE <<>>]
  /\ UNCHANGED <<last, view, heard, resync, pages, silent>>

\* The members cannot be looked up, or the request dies between its commit and
\* its publish: nobody hears of s.
LoseEvent(s) ==
  /\ s \in events
  /\ events' = events \ {s}
  /\ silent' = (silent \/ s = last)
  /\ UNCHANGED <<last, link, frames, view, heard, resync, pages>>

\* Mutation: the page is not ordered by seq before the limit cuts it.
PageUnordered(after) ==
  [i \in 1..Min({PageLimit, last - after}) |-> last - i + 1]

\* Mutation: the limit of the page is below the one the device counts with.
PageShort(after) == [i \in 1..Min({PageLimit - 1, last - after}) |-> after + i]

\* ListAfterSeq: the first rows after `after`, in the order of seq.
Page(after) == [i \in 1..Min({PageLimit, last - after}) |-> after + i]

-----------------------------------------------------------------------------
(* The connection                                                          *)

\* Hub.Register, then auth_ok: the device is a target of signals before it
\* knows that it is connected.
Connect(d) ==
  /\ link[d] = "down"
  /\ link' = [link EXCEPT ![d] = "up"]
  /\ frames' = [frames EXCEPT ![d] = <<AuthOK>>]
  /\ UNCHANGED <<last, events, view, heard, resync, pages, silent>>

Disconnect(d) ==
  /\ link[d] = "up"
  /\ link' = [link EXCEPT ![d] = "down"]
  /\ frames' = [frames EXCEPT ![d] = <<>>]
  /\ UNCHANGED <<last, events, view, heard, resync, pages, silent>>

-----------------------------------------------------------------------------
(* The device                                                              *)

\* writePump delivers the oldest frame.  With auth_ok the device gives up the
\* pulls it made before: their answers may be older than the connection.
Hear(d) ==
  /\ frames[d] # <<>>
  /\ frames' = [frames EXCEPT ![d] = Tail(@)]
  /\ LET f == Head(frames[d]) IN
       IF f = AuthOK
         THEN /\ resync' = resync \cup {d}
              /\ pages' = [pages EXCEPT ![d] = {}]
              /\ UNCHANGED heard
         ELSE /\ heard' = [heard EXCEPT ![d] = Max({@, f})]
              /\ UNCHANGED <<resync, pages>>
  /\ UNCHANGED <<last, events, link, view, silent>>

Behind(d) == d \in resync \/ heard[d] > Cursor(d)

\* GET messages?after_seq=cursor; asked again when no answer comes in time.
Pull(d) ==
  /\ Behind(d)
  /\ Cardinality(pages[d]) < MaxPulls
  /\ pages' = [pages EXCEPT ![d] = @ \cup {[after |-> Cursor(d),
                                            rows |-> Page(Cursor(d))]}]
  /\ UNCHANGED <<last, events, link, frames, view, heard, resync, silent>>

\* An answer is lost.
LosePage(d) == \E p \in pages[d] :
  /\ pages' = [pages EXCEPT ![d] = @ \ {p}]
  /\ UNCHANGED <<last, events, link, frames, view, heard, resync, silent>>

\* How many rows of an answer the device holds already.
Held(d, rows) == Cardinality({i \in DOMAIN rows : rows[i] <= Cursor(d)})

\* An answer arrives, perhaps after that of a later pull: rows the device
\* holds are skipped.  A page that is not full ends the catching up.
Apply(d) == \E p \in pages[d] :
  /\ pages' = [pages EXCEPT ![d] = @ \ {p}]
  /\ view' = [view EXCEPT
                ![d] = @ \o SubSeq(p.rows, Held(d, p.rows) + 1, Len(p.rows))]
  /\ resync' = IF Len(p.rows) < PageLimit THEN resync \ {d} ELSE resync
  /\ UNCHANGED <<last, events, link, frames, heard, silent>>

-----------------------------------------------------------------------------
Next ==
  \/ Commit
  \/ \E s \in 1..MaxSeq : Dispatch(s) \/ LoseEvent(s)
  \/ \E d \in Devices : Connect(d) \/ Disconnect(d) \/ Hear(d) \/ Pull(d)
                          \/ LosePage(d) \/ Apply(d)

Spec == Init /\ [][Next]_vars

\* The server answers and announces; a device keeps reconnecting, reading and
\* pulling, and not every connection and every answer is lost.
Fairness ==
  /\ \A s \in 1..MaxSeq : WF_vars(Dispatch(s))
  /\ \A d \in Devices : WF_vars(Connect(d)) /\ SF_vars(Hear(d))
                          /\ SF_vars(Pull(d)) /\ SF_vars(Apply(d))

FairSpec == Spec /\ Fairness
-----------------------------------------------------------------------------
(* Properties.                                                             *)

\* Every variable holds values of its type; no buffer exceeds its capacity.
TypeOK ==
  /\ last \in 0..MaxSeq /\ events \subseteq 1..MaxSeq
  /\ link \in [Devices -> {"down", "up"}]
  /\ \A d \in Devices : /\ frames[d] \in Seq(0..MaxSeq)
                        /\ Len(frames[d]) <= BufSize
                        /\ view[d] \in Seq(1..MaxSeq)
                        /\ heard[d] \in 0..MaxSeq
                        /\ Cardinality(pages[d]) <= MaxPulls
  /\ resync \subseteq Devices /\ silent \in BOOLEAN

\* "seq guarantees: nothing lost, nothing twice, nothing out of order": what a
\* device holds is always a prefix of the timeline that only grows, although
\* signals and answers are lost, late, repeated and reordered.
FeedPromise == INSTANCE Feed WITH Devices <- Devices, last <- last, view <- view
ImplementsFeed == FeedPromise!Spec

\* A device that is connected and has nothing left to read or to pull has the
\* whole timeline, whichever signals and answers came late or were lost on the
\* way, unless the event of the newest message is still to be published, or
\* was lost without a sign to anybody.
RestIsComplete == \A d \in Devices :
  link[d] = "up" /\ frames[d] = <<>> /\ ~ Behind(d)
    => Cursor(d) = last \/ last \in events \/ silent

\* Every device catches up with the timeline, unless the event of the newest
\* message was lost without a sign to anybody.
DevicesCatchUp ==
  \A d \in Devices : <>[](Cursor(d) = last) \/ <>[]silent
=============================================================================
