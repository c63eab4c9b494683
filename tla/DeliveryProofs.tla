--------------------------- MODULE DeliveryProofs ---------------------------
(***************************************************************************)
(* Proofs about the two halves of delivery.  Sync, for any number of       *)
(* devices and messages and any sizes of buffers and pages: what a device  *)
(* holds is a growing prefix of the timeline, and a device at rest holds   *)
(* all of it.  Presence, for any number of connections and users: a user   *)
(* who is served stays online, and the map of the process holds nobody     *)
(* whom no handler will take off it.                                       *)
(***************************************************************************)
EXTENDS Sync, Presence, SequenceTheorems, FiniteSetTheorems, TLAPS

(* Sequences of consecutive seqs                                           *)

\* The seqs after + 1, ..., after + n: a page; with after = 0, a view.
Run(after, n) == [i \in 1..n |-> after + i]

\* The length of a run and what it holds.
LEMMA RunIsSeq ==
  ASSUME NEW after \in Nat, NEW n \in Nat
  PROVE  /\ Run(after, n) \in Seq(Nat) /\ Len(Run(after, n)) = n
         /\ DOMAIN Run(after, n) = 1..n
         /\ \A i \in 1..n : Run(after, n)[i] = after + i
<1>1. Run(after, n) \in [1..n -> Nat]
  BY DEF Run
<1>2. Run(after, n) \in Seq(Nat)
  BY <1>1
<1>3. 1..Len(Run(after, n)) = 1..n /\ Len(Run(after, n)) \in Nat
  BY <1>1, <1>2, LenProperties
<1>4. Len(Run(after, n)) = n
  BY <1>3
<1> QED
  BY <1>1, <1>2, <1>4 DEF Run

\* The smaller one of two numbers.
LEMMA MinOfTwo ==
  ASSUME NEW a \in Int, NEW b \in Int
  PROVE  Min({a, b}) = IF a <= b THEN a ELSE b
  BY DEF Min

\* The larger one of two numbers.
LEMMA MaxOfTwo ==
  ASSUME NEW a \in Int, NEW b \in Int
  PROVE  Max({a, b}) = IF a >= b THEN a ELSE b
  BY DEF Max

\* The cursor of a device that holds a run from the start is its length.
LEMMA CursorOfRun ==
  ASSUME NEW d, NEW n \in Nat, view[d] = Run(0, n)
  PROVE  Cursor(d) = n
<1>1. Len(view[d]) = n /\ view[d] \in Seq(Nat)
  <2>1. 0 \in Nat
    OBVIOUS
  <2> QED
    BY <2>1, RunIsSeq
<1>2. CASE n = 0
  <2>1. view[d] = <<>>
    BY <1>1, <1>2
  <2> QED
    BY <1>2, <2>1 DEF Cursor
<1>3. CASE n > 0
  <2>1. view[d] # <<>> /\ n \in 1..n
    BY <1>1, <1>3
  <2>2. view[d][n] = n
    BY <2>1 DEF Run
  <2> QED
    BY <1>1, <2>1, <2>2 DEF Cursor, Last
<1> QED
  BY <1>2, <1>3

\* How many rows of the page Run(after, m) a device holds that holds n rows, and
\* how many rows it holds with the page.
Overlap(n, after, m) == IF m <= n - after THEN m ELSE n - after
Reach(n, after, m)   == IF after + m <= n THEN n ELSE after + m

\* How much of a page a device holds already,
LEMMA HeldOfRun ==
  ASSUME NEW d, NEW n \in Nat, view[d] = Run(0, n),
         NEW after \in Nat, NEW m \in Nat, after <= n
  PROVE  Held(d, Run(after, m)) = Overlap(n, after, m)
<1> DEFINE k == Overlap(n, after, m)
<1>0. k \in Nat /\ k = IF m <= n - after THEN m ELSE n - after
  BY DEF Overlap
<1> HIDE DEF k
<1>1. DOMAIN Run(after, m) = 1..m /\ \A i \in 1..m : Run(after, m)[i] = after + i
  BY DEF Run
<1>2. Cursor(d) = n
  BY CursorOfRun
<1>3. {i \in 1..m : after + i <= n} = 1..k
  BY <1>0
<1>4. {i \in DOMAIN Run(after, m) : Run(after, m)[i] <= Cursor(d)} = 1..k
  BY <1>1, <1>2, <1>3
<1>5. Cardinality(1..k) = k
  <2>1. 1 \in Int /\ k \in Int
    BY <1>0
  <2>2. Cardinality(1..k) = IF 1 > k THEN 0 ELSE k - 1 + 1
    BY <2>1, FS_Interval
  <2> QED
    BY <1>0, <2>2
<1> QED
  BY <1>4, <1>5 DEF Held, k

\* and what the rest of the page makes of its view.
LEMMA RunGrows ==
  ASSUME NEW n \in Nat, NEW after \in Nat, NEW m \in Nat, after <= n
  PROVE  Run(0, n) \o SubSeq(Run(after, m), Overlap(n, after, m) + 1, Len(Run(after, m)))
           = Run(0, Reach(n, after, m))
<1> DEFINE k    == Overlap(n, after, m)
           size == Reach(n, after, m)
<1>0. /\ k \in Nat /\ k = (IF m <= n - after THEN m ELSE n - after)
      /\ size \in Nat /\ size = (IF after + m <= n THEN n ELSE after + m)
  BY DEF Overlap, Reach
<1> HIDE DEF k, size
<1> DEFINE view0 == Run(0, n)
           rest  == SubSeq(Run(after, m), k + 1, m)
           whole == Run(0, size)
<1>1. Len(Run(after, m)) = m
  BY RunIsSeq
<1>2. /\ view0 \in Seq(Nat) /\ Len(view0) = n
      /\ whole \in Seq(Nat) /\ Len(whole) = size
  <2>1. 0 \in Nat
    OBVIOUS
  <2> QED
    BY <1>0, <2>1, RunIsSeq
<1>3. \A i \in 1..n : view0[i] = i
  BY DEF Run
<1>4. \A i \in 1..size : whole[i] = i
  BY <1>0 DEF Run
<1>5. /\ rest \in Seq(Nat)
      /\ Len(rest) = IF k + 1 <= m THEN m - (k + 1) + 1 ELSE 0
      /\ \A i \in 1..(m - (k + 1) + 1) : rest[i] = Run(after, m)[k + 1 + i - 1]
  <2> DEFINE page == Run(after, m)
             from == k + 1
  <2>1. \A i \in from..m : page[i] \in Nat
    BY <1>0 DEF Run
  <2>2. from \in Int /\ m \in Int
    BY <1>0
  <2> HIDE DEF page, from
  <2>3. /\ SubSeq(page, from, m) \in Seq(Nat)
        /\ Len(SubSeq(page, from, m)) = IF from <= m THEN m - from + 1 ELSE 0
        /\ \A i \in 1..(m - from + 1) : SubSeq(page, from, m)[i] = page[from + i - 1]
    BY <2>1, <2>2, SubSeqProperties
  <2> QED
    BY <2>3 DEF page, from
<1>6. n + Len(rest) = size
  BY <1>0, <1>5
<1>7. ASSUME NEW i \in 1..size, i > n PROVE rest[i - n] = i
  <2>1. k = n - after /\ i - n \in 1..(m - (k + 1) + 1) /\ k + (i - n) \in 1..m
    BY <1>0, <1>7
  <2>2. rest[i - n] = Run(after, m)[k + 1 + (i - n) - 1]
    BY <1>5, <2>1
  <2>3. k + 1 + (i - n) - 1 = k + (i - n) /\ after + (k + (i - n)) = i
    BY <1>0, <2>1
  <2> QED
    BY <2>1, <2>2, <2>3 DEF Run
<1> HIDE DEF view0, rest, whole
<1>8. /\ view0 \o rest \in Seq(Nat) /\ Len(view0 \o rest) = Len(view0) + Len(rest)
      /\ \A i \in 1..(Len(view0) + Len(rest)) :
           (view0 \o rest)[i] = IF i <= Len(view0) THEN view0[i]
                                ELSE rest[i - Len(view0)]
  BY <1>2, <1>5, ConcatProperties
<1>9. ASSUME NEW i \in 1..size PROVE (view0 \o rest)[i] = whole[i]
  <2>1. /\ whole[i] = i /\ i \in 1..(Len(view0) + Len(rest))
        /\ (view0 \o rest)[i] = IF i <= n THEN view0[i] ELSE rest[i - n]
    BY <1>2, <1>4, <1>6, <1>8
  <2>2. CASE i <= n
    <3>1. view0[i] = i
      BY <1>3, <2>2
    <3> QED
      BY <2>1, <2>2, <3>1
  <2>3. CASE ~ (i <= n)
    <3>1. rest[i - n] = i
      BY <1>0, <1>7, <2>3
    <3> QED
      BY <2>1, <2>3, <3>1
  <2> QED
    BY <2>2, <2>3
<1>10. view0 \o rest = whole
  BY <1>2, <1>6, <1>8, <1>9, SeqEqual
<1> QED
  BY <1>1, <1>10 DEF view0, rest, whole, k, size

-----------------------------------------------------------------------------
(* The inductive invariant                                                 *)

\* A frame that waits in a send buffer.
Waits(q, f) == \E i \in 1..Len(q) : q[i] = f

\* A device that knows of its connection has been told of the newest message,
\* unless nobody has been told of it (yet).
Greeted(d) == link[d] = "up" /\ ~ Waits(frames[d], AuthOK)
Told(d)    == \/ last \in events \/ silent
              \/ heard[d] >= last \/ Waits(frames[d], last)

SyncTyped ==
  /\ last \in Nat /\ events \subseteq 1..last /\ silent \in BOOLEAN
  /\ link \in [Devices -> {"down", "up"}]
  /\ frames \in [Devices -> Seq(Nat)] /\ heard \in [Devices -> Nat]
  /\ view = [d \in Devices |-> view[d]] /\ DOMAIN pages = Devices

\* A page on its way to d, which holds n rows: m rows from within the view of d
\* on; and if it is not full, d lacks nothing after it that it will not hear of.
PageSound(d, n, p) == \E after \in 0..n, m \in 0..PageLimit :
  /\ p = [after |-> after, rows |-> Run(after, m)]
  /\ after + m <= last
  /\ Greeted(d) /\ m < PageLimit => Told(d) \/ after + m = last

DeviceSound(d) ==
  /\ Len(frames[d]) <= BufSize
  /\ \E n \in 0..last :
       /\ view[d] = Run(0, n)
       /\ \A p \in pages[d] : PageSound(d, n, p)
       /\ Greeted(d) => Told(d) \/ d \in resync \/ n = last

SyncInv == SyncTyped /\ \A d \in Devices : DeviceSound(d)

\* Nothing waits in an empty buffer; what waits after an Append,
LEMMA WaitsAppended ==
  ASSUME NEW q \in Seq(Nat), NEW s \in Nat
  PROVE  /\ Append(q, s) \in Seq(Nat) /\ Len(Append(q, s)) = Len(q) + 1
         /\ Waits(Append(q, s), s)
         /\ \A f : Waits(q, f) => Waits(Append(q, s), f)
<1>1. Append(q, s) \in Seq(Nat) /\ Len(Append(q, s)) = Len(q) + 1 /\ Len(q) \in Nat
  OBVIOUS
<1>2. Append(q, s)[Len(q) + 1] = s /\ \A i \in 1..Len(q) : Append(q, s)[i] = q[i]
  OBVIOUS
<1>3. Waits(Append(q, s), s)
  BY <1>1, <1>2 DEF Waits
<1>4. ASSUME NEW f, Waits(q, f) PROVE Waits(Append(q, s), f)
  <2>1. PICK i \in 1..Len(q) : q[i] = f
    BY <1>4 DEF Waits
  <2>2. i \in 1..Len(Append(q, s)) /\ Append(q, s)[i] = f
    BY <1>1, <1>2, <2>1
  <2> QED
    BY <2>2 DEF Waits
<1> QED
  BY <1>1, <1>3, <1>4

\* and before the oldest frame is delivered.
LEMMA WaitsDelivered ==
  ASSUME NEW q \in Seq(Nat), q # <<>>
  PROVE  /\ Tail(q) \in Seq(Nat) /\ Len(Tail(q)) = Len(q) - 1 /\ Head(q) \in Nat
         /\ \A f : Waits(q, f) => f = Head(q) \/ Waits(Tail(q), f)
<1>1. /\ Len(q) \in Nat \ {0} /\ Tail(q) \in Seq(Nat) /\ Len(Tail(q)) = Len(q) - 1
      /\ Head(q) = q[1] /\ Head(q) \in Nat
      /\ \A i \in 1..Len(Tail(q)) : Tail(q)[i] = q[i + 1]
  BY HeadTailProperties, EmptySeq
<1>2. ASSUME NEW f, NEW i \in 1..Len(q), q[i] = f
      PROVE  f = Head(q) \/ Waits(Tail(q), f)
  <2>1. CASE i = 1
    BY <1>1, <1>2, <2>1
  <2>2. CASE i # 1
    <3>1. i - 1 \in 1..Len(Tail(q)) /\ (i - 1) + 1 = i
      BY <1>1, <2>2
    <3>2. Tail(q)[i - 1] = f
      BY <1>1, <1>2, <3>1
    <3> QED
      BY <3>1, <3>2 DEF Waits
  <2> QED
    BY <2>1, <2>2
<1> QED
  BY <1>1, <1>2 DEF Waits

\* A step elsewhere, or the loss of an answer, leaves a device as it is.
LEMMA DeviceStays ==
  ASSUME SyncInv, NEW d \in Devices, UNCHANGED <<last, events, silent>>,
         link'[d] = link[d], frames'[d] = frames[d], heard'[d] = heard[d],
         view'[d] = view[d], pages'[d] \subseteq pages[d],
         d \in resync => d \in resync'
  PROVE  DeviceSound(d)'
<1>1. Greeted(d)' = Greeted(d) /\ Told(d)' = Told(d)
  BY DEF Greeted, Told
<1>2. ASSUME NEW n, NEW p, PageSound(d, n, p) PROVE PageSound(d, n, p)'
  BY <1>1, <1>2 DEF PageSound
<1> QED
  BY <1>1, <1>2 DEF SyncInv, DeviceSound

\* A step of the server that every device is told of, or will be.
LEMMA ServerKeeps ==
  ASSUME SyncInv, SyncTyped', NEW d \in Devices, last <= last',
         UNCHANGED <<view, heard, resync, pages>>,
         Len(frames'[d]) <= BufSize,
         Greeted(d)' => Greeted(d),
         Greeted(d)' => Told(d)' \/ (last' = last /\ ~ Told(d))
  PROVE  DeviceSound(d)'
<1>1. PICK n \in 0..last :
        /\ view[d] = Run(0, n)
        /\ \A p \in pages[d] : PageSound(d, n, p)
        /\ Greeted(d) => Told(d) \/ d \in resync \/ n = last
  BY DEF SyncInv, DeviceSound
<1>2. n \in 0..last'
  BY DEF SyncInv, SyncTyped
<1>3. ASSUME NEW p \in pages[d] PROVE PageSound(d, n, p)'
  <2>1. PICK after \in 0..n, m \in 0..PageLimit :
          /\ p = [after |-> after, rows |-> Run(after, m)]
          /\ after + m <= last
          /\ Greeted(d) /\ m < PageLimit => Told(d) \/ after + m = last
    BY <1>1 DEF PageSound
  <2>2. after + m <= last'
    BY <2>1, SyncAssumption DEF SyncInv, SyncTyped
  <2>3. Greeted(d)' /\ m < PageLimit => Told(d)' \/ after + m = last'
    BY <2>1
  <2> QED
    BY <2>1, <2>2, <2>3 DEF PageSound
<1> QED
  BY <1>1, <1>2, <1>3 DEF DeviceSound

\* A commit: its event is there.
LEMMA CommitKeeps == SyncInv /\ Commit => SyncInv'
<1> SUFFICES ASSUME SyncInv, Commit PROVE SyncInv'
  OBVIOUS
<1>1. SyncTyped'
  <2>1. last' \in Nat /\ 1..last \subseteq 1..last' /\ last + 1 \in 1..last'
    BY DEF SyncInv, SyncTyped, Commit
  <2> QED
    BY <2>1 DEF SyncInv, SyncTyped, Commit
<1>2. ASSUME NEW d \in Devices PROVE DeviceSound(d)'
  <2>1. Told(d)' /\ (Greeted(d)' => Greeted(d))
    BY DEF Commit, Told, Greeted
  <2>2. Len(frames'[d]) <= BufSize /\ last <= last'
    BY DEF Commit, SyncInv, SyncTyped, DeviceSound
  <2> QED
    BY <1>1, <2>1, <2>2, ServerKeeps DEF Commit
<1> QED
  BY <1>1, <1>2 DEF SyncInv

\* An event is published: the signal waits, or the connection is closed.
LEMMA DispatchKeeps ==
  ASSUME SyncInv, NEW s \in 1..MaxSeq, Dispatch(s)
  PROVE  SyncInv'
<1>1. SyncTyped'
  <2>1. ASSUME NEW d \in Devices
        PROVE  frames'[d] \in Seq(Nat) /\ link'[d] \in {"down", "up"}
    BY SyncAssumption, WaitsAppended DEF SyncInv, SyncTyped, Dispatch
  <2>2. frames' \in [Devices -> Seq(Nat)] /\ link' \in [Devices -> {"down", "up"}]
    BY <2>1 DEF Dispatch
  <2> QED
    BY <2>2 DEF SyncInv, SyncTyped, Dispatch
<1>2. ASSUME NEW d \in Devices PROVE DeviceSound(d)'
  <2>1. frames[d] \in Seq(Nat) /\ Len(frames[d]) \in Nat /\ Len(frames[d]) <= BufSize
        /\ s \in Nat /\ s # AuthOK /\ BufSize \in Nat \ {0}
    BY SyncAssumption DEF SyncInv, SyncTyped, DeviceSound, AuthOK
  <2>2. Len(frames'[d]) <= BufSize
    BY <2>1, WaitsAppended DEF Dispatch
  <2>3. link'[d] = "up" => frames'[d] = Append(frames[d], s) /\ link[d] = "up"
    BY <2>1 DEF Dispatch
  <2>4. Greeted(d)' => Greeted(d)
    BY <2>1, <2>3, WaitsAppended DEF Greeted
  <2>5. ASSUME Greeted(d)' PROVE Told(d)' \/ (last' = last /\ ~ Told(d))
    <3>1. /\ frames'[d] = Append(frames[d], s) /\ last' = last /\ silent' = silent
          /\ heard' = heard /\ events' = events \ {s}
      BY <2>3, <2>5 DEF Greeted, Dispatch
    <3>2. Waits(frames'[d], s) /\ (Waits(frames[d], last) => Waits(frames'[d], last))
      BY <2>1, <3>1, WaitsAppended
    <3> QED
      BY <3>1, <3>2 DEF Told
  <2> QED
    BY <1>1, <2>2, <2>4, <2>5, ServerKeeps DEF Dispatch, SyncInv, SyncTyped
<1> QED
  BY <1>1, <1>2 DEF SyncInv

\* An event is lost: silent says so when it was the newest.
LEMMA LoseEventKeeps ==
  ASSUME SyncInv, NEW s \in 1..MaxSeq, LoseEvent(s)
  PROVE  SyncInv'
<1>1. SyncTyped'
  BY DEF SyncInv, SyncTyped, LoseEvent
<1>2. ASSUME NEW d \in Devices PROVE DeviceSound(d)'
  <2>1. Greeted(d)' = Greeted(d) /\ (Told(d) => Told(d)')
    BY DEF LoseEvent, Told, Greeted
  <2>2. Len(frames'[d]) <= BufSize /\ last <= last'
    BY DEF LoseEvent, SyncInv, SyncTyped, DeviceSound
  <2> QED
    BY <1>1, <2>1, <2>2, ServerKeeps DEF LoseEvent
<1> QED
  BY <1>1, <1>2 DEF SyncInv

\* What a step of one device has to show.
LEMMA DeviceKeeps ==
  ASSUME SyncInv, SyncTyped', NEW d \in Devices, UNCHANGED <<last, events, silent>>,
         DeviceSound(d)',
         \A q \in Devices \ {d} :
           /\ link'[q] = link[q] /\ frames'[q] = frames[q] /\ heard'[q] = heard[q]
           /\ view'[q] = view[q] /\ pages'[q] = pages[q]
           /\ q \in resync => q \in resync'
  PROVE  SyncInv'
<1>1. ASSUME NEW q \in Devices \ {d} PROVE DeviceSound(q)'
  BY DeviceStays
<1> QED
  BY <1>1 DEF SyncInv

\* A connection comes, whose auth_ok waits, or goes.
LEMMA LinkKeeps ==
  ASSUME SyncInv, NEW d \in Devices, Connect(d) \/ Disconnect(d)
  PROVE  SyncInv'
<1>1. PICK q \in {<<AuthOK>>, <<>>}, l \in {"up", "down"} :
        /\ frames' = [frames EXCEPT ![d] = q] /\ link' = [link EXCEPT ![d] = l]
        /\ l = "up" => q = <<AuthOK>>
        /\ UNCHANGED <<last, events, view, heard, resync, pages, silent>>
  BY DEF Connect, Disconnect
<1>2. q \in Seq(Nat) /\ Len(q) <= BufSize /\ (l = "up" => Waits(q, AuthOK))
  <2>1. <<AuthOK>> \in Seq(Nat) /\ Len(<<AuthOK>>) = 1 /\ <<AuthOK>>[1] = AuthOK
    BY DEF AuthOK
  <2>2. <<>> \in Seq(Nat) /\ Len(<<>>) = 0
    OBVIOUS
  <2>3. CASE q = <<AuthOK>>
    <3>1. Len(q) <= BufSize
      BY <2>1, <2>3, SyncAssumption
    <3>2. 1 \in 1..Len(q) /\ q[1] = AuthOK
      BY <2>1, <2>3
    <3> QED
      BY <2>1, <2>3, <3>1, <3>2 DEF Waits
  <2>4. CASE q = <<>> /\ l = "down"
    BY <2>2, <2>4, SyncAssumption
  <2> QED
    BY <1>1, <2>3, <2>4
<1>3. SyncTyped'
  BY <1>1, <1>2 DEF SyncInv, SyncTyped
<1>4. frames'[d] = q /\ link'[d] = l
  BY <1>1 DEF SyncInv, SyncTyped
<1>5. ~ Greeted(d)'
  BY <1>1, <1>2, <1>4 DEF Greeted
<1>6. DeviceSound(d)'
  <2>1. PICK n \in 0..last :
          view[d] = Run(0, n) /\ \A p \in pages[d] : PageSound(d, n, p)
    BY DEF SyncInv, DeviceSound
  <2>2. ASSUME NEW p \in pages[d] PROVE PageSound(d, n, p)'
    BY <1>1, <1>5, <2>1 DEF PageSound
  <2>3. n \in 0..last' /\ view'[d] = Run(0, n) /\ pages'[d] = pages[d]
    BY <1>1, <2>1
  <2> QED
    BY <1>2, <1>4, <1>5, <2>2, <2>3 DEF DeviceSound
<1> QED
  BY <1>1, <1>3, <1>6, DeviceKeeps DEF SyncInv, SyncTyped

\* A frame is delivered: the first one makes the device catch up from here,
\* any other one tells it of a message.
LEMMA HearKeeps ==
  ASSUME SyncInv, NEW d \in Devices, Hear(d)
  PROVE  SyncInv'
<1>1. /\ frames \in [Devices -> Seq(Nat)] /\ heard \in [Devices -> Nat]
      /\ frames[d] \in Seq(Nat) /\ frames[d] # <<>> /\ heard[d] \in Nat /\ last \in Nat
      /\ frames' = [frames EXCEPT ![d] = Tail(frames[d])]
      /\ UNCHANGED <<last, events, link, view, silent>>
  BY DEF Hear, SyncInv, SyncTyped
<1>2. /\ frames'[d] = Tail(frames[d]) /\ Tail(frames[d]) \in Seq(Nat)
      /\ Len(Tail(frames[d])) = Len(frames[d]) - 1 /\ Head(frames[d]) \in Nat
      /\ Len(frames[d]) \in Nat
      /\ \A f : Waits(frames[d], f) => f = Head(frames[d]) \/ Waits(frames'[d], f)
  BY <1>1, WaitsDelivered
<1>3. frames' \in [Devices -> Seq(Nat)]
  BY <1>1, <1>2
<1>4. PICK n \in 0..last :
        /\ view[d] = Run(0, n)
        /\ \A p \in pages[d] : PageSound(d, n, p)
        /\ Greeted(d) => Told(d) \/ d \in resync \/ n = last
  BY DEF SyncInv, DeviceSound
<1>5. CASE Head(frames[d]) = AuthOK
  <2>1. resync' = resync \cup {d} /\ pages' = [pages EXCEPT ![d] = {}] /\ heard' = heard
    BY <1>5 DEF Hear
  <2>2. SyncTyped'
    BY <1>1, <1>3, <2>1 DEF SyncInv, SyncTyped
  <2>3. /\ n \in 0..last' /\ view'[d] = Run(0, n) /\ pages'[d] = {} /\ d \in resync'
        /\ Len(frames'[d]) <= BufSize
    <3>1. pages'[d] = {}
      BY <2>1 DEF SyncInv, SyncTyped
    <3>2. Len(frames'[d]) <= BufSize
      BY <1>2, SyncAssumption DEF SyncInv, DeviceSound
    <3> QED
      BY <1>1, <1>4, <2>1, <3>1, <3>2
  <2>4. DeviceSound(d)'
    BY <2>3 DEF DeviceSound
  <2> QED
    BY <1>1, <2>1, <2>2, <2>4, DeviceKeeps DEF SyncInv, SyncTyped
<1>6. CASE Head(frames[d]) # AuthOK
  <2> DEFINE h == Max({heard[d], Head(frames[d])})
  <2>1. h \in Nat /\ h >= heard[d] /\ h >= Head(frames[d])
    <3>1. heard[d] \in Int /\ Head(frames[d]) \in Int
      BY <1>1, <1>2
    <3>2. h = IF heard[d] >= Head(frames[d]) THEN heard[d] ELSE Head(frames[d])
      BY <3>1, MaxOfTwo
    <3> QED
      BY <1>1, <1>2, <3>2
  <2>2. heard' = [heard EXCEPT ![d] = h] /\ UNCHANGED <<resync, pages>>
    BY <1>6 DEF Hear
  <2> HIDE DEF h
  <2>3. SyncTyped'
    BY <1>1, <1>3, <2>1, <2>2 DEF SyncInv, SyncTyped
  <2>4. heard'[d] = h
    BY <1>1, <2>2
  <2>5. Greeted(d)' => Greeted(d)
    BY <1>1, <1>2, <1>6 DEF Greeted
  <2>6. Told(d) => Told(d)'
    BY <1>1, <1>2, <2>1, <2>4 DEF Told
  <2>7. ASSUME NEW p \in pages[d] PROVE PageSound(d, n, p)'
    BY <1>1, <1>4, <2>5, <2>6 DEF PageSound
  <2>8. DeviceSound(d)'
    BY <1>1, <1>2, <1>4, <2>2, <2>5, <2>6, <2>7, SyncAssumption
    DEF SyncInv, SyncTyped, DeviceSound
  <2> QED
    BY <1>1, <2>2, <2>3, <2>8, DeviceKeeps DEF SyncInv, SyncTyped
<1> QED
  BY <1>5, <1>6

\* A pull is answered with what follows the cursor; an answer may be lost.
LEMMA PullKeeps ==
  ASSUME SyncInv, NEW d \in Devices, Pull(d) \/ LosePage(d)
  PROVE  SyncInv'
<1>1. /\ UNCHANGED <<last, events, link, frames, view, heard, resync, silent>>
      /\ DOMAIN pages' = Devices /\ \A q \in Devices \ {d} : pages'[q] = pages[q]
  BY DEF Pull, LosePage, SyncInv, SyncTyped
<1>2. SyncTyped'
  BY <1>1 DEF SyncInv, SyncTyped
<1>3. CASE LosePage(d)
  <2>1. pages'[d] \subseteq pages[d]
    BY <1>3 DEF LosePage, SyncInv, SyncTyped
  <2> QED
    BY <1>1, <1>2, <2>1, DeviceStays, DeviceKeeps
<1>4. CASE Pull(d)
  <2>1. PICK n \in 0..last :
          /\ view[d] = Run(0, n)
          /\ \A p \in pages[d] : PageSound(d, n, p)
          /\ Greeted(d) => Told(d) \/ d \in resync \/ n = last
    BY DEF SyncInv, DeviceSound
  <2>2. n \in Nat /\ last \in Nat /\ PageLimit \in Nat /\ Cursor(d) = n
    <3>1. n \in Nat /\ last \in Nat /\ PageLimit \in Nat
      BY <2>1, SyncAssumption DEF SyncInv, SyncTyped
    <3> QED
      BY <2>1, <3>1, CursorOfRun
  <2> DEFINE m == IF PageLimit <= last - n THEN PageLimit ELSE last - n
             new == [after |-> n, rows |-> Run(n, m)]
  <2>3. m \in 0..PageLimit /\ n + m <= last /\ (m < PageLimit => n + m = last)
    BY <2>1, <2>2
  <2>4. Page(n) = Run(n, m)
    <3>1. Min({PageLimit, last - n}) = m
      BY <2>2, MinOfTwo
    <3> QED
      BY <3>1 DEF Page, Run
  <2>5. pages'[d] = pages[d] \cup {new}
    BY <1>4, <2>2, <2>4 DEF Pull, SyncInv, SyncTyped
  <2>6. PageSound(d, n, new)
    <3>1. n \in 0..n
      BY <2>2
    <3> HIDE DEF m
    <3> QED
      BY <2>3, <3>1 DEF PageSound
  <2>7. ASSUME NEW p, PageSound(d, n, p) PROVE PageSound(d, n, p)'
    BY <1>1, <2>7 DEF PageSound, Greeted, Told
  <2>8. DeviceSound(d)'
    <3>1. /\ n \in 0..last' /\ view'[d] = Run(0, n) /\ Len(frames'[d]) <= BufSize
          /\ Greeted(d)' => Told(d)' \/ d \in resync' \/ n = last'
      BY <1>1, <2>1 DEF Greeted, Told, SyncInv, DeviceSound
    <3>2. \A p \in pages'[d] : PageSound(d, n, p)'
      BY <2>1, <2>5, <2>6, <2>7
    <3> QED
      BY <3>1, <3>2 DEF DeviceSound
  <2> QED
    BY <1>1, <1>2, <2>8, DeviceKeeps
<1> QED
  BY <1>3, <1>4

\* An answer arrives: the view stays or becomes a longer run.
LEMMA ApplyGrows ==
  ASSUME SyncInv, NEW d \in Devices, Apply(d)
  PROVE  \E n \in 0..last, size \in 0..last, p \in pages[d] :
           /\ n <= size /\ PageSound(d, n, p)
           /\ view[d] = Run(0, n) /\ view' = [view EXCEPT ![d] = Run(0, size)]
           /\ pages' = [pages EXCEPT ![d] = @ \ {p}]
           /\ \A q \in pages[d] : PageSound(d, n, q)
           /\ Greeted(d) => Told(d) \/ d \in resync \/ n = last
           /\ \/ resync' = resync
              \/ /\ resync' = resync \ {d}
                 /\ Greeted(d) => Told(d) \/ size = last
<1>1. PICK n \in 0..last :
        /\ view[d] = Run(0, n)
        /\ \A p \in pages[d] : PageSound(d, n, p)
        /\ Greeted(d) => Told(d) \/ d \in resync \/ n = last
  BY DEF SyncInv, DeviceSound
<1>2. PICK p \in pages[d] :
        /\ pages' = [pages EXCEPT ![d] = @ \ {p}]
        /\ view' = [view EXCEPT ![d] =
             view[d] \o SubSeq(p.rows, Held(d, p.rows) + 1, Len(p.rows))]
        /\ resync' = IF Len(p.rows) < PageLimit THEN resync \ {d} ELSE resync
  BY DEF Apply
<1>3. PICK after \in 0..n, m \in 0..PageLimit :
        /\ p = [after |-> after, rows |-> Run(after, m)]
        /\ after + m <= last
        /\ Greeted(d) /\ m < PageLimit => Told(d) \/ after + m = last
  BY <1>1 DEF PageSound
<1>4. n \in Nat /\ after \in Nat /\ after <= n /\ m \in Nat /\ last \in Nat
  BY SyncAssumption DEF SyncInv, SyncTyped
<1> DEFINE size == Reach(n, after, m)
<1>5. size \in Nat /\ size = (IF after + m <= n THEN n ELSE after + m)
  BY <1>4 DEF Reach
<1> HIDE DEF size
<1>6. Held(d, p.rows) = Overlap(n, after, m) /\ p.rows = Run(after, m) /\ Len(p.rows) = m
  <2>1. p.rows = Run(after, m)
    BY <1>3
  <2>2. Held(d, Run(after, m)) = Overlap(n, after, m)
    BY <1>1, <1>4, HeldOfRun
  <2>3. Len(Run(after, m)) = m
    BY <1>4, RunIsSeq
  <2> QED
    BY <2>1, <2>2, <2>3
<1>7. view' = [view EXCEPT ![d] = Run(0, size)]
  <2>1. Run(0, n) \o SubSeq(Run(after, m), Overlap(n, after, m) + 1, Len(Run(after, m)))
          = Run(0, size)
    BY <1>4, RunGrows DEF size
  <2> QED
    BY <1>1, <1>2, <1>6, <2>1
<1>8. size \in 0..last /\ n <= size /\ (after + m = last => size = last)
  BY <1>3, <1>4, <1>5
<1>9. \/ resync' = resync
      \/ resync' = resync \ {d} /\ (Greeted(d) => Told(d) \/ size = last)
  BY <1>2, <1>3, <1>6, <1>8
<1> QED
  BY <1>1, <1>2, <1>7, <1>8, <1>9

LEMMA ApplyKeeps ==
  ASSUME SyncInv, NEW d \in Devices, Apply(d)
  PROVE  SyncInv'
<1>1. UNCHANGED <<last, events, link, frames, heard, silent>>
  BY DEF Apply
<1>2. PICK n \in 0..last, size \in 0..last, p \in pages[d] :
        /\ n <= size /\ PageSound(d, n, p)
        /\ view[d] = Run(0, n) /\ view' = [view EXCEPT ![d] = Run(0, size)]
        /\ pages' = [pages EXCEPT ![d] = @ \ {p}]
        /\ \A q \in pages[d] : PageSound(d, n, q)
        /\ Greeted(d) => Told(d) \/ d \in resync \/ n = last
        /\ \/ resync' = resync
           \/ /\ resync' = resync \ {d}
              /\ Greeted(d) => Told(d) \/ size = last
  BY ApplyGrows
<1>3. /\ view'[d] = Run(0, size) /\ pages'[d] \subseteq pages[d]
      /\ view' = [q \in Devices |-> view'[q]] /\ DOMAIN pages' = Devices
      /\ \A q \in Devices \ {d} : view'[q] = view[q] /\ pages'[q] = pages[q]
  BY <1>2 DEF SyncInv, SyncTyped
<1>4. SyncTyped'
  BY <1>1, <1>3 DEF SyncInv, SyncTyped
<1>5. Greeted(d)' = Greeted(d) /\ Told(d)' = Told(d)
  BY <1>1 DEF Greeted, Told
<1>6. ASSUME NEW q \in pages[d] PROVE PageSound(d, size, q)'
  <2>1. PICK after \in 0..n, m \in 0..PageLimit :
          /\ q = [after |-> after, rows |-> Run(after, m)]
          /\ after + m <= last
          /\ Greeted(d) /\ m < PageLimit => Told(d) \/ after + m = last
    BY <1>2 DEF PageSound
  <2>2. after \in 0..size
    BY <1>2
  <2> QED
    BY <1>1, <1>5, <2>1, <2>2 DEF PageSound
<1>7. Greeted(d)' => Told(d)' \/ d \in resync' \/ size = last'
  BY <1>1, <1>2, <1>5
<1>8. DeviceSound(d)'
  <2>1. Len(frames'[d]) <= BufSize /\ size \in 0..last'
    BY <1>1 DEF SyncInv, DeviceSound
  <2> QED
    BY <1>3, <1>6, <1>7, <2>1 DEF DeviceSound
<1> QED
  BY <1>1, <1>2, <1>3, <1>4, <1>8, DeviceKeeps

LEMMA SyncStart == Init => SyncInv
<1> SUFFICES ASSUME Init PROVE SyncInv
  OBVIOUS
<1>1. <<>> \in Seq(Nat) /\ Len(<<>>) = 0 /\ Run(0, 0) = <<>>
  <2>1. 0 \in Nat
    OBVIOUS
  <2>2. Run(0, 0) \in Seq(Nat) /\ Len(Run(0, 0)) = 0
    BY <2>1, RunIsSeq
  <2> QED
    BY <2>2, EmptySeq
<1>2. SyncTyped
  BY <1>1 DEF Init, SyncTyped
<1>3. ASSUME NEW d \in Devices PROVE DeviceSound(d)
  <2>1. 0 \in 0..last /\ view[d] = Run(0, 0) /\ pages[d] = {} /\ last = 0
    BY <1>1 DEF Init
  <2> QED
    BY <1>1, <2>1, SyncAssumption DEF Init, DeviceSound
<1> QED
  BY <1>2, <1>3 DEF SyncInv

LEMMA SyncNext == SyncInv /\ [Next]_vars => SyncInv'
<1> SUFFICES ASSUME SyncInv, [Next]_vars PROVE SyncInv'
  OBVIOUS
<1>1. CASE UNCHANGED vars
  <2>1. SyncTyped'
    BY <1>1 DEF vars, SyncInv, SyncTyped
  <2> QED
    BY <1>1, <2>1, DeviceStays DEF vars, SyncInv
<1>2. CASE Commit
  BY <1>2, CommitKeeps
<1>3. ASSUME NEW s \in 1..MaxSeq, Dispatch(s) \/ LoseEvent(s) PROVE SyncInv'
  BY <1>3, DispatchKeeps, LoseEventKeeps
<1>4. ASSUME NEW d \in Devices,
             Connect(d) \/ Disconnect(d) \/ Hear(d) \/ Pull(d) \/ LosePage(d) \/ Apply(d)
      PROVE  SyncInv'
  BY <1>4, LinkKeeps, HearKeeps, PullKeeps, ApplyKeeps
<1> QED
  BY <1>1, <1>2, <1>3, <1>4 DEF Next

\* The inductive invariant of Sync.
THEOREM SyncInvariant == Spec => []SyncInv
<1>1. Init => SyncInv
  BY SyncStart
<1>2. SyncInv /\ [Next]_vars => SyncInv'
  BY SyncNext
<1> QED
  BY <1>1, <1>2, PTL DEF Spec

\* RestIsComplete: a device that waits for nothing has the whole timeline.
THEOREM DevicesRestComplete == Spec => []RestIsComplete
<1>1. SyncInv => RestIsComplete
  <2> SUFFICES ASSUME SyncInv, NEW d \in Devices, link[d] = "up", frames[d] = <<>>,
                      ~ Behind(d), last \notin events, ~ silent
               PROVE  Cursor(d) = last
    BY DEF RestIsComplete
  <2>1. ~ Waits(frames[d], AuthOK) /\ ~ Waits(frames[d], last)
    BY DEF Waits
  <2>2. PICK n \in 0..last :
          view[d] = Run(0, n) /\ (Greeted(d) => Told(d) \/ d \in resync \/ n = last)
    BY DEF SyncInv, DeviceSound
  <2>3. Cursor(d) = n
    <3>1. n \in Nat
      BY <2>2 DEF SyncInv, SyncTyped
    <3> QED
      BY <2>2, <3>1, CursorOfRun
  <2>4. heard[d] \in Nat /\ heard[d] <= n /\ last \in Nat
    BY <2>3 DEF Behind, SyncInv, SyncTyped
  <2> QED
    BY <2>1, <2>2, <2>3, <2>4 DEF Behind, Greeted, Told
<1> QED
  BY <1>1, SyncInvariant, PTL

\* ImplementsFeed: what a device holds is a growing prefix of the timeline.
THEOREM SyncImplementsFeed == Spec => ImplementsFeed
<1>1. Init => FeedPromise!Init
  BY DEF Init, FeedPromise!Init
<1>2. SyncInv /\ [Next]_vars => [FeedPromise!Next]_<<last, view>>
  <2> SUFFICES ASSUME SyncInv, [Next]_vars, ~ UNCHANGED <<last, view>>
               PROVE  FeedPromise!Next
    OBVIOUS
  <2>1. CASE Commit
    BY <2>1 DEF Commit, FeedPromise!Next, FeedPromise!Grow
  <2>2. ASSUME NEW d \in Devices, Apply(d) PROVE FeedPromise!Next
    <3>1. UNCHANGED last
      BY <2>2 DEF Apply
    <3>2. PICK n \in 0..last, size \in 0..last :
            /\ n <= size
            /\ view[d] = Run(0, n) /\ view' = [view EXCEPT ![d] = Run(0, size)]
      BY <2>2, ApplyGrows
    <3>3. n \in Nat /\ size \in Nat /\ 0 \in Nat
      BY <3>2 DEF SyncInv, SyncTyped
    <3>4. Len(view[d]) = n
      BY <3>2, <3>3, RunIsSeq
    <3>5. n # size
      <4>1. ASSUME n = size PROVE view' = view
        BY <3>2, <4>1 DEF SyncInv, SyncTyped
      <4> QED
        BY <3>1, <4>1
    <3>6. size \in (Len(view[d]) + 1)..last
      BY <3>2, <3>3, <3>4, <3>5
    <3>7. FeedPromise!Prefix(size) = Run(0, size)
      BY <3>3 DEF FeedPromise!Prefix, Run
    <3>8. FeedPromise!Receive(d)
      BY <3>1, <3>2, <3>6, <3>7 DEF FeedPromise!Receive
    <3> QED
      BY <3>8 DEF FeedPromise!Next
  <2>3. ASSUME \/ \E s \in 1..MaxSeq : Dispatch(s) \/ LoseEvent(s)
               \/ \E d \in Devices : Connect(d) \/ Disconnect(d) \/ Hear(d) \/ Pull(d)
                                       \/ LosePage(d)
        PROVE  UNCHANGED <<last, view>>
    BY <2>3 DEF Dispatch, LoseEvent, Connect, Disconnect, Hear, Pull, LosePage
  <2> QED
    BY <2>1, <2>2, <2>3 DEF Next, vars
<1> QED
  BY <1>1, <1>2, SyncInvariant, PTL DEF Spec, ImplementsFeed, FeedPromise!Spec

-----------------------------------------------------------------------------
(* What bounds the variables of Sync.                                      *)

\* Nobody hears of a seq before its commit, and no more answers are on their way
\* to a device than it has asked for at a time.
DeviceBounded(d) ==
  /\ frames[d] \in Seq(0..last) /\ heard[d] \in 0..last
  /\ IsFiniteSet(pages[d]) /\ Cardinality(pages[d]) <= MaxPulls

SyncBounded == /\ last <= MaxSeq /\ resync \subseteq Devices
               /\ \A d \in Devices : DeviceBounded(d)

\* A larger bound holds too.
LEMMA BoundWidens ==
  ASSUME NEW n \in Nat, NEW k \in Nat, n <= k, NEW q \in Seq(0..n)
  PROVE  q \in Seq(0..k)
<1>1. q \in [1..Len(q) -> 0..n] /\ Len(q) \in Nat
  BY LenProperties
<1>2. q \in [1..Len(q) -> 0..k]
  BY <1>1
<1> QED
  BY <1>1, <1>2

\* A function on 1..n is a sequence.
LEMMA FunctionIsSeq ==
  ASSUME NEW S, NEW n \in Nat, NEW q \in [1..n -> S]
  PROVE  q \in Seq(S)
OBVIOUS

\* A set of answers with one less or, below the bound, one more.
LEMMA PagesChange ==
  ASSUME NEW P, IsFiniteSet(P), NEW n \in Nat, Cardinality(P) <= n, NEW Q, NEW p,
         Q = P \ {p} \/ (Q = P \cup {p} /\ Cardinality(P) < n)
  PROVE  IsFiniteSet(Q) /\ Cardinality(Q) <= n
<1>1. Cardinality(P) \in Nat
  BY FS_CardinalityType
<1>2. IsFiniteSet(P \ {p}) /\ Cardinality(P \ {p}) <= n
  BY <1>1, FS_RemoveElement
<1>3. Cardinality(P) < n => IsFiniteSet(P \cup {p}) /\ Cardinality(P \cup {p}) <= n
  BY <1>1, FS_AddElement
<1> QED
  BY <1>2, <1>3

LEMMA BoundedNext ==
  ASSUME SyncInv, SyncBounded, [Next]_vars
  PROVE  SyncBounded'
<1>1. /\ last \in Nat /\ MaxSeq \in Nat /\ MaxPulls \in Nat \ {0}
      /\ DOMAIN pages = Devices /\ heard \in [Devices -> Nat]
      /\ frames \in [Devices -> Seq(Nat)] /\ events \subseteq 1..last
  BY SyncAssumption DEF SyncInv, SyncTyped
<1>2. CASE UNCHANGED vars
  BY <1>2 DEF vars, SyncBounded, DeviceBounded
<1>3. CASE Commit
  <2>1. last' = last + 1 /\ last' <= MaxSeq /\ UNCHANGED <<frames, heard, resync, pages>>
    BY <1>1, <1>3 DEF Commit
  <2>2. ASSUME NEW d \in Devices PROVE DeviceBounded(d)'
    <3>1. frames[d] \in Seq(0..(last + 1))
      BY <1>1, BoundWidens DEF SyncBounded, DeviceBounded
    <3> QED
      BY <1>1, <2>1, <3>1 DEF SyncBounded, DeviceBounded
  <2> QED
    BY <2>1, <2>2 DEF SyncBounded
<1>4. ASSUME NEW s \in 1..MaxSeq, Dispatch(s) \/ LoseEvent(s) PROVE SyncBounded'
  <2>1. s \in 0..last /\ UNCHANGED <<last, heard, resync, pages>>
    BY <1>1, <1>4 DEF Dispatch, LoseEvent
  <2>2. ASSUME NEW d \in Devices PROVE frames'[d] \in Seq(0..last)
    <3>1. frames[d] \in Seq(0..last) /\ <<>> \in Seq(0..last)
      BY DEF SyncBounded, DeviceBounded
    <3>2. Append(frames[d], s) \in Seq(0..last)
      BY <2>1, <3>1
    <3> QED
      BY <1>4, <3>1, <3>2 DEF Dispatch, LoseEvent
  <2> QED
    BY <2>1, <2>2 DEF SyncBounded, DeviceBounded
<1>5. ASSUME NEW d \in Devices, Connect(d) \/ Disconnect(d) \/ Hear(d) PROVE SyncBounded'
  <2>1. last' = last /\ resync' \subseteq Devices
    BY <1>5 DEF Connect, Disconnect, Hear, SyncBounded
  <2>2. ASSUME NEW e \in Devices, e # d PROVE DeviceBounded(e)'
    BY <1>1, <1>5, <2>1, <2>2 DEF Connect, Disconnect, Hear, SyncBounded, DeviceBounded
  <2>3. ASSUME Connect(d) \/ Disconnect(d) PROVE DeviceBounded(d)'
    <3>1. frames'[d] \in {<<0>>, <<>>} /\ UNCHANGED <<heard, pages>>
      BY <1>1, <2>3 DEF Connect, Disconnect, AuthOK
    <3>2. <<0>> \in Seq(0..last) /\ <<>> \in Seq(0..last)
      BY <1>1
    <3>3. frames'[d] \in Seq(0..last')
      BY <2>1, <3>1, <3>2
    <3> QED
      BY <2>1, <3>1, <3>3 DEF SyncBounded, DeviceBounded
  <2>4. ASSUME Hear(d) PROVE DeviceBounded(d)'
    <3>1. frames[d] \in Seq(0..last) /\ frames[d] # <<>>
      BY <2>4 DEF Hear, SyncBounded, DeviceBounded
    <3>2. Head(frames[d]) \in 0..last /\ frames'[d] \in Seq(0..last)
      BY <1>1, <2>4, <3>1 DEF Hear
    <3>3. heard'[d] \in 0..last
      <4>1. heard[d] \in 0..last
        BY DEF SyncBounded, DeviceBounded
      <4>2. heard[d] \in Int /\ Head(frames[d]) \in Int
        BY <1>1, <3>2, <4>1
      <4>3. Max({heard[d], Head(frames[d])}) \in {heard[d], Head(frames[d])}
        BY <4>2, MaxOfTwo
      <4>4. heard'[d] \in {heard[d], Max({heard[d], Head(frames[d])})}
        BY <1>1, <2>4 DEF Hear
      <4> QED
        BY <3>2, <4>1, <4>3, <4>4
    <3>4. IsFiniteSet(pages'[d]) /\ Cardinality(pages'[d]) <= MaxPulls
      <4>1. IsFiniteSet({}) /\ Cardinality({}) = 0
        BY FS_EmptySet
      <4>2. pages'[d] \in {{}, pages[d]}
        BY <1>1, <2>4 DEF Hear
      <4>3. CASE pages'[d] = {}
        BY <1>1, <4>1, <4>3
      <4>4. CASE pages'[d] = pages[d]
        BY <4>4 DEF SyncBounded, DeviceBounded
      <4> QED
        BY <4>2, <4>3, <4>4
    <3>5. frames'[d] \in Seq(0..last') /\ heard'[d] \in 0..last'
      BY <2>1, <3>2, <3>3
    <3> QED
      BY <3>4, <3>5 DEF DeviceBounded
  <2> QED
    BY <1>1, <1>5, <2>1, <2>2, <2>3, <2>4 DEF SyncBounded
<1>6. ASSUME NEW d \in Devices, Pull(d) \/ LosePage(d) \/ Apply(d) PROVE SyncBounded'
  <2>1. UNCHANGED <<last, frames, heard>> /\ resync' \subseteq Devices
    BY <1>6 DEF Pull, LosePage, Apply, SyncBounded
  <2>2. ASSUME NEW e \in Devices, e # d PROVE pages'[e] = pages[e]
    BY <1>1, <1>6, <2>2 DEF Pull, LosePage, Apply
  <2>3. PICK p : \/ pages'[d] = pages[d] \ {p}
                 \/ pages'[d] = pages[d] \cup {p} /\ Cardinality(pages[d]) < MaxPulls
    BY <1>1, <1>6 DEF Pull, LosePage, Apply
  <2>4. IsFiniteSet(pages'[d]) /\ Cardinality(pages'[d]) <= MaxPulls
    <3>1. IsFiniteSet(pages[d]) /\ Cardinality(pages[d]) <= MaxPulls /\ MaxPulls \in Nat
      BY <1>1 DEF SyncBounded, DeviceBounded
    <3> QED
      BY <2>3, <3>1, PagesChange
  <2> QED
    BY <2>1, <2>2, <2>4 DEF SyncBounded, DeviceBounded
<1> QED
  BY <1>2, <1>3, <1>4, <1>5, <1>6 DEF Next

\* TypeOK: no send buffer exceeds its capacity and no device hears of, or holds,
\* a seq that is not committed.
THEOREM DeliveryTyped == Spec => []TypeOK
<1>1. Init => SyncBounded
  <2>1. IsFiniteSet({}) /\ Cardinality({}) = 0
    BY FS_EmptySet
  <2>2. <<>> \in Seq(0..0) /\ MaxSeq \in Nat /\ MaxPulls \in Nat
    BY SyncAssumption
  <2> QED
    BY <2>1, <2>2 DEF Init, SyncBounded, DeviceBounded
<1>2. SyncInv /\ SyncBounded => TypeOK
  <2> SUFFICES ASSUME SyncInv, SyncBounded PROVE TypeOK
    OBVIOUS
  <2>1. last \in 0..MaxSeq /\ last \in Nat /\ MaxSeq \in Nat
    BY SyncAssumption DEF SyncInv, SyncTyped, SyncBounded
  <2>2. ASSUME NEW d \in Devices
        PROVE  /\ frames[d] \in Seq(0..MaxSeq) /\ Len(frames[d]) <= BufSize
               /\ view[d] \in Seq(1..MaxSeq) /\ heard[d] \in 0..MaxSeq
               /\ Cardinality(pages[d]) <= MaxPulls
    <3>1. PICK n \in 0..last : view[d] = Run(0, n)
      BY DEF SyncInv, DeviceSound
    <3>2. view[d] \in [1..n -> 1..MaxSeq] /\ n \in Nat
      BY <2>1, <3>1 DEF Run
    <3>3. view[d] \in Seq(1..MaxSeq)
      BY <3>2, FunctionIsSeq
    <3>4. frames[d] \in Seq(0..MaxSeq)
      BY <2>1, BoundWidens DEF SyncBounded, DeviceBounded
    <3> QED
      BY <2>1, <3>3, <3>4 DEF SyncInv, DeviceSound, SyncBounded, DeviceBounded
  <2> QED
    BY <2>1, <2>2 DEF SyncInv, SyncTyped, SyncBounded, TypeOK
<1> QED
  BY <1>1, <1>2, BoundedNext, SyncInvariant, PTL DEF Spec

-----------------------------------------------------------------------------
(* Presence.                                                               *)

\* A connection is in the registry while its handler serves it, and afterwards
\* only when a panic cut its handler short; its user is known from the first
\* step on; with Redis its key is refreshed while it is served, and without it
\* there is nothing to refresh.
ConnSound(c) ==
  /\ handler[c] = "new" <=> user[c] \notin Users
  /\ refresher[c] # "off" => redis /\ handler[c] # "new"
  /\ handler[c] # "panicked" =>
       (c \in registered <=> handler[c] \in {"registered", "marked", "serve", "closed"})
  /\ handler[c] = "serve" /\ redis => refresher[c] # "off"

\* When the last write of a connection was in time, the key that it wrote has
\* its whole life before it until the refresher starts, and outlives the time
\* until the ticker fires; unless somebody else has deleted it.
KeySound(c) == ~ missed[c] /\ Interval < TTL =>
  /\ handler[c] = "marked" => life[user[c]] \in {0, TTL}
  /\ refresher[c] = "wait" => life[user[c]] = 0 \/ life[user[c]] > due[c]

PresenceInv ==
  /\ PresenceTypeOK /\ MemoryIsTended
  /\ \A c \in Conns : ConnSound(c) /\ KeySound(c)

\* Half the TTL, or the floor: never 0.
LEMMA IntervalIsPositive == Interval \in Nat \ {0}
<1>1. TTL \div 2 \in Nat
  BY TimeAssumption
<1> QED
  BY <1>1, TimeAssumption DEF Interval

\* One handler moves and leaves the store alone; it still tends to its user, or
\* has found another one that does.
LEMMA HandlerMoves ==
  ASSUME PresenceInv, NEW c \in Conns, NEW from \in Stages, NEW to \in Stages,
         Step(c, from, to), PresenceTypeOK', ConnSound(c)', KeySound(c)',
         UNCHANGED <<redis, life, missed>>,
         \A q \in Conns \ {c} :
           /\ user'[q] = user[q] /\ refresher'[q] = refresher[q] /\ due'[q] = due[q]
           /\ q \in registered <=> q \in registered',
         user[c] \in Users => user'[c] = user[c],
         \/ to \in Tending \cup {"panicked"}
         \/ from \notin Tending \cup {"panicked"}
         \/ \E q \in Conns : q # c /\ user[q] = user[c] /\ handler[q] \in Tending \cup {"panicked"}
  PROVE  PresenceInv'
<1>1. handler' = [handler EXCEPT ![c] = to] /\ handler \in [Conns -> Stages]
      /\ handler[c] = from
  BY DEF Step, PresenceInv, PresenceTypeOK
<1>2. ASSUME NEW q \in Conns, q # c PROVE ConnSound(q)' /\ KeySound(q)'
  BY <1>1, <1>2 DEF PresenceInv, ConnSound, KeySound
<1>3. MemoryIsTended'
  <2> SUFFICES ASSUME ~ redis, NEW u \in Online
               PROVE  \E q \in Conns : user'[q] = u /\ handler'[q] \in Tending \cup {"panicked"}
    BY DEF MemoryIsTended, Tending, Online
  <2>1. PICK q \in Conns : user[q] = u /\ handler[q] \in Tending \cup {"panicked"}
    BY DEF PresenceInv, MemoryIsTended
  <2>2. u \in Users
    BY DEF Online
  <2>3. CASE q # c
    BY <1>1, <2>1, <2>3
  <2>4. CASE q = c
    BY <1>1, <2>1, <2>2, <2>4
  <2> QED
    BY <2>3, <2>4
<1> QED
  BY <1>2, <1>3 DEF PresenceInv

\* The steps of a handler that leave the store alone.
LEMMA HandlerKeeps ==
  ASSUME PresenceInv, NEW c \in Conns,
         Open(c) \/ Serve(c) \/ Close(c) \/ Leave(c) \/ CheckOnline(c) \/ Panic(c)
  PROVE  PresenceInv'
<1>0. /\ handler \in [Conns -> Stages] /\ user \in [Conns -> Users \cup {None}]
      /\ refresher \in [Conns -> {"off", "wait", "write"}] /\ registered \subseteq Conns
      /\ redis \in BOOLEAN /\ due \in [Conns -> 0..Interval] /\ life \in [Users -> 0..TTL]
      /\ ConnSound(c) /\ KeySound(c)
  BY DEF PresenceInv, PresenceTypeOK
<1>1. CASE Open(c)
  <2>1. PresenceTypeOK'
    BY <1>0, <1>1 DEF Open, Step, PresenceInv, PresenceTypeOK, Stages
  <2>2. ConnSound(c)' /\ user[c] \notin Users
    BY <1>0, <1>1, NoneAssumption DEF Open, Step, ConnSound, Stages
  <2>3. KeySound(c)'
    <3>1. handler'[c] = "registered" /\ refresher'[c] = "off"
      BY <1>0, <1>1 DEF Open, Step, ConnSound
    <3> QED
      BY <3>1 DEF KeySound
  <2> QED
    BY <1>0, <1>1, <2>1, <2>2, <2>3, HandlerMoves DEF Open, Stages, Tending
<1>2. CASE Serve(c)
  <2>1. Interval \in 0..Interval /\ Interval \in Nat
    BY IntervalIsPositive
  <2>2. PresenceTypeOK'
    BY <1>0, <1>2, <2>1 DEF Serve, Step, PresenceInv, PresenceTypeOK, Stages
  <2>3. ConnSound(c)'
    BY <1>0, <1>2 DEF Serve, Step, ConnSound, Stages
  <2>4. KeySound(c)'
    <3>1. /\ handler[c] = "marked" /\ handler'[c] = "serve"
          /\ UNCHANGED <<life, missed, user>>
          /\ redis => due'[c] = Interval
          /\ ~ redis => refresher'[c] = refresher[c]
      BY <1>0, <1>2 DEF Serve, Step
    <3>2. redis \/ refresher'[c] = "off"
      BY <1>0, <3>1 DEF ConnSound
    <3> QED
      BY <1>0, <3>1, <3>2 DEF KeySound
  <2> QED
    BY <1>0, <1>2, <2>2, <2>3, <2>4, HandlerMoves DEF Serve, Stages, Tending
<1>3. ASSUME NEW from \in Stages, NEW to \in Stages, Step(c, from, to),
             to \notin {"new", "marked", "serve"}, from # "new",
             UNCHANGED <<redis, user, refresher, due, life, missed>>
      PROVE  PresenceTypeOK' <=> registered' \subseteq Conns
  BY <1>0, <1>3 DEF Step, PresenceInv, PresenceTypeOK
<1>4. ASSUME NEW from \in Stages, NEW to \in Stages, Step(c, from, to),
             to \notin {"new", "marked", "serve"},
             UNCHANGED <<redis, user, refresher, due, life, missed>>
      PROVE  KeySound(c)'
  BY <1>0, <1>4 DEF Step, KeySound
<1>5. CASE Close(c)
  <2>1. ConnSound(c)'
    BY <1>0, <1>5 DEF Close, Step, ConnSound, Stages
  <2> QED
    BY <1>0, <1>3, <1>4, <1>5, <2>1, HandlerMoves DEF Close, Stages, Tending
<1>6. CASE Leave(c)
  <2>1. PICK from \in {"serve", "closed"} : Step(c, from, "left")
    BY <1>6 DEF Leave
  <2>2. ConnSound(c)'
    BY <1>0, <1>6, <2>1 DEF Leave, Step, ConnSound, Stages
  <2> QED
    BY <1>0, <1>3, <1>4, <1>6, <2>1, <2>2, HandlerMoves DEF Leave, Stages, Tending
<1>7. CASE CheckOnline(c)
  <2>1. PICK to \in {"gone", "offline"} :
          Step(c, "left", to) /\ (to = "gone" => ConnsOf(user[c]) # {})
    BY <1>7 DEF CheckOnline
  <2>2. UNCHANGED <<redis, registered, user, refresher, due, life, missed>>
    BY <1>7 DEF CheckOnline
  <2>3. ConnSound(c)'
    BY <1>0, <2>1, <2>2 DEF Step, ConnSound, Stages
  <2>4. ASSUME to = "gone"
        PROVE  \E q \in Conns : /\ q # c /\ user[q] = user[c]
                                /\ handler[q] \in Tending \cup {"panicked"}
    <3>1. PICK q \in registered : user[q] = user[c]
      BY <2>1, <2>4 DEF ConnsOf
    <3>2. q \in Conns /\ ConnSound(q)
      BY <1>0, <3>1 DEF PresenceInv
    <3>3. c \notin registered
      BY <1>0, <2>1 DEF ConnSound, Step
    <3> QED
      BY <3>1, <3>2, <3>3 DEF ConnSound, Tending
  <2> QED
    BY <1>0, <1>3, <1>4, <2>1, <2>2, <2>3, <2>4, HandlerMoves DEF Stages, Tending
<1>8. CASE Panic(c)
  <2>1. PICK from \in {"registered", "marked", "serve", "closed", "left"} :
          Step(c, from, "panicked")
    BY <1>8 DEF Panic, Step
  <2>2. ConnSound(c)'
    BY <1>0, <1>8, <2>1 DEF Panic, Step, ConnSound, Stages
  <2> QED
    BY <1>0, <1>3, <1>4, <1>8, <2>1, <2>2, HandlerMoves DEF Panic, Stages, Tending
<1> QED
  BY <1>1, <1>2, <1>5, <1>6, <1>7, <1>8

\* Whoever writes to the store for a connection, the key of its user lives for
\* the whole TTL afterwards, is gone, or is left alone.
LEMMA WriteKeeps ==
  ASSUME PresenceInv, NEW c \in Conns, NEW l \in {0, TTL}, Write(c, l),
         UNCHANGED <<redis, registered, user, due>>,
         NEW h \in Stages, NEW g \in {"off", "wait", "write"},
         handler' = [handler EXCEPT ![c] = h], refresher' = [refresher EXCEPT ![c] = g],
         ConnSound(c)', user[c] \in Users
  PROVE  /\ PresenceTypeOK'
         /\ \A q \in Conns : ConnSound(q)' /\ KeySound(q)'
<1>0. /\ handler \in [Conns -> Stages] /\ life \in [Users -> 0..TTL]
      /\ refresher \in [Conns -> {"off", "wait", "write"}]
      /\ due \in [Conns -> 0..Interval] /\ missed \in [Conns -> BOOLEAN]
      /\ l \in 0..TTL /\ Interval \in Nat /\ TTL \in Nat
  BY TimeAssumption, IntervalIsPositive DEF PresenceInv, PresenceTypeOK
<1>1. PICK b \in BOOLEAN :
        /\ missed' = [missed EXCEPT ![c] = b]
        /\ ~ b => life' = [life EXCEPT ![user[c]] = l]
        /\ b => life' = life
  BY DEF Write
<1>2. PresenceTypeOK'
  BY <1>0, <1>1 DEF PresenceInv, PresenceTypeOK
<1>3. ASSUME NEW q \in Conns PROVE ConnSound(q)'
  BY <1>0, <1>3 DEF PresenceInv, ConnSound
<1>4. ASSUME NEW q \in Conns PROVE KeySound(q)'
  <2>1. due[q] \in Nat /\ due[q] <= Interval
    BY <1>0
  <2>2. CASE life'[user[q]] = l
    BY <1>0, <2>1, <2>2 DEF KeySound
  <2>3. CASE user[q] \notin Users
    BY <1>3, <2>3 DEF ConnSound, KeySound
  <2>4. CASE user[q] \in Users /\ life'[user[q]] # l
    <3>1. life'[user[q]] = life[user[q]]
      BY <1>0, <1>1, <2>4
    <3>2. CASE q = c
      <4>1. missed'[c] = b /\ (b \/ life'[user[c]] = l)
        BY <1>0, <1>1
      <4> QED
        BY <2>4, <3>2, <4>1 DEF KeySound
    <3>3. CASE q # c
      <4>1. UNCHANGED <<handler[q], refresher[q], missed[q]>>
        BY <1>0, <1>1, <3>3
      <4> QED
        BY <3>1, <4>1 DEF PresenceInv, KeySound
    <3> QED
      BY <3>2, <3>3
  <2> QED
    BY <2>2, <2>3, <2>4
<1> QED
  BY <1>2, <1>3, <1>4

\* The steps of a handler that write to the store: the one that takes a user off
\* it leaves every other user to the handlers that tend to them.
LEMMA StoreKeeps ==
  ASSUME PresenceInv, NEW c \in Conns, MarkOnline(c) \/ MarkOffline(c)
  PROVE  PresenceInv'
<1>1. /\ handler \in [Conns -> Stages] /\ user[c] \in Users
      /\ refresher \in [Conns -> {"off", "wait", "write"}] /\ life \in [Users -> 0..TTL]
      /\ UNCHANGED <<redis, registered, user, refresher, due>>
  BY DEF MarkOnline, MarkOffline, Step, PresenceInv, PresenceTypeOK, ConnSound
<1>2. PICK from \in {"registered", "offline"}, to \in {"marked", "gone"}, l \in {0, TTL} :
        /\ Step(c, from, to) /\ Write(c, l)
        /\ \/ from = "registered" /\ to = "marked"
           \/ from = "offline" /\ to = "gone" /\ l = 0
  BY DEF MarkOnline, MarkOffline
<1>3. /\ handler' = [handler EXCEPT ![c] = to] /\ handler[c] = from
      /\ refresher' = [refresher EXCEPT ![c] = refresher[c]]
      /\ from \in Stages /\ to \in Stages /\ refresher[c] \in {"off", "wait", "write"}
  BY <1>1, <1>2 DEF Step, Stages
<1>4. ConnSound(c)'
  BY <1>1, <1>2, <1>3 DEF PresenceInv, ConnSound, Stages
<1>5. PresenceTypeOK' /\ \A q \in Conns : ConnSound(q)' /\ KeySound(q)'
  BY <1>1, <1>2, <1>3, <1>4, WriteKeeps
<1>6. ASSUME ~ redis', NEW u \in Online'
      PROVE  \E q \in Conns : user'[q] = u /\ handler'[q] \in Tending \cup {"panicked"}
  <2>1. u \in Users /\ life'[u] > 0 /\ life' = [life EXCEPT ![user[c]] = l]
    BY <1>1, <1>2, <1>6 DEF Online, Write
  <2>2. CASE u = user[c]
    <3>1. to = "marked"
      BY <1>1, <1>2, <2>1, <2>2
    <3> QED
      BY <1>1, <1>3, <2>2, <3>1 DEF Tending
  <2>3. CASE u # user[c]
    <3>1. u \in Online
      BY <1>1, <2>1, <2>3 DEF Online
    <3>2. PICK q \in Conns : user[q] = u /\ handler[q] \in Tending \cup {"panicked"}
      BY <1>1, <1>6, <3>1 DEF PresenceInv, MemoryIsTended
    <3> QED
      BY <1>1, <1>3, <2>3, <3>2
  <2> QED
    BY <2>2, <2>3
<1> QED
  BY <1>5, <1>6 DEF PresenceInv, MemoryIsTended, Tending

\* The refreshers only work with Redis, so that the map is left alone; when one
\* begins to write its key is its own care.
LEMMA RefreshKeeps ==
  ASSUME PresenceInv, NEW c \in Conns, Refresh(c) \/ RefreshEnds(c)
  PROVE  PresenceInv'
<1>0. /\ refresher \in [Conns -> {"off", "wait", "write"}] /\ handler \in [Conns -> Stages]
      /\ due \in [Conns -> 0..Interval] /\ missed \in [Conns -> BOOLEAN]
      /\ ConnSound(c) /\ Interval \in Nat
  BY IntervalIsPositive DEF PresenceInv, PresenceTypeOK
<1>1. redis /\ redis' /\ refresher[c] # "off" /\ user[c] \in Users
      /\ UNCHANGED <<registered, user, handler>>
  BY <1>0 DEF Refresh, RefreshTick, RefreshWrite, RefreshEnds, ConnSound
<1>2. MemoryIsTended'
  BY <1>1 DEF MemoryIsTended
<1>3. CASE RefreshTick(c) \/ RefreshEnds(c)
  <2>1. PICK g \in {"off", "write"}, t \in 0..Interval, b \in BOOLEAN :
          /\ refresher' = [refresher EXCEPT ![c] = g] /\ due' = [due EXCEPT ![c] = t]
          /\ missed' = [missed EXCEPT ![c] = b] /\ life' = life
          /\ g = "write" => b = missed[c]
          /\ g = "off" => c \notin registered \/ handler[c] \in {"closed", "panicked"}
    <3>1. CASE RefreshTick(c)
      <4>1. PICK t \in 1..Interval : due' = [due EXCEPT ![c] = t]
        BY <3>1 DEF RefreshTick
      <4>2. t \in 0..Interval /\ missed' = [missed EXCEPT ![c] = missed[c]]
        BY <1>0, <3>1 DEF RefreshTick
      <4> QED
        BY <1>0, <3>1, <4>1, <4>2 DEF RefreshTick
    <3>2. CASE RefreshEnds(c)
      <4>1. 0 \in 0..Interval
        BY <1>0
      <4> QED
        BY <3>2, <4>1 DEF RefreshEnds
    <3> QED
      BY <1>3, <3>1, <3>2
  <2>2. PresenceTypeOK'
    BY <1>1, <2>1 DEF PresenceInv, PresenceTypeOK
  <2>3. g = "off" => handler[c] # "marked"
    BY <1>0, <2>1 DEF ConnSound
  <2>4. ASSUME NEW q \in Conns PROVE ConnSound(q)' /\ KeySound(q)'
    BY <1>0, <1>1, <2>1, <2>3, <2>4 DEF PresenceInv, ConnSound, KeySound
  <2> QED
    BY <1>2, <2>2, <2>4 DEF PresenceInv
<1>4. CASE RefreshWrite(c)
  <2>1. /\ refresher' = [refresher EXCEPT ![c] = "wait"] /\ Write(c, TTL)
        /\ handler' = [handler EXCEPT ![c] = handler[c]] /\ handler[c] \in Stages
        /\ UNCHANGED <<redis, registered, user, due>>
    BY <1>0, <1>4 DEF RefreshWrite
  <2>2. ConnSound(c)'
    BY <1>0, <1>1, <2>1 DEF ConnSound
  <2>3. PresenceTypeOK' /\ \A q \in Conns : ConnSound(q)' /\ KeySound(q)'
    BY <1>1, <2>1, <2>2, WriteKeeps
  <2> QED
    BY <1>2, <2>3 DEF PresenceInv
<1> QED
  BY <1>3, <1>4 DEF Refresh

\* Time passes: keys and tickers run down alike, and who does not keep up is late.
LEMMA ElapseKeeps == PresenceInv /\ Elapse => PresenceInv'
<1> SUFFICES ASSUME PresenceInv, Elapse PROVE PresenceInv'
  OBVIOUS
<1>1. /\ life \in [Users -> 0..TTL] /\ due \in [Conns -> 0..Interval]
      /\ refresher \in [Conns -> {"off", "wait", "write"}]
      /\ user \in [Conns -> Users \cup {None}] /\ TTL \in Nat /\ Interval \in Nat
  BY TimeAssumption, IntervalIsPositive DEF PresenceInv, PresenceTypeOK
<1>2. PresenceTypeOK'
  <2>1. \A n \in Nat : \A m \in 0..n : (IF m = 0 THEN 0 ELSE m - 1) \in 0..n
    OBVIOUS
  <2>2. life' \in [Users -> 0..TTL] /\ due' \in [Conns -> 0..Interval]
    BY <1>1, <2>1 DEF Elapse
  <2>3. missed' \in [Conns -> BOOLEAN]
    BY DEF Elapse, Late, PresenceInv, PresenceTypeOK
  <2> QED
    BY <2>2, <2>3 DEF Elapse, PresenceInv, PresenceTypeOK
<1>3. ASSUME NEW c \in Conns PROVE ConnSound(c)'
  BY <1>3 DEF Elapse, PresenceInv, ConnSound
<1>4. ASSUME NEW c \in Conns PROVE KeySound(c)'
  <2> SUFFICES ASSUME ~ missed'[c], Interval < TTL, refresher[c] = "wait"
               PROVE  life'[user[c]] = 0 \/ life'[user[c]] > due'[c]
    BY DEF Elapse, KeySound, Late
  <2>1. ~ missed[c] /\ due[c] # 0
    BY DEF Elapse, Late
  <2>2. life[user[c]] = 0 \/ life[user[c]] > due[c]
    BY <2>1 DEF PresenceInv, KeySound
  <2>3. user[c] \in Users
    BY <1>1 DEF PresenceInv, ConnSound
  <2>4. /\ life[user[c]] \in Nat /\ due[c] \in Nat /\ due'[c] = due[c] - 1
        /\ life'[user[c]] = IF life[user[c]] = 0 THEN 0 ELSE life[user[c]] - 1
    BY <1>1, <2>1, <2>3 DEF Elapse
  <2> QED
    BY <2>2, <2>4
<1> QED
  BY <1>2, <1>3, <1>4 DEF PresenceInv, MemoryIsTended, Elapse

\* A restart.
LEMMA CrashKeeps == PresenceInv /\ Crash => PresenceInv'
<1> SUFFICES ASSUME PresenceInv, Crash PROVE PresenceInv'
  OBVIOUS
<1>1. 0 \in 0..TTL /\ 0 \in 0..Interval
  BY TimeAssumption, IntervalIsPositive
<1>2. PresenceTypeOK'
  BY <1>1 DEF Crash, PresenceInv, PresenceTypeOK, Stages
<1>3. ASSUME NEW c \in Conns PROVE ConnSound(c)' /\ KeySound(c)'
  BY DEF Crash, PresenceInv, ConnSound, KeySound
<1>4. MemoryIsTended'
  BY DEF Crash, MemoryIsTended, Online
<1> QED
  BY <1>2, <1>3, <1>4 DEF PresenceInv

LEMMA PresenceStart == PresenceInit => PresenceInv
<1> SUFFICES ASSUME PresenceInit PROVE PresenceInv
  OBVIOUS
<1>1. 0 \in 0..TTL /\ 0 \in 0..Interval
  BY TimeAssumption, IntervalIsPositive
<1>2. PresenceTypeOK
  BY <1>1 DEF PresenceInit, PresenceTypeOK, Stages
<1>3. MemoryIsTended
  BY DEF PresenceInit, MemoryIsTended, Online
<1>4. ASSUME NEW c \in Conns PROVE ConnSound(c) /\ KeySound(c)
  BY NoneAssumption DEF PresenceInit, ConnSound, KeySound
<1> QED
  BY <1>2, <1>3, <1>4 DEF PresenceInv

LEMMA PresenceKeeps == PresenceInv /\ [PresenceNext]_presenceVars => PresenceInv'
<1> SUFFICES ASSUME PresenceInv, [PresenceNext]_presenceVars PROVE PresenceInv'
  OBVIOUS
<1>1. CASE UNCHANGED presenceVars
  BY <1>1 DEF presenceVars, PresenceInv, PresenceTypeOK, MemoryIsTended, ConnSound,
              KeySound, Online
<1>2. CASE PresenceNext
  BY <1>2, HandlerKeeps, StoreKeeps, RefreshKeeps, ElapseKeeps, CrashKeeps
  DEF PresenceNext, OnConnect, OnDisconnect
<1> QED
  BY <1>1, <1>2

\* The inductive invariant of Presence.
THEOREM PresenceInvariant == PresenceSpec => []PresenceInv
<1>1. PresenceInit => PresenceInv
  BY PresenceStart
<1>2. PresenceInv /\ [PresenceNext]_presenceVars => PresenceInv'
  BY PresenceKeeps
<1> QED
  BY <1>1, <1>2, PTL DEF PresenceSpec

\* PresenceTypeOK: every variable keeps its type, and no key outlives the TTL.
THEOREM PresenceTyped == PresenceSpec => []PresenceTypeOK
<1>1. PresenceInv => PresenceTypeOK
  BY DEF PresenceInv
<1> QED
  BY <1>1, PresenceInvariant, PTL

\* MemoryIsTended: the map of the process holds no user whom nobody will take off.
THEOREM MemoryStaysTended == PresenceSpec => []MemoryIsTended
<1>1. PresenceInv => MemoryIsTended
  BY DEF PresenceInv
<1> QED
  BY <1>1, PresenceInvariant, PTL

\* ServedStaysOnline: the key of a user does not run out while a connection of the
\* user is served and its last write neither failed nor is late, if the refresh
\* interval is below the TTL.
THEOREM ServedUsersStayOnline == PresenceSpec => ServedStaysOnline
<1> DEFINE Away == \A u \in Online \ Online' : Interval < TTL /\ Kept(u)' =>
                     \E c \in Conns : user[c] = u /\ Step(c, "offline", "gone")
<1>1. PresenceInv /\ [PresenceNext]_presenceVars => [Away]_presenceVars
  <2> SUFFICES ASSUME PresenceInv, PresenceNext, Interval < TTL,
                      NEW u \in Online, u \notin Online', Kept(u)'
               PROVE  \E c \in Conns : user[c] = u /\ Step(c, "offline", "gone")
    OBVIOUS
  <2>0. /\ u \in Users /\ life \in [Users -> 0..TTL] /\ life[u] > 0 /\ ~ (life'[u] > 0)
        /\ TTL \in Nat /\ TTL > 0
    BY TimeAssumption DEF Online, PresenceInv, PresenceTypeOK
  <2>1. life' # life
    BY <2>0
  <2>2. ASSUME NEW c \in Conns, NEW l \in {0, TTL}, Write(c, l), user[c] \in Users
        PROVE  l = 0 /\ user[c] = u
    BY <2>0, <2>1, <2>2 DEF Write
  <2>3. CASE \E c \in Conns : Open(c) \/ Serve(c) \/ Close(c) \/ Leave(c)
               \/ CheckOnline(c) \/ Panic(c) \/ RefreshTick(c) \/ RefreshEnds(c)
    BY <2>1, <2>3 DEF Open, Serve, Close, Leave, CheckOnline, Panic, RefreshTick, RefreshEnds
  <2>4. ASSUME NEW c \in Conns, MarkOnline(c) \/ MarkOffline(c) \/ RefreshWrite(c)
        PROVE  user[c] = u /\ Step(c, "offline", "gone")
    <3>1. user[c] \in Users
      BY <2>4 DEF MarkOnline, MarkOffline, RefreshWrite, Step, PresenceInv,
                  PresenceTypeOK, ConnSound
    <3>2. 0 # TTL
      BY <2>0
    <3>3. ~ Write(c, TTL)
      BY <2>2, <3>1, <3>2
    <3> QED
      BY <2>2, <2>4, <3>1, <3>3 DEF MarkOnline, MarkOffline, RefreshWrite
  <2>5. CASE Elapse
    <3>1. PICK c \in registered : user[c] = u /\ handler[c] = "serve" /\ ~ missed'[c]
      BY <2>5 DEF Kept, Elapse
    <3>2. /\ c \in Conns /\ redis /\ ~ missed[c] /\ refresher[c] = "wait" /\ due[c] # 0
      BY <2>5, <3>1 DEF Elapse, Late, PresenceInv, PresenceTypeOK, ConnSound
    <3>3. life[u] > due[c] /\ due[c] \in Nat /\ life'[u] = life[u] - 1
      BY <2>0, <2>5, <3>1, <3>2, IntervalIsPositive
      DEF Elapse, PresenceInv, PresenceTypeOK, KeySound
    <3> QED
      BY <2>0, <3>2, <3>3
  <2>6. ~ Crash
    BY DEF Crash, Kept
  <2> QED
    BY <2>3, <2>4, <2>5, <2>6 DEF PresenceNext, OnConnect, OnDisconnect, Refresh
<1> QED
  BY <1>1, PresenceInvariant, PTL DEF PresenceSpec, ServedStaysOnline
=============================================================================
