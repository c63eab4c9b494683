-------------------------------- MODULE Ids --------------------------------
(***************************************************************************)
(* The id generators of one table, one in every process that writes to it. *)
(* An id is made of the milliseconds of the clock, the number of the node  *)
(* and a sequence number within the millisecond.  A generator remembers    *)
(* the last millisecond it used, in memory only; the clock of its host may *)
(* be set back, and the process may restart.                               *)
(***************************************************************************)
EXTENDS Integers

CONSTANTS
  Processes,  \* processes with a generator for the table
  NodeOf,     \* their node numbers: APP_NODE_ID, or a hash of the host name
  MaxNode,    \* the largest node number
  MaxSeqNo,   \* the largest sequence number of a millisecond
  MaxMs       \* bound: the last millisecond

ASSUME IdsAssumption ==
  /\ MaxNode \in Nat /\ MaxSeqNo \in Nat /\ MaxMs \in Nat
  /\ NodeOf \in [Processes -> 0..MaxNode]

VARIABLES
  clock,     \* the clock of the host of each process, in ms since the epoch
  lastMs,    \* the millisecond of the newest id of a generator; 0: none yet
  sequence,  \* its sequence number
  spinning,  \* processes whose generator waits for the next millisecond
  issued,    \* history: the ids handed out
  repeated,  \* history: the ids handed out more than once
  newest,    \* history: the newest millisecond in an id of each node
  lapsed     \* history: nodes of processes that, after a restart, began with a
             \* clock that was not past the newest id of the node

generator == <<lastMs, sequence, spinning>>
idHistory == <<issued, repeated, newest, lapsed>>
idVars    == <<clock, generator, idHistory>>

Nodes == 0..MaxNode

IdsInit ==
  /\ clock = [p \in Processes |-> 1]
  /\ lastMs = [p \in Processes |-> 0]
  /\ sequence = [p \in Processes |-> 0]
  /\ spinning = {}
  /\ issued = {} /\ repeated = {} /\ lapsed = {}
  /\ newest = [n \in Nodes |-> 0]

\* The shifts by timeShift and nodeShift.
Encode(ms, node, seq) == (ms * (MaxNode + 1) + node) * (MaxSeqNo + 1) + seq

-----------------------------------------------------------------------------
\* A generator hands out an id and remembers its parts.
Give(p, ms, seq) ==
  LET node == NodeOf[p]
      id   == Encode(ms, node, seq)
  IN /\ lastMs' = [lastMs EXCEPT ![p] = ms]
     /\ sequence' = [sequence EXCEPT ![p] = seq]
     /\ issued' = issued \cup {id}
     /\ repeated' = IF id \in issued THEN repeated \cup {id} ELSE repeated
     /\ newest' = [newest EXCEPT ![node] = IF ms > @ THEN ms ELSE @]
     /\ lapsed' = IF lastMs[p] = 0 /\ ms <= newest[node]
                    THEN lapsed \cup {node} ELSE lapsed
     /\ UNCHANGED clock

\* The first id of a millisecond,
GiveFirst(p) ==
  /\ clock[p] > lastMs[p]
  /\ Give(p, clock[p], 0)
  /\ spinning' = spinning \ {p}

\* and the following ones, while there are sequence numbers left.
GiveNext(p) ==
  /\ p \notin spinning
  /\ clock[p] = lastMs[p] /\ sequence[p] < MaxSeqNo
  /\ Give(p, lastMs[p], sequence[p] + 1)
  /\ UNCHANGED spinning

\* NextID succeeds, at once or at the end of waitNextMilli.
NextID(p) == GiveFirst(p) \/ GiveNext(p)

\* Mutation: the sequence number wraps without waiting.
ExhaustedWraps(p) ==
  /\ clock[p] = lastMs[p] /\ sequence[p] = MaxSeqNo
  /\ sequence' = [sequence EXCEPT ![p] = -1]
  /\ UNCHANGED <<clock, lastMs, spinning, idHistory>>

\* The sequence numbers are used up: the generator waits for the clock, and all
\* other callers for its mutex.
Exhausted(p) ==
  /\ p \notin spinning
  /\ clock[p] = lastMs[p] /\ sequence[p] = MaxSeqNo
  /\ spinning' = spinning \cup {p}
  /\ sequence' = [sequence EXCEPT ![p] = 0]
  /\ UNCHANGED <<clock, lastMs, idHistory>>

\* The clock has been set back: NextID returns an error and changes nothing.
Refuses(p) == p \notin spinning /\ clock[p] < lastMs[p]

TickClock(p) ==
  /\ clock[p] < MaxMs
  /\ clock' = [clock EXCEPT ![p] = @ + 1]
  /\ UNCHANGED <<generator, idHistory>>

SetBack(p) ==
  /\ \E ms \in 1..(clock[p] - 1) : clock' = [clock EXCEPT ![p] = ms]
  /\ UNCHANGED <<generator, idHistory>>

\* The process restarts, or another one takes its node number.
RestartGenerator(p) ==
  /\ lastMs' = [lastMs EXCEPT ![p] = 0]
  /\ sequence' = [sequence EXCEPT ![p] = 0]
  /\ spinning' = spinning \ {p}
  /\ UNCHANGED <<clock, idHistory>>

IdsNext == \E p \in Processes :
  NextID(p) \/ Exhausted(p) \/ TickClock(p) \/ SetBack(p) \/ RestartGenerator(p)

IdsSpec == IdsInit /\ [][IdsNext]_idVars
-----------------------------------------------------------------------------
(* Properties.                                                             *)

Shared == {n \in Nodes : \E p, q \in Processes :
                           p # q /\ NodeOf[p] = n /\ NodeOf[q] = n}

\* The parts of an id.
NodeIn(id) == (id \div (MaxSeqNo + 1)) % (MaxNode + 1)

\* Ids are unique, across processes, full milliseconds, clocks that are set back
\* and restarts: one is handed out again only by a node whose process restarted
\* and began at a time before the newest id of the node, or by two processes
\* whose host names have the same hash.
UniqueIds == \A id \in repeated : NodeIn(id) \in lapsed \cup Shared
=============================================================================
