---------------------------- MODULE GatewayProofs ----------------------------
(***************************************************************************)
(* Proofs about Gateway, for any number of connections, users and          *)
(* publishers, and any sizes of buffers and limits.                        *)
(***************************************************************************)
EXTENDS Gateway, FiniteSetTheorems, TLAPS

\* The initial state is well typed.
LEMMA TypeInit == Init => TypeOK
<1> SUFFICES ASSUME Init PROVE TypeOK
  OBVIOUS
<1>1. buf \in [Conns -> 0..BufSize]
  BY SizesAssumption DEF Init
<1>2. /\ user \in [Conns -> Users \cup {None}]
      /\ pump \in [Conns -> {"off", "run", "ended"}]
      /\ handler \in [Conns -> HandlerStages]
      /\ todo \in [Actors -> SUBSET Conns]
      /\ closing \in [Actors -> Conns \cup {None}]
  BY DEF Init, HandlerStages
<1>3. /\ registered \subseteq Conns /\ closed \subseteq Conns
      /\ lost \subseteq Conns /\ socket \subseteq Conns
      /\ readers \subseteq Actors \ {Stopper} /\ panicked \subseteq Actors
  BY DEF Init
<1>4. shutting \in BOOLEAN
  BY DEF Init
<1>5. total \in Int /\ stop \in {"run", "closing", "drain", "drained", "timedout"}
  BY DEF Init
<1> QED
  BY <1>1, <1>2, <1>3, <1>4, <1>5 DEF TypeOK

\* Steps of a handler and of the goroutines that send keep the types,
LEMMA SendingType ==
  ASSUME TypeOK, NEW a \in Actors, Sending(a) \/ Broadcasted(a)
  PROVE  TypeOK'
<1>1. ASSUME NEW c \in Conns, Send(a, c) PROVE TypeOK'
  <2>1. buf' \in [Conns -> 0..BufSize]
    BY <1>1, SizesAssumption DEF Send, Enqueue, DropClosed, Overflow, TypeOK
  <2>2. lost' \subseteq Conns /\ closing' \in [Actors -> Conns \cup {None}]
        /\ todo' \in [Actors -> SUBSET Conns]
    BY <1>1 DEF Send, Enqueue, DropClosed, Overflow, TypeOK
  <2> QED
    BY <1>1, <2>1, <2>2 DEF Send, TypeOK, hub
<1>2. CASE CloseNow(a)
  BY <1>2 DEF CloseNow, TypeOK, HandlerStages, hub
<1>3. CASE Broadcasted(a)
  BY <1>3 DEF Broadcasted, TypeOK, hub, conn
<1> QED
  BY <1>1, <1>2, <1>3 DEF Sending

\* as do the steps of the stopper,
LEMMA StoppingType ==
  ASSUME TypeOK, Stopping
  PROVE  TypeOK'
<1> USE DEF Actors
<1>1. CASE Shutdown
  BY <1>1 DEF Shutdown, TypeOK, conn
<1>2. CASE ShutdownClose
  BY <1>2 DEF ShutdownClose, TypeOK, hub, conn
<1>3. CASE ShutdownDrain \/ ShutdownReturns
  BY <1>3 DEF ShutdownDrain, ShutdownReturns, TypeOK, hub, conn, actor
<1> QED
  BY <1>1, <1>2, <1>3 DEF Stopping

\* those of a handler,
LEMMA HandlerType ==
  ASSUME TypeOK, NEW c \in Conns, Arrive(c) \/ Depart(c) \/ PeerLeaves(c)
  PROVE  TypeOK'
<1> USE DEF Actors, HandlerStages
<1>1. CASE Register(c)
  BY <1>1 DEF Register, Step, TypeOK
<1>2. ASSUME NEW from \in HandlerStages, NEW to \in HandlerStages,
             PresenceCast(c, from, to)
      PROVE  TypeOK'
  BY <1>2, ActorsAssumption DEF PresenceCast, Step, ConnsOf, TypeOK, hub, conn
<1>3. CASE Serve(c)
  BY <1>3 DEF Serve, Step, TypeOK, hub
<1>4. CASE PeerLeaves(c)
  BY <1>4 DEF PeerLeaves, Step, TypeOK, hub, conn, actor
<1>5. CASE Unregister(c)
  BY <1>5 DEF Unregister, Step, TypeOK, conn, actor
<1>6. CASE CloseOwn(c)
  BY <1>6 DEF CloseOwn, Step, TypeOK, hub, conn
<1>7. CASE CheckOnline(c)
  BY <1>7 DEF CheckOnline, Step, TypeOK, hub, conn, actor
<1>8. CASE Return(c)
  BY <1>8 DEF Return, Step, TypeOK, hub, conn
<1> QED
  BY <1>1, <1>2, <1>3, <1>4, <1>5, <1>6, <1>7, <1>8
     DEF Arrive, Depart, Greet, Farewell, ReadFails

\* and those of the frames a connection reads and writes.
LEMMA FrameType ==
  ASSUME TypeOK, NEW c \in Conns,
         Typing(c) \/ Pong(c) \/ WriteFrame(c) \/ PumpEnds(c)
  PROVE  TypeOK'
<1> USE DEF Actors
<1>1. CASE Typing(c)
  BY <1>1, ActorsAssumption DEF Typing, ConnsOf, TypeOK, hub, conn
<1>2. CASE Pong(c)
  BY <1>2 DEF Pong, TypeOK, hub, conn
<1>3. CASE WriteFrame(c)
  <2>1. buf' \in [Conns -> 0..BufSize]
    BY <1>3, SizesAssumption DEF WriteFrame, TypeOK
  <2> QED
    BY <1>3, <2>1 DEF WriteFrame, TypeOK, hub, actor
<1>4. CASE PumpEnds(c)
  BY <1>4 DEF PumpEnds, TypeOK, hub, actor
<1> QED
  BY <1>1, <1>2, <1>3, <1>4

\* A broadcast of a publisher keeps the types.
LEMMA BroadcastType ==
  ASSUME TypeOK, NEW p \in Publishers, Broadcast(p)
  PROVE  TypeOK'
BY ActorsAssumption DEF Broadcast, ConnsOf, Actors, TypeOK, hub, conn

\* Every step keeps the types, and no send buffer exceeds its capacity.
LEMMA TypeNext == TypeOK /\ [Next]_vars => TypeOK'
<1> SUFFICES ASSUME TypeOK, [Next]_vars PROVE TypeOK'
  OBVIOUS
<1>1. CASE UNCHANGED vars
  BY <1>1 DEF TypeOK, vars, hub, conn, actor
<1>2. CASE Next
  BY <1>2, SendingType, StoppingType, HandlerType, FrameType, BroadcastType
     DEF Next, Working
<1> QED
  BY <1>1, <1>2

\* Every variable holds values of its type and no buffer exceeds its capacity,
\* whichever goroutines send at once.
THEOREM GatewayTyped == Spec => []TypeOK
<1> QED
  BY TypeInit, TypeNext, PTL DEF Spec

-----------------------------------------------------------------------------
(* The registry.                                                           *)

Registrable == {"auth", "greet", "serve", "leave"}

\* A connection is registered only while its handler serves it, unless a panic
\* cut the handler short; and a panic ends the handler.
RegistryInv ==
  /\ TypeOK
  /\ HubCountIsExact
  /\ PlaceIsReturned
  /\ \A c \in Conns : c \in panicked => handler[c] = "gone"

\* A step that leaves the registry as it is: handlers stay where a registered
\* connection may be, and only a panic cuts one short.
RegistryKept ==
  /\ UNCHANGED <<registered, total, user>>
  /\ panicked \subseteq panicked'
  /\ \A c \in Conns :
       \/ handler'[c] = handler[c] /\ (c \in panicked' => c \in panicked)
       \/ handler'[c] = "gone" /\ c \in panicked'
       \/ /\ c \in registered => handler'[c] \in Registrable
          /\ handler[c] # "gone" /\ (c \in panicked' => c \in panicked)

\* Such a step preserves the invariant.
LEMMA KeptKeeps ==
  ASSUME RegistryInv, TypeOK', RegistryKept
  PROVE  RegistryInv'
<1>1. HubCountIsExact'
  BY DEF RegistryInv, RegistryKept, HubCountIsExact, ConnsOf
<1>2. PlaceIsReturned'
  BY DEF RegistryInv, RegistryKept, PlaceIsReturned, Registrable, TypeOK
<1>3. (\A c \in Conns : c \in panicked => handler[c] = "gone")'
  BY DEF RegistryInv, RegistryKept
<1> QED
  BY <1>1, <1>2, <1>3 DEF RegistryInv

\* Sends, closes and the end of a broadcast leave the registry as it is.
LEMMA SendingKept ==
  ASSUME RegistryInv, NEW a \in Actors, Sending(a) \/ Broadcasted(a)
  PROVE  RegistryKept
<1>1. ASSUME NEW c \in Conns, Send(a, c) PROVE RegistryKept
  BY <1>1 DEF Send, RegistryKept, hub
<1>2. CASE CloseNow(a)
  BY <1>2 DEF CloseNow, RegistryKept, RegistryInv, TypeOK, hub
<1>3. CASE Broadcasted(a)
  BY <1>3 DEF Broadcasted, RegistryKept, hub
<1> QED
  BY <1>1, <1>2, <1>3 DEF Sending

\* So do the stopper, the publishers, and the frames of the clients.
LEMMA BesidesKept ==
  ASSUME RegistryInv,
         \/ Stopping
         \/ \E p \in Publishers : Broadcast(p)
         \/ \E c \in Conns : Typing(c) \/ Pong(c) \/ WriteFrame(c) \/ PumpEnds(c)
  PROVE  RegistryKept
<1> USE DEF RegistryKept, hub, conn, actor
<1>1. CASE Stopping
  BY <1>1 DEF Stopping, Shutdown, ShutdownClose, ShutdownDrain, ShutdownReturns
<1>2. CASE \E p \in Publishers : Broadcast(p)
  BY <1>2 DEF Broadcast
<1>3. CASE \E c \in Conns : Typing(c) \/ Pong(c) \/ WriteFrame(c) \/ PumpEnds(c)
  BY <1>3 DEF Typing, Pong, WriteFrame, PumpEnds
<1> QED
  BY <1>1, <1>2, <1>3

\* The registration of a connection respects both limits; a refused one is not
\* in the registry.
LEMMA RegisterKeeps ==
  ASSUME RegistryInv, NEW c \in Conns, Register(c), TypeOK'
  PROVE  RegistryInv'
<1>1. PICK u \in Users :
        /\ handler[c] = "new"
        /\ user' = [user EXCEPT ![c] = u]
        /\ IF Admissible(u)
             THEN /\ Step(c, "new", "auth")
                  /\ registered' = registered \cup {c}
                  /\ total' = total + 1
             ELSE /\ Step(c, "new", "gone")
                  /\ UNCHANGED <<registered, total>>
        /\ UNCHANGED panicked
  BY DEF Register
<1>2. c \notin registered /\ c \notin panicked
  BY <1>1 DEF RegistryInv, PlaceIsReturned
<1>3. IsFiniteSet(registered) /\ Cardinality(registered) \in Nat
  BY SizesAssumption, FS_Subset, FS_CardinalityType DEF RegistryInv, TypeOK
<1>4. PlaceIsReturned' /\ (\A d \in Conns : d \in panicked => handler[d] = "gone")'
  BY <1>1, <1>2 DEF RegistryInv, PlaceIsReturned, Step, TypeOK
<1>5. CASE ~ Admissible(u)
  <2>1. \A v \in Users : ConnsOf({v})' = ConnsOf({v})
    BY <1>1, <1>2, <1>5 DEF ConnsOf, RegistryInv, TypeOK
  <2>2. HubCountIsExact'
    BY <1>1, <1>5, <2>1 DEF RegistryInv, HubCountIsExact
  <2> QED
    BY <1>4, <2>2 DEF RegistryInv
<1>6. CASE Admissible(u)
  <2>1. total' = Cardinality(registered') /\ (MaxTotal > 0 => total' <= MaxTotal)
    <3>1. Cardinality(registered \cup {c}) = Cardinality(registered) + 1
      BY <1>2, <1>3, FS_AddElement
    <3>2. registered' = registered \cup {c} /\ total' = total + 1
      BY <1>1, <1>6
    <3>3. total = Cardinality(registered) /\ (MaxTotal > 0 => total < MaxTotal)
      BY <1>6 DEF RegistryInv, HubCountIsExact, Admissible
    <3> QED
      BY <1>3, <3>1, <3>2, <3>3, SizesAssumption
  <2>2. ASSUME NEW v \in Users, MaxPerUser > 0
        PROVE  Cardinality(ConnsOf({v})') <= MaxPerUser
    <3>1. CASE v # u
      <4>1. ConnsOf({v})' = ConnsOf({v})
        <5>1. registered' = registered \cup {c} /\ registered \subseteq Conns
          BY <1>1, <1>6 DEF RegistryInv, TypeOK
        <5>2. user'[c] = u /\ \A d \in Conns \ {c} : user'[d] = user[d]
          BY <1>1 DEF RegistryInv, TypeOK
        <5> QED
          BY <1>2, <3>1, <5>1, <5>2 DEF ConnsOf
      <4> QED
        BY <2>2, <4>1 DEF RegistryInv, HubCountIsExact
    <3>2. CASE v = u
      <4>1. ConnsOf({v})' = ConnsOf({v}) \cup {c} /\ c \notin ConnsOf({v})
        <5>1. registered' = registered \cup {c} /\ registered \subseteq Conns
          BY <1>1, <1>6 DEF RegistryInv, TypeOK
        <5>2. user'[c] = v /\ \A d \in Conns \ {c} : user'[d] = user[d]
          BY <1>1, <3>2 DEF RegistryInv, TypeOK
        <5> QED
          BY <1>2, <5>1, <5>2 DEF ConnsOf
      <4>2. IsFiniteSet(ConnsOf({v})) /\ Cardinality(ConnsOf({v})) \in Nat
        BY <1>3, FS_Subset, FS_CardinalityType DEF ConnsOf
      <4>3. Cardinality(ConnsOf({v}) \cup {c}) = Cardinality(ConnsOf({v})) + 1
        BY <4>1, <4>2, FS_AddElement
      <4>4. Cardinality(ConnsOf({v})) < MaxPerUser
        BY <1>6, <2>2, <3>2 DEF Admissible
      <4> QED
        BY <4>1, <4>2, <4>3, <4>4, SizesAssumption
    <3> QED
      BY <3>1, <3>2
  <2>3. HubCountIsExact'
    BY <2>1, <2>2 DEF HubCountIsExact
  <2> QED
    BY <1>4, <2>3 DEF RegistryInv
<1> QED
  BY <1>5, <1>6

\* A connection that leaves is counted out once, registered or not.
LEMMA UnregisterKeeps ==
  ASSUME RegistryInv, NEW c \in Conns, Unregister(c), TypeOK'
  PROVE  RegistryInv'
<1>1. /\ handler[c] = "leave" /\ handler' = [handler EXCEPT ![c] = "left"]
      /\ registered' = registered \ {c}
      /\ total' = IF c \in registered THEN total - 1 ELSE total
      /\ UNCHANGED <<user, panicked>>
  BY DEF Unregister, Step, actor
<1>2. IsFiniteSet(registered) /\ Cardinality(registered) \in Nat
  BY SizesAssumption, FS_Subset, FS_CardinalityType DEF RegistryInv, TypeOK
<1>3. total' = Cardinality(registered') /\ total' <= total
  <2>1. Cardinality(registered \ {c}) = IF c \in registered
                                          THEN Cardinality(registered) - 1
                                          ELSE Cardinality(registered)
    BY <1>2, FS_RemoveElement
  <2> QED
    BY <1>1, <1>2, <2>1 DEF RegistryInv, HubCountIsExact
<1>4. ASSUME NEW v \in Users, MaxPerUser > 0
      PROVE  Cardinality(ConnsOf({v})') <= MaxPerUser
  <2>1. ConnsOf({v})' \subseteq ConnsOf({v})
    BY <1>1 DEF ConnsOf
  <2>2. IsFiniteSet(ConnsOf({v}))
    BY <1>2, FS_Subset DEF ConnsOf
  <2>3. /\ Cardinality(ConnsOf({v})) \in Nat /\ IsFiniteSet(ConnsOf({v})')
        /\ Cardinality(ConnsOf({v})') <= Cardinality(ConnsOf({v}))
    BY <2>1, <2>2, FS_Subset, FS_CardinalityType
  <2>4. Cardinality(ConnsOf({v})') \in Nat
    BY <2>3, FS_CardinalityType
  <2> QED
    BY <1>4, <2>3, <2>4, SizesAssumption DEF RegistryInv, HubCountIsExact
<1>5. HubCountIsExact'
  BY <1>1, <1>2, <1>3, <1>4, SizesAssumption DEF RegistryInv, HubCountIsExact
<1>6. PlaceIsReturned' /\ (\A d \in Conns : d \in panicked => handler[d] = "gone")'
  BY <1>1 DEF RegistryInv, PlaceIsReturned, TypeOK
<1> QED
  BY <1>5, <1>6 DEF RegistryInv

\* The other steps of a handler leave the registry as it is; once it has left
\* the registry, its connection never comes back.
LEMMA HandlerKept ==
  ASSUME RegistryInv, NEW c \in Conns,
         \/ Greet(c) \/ Serve(c) \/ PeerLeaves(c) \/ ReadFails(c)
         \/ CloseOwn(c) \/ CheckOnline(c) \/ Farewell(c) \/ Return(c)
  PROVE  RegistryKept
<1> USE DEF RegistryKept, Registrable, hub, conn, actor, Step
<1>1. TypeOK /\ PlaceIsReturned /\ (c \in panicked => handler[c] = "gone")
  BY DEF RegistryInv
<1>2. CASE Greet(c) \/ Serve(c)
  BY <1>1, <1>2 DEF Greet, PresenceCast, Serve, TypeOK
<1>3. CASE PeerLeaves(c) \/ ReadFails(c)
  BY <1>1, <1>3 DEF PeerLeaves, ReadFails, TypeOK
<1>4. CASE CloseOwn(c) \/ CheckOnline(c)
  BY <1>1, <1>4 DEF CloseOwn, CheckOnline, TypeOK, PlaceIsReturned
<1>5. CASE Farewell(c) \/ Return(c)
  BY <1>1, <1>5 DEF Farewell, PresenceCast, Return, TypeOK, PlaceIsReturned
<1> QED
  BY <1>2, <1>3, <1>4, <1>5

\* Every step preserves the invariant.
LEMMA RegistryNext == RegistryInv /\ [Next]_vars => RegistryInv'
<1> SUFFICES ASSUME RegistryInv, [Next]_vars PROVE RegistryInv'
  OBVIOUS
<1>1. TypeOK'
  BY TypeNext DEF RegistryInv
<1>2. CASE UNCHANGED vars
  <2>1. RegistryKept
    BY <1>2 DEF RegistryKept, vars, hub, actor
  <2> QED
    BY <1>1, <2>1, KeptKeeps
<1>3. ASSUME NEW c \in Conns, Arrive(c) \/ Depart(c) \/ PeerLeaves(c)
      PROVE  RegistryInv'
  BY <1>1, <1>3, RegisterKeeps, UnregisterKeeps, HandlerKept, KeptKeeps
     DEF Arrive, Depart
<1>4. ASSUME NEW a \in Actors, Sending(a) \/ Broadcasted(a)
      PROVE  RegistryInv'
  BY <1>1, <1>4, SendingKept, KeptKeeps
<1>5. CASE \/ Stopping
           \/ \E p \in Publishers : Broadcast(p)
           \/ \E c \in Conns : Typing(c) \/ Pong(c) \/ WriteFrame(c) \/ PumpEnds(c)
  BY <1>1, <1>5, BesidesKept, KeptKeeps
<1> QED
  BY <1>2, <1>3, <1>4, <1>5 DEF Next, Working

\* The empty registry satisfies the invariant.
LEMMA RegistryStart == Init => RegistryInv
<1> SUFFICES ASSUME Init PROVE RegistryInv
  OBVIOUS
<1>1. registered = {} /\ total = 0 /\ panicked = {}
      /\ \A u \in Users : ConnsOf({u}) = {}
  BY DEF Init, ConnsOf
<1> QED
  BY <1>1, TypeInit, FS_EmptySet, SizesAssumption
     DEF RegistryInv, HubCountIsExact, PlaceIsReturned

\* The counter beside the map of connections is its size, and neither limit is
\* exceeded, however connections come, go and are cut short.
THEOREM HubCountsExactly == Spec => []HubCountIsExact
<1>1. RegistryInv => HubCountIsExact
  BY DEF RegistryInv
<1> QED
  BY <1>1, RegistryStart, RegistryNext, PTL DEF Spec

-----------------------------------------------------------------------------
(* What goroutines still have to do.                                       *)

\* A handler that waits to leave the registry, or has just left it, has nothing
\* to send and no connection to close; it tells its own connection before it goes
\* on, and the pump only runs once the handler serves.
HandlerSound(c) ==
  /\ handler[c] \in {"new", "leave", "left"} => Idle(c)
  /\ c \in readers => handler[c] \in {"greet", "serve", "bye"}
  /\ handler[c] \in {"new", "auth", "greet"} => pump[c] = "off"
  /\ pump[c] = "run" /\ handler[c] \in {"check", "bye", "gone"} =>
       c \in closed \/ c \in panicked \/ (handler[c] = "check" /\ closing[c] = c)

\* The stopper has closed, or will close, every connection that is registered.
StopperSound ==
  /\ shutting <=> stop # "run"
  /\ stop # "run" /\ Alive =>
       \A c \in registered : c \in closed \/ c \in todo[Stopper] \/ closing[Stopper] = c

DutyInv ==
  /\ RegistryInv
  /\ LossIsPursued
  /\ StopperSound
  /\ ShutdownIsComplete
  /\ \A c \in Conns : HandlerSound(c)

\* The actors other than a keep their duties.
OthersKept(a) ==
  \A b \in Actors \ {a} : /\ todo'[b] = todo[b] /\ closing'[b] = closing[b]
                          /\ b \in readers' <=> b \in readers
                          /\ b \in panicked' <=> b \in panicked
                          /\ b \in Conns => handler'[b] = handler[b] /\ pump'[b] = pump[b]

\* A step of a goroutine that keeps its own handler sound keeps all of them so.
LEMMA SoundByActor ==
  ASSUME DutyInv, NEW a \in Actors, OthersKept(a), closed \subseteq closed',
         a \in Conns => HandlerSound(a)'
  PROVE  (\A c \in Conns : HandlerSound(c))'
<1>1. ASSUME NEW c \in Conns, c # a PROVE HandlerSound(c)'
  <2>1. c \in Actors /\ HandlerSound(c)
    BY DEF DutyInv, Actors
  <2> QED
    BY <1>1, <2>1 DEF OthersKept, HandlerSound, Idle
<1> QED
  BY <1>1

\* A loss is still pursued when nobody gives up an unclosed connection.
LEMMA StillPursued ==
  ASSUME DutyInv, NEW a \in Actors, closed \subseteq closed',
         \A b \in Actors \ {a} : closing'[b] = closing[b],
         \/ closing'[a] = closing[a] \/ closing[a] = None \/ closing[a] \in closed',
         \A c \in lost' \ lost : closing'[a] = c
  PROVE  LossIsPursued'
<1> SUFFICES ASSUME NEW c \in lost', c \notin closed'
             PROVE  \E b \in Actors : closing'[b] = c
  BY DEF LossIsPursued
<1>1. CASE c \in lost
  <2>1. c \in Conns /\ c # None
    BY <1>1, ActorsAssumption DEF DutyInv, RegistryInv, TypeOK
  <2>2. PICK b \in Actors : closing[b] = c
    BY <1>1 DEF DutyInv, LossIsPursued
  <2> QED
    BY <2>1, <2>2
<1>2. CASE c \notin lost
  BY <1>2
<1> QED
  BY <1>1, <1>2

\* What the stopper has done stays done while the registry does not grow and the
\* stopper does nothing.
LEMMA StopperKept ==
  ASSUME DutyInv, registered' \subseteq registered, closed \subseteq closed',
         UNCHANGED <<shutting, stop>>,
         todo'[Stopper] = todo[Stopper], closing'[Stopper] = closing[Stopper],
         Alive
  PROVE  StopperSound' /\ ShutdownIsComplete'
BY DEF DutyInv, StopperSound, ShutdownIsComplete, Alive

\* A step of one goroutine other than the stopper preserves the invariant if that
\* goroutine stays sound and lets no connection go that it has not closed.
LEMMA DutyByActor ==
  ASSUME DutyInv, Alive, RegistryInv', NEW a \in Actors \ {Stopper}, OthersKept(a),
         closed \subseteq closed', UNCHANGED <<shutting, stop>>,
         registered' \subseteq registered \/ ~ shutting,
         \/ closing'[a] = closing[a] \/ closing[a] = None \/ closing[a] \in closed',
         \A c \in lost' \ lost : closing'[a] = c,
         a \in Conns => HandlerSound(a)'
  PROVE  DutyInv'
<1>1. todo'[Stopper] = todo[Stopper] /\ closing'[Stopper] = closing[Stopper]
  BY DEF OthersKept, Actors
<1>2. StopperSound' /\ ShutdownIsComplete'
  <2>1. CASE registered' \subseteq registered
    BY <1>1, <2>1, StopperKept
  <2>2. CASE ~ shutting
    BY <2>2 DEF DutyInv, StopperSound, ShutdownIsComplete
  <2> QED
    BY <2>1, <2>2
<1>3. \A b \in Actors \ {a} : closing'[b] = closing[b]
  BY DEF OthersKept
<1> QED
  BY <1>2, <1>3, SoundByActor, StillPursued DEF DutyInv

\* A Send that overflows is followed by a Close, which closes the connection or
\* finds it closed; a broadcast releases its lock.
LEMMA SendingDuty ==
  ASSUME DutyInv, Alive, RegistryInv', NEW a \in Actors \ {Stopper},
         Sending(a) \/ Broadcasted(a)
  PROVE  DutyInv'
<1>0. TypeOK /\ (a \in Conns => HandlerSound(a))
  BY DEF DutyInv, RegistryInv
<1>1. ASSUME NEW c \in Conns, Send(a, c) PROVE DutyInv'
  <2>1. OthersKept(a)
    BY <1>0, <1>1 DEF Send, Enqueue, DropClosed, Overflow, OthersKept, TypeOK
  <2>2. /\ closing[a] = None /\ (\A d \in lost' \ lost : closing'[a] = d)
        /\ UNCHANGED <<closed, shutting, stop, registered>>
    BY <1>0, <1>1 DEF Send, Enqueue, DropClosed, Overflow, TypeOK, hub
  <2>3. ASSUME a \in Conns PROVE HandlerSound(a)'
    <3>1. ~ Idle(a)
      BY <1>1 DEF Send, Idle
    <3>2. UNCHANGED <<handler, readers, pump, closed, panicked>> /\ closing[a] = None
      BY <1>1 DEF Send
    <3>3. a # None
      BY <2>3, ActorsAssumption
    <3> QED
      BY <1>0, <2>3, <3>1, <3>2, <3>3 DEF HandlerSound
  <2> QED
    BY <2>1, <2>2, <2>3, DutyByActor
<1>2. CASE CloseNow(a)
  <2>1. OthersKept(a)
    BY <1>0, <1>2 DEF CloseNow, OthersKept, TypeOK
  <2>2. /\ closing[a] \in closed' /\ closed \subseteq closed'
        /\ UNCHANGED <<lost, shutting, stop, registered>>
    BY <1>0, <1>2 DEF CloseNow, TypeOK, hub
  <2>3. ASSUME a \in Conns PROVE HandlerSound(a)'
    <3>1. CASE UNCHANGED <<panicked, todo, readers, handler>>
      <4>1. ~ Idle(a) /\ UNCHANGED pump
        BY <1>2 DEF CloseNow, Idle
      <4> QED
        BY <1>0, <2>2, <2>3, <3>1, <4>1 DEF HandlerSound
    <3>2. CASE ~ UNCHANGED <<panicked, todo, readers, handler>>
      <4>1. a \in panicked' /\ a \notin readers' /\ handler'[a] = "gone"
        BY <1>0, <1>2, <2>3, <3>2 DEF CloseNow, TypeOK
      <4> QED
        BY <4>1 DEF HandlerSound
    <3> QED
      BY <3>1, <3>2
  <2> QED
    BY <2>1, <2>2, <2>3, DutyByActor
<1>3. CASE Broadcasted(a)
  <2>1. OthersKept(a)
    BY <1>0, <1>3 DEF Broadcasted, OthersKept, TypeOK, conn
  <2>2. UNCHANGED <<closing, closed, lost, shutting, stop, registered>>
    BY <1>3 DEF Broadcasted, hub, conn
  <2>3. ASSUME a \in Conns PROVE HandlerSound(a)'
    BY <1>0, <1>3, <2>3 DEF Broadcasted, HandlerSound, Idle, conn
  <2> QED
    BY <2>1, <2>2, <2>3, DutyByActor
<1> QED
  BY <1>1, <1>2, <1>3 DEF Sending

\* A handler that arrives does not serve yet, and registers only before the
\* shutdown.
LEMMA RegisterDuty ==
  ASSUME DutyInv, Alive, RegistryInv', NEW c \in Conns, Register(c)
  PROVE  DutyInv'
<1>0. /\ TypeOK /\ HandlerSound(c) /\ c \in Actors \ {Stopper}
      /\ handler[c] = "new" /\ Idle(c) /\ pump[c] = "off" /\ c \notin readers
      /\ UNCHANGED <<pump, readers, closing, closed, lost, shutting, stop, panicked>>
  BY ActorsAssumption DEF DutyInv, RegistryInv, HandlerSound, Register, Actors
<1>1. OthersKept(c) /\ handler'[c] \in {"auth", "gone"}
  BY <1>0 DEF Register, Step, OthersKept, TypeOK
<1>2. HandlerSound(c)'
  BY <1>0, <1>1 DEF HandlerSound
<1>3. registered' \subseteq registered \/ ~ shutting
  BY DEF Register, Admissible
<1> QED
  BY <1>0, <1>1, <1>2, <1>3, DutyByActor

\* The presence frames of a handler are sent under the read lock.
LEMMA PresenceDuty ==
  ASSUME DutyInv, Alive, RegistryInv', NEW c \in Conns, Greet(c) \/ Farewell(c)
  PROVE  DutyInv'
<1>0. TypeOK /\ HandlerSound(c) /\ c \in Actors \ {Stopper}
  BY ActorsAssumption DEF DutyInv, RegistryInv, Actors
<1>1. PICK from \in {"auth", "bye"}, to \in {"greet", "bye"} :
        PresenceCast(c, from, to) /\ (from = "bye" <=> to = "bye")
  BY DEF Greet, Farewell
<1>2. /\ handler[c] = from /\ handler' = [handler EXCEPT ![c] = to]
      /\ readers' = readers \cup {c} /\ todo' = [todo EXCEPT ![c] = todo'[c]]
      /\ UNCHANGED <<registered, closing, closed, lost, pump, panicked, shutting, stop>>
  BY <1>0, <1>1 DEF PresenceCast, Step, TypeOK, hub, conn
<1>3. OthersKept(c)
  BY <1>0, <1>2 DEF OthersKept, TypeOK
<1>4. HandlerSound(c)'
  BY <1>0, <1>1, <1>2 DEF HandlerSound, TypeOK
<1> QED
  BY <1>0, <1>2, <1>3, <1>4, DutyByActor

\* The other steps of a handler and of its pump: it leaves when it has nothing to
\* send, and closes its connection before it says farewell.
LEMMA HandlerDuty ==
  ASSUME DutyInv, Alive, RegistryInv', NEW c \in Conns,
         \/ Serve(c) \/ PeerLeaves(c) \/ ReadFails(c) \/ Unregister(c) \/ CloseOwn(c)
         \/ CheckOnline(c) \/ Return(c)
         \/ Typing(c) \/ Pong(c) \/ WriteFrame(c) \/ PumpEnds(c)
  PROVE  DutyInv'
<1>0. TypeOK /\ HandlerSound(c) /\ c \in Actors \ {Stopper} /\ c # None
  BY ActorsAssumption DEF DutyInv, RegistryInv, Actors
<1>1. CASE Serve(c)
  <2>1. OthersKept(c)
    BY <1>0, <1>1 DEF Serve, Step, OthersKept, TypeOK, hub, conn, actor
  <2>2. HandlerSound(c)'
    BY <1>0, <1>1 DEF Serve, Step, HandlerSound, Idle, TypeOK, hub, conn, actor
  <2> QED
    BY <1>0, <1>1, <2>1, <2>2, DutyByActor DEF Serve, hub, conn, actor
<1>2. CASE PeerLeaves(c)
  <2>1. OthersKept(c)
    BY <1>0, <1>2 DEF PeerLeaves, Step, OthersKept, TypeOK, hub, conn, actor
  <2>2. HandlerSound(c)'
    BY <1>0, <1>2 DEF PeerLeaves, Step, HandlerSound, Idle, TypeOK, hub, conn, actor, Reading
  <2> QED
    BY <1>0, <1>2, <2>1, <2>2, DutyByActor DEF PeerLeaves, hub, conn, actor
<1>3. CASE Unregister(c)
  <2>1. OthersKept(c)
    BY <1>0, <1>3 DEF Unregister, Step, OthersKept, TypeOK, hub, conn, actor
  <2>2. HandlerSound(c)'
    BY <1>0, <1>3 DEF Unregister, Step, HandlerSound, Idle, TypeOK, hub, conn, actor
  <2> QED
    BY <1>0, <1>3, <2>1, <2>2, DutyByActor DEF Unregister, hub, conn, actor
<1>4. CASE CheckOnline(c)
  <2>1. OthersKept(c)
    BY <1>0, <1>4 DEF CheckOnline, Step, OthersKept, TypeOK, hub, conn, actor
  <2>2. HandlerSound(c)'
    BY <1>0, <1>4 DEF CheckOnline, Step, HandlerSound, Idle, TypeOK, hub, conn, actor
  <2> QED
    BY <1>0, <1>4, <2>1, <2>2, DutyByActor DEF CheckOnline, hub, conn, actor
<1>5. CASE Return(c)
  <2>1. OthersKept(c)
    BY <1>0, <1>5 DEF Return, Step, OthersKept, TypeOK, hub, conn, actor
  <2>2. HandlerSound(c)'
    BY <1>0, <1>5 DEF Return, Step, HandlerSound, Idle, TypeOK, hub, conn, actor
  <2> QED
    BY <1>0, <1>5, <2>1, <2>2, DutyByActor DEF Return, hub, conn, actor
<1>6. CASE Typing(c)
  <2>1. OthersKept(c)
    BY <1>0, <1>6 DEF Typing, Step, OthersKept, TypeOK, hub, conn, actor
  <2>2. HandlerSound(c)'
    BY <1>0, <1>6 DEF Typing, Step, HandlerSound, Idle, TypeOK, hub, conn, actor, Reading
  <2> QED
    BY <1>0, <1>6, <2>1, <2>2, DutyByActor DEF Typing, hub, conn, actor
<1>7. CASE Pong(c)
  <2>1. OthersKept(c)
    BY <1>0, <1>7 DEF Pong, Step, OthersKept, TypeOK, hub, conn, actor
  <2>2. HandlerSound(c)'
    BY <1>0, <1>7 DEF Pong, Step, HandlerSound, Idle, TypeOK, hub, conn, actor, Reading
  <2> QED
    BY <1>0, <1>7, <2>1, <2>2, DutyByActor DEF Pong, hub, conn, actor
<1>8. CASE WriteFrame(c)
  <2>1. OthersKept(c)
    BY <1>0, <1>8 DEF WriteFrame, Step, OthersKept, TypeOK, hub, conn, actor
  <2>2. HandlerSound(c)'
    BY <1>0, <1>8 DEF WriteFrame, Step, HandlerSound, Idle, TypeOK, hub, conn, actor
  <2> QED
    BY <1>0, <1>8, <2>1, <2>2, DutyByActor DEF WriteFrame, hub, conn, actor
<1>9. CASE PumpEnds(c)
  <2>1. OthersKept(c)
    BY <1>0, <1>9 DEF PumpEnds, Step, OthersKept, TypeOK, hub, conn, actor
  <2>2. HandlerSound(c)'
    BY <1>0, <1>9 DEF PumpEnds, Step, HandlerSound, Idle, TypeOK, hub, conn, actor
  <2> QED
    BY <1>0, <1>9, <2>1, <2>2, DutyByActor DEF PumpEnds, hub, conn, actor
<1>10. CASE CloseOwn(c)
  <2>1. /\ handler[c] = "left" /\ handler' = [handler EXCEPT ![c] = "check"]
        /\ closing' = [closing EXCEPT ![c] = IF c \in closed THEN None ELSE c]
        /\ closing[c] = None
        /\ UNCHANGED <<registered, closed, lost, pump, readers, todo, panicked,
                       shutting, stop>>
    BY <1>0, <1>10 DEF CloseOwn, Step, HandlerSound, Idle, hub, conn
  <2>2. OthersKept(c)
    BY <1>0, <2>1 DEF OthersKept, TypeOK
  <2>3. HandlerSound(c)'
    BY <1>0, <2>1 DEF HandlerSound, TypeOK
  <2> QED
    BY <1>0, <2>1, <2>2, <2>3, DutyByActor
<1> QED
  BY <1>1, <1>2, <1>3, <1>4, <1>5, <1>6, <1>7, <1>8, <1>9, <1>10 DEF ReadFails

\* A publisher starts a broadcast.
LEMMA BroadcastDuty ==
  ASSUME DutyInv, Alive, RegistryInv', NEW p \in Publishers, Broadcast(p)
  PROVE  DutyInv'
<1>0. TypeOK /\ p \in Actors \ {Stopper} /\ p \notin Conns
  BY ActorsAssumption DEF DutyInv, RegistryInv, Actors
<1>1. OthersKept(p)
  BY <1>0 DEF Broadcast, OthersKept, TypeOK, conn
<1> QED
  BY <1>0, <1>1, DutyByActor DEF Broadcast, hub, conn

\* The stopper: its snapshot is the whole registry, and it waits for the
\* connections only when it has closed every one of them.
LEMMA StoppingDuty ==
  ASSUME DutyInv, Alive, RegistryInv', Stopping \/ Sending(Stopper)
  PROVE  DutyInv'
<1>0. /\ TypeOK /\ StopperSound /\ ShutdownIsComplete /\ Stopper \in Actors
      /\ Stopper \notin Conns
  BY ActorsAssumption DEF DutyInv, RegistryInv, Actors
<1>1. OthersKept(Stopper)
  BY <1>0 DEF Stopping, Shutdown, ShutdownClose, ShutdownDrain, ShutdownReturns,
              Sending, Send, CloseNow, OthersKept, TypeOK, hub, conn, actor
<1>2. closed \subseteq closed' /\ UNCHANGED lost
  BY DEF Stopping, Shutdown, ShutdownClose, ShutdownDrain, ShutdownReturns,
         Sending, Send, CloseNow, hub, conn, actor
<1>3. closing'[Stopper] = closing[Stopper] \/ closing[Stopper] = None
        \/ closing[Stopper] \in closed'
  BY DEF Stopping, Shutdown, ShutdownClose, ShutdownDrain, ShutdownReturns,
         Sending, Send, CloseNow, hub, conn, actor
<1>4. StopperSound' /\ ShutdownIsComplete'
  <2>1. CASE Shutdown
    BY <1>0, <2>1 DEF Shutdown, StopperSound, ShutdownIsComplete, TypeOK, conn
  <2>2. CASE ShutdownClose
    <3>1. PICK c \in todo[Stopper] :
            /\ closing[Stopper] = None
            /\ todo'[Stopper] = todo[Stopper] \ {c}
            /\ closing'[Stopper] = IF c \in closed THEN None ELSE c
            /\ UNCHANGED <<registered, shutting, closed, panicked, stop>>
      BY <1>0, <2>2 DEF ShutdownClose, TypeOK, hub, conn
    <3>2. ASSUME NEW d \in registered, stop # "run"
          PROVE  d \in closed \/ d \in todo'[Stopper] \/ closing'[Stopper] = d
      <4>1. d # None /\ (d \in closed \/ d \in todo[Stopper])
        BY <1>0, <3>1, <3>2, ActorsAssumption DEF StopperSound, TypeOK
      <4> QED
        BY <3>1, <4>1
    <3> QED
      BY <1>0, <3>1, <3>2 DEF StopperSound, ShutdownIsComplete
  <2>3. CASE ShutdownDrain
    <3>1. \A c \in registered : c \in closed
      BY <1>0, <2>3, ActorsAssumption
         DEF ShutdownDrain, StopperSound, Idle, Alive, TypeOK
    <3> QED
      BY <1>0, <2>3, <3>1 DEF ShutdownDrain, StopperSound, ShutdownIsComplete, hub,
                              conn, actor, Alive
  <2>4. CASE ShutdownReturns
    <3>1. total = 0 => registered = {}
      <4>1. total = Cardinality(registered) /\ IsFiniteSet(registered)
        BY SizesAssumption, FS_Subset
           DEF DutyInv, RegistryInv, HubCountIsExact, TypeOK
      <4> QED
        BY <4>1, FS_EmptySet
    <3> QED
      BY <1>0, <2>4, <3>1 DEF ShutdownReturns, StopperSound, ShutdownIsComplete, hub,
                              conn, actor, Alive
  <2>5. CASE CloseNow(Stopper)
    BY <1>0, <2>5 DEF CloseNow, StopperSound, ShutdownIsComplete, TypeOK, Alive, hub
  <2> QED
    BY <2>1, <2>2, <2>3, <2>4, <2>5 DEF Stopping, Sending, Send
<1>5. \A b \in Actors \ {Stopper} : closing'[b] = closing[b]
  BY <1>1 DEF OthersKept
<1>6. LossIsPursued'
  BY <1>0, <1>2, <1>3, <1>5, StillPursued
<1> QED
  BY <1>0, <1>1, <1>2, <1>4, <1>6, SoundByActor DEF DutyInv

\* The initial state satisfies the invariant,
LEMMA DutyStart == Init => DutyInv
<1> SUFFICES ASSUME Init PROVE DutyInv
  OBVIOUS
<1>1. RegistryInv
  BY RegistryStart
<1>2. LossIsPursued /\ StopperSound /\ ShutdownIsComplete
  BY DEF Init, LossIsPursued, StopperSound, ShutdownIsComplete
<1>3. ASSUME NEW c \in Conns PROVE HandlerSound(c)
  BY DEF Init, HandlerSound, Idle, Actors
<1> QED
  BY <1>1, <1>2, <1>3 DEF DutyInv

\* and every step preserves it.
LEMMA DutyNext == DutyInv /\ [Next]_vars => DutyInv'
<1> SUFFICES ASSUME DutyInv, [Next]_vars PROVE DutyInv'
  OBVIOUS
<1>1. RegistryInv'
  BY RegistryNext DEF DutyInv
<1>2. CASE UNCHANGED vars
  <2>1. UNCHANGED <<registered, shutting, readers, buf, closed, lost, pump, handler,
                    todo, closing, panicked, stop>>
    BY <1>2 DEF vars, hub, conn, actor
  <2>2. LossIsPursued' /\ StopperSound' /\ ShutdownIsComplete'
    BY <2>1 DEF DutyInv, LossIsPursued, StopperSound, ShutdownIsComplete, Alive
  <2>3. ASSUME NEW c \in Conns PROVE HandlerSound(c)'
    BY <2>1 DEF DutyInv, HandlerSound, Idle
  <2> QED
    BY <1>1, <2>2, <2>3 DEF DutyInv
<1>3. ASSUME Alive, NEW c \in Conns,
             Arrive(c) \/ Depart(c) \/ Typing(c) \/ Pong(c) \/ PeerLeaves(c)
               \/ WriteFrame(c) \/ PumpEnds(c)
      PROVE  DutyInv'
  BY <1>1, <1>3, RegisterDuty, PresenceDuty, HandlerDuty DEF Arrive, Depart
<1>4. ASSUME Alive, NEW a \in Actors, Sending(a) \/ Broadcasted(a)
      PROVE  DutyInv'
  <2>1. CASE a = Stopper
    <3>1. Stopper \notin readers
      BY DEF DutyInv, RegistryInv, TypeOK
    <3> QED
      BY <1>1, <1>4, <2>1, <3>1, StoppingDuty DEF Broadcasted
  <2>2. CASE a # Stopper
    BY <1>1, <1>4, <2>2, SendingDuty
  <2> QED
    BY <2>1, <2>2
<1>5. ASSUME Alive, Stopping \/ \E p \in Publishers : Broadcast(p)
      PROVE  DutyInv'
  BY <1>1, <1>5, StoppingDuty, BroadcastDuty
<1> QED
  BY <1>2, <1>3, <1>4, <1>5 DEF Next, Working

\* The inductive invariant of the gateway: every duty has a goroutine.
THEOREM DutiesAreKept == Spec => []DutyInv
<1> QED
  BY DutyStart, DutyNext, PTL DEF Spec

\* A connection that a frame was dropped for is closed, or somebody is about to
\* close it: Send loses nothing silently, however many goroutines send at once.
THEOREM LossesArePursued == Spec => []LossIsPursued
<1>1. DutyInv => LossIsPursued
  BY DEF DutyInv
<1> QED
  BY <1>1, DutiesAreKept, PTL

\* A handler gives back what it took: its place in the registry and its write
\* pump, unless a panic cuts it short, and the read lock of the Hub always.
THEOREM NothingLeaks == Spec => []NoLeak
<1>1. DutyInv => PlaceIsReturned
  BY DEF DutyInv, RegistryInv
<1>2. DutyInv => LockIsReleased /\ PumpIsTold
  BY DEF DutyInv, HandlerSound, LockIsReleased, PumpIsTold
<1> QED
  BY <1>1, <1>2, DutiesAreKept, PTL DEF NoLeak

\* The shutdown closes every connection before it waits, and reports success only
\* when none is registered, now and later.
THEOREM ShutdownsAreComplete == Spec => []ShutdownIsComplete
<1>1. DutyInv => ShutdownIsComplete
  BY DEF DutyInv
<1> QED
  BY <1>1, DutiesAreKept, PTL
=============================================================================
