------------------------------ MODULE Gateway ------------------------------
(***************************************************************************)
(* The realtime gateway of one process: the connection registry (Hub), the *)
(* connections with their send buffer and write pump, the handler that     *)
(* serves each WebSocket, the broadcasts of the event dispatcher and the   *)
(* graceful shutdown.  (Module Presence has the presence store.)           *)
(*                                                                         *)
(* An actor is a goroutine that calls Send or Close on connections: the    *)
(* handler of a connection, a publisher (an HTTP request in its            *)
(* EventBus.Publish), or the stopper (GracefulShutdown).  The RWMutex of   *)
(* the Hub is the set `readers` of actors inside a Broadcast; Register,    *)
(* Unregister and Shutdown are one step, taken when that set is empty.     *)
(***************************************************************************)
EXTENDS Integers, FiniteSets

CONSTANTS
  Conns,       \* WebSocket connections that may be opened, each once
  Users,
  Publishers,  \* HTTP requests that broadcast signals
  Stopper,     \* the goroutine that runs GracefulShutdown
  None,
  BufSize,     \* capacity of a connection's send buffer
  MaxTotal,    \* limit of connections, 0 = none
  MaxPerUser   \* limit of connections of a user, 0 = none

ASSUME ActorsAssumption == /\ Conns \cap Publishers = {}
                           /\ Stopper \notin Conns \cup Publishers
                           /\ None \notin Conns \cup Users
ASSUME SizesAssumption  == /\ IsFiniteSet(Conns)
                           /\ BufSize \in Nat \ {0}
                           /\ MaxTotal \in Nat /\ MaxPerUser \in Nat

VARIABLES
  registered,  \* the connections in the registry
  total,       \* Hub.total
  shutting,    \* Hub.shutting
  readers,     \* actors that hold the read lock of the Hub
  user,        \* the user of each connection
  buf,         \* frames in each send buffer
  closed,      \* connections whose `closed` channel is closed
  lost,        \* connections a frame was dropped for before they were closed
  socket,      \* connections whose TCP socket is open
  pump,        \* the write pump of each connection
  handler,     \* how far the handler of each connection is
  todo,        \* connections each actor still has to Send to (or to Close)
  closing,     \* the connection each actor is in Close of, not yet closed by it
  panicked,    \* actors that closed a closed channel
  stop         \* how far the shutdown is

hub   == <<registered, total, shutting>>
conn  == <<buf, closed, lost, socket, pump>>
actor == <<readers, todo, closing, panicked>>
vars  == <<hub, user, conn, handler, actor, stop>>

Actors == Conns \cup Publishers \cup {Stopper}
Idle(a) == todo[a] = {} /\ closing[a] = None
ConnsOf(us) == {c \in registered : user[c] \in us}

\* RWMutex: a goroutine that waits for Lock holds back new readers.
WriterWaits == \E c \in Conns : handler[c] = "leave"

HandlerStages == {"new", "auth", "greet", "serve", "leave", "left", "check",
                  "bye", "gone"}

Init ==
  /\ registered = {} /\ total = 0 /\ shutting = FALSE /\ readers = {}
  /\ user = [c \in Conns |-> None]
  /\ buf = [c \in Conns |-> 0]
  /\ closed = {} /\ lost = {} /\ socket = {}
  /\ pump = [c \in Conns |-> "off"]
  /\ handler = [c \in Conns |-> "new"]
  /\ todo = [a \in Actors |-> {}]
  /\ closing = [a \in Actors |-> None]
  /\ panicked = {}
  /\ stop = "run"

Step(c, from, to) ==
  handler[c] = from /\ handler' = [handler EXCEPT ![c] = to]

-----------------------------------------------------------------------------
(* Conn.Send and Conn.Close                                                *)

\* Mutation: the channel has no capacity.
EnqueueUnbounded(c) ==
  /\ buf[c] <= BufSize
  /\ buf' = [buf EXCEPT ![c] = @ + 1]
  /\ UNCHANGED <<lost, closing>>

\* The three ways a Send to c can end; a closed connection with room in its
\* buffer may take the frame or drop it (select chooses).
Enqueue(c) ==
  /\ buf[c] < BufSize
  /\ buf' = [buf EXCEPT ![c] = @ + 1]
  /\ UNCHANGED <<lost, closing>>

DropClosed(c) ==
  /\ c \in closed
  /\ UNCHANGED <<buf, lost, closing>>

\* Mutation: a full buffer drops the frame and keeps the connection.
OverflowSilently(a, c) ==
  /\ c \notin closed /\ buf[c] = BufSize
  /\ lost' = lost \cup {c}
  /\ UNCHANGED <<buf, closing>>

\* A full buffer: the frame is dropped and Close is called.
Overflow(a, c) ==
  /\ c \notin closed /\ buf[c] = BufSize
  /\ lost' = lost \cup {c}
  /\ closing' = [closing EXCEPT ![a] = c]
  /\ UNCHANGED buf

Send(a, c) ==
  /\ a # Stopper /\ c \in todo[a] /\ closing[a] = None
  /\ todo' = [todo EXCEPT ![a] = @ \ {c}]
  /\ Enqueue(c) \/ DropClosed(c) \/ Overflow(a, c)
  /\ UNCHANGED <<hub, user, closed, socket, pump, handler, readers, panicked,
                 stop>>

\* Mutation: the unlocks are not deferred.
CloseNowKeepsLock(a) ==
  /\ closing[a] # None
  /\ closing' = [closing EXCEPT ![a] = None]
  /\ \/ closed' = closed \cup {closing[a]} /\ UNCHANGED <<panicked, todo, handler>>
     \/ /\ closing[a] \in closed
        /\ panicked' = panicked \cup {a}
        /\ todo' = [todo EXCEPT ![a] = {}]
        /\ handler' = IF a \in Conns THEN [handler EXCEPT ![a] = "gone"]
                      ELSE handler
        /\ UNCHANGED closed
  /\ UNCHANGED <<hub, user, buf, lost, socket, pump, readers, stop>>

\* Close tests the channel and closes it.  If somebody else has closed it, the
\* test may have come after that, and Close returns, or before, and then close
\* panics.  The panic unwinds the goroutine: deferred calls release the read
\* lock, and the rest of a handler is skipped.
CloseNow(a) ==
  /\ closing[a] # None
  /\ closing' = [closing EXCEPT ![a] = None]
  /\ \/ /\ closed' = closed \cup {closing[a]}
        /\ UNCHANGED <<panicked, todo, readers, handler>>
     \/ /\ closing[a] \in closed
        /\ panicked' = panicked \cup {a}
        /\ todo' = [todo EXCEPT ![a] = {}]
        /\ readers' = readers \ {a}
        /\ handler' = IF a \in Conns THEN [handler EXCEPT ![a] = "gone"]
                      ELSE handler
        /\ UNCHANGED closed
  /\ UNCHANGED <<hub, user, buf, lost, socket, pump, stop>>

-----------------------------------------------------------------------------
(* Dispatcher: OnMessageCreated and OnReadUpdated broadcast to members.    *)

\* The members were looked up in the database: any set of users.
Broadcast(p) == \E us \in SUBSET Users :
  /\ Idle(p) /\ p \notin readers /\ ~ WriterWaits
  /\ readers' = readers \cup {p}
  /\ todo' = [todo EXCEPT ![p] = ConnsOf(us)]
  /\ UNCHANGED <<hub, user, conn, handler, closing, panicked, stop>>

\* A publisher, or a handler at `serve`, has sent to all of them.
Broadcasted(p) ==
  /\ Idle(p) /\ p \in readers
  /\ p \in Conns => handler[p] = "serve"
  /\ readers' = readers \ {p}
  /\ UNCHANGED <<hub, user, conn, handler, todo, closing, panicked, stop>>

-----------------------------------------------------------------------------
(* Gateway.Handle: registration, greeting, pumps, exit.                    *)

Admissible(u) ==
  /\ ~ shutting
  /\ MaxTotal > 0 => total < MaxTotal
  /\ MaxPerUser > 0 => Cardinality(ConnsOf({u})) < MaxPerUser

\* The ticket names the user; Hub.Register; then auth_ok is sent.  A refused
\* connection is shut.
Register(c) == \E u \in Users :
  /\ handler[c] = "new" /\ readers = {}
  /\ user' = [user EXCEPT ![c] = u]
  /\ IF Admissible(u)
       THEN /\ Step(c, "new", "auth")
            /\ registered' = registered \cup {c}
            /\ total' = total + 1
            /\ socket' = socket \cup {c}
            /\ todo' = [todo EXCEPT ![c] = {c}]
       ELSE /\ Step(c, "new", "gone")
            /\ UNCHANGED <<registered, total, socket, todo>>
  /\ UNCHANGED <<shutting, buf, closed, lost, pump, readers, closing, panicked,
                 stop>>

\* Presence.broadcast to the peers the database names, from a handler at
\* `from`; without peers (or when the lookup fails) nothing is sent.
PresenceCast(c, from, to) == \E us \in SUBSET (Users \ {user[c]}) :
  /\ Step(c, from, to) /\ Idle(c) /\ ~ WriterWaits
  /\ readers' = readers \cup {c}
  /\ todo' = [todo EXCEPT ![c] = ConnsOf(us)]
  /\ UNCHANGED <<hub, user, conn, closing, panicked, stop>>

Greet(c) == PresenceCast(c, "auth", "greet")

\* The write pump starts and the handler enters readPump.
Serve(c) ==
  /\ Step(c, "greet", "serve") /\ Idle(c)
  /\ readers' = readers \ {c}
  /\ pump' = [pump EXCEPT ![c] = "run"]
  /\ UNCHANGED <<hub, user, buf, closed, lost, socket, todo, closing, panicked,
                 stop>>

\* The handler waits for the next frame of its client.
Reading(c) == handler[c] = "serve" /\ Idle(c) /\ c \notin readers

\* A typing or read frame of the client is sent to the members of a
\* conversation (typing locks the Hub once per user: one step for each).
Typing(c) == \E us \in SUBSET Users :
  /\ Reading(c) /\ c \in socket /\ ~ WriterWaits
  /\ readers' = readers \cup {c}
  /\ todo' = [todo EXCEPT ![c] = ConnsOf(us)]
  /\ UNCHANGED <<hub, user, conn, handler, closing, panicked, stop>>

\* A ping frame of the client is answered through the send buffer.
Pong(c) ==
  /\ Reading(c) /\ c \in socket
  /\ todo' = [todo EXCEPT ![c] = {c}]
  /\ UNCHANGED <<hub, user, conn, handler, readers, closing, panicked, stop>>

\* The peer goes away, sends too large a frame or misses its pong deadline.
PeerLeaves(c) ==
  /\ Step(c, "serve", "leave") /\ Reading(c)
  /\ UNCHANGED <<hub, user, conn, actor, stop>>

\* The write pump has shut the socket: ReadMessage fails.
ReadFails(c) == c \notin socket /\ PeerLeaves(c)

\* Mutation: the check that the connection is registered counts backwards.
UnregisterTwice(c) ==
  /\ Step(c, "leave", "left") /\ readers = {}
  /\ registered' = registered \ {c}
  /\ total' = IF c \in closed THEN total - 2 ELSE total - 1
  /\ UNCHANGED <<shutting, user, conn, actor, stop>>

Unregister(c) ==
  /\ Step(c, "leave", "left") /\ readers = {}
  /\ registered' = registered \ {c}
  /\ total' = IF c \in registered THEN total - 1 ELSE total
  /\ UNCHANGED <<shutting, user, conn, actor, stop>>

\* Mutation: the handler leaves its connection open behind it.
CloseForgotten(c) ==
  /\ Step(c, "left", "check")
  /\ UNCHANGED <<hub, user, conn, actor, stop>>

CloseOwn(c) ==
  /\ Step(c, "left", "check")
  /\ closing' = [closing EXCEPT ![c] = IF c \in closed THEN None ELSE c]
  /\ UNCHANGED <<hub, user, conn, readers, todo, panicked, stop>>

\* OnDisconnect: the user may have other connections.
CheckOnline(c) ==
  /\ handler[c] = "check" /\ Idle(c)
  /\ IF ConnsOf({user[c]}) # {}
       THEN Step(c, "check", "gone")
       ELSE Step(c, "check", "bye")
  /\ UNCHANGED <<hub, user, conn, actor, stop>>

\* Offline is broadcast, and the handler returns.
Farewell(c) ==
  /\ c \notin readers
  /\ PresenceCast(c, "bye", "bye")

Return(c) ==
  /\ Step(c, "bye", "gone") /\ Idle(c) /\ c \in readers
  /\ readers' = readers \ {c}
  /\ UNCHANGED <<hub, user, conn, todo, closing, panicked, stop>>

-----------------------------------------------------------------------------
(* The goroutines beside a handler.                                        *)

\* writePump: a frame is written, or the write fails and the pump ends.
WriteFrame(c) ==
  /\ pump[c] = "run" /\ buf[c] > 0
  /\ buf' = [buf EXCEPT ![c] = @ - 1]
  /\ \/ UNCHANGED <<pump, socket>>
     \/ pump' = [pump EXCEPT ![c] = "ended"] /\ socket' = socket \ {c}
  /\ UNCHANGED <<hub, user, closed, lost, handler, actor, stop>>

\* writePump: the connection is closed (close frame) or a ping cannot be sent.
PumpEnds(c) ==
  /\ pump[c] = "run"
  /\ pump' = [pump EXCEPT ![c] = "ended"]
  /\ socket' = socket \ {c}
  /\ UNCHANGED <<hub, user, buf, closed, lost, handler, actor, stop>>

PumpSeesClosed(c) == c \in closed /\ PumpEnds(c)

-----------------------------------------------------------------------------
(* Hub.GracefulShutdown                                                    *)

\* Mutation: the snapshot is taken without setting the flag.
ShutdownUnmarked ==
  /\ stop = "run" /\ readers = {}
  /\ stop' = "closing"
  /\ todo' = [todo EXCEPT ![Stopper] = registered]
  /\ UNCHANGED <<hub, user, conn, handler, readers, closing, panicked>>

Shutdown ==
  /\ stop = "run" /\ readers = {}
  /\ stop' = "closing"
  /\ shutting' = TRUE
  /\ todo' = [todo EXCEPT ![Stopper] = registered]
  /\ UNCHANGED <<registered, total, user, conn, handler, readers, closing,
                 panicked>>

ShutdownClose == \E c \in todo[Stopper] :
  /\ closing[Stopper] = None
  /\ todo' = [todo EXCEPT ![Stopper] = @ \ {c}]
  /\ closing' = [closing EXCEPT ![Stopper] = IF c \in closed THEN None ELSE c]
  /\ UNCHANGED <<hub, user, conn, handler, readers, panicked, stop>>

ShutdownDrain ==
  /\ stop = "closing" /\ Idle(Stopper)
  /\ stop' = "drain"
  /\ UNCHANGED <<hub, user, conn, handler, actor>>

\* All connections are gone, or the context of the shutdown expires.
ShutdownReturns ==
  /\ stop = "drain"
  /\ stop' = IF total = 0 THEN "drained" ELSE "timedout"
  /\ UNCHANGED <<hub, user, conn, handler, actor>>

-----------------------------------------------------------------------------
Arrive(c) == Register(c) \/ Greet(c) \/ Serve(c)
Depart(c) == ReadFails(c) \/ Unregister(c) \/ CloseOwn(c) \/ CheckOnline(c)
               \/ Farewell(c) \/ Return(c)
Sending(a) == CloseNow(a) \/ \E c \in Conns : Send(a, c)
Stopping   == Shutdown \/ ShutdownClose \/ ShutdownDrain \/ ShutdownReturns

Working ==
  \/ \E c \in Conns : Arrive(c) \/ Depart(c) \/ Typing(c) \/ Pong(c)
                        \/ PeerLeaves(c) \/ WriteFrame(c) \/ PumpEnds(c)
  \/ \E a \in Actors : Sending(a) \/ Broadcasted(a)
  \/ \E p \in Publishers : Broadcast(p)
  \/ Stopping

\* A panic of the stopper, which no middleware recovers, ends the process.
Alive == Stopper \notin panicked

Next == Alive /\ Working

Spec == Init /\ [][Next]_vars

\* Goroutines keep running.
Fairness ==
  /\ \A c \in Conns :
       /\ WF_vars(Alive /\ Unregister(c))
       /\ WF_vars(Alive /\ (Greet(c) \/ Serve(c) \/ ReadFails(c) \/ CloseOwn(c)
                             \/ CheckOnline(c) \/ Farewell(c) \/ Return(c)))
       /\ WF_vars(Alive /\ PumpSeesClosed(c))
  /\ \A a \in Actors : /\ WF_vars(Alive /\ Sending(a))
                        /\ WF_vars(Alive /\ Broadcasted(a))
  /\ WF_vars(Alive /\ (ShutdownClose \/ ShutdownDrain))

FairSpec == Spec /\ Fairness
-----------------------------------------------------------------------------
(* Properties.                                                             *)

\* Every variable holds values of its type; no buffer exceeds its capacity.
TypeOK ==
  /\ registered \subseteq Conns /\ total \in Int /\ shutting \in BOOLEAN
  /\ user \in [Conns -> Users \cup {None}]
  /\ buf \in [Conns -> 0..BufSize]
  /\ closed \subseteq Conns /\ lost \subseteq Conns /\ socket \subseteq Conns
  /\ pump \in [Conns -> {"off", "run", "ended"}]
  /\ handler \in [Conns -> HandlerStages]
  /\ readers \subseteq Actors \ {Stopper} /\ panicked \subseteq Actors
  /\ todo \in [Actors -> SUBSET Conns]
  /\ closing \in [Actors -> Conns \cup {None}]
  /\ stop \in {"run", "closing", "drain", "drained", "timedout"}

\* The counter that Register and Unregister keep beside the map is the size of
\* the map, and neither limit is exceeded however connections come and go.
HubCountIsExact ==
  /\ total = Cardinality(registered)
  /\ MaxTotal > 0 => total <= MaxTotal
  /\ MaxPerUser > 0 => \A u \in Users : Cardinality(ConnsOf({u})) <= MaxPerUser

\* The parts of NoLeak.  A connection whose handler is over is not in the
\* registry, except when the handler was cut short by a panic.
PlaceIsReturned ==
  \A c \in registered : c \in panicked
    \/ handler[c] \in {"auth", "greet", "serve", "leave"}

\* A handler holds the read lock of the Hub only while it is in a broadcast that
\* it will end: not when it waits for the write lock itself, nor after a panic.
LockIsReleased ==
  \A c \in Conns : c \in readers => handler[c] \in {"greet", "serve", "bye"}

\* A handler that returns has told its write pump.
PumpIsTold ==
  \A c \in Conns : pump[c] = "run" /\ handler[c] = "gone"
                    => c \in closed \/ c \in panicked

\* Whatever a handler takes it gives back, in whatever way its connection ends
\* and whoever else closes it: its place in the registry, the read lock of the
\* Hub (or no connection could register or leave again), its write pump.
NoLeak == PlaceIsReturned /\ LockIsReleased /\ PumpIsTold

\* Send never drops a frame silently: whoever dropped one is about to close the
\* connection until it is closed, also when that goroutine is meanwhile on its
\* way to another connection, is overtaken, or panics.
LossIsPursued ==
  \A c \in lost : c \in closed \/ \E a \in Actors : closing[a] = c

\* A client that missed a frame is disconnected, so that it reconnects and
\* pulls what it missed.
LossDisconnects ==
  \A c \in Conns : c \in lost ~> c \notin socket \/ c \in panicked
                                 \/ Stopper \in panicked

\* No goroutine stays behind: the write pump ends after its handler.  (After a
\* panic of the handler it may go on until its socket breaks.)
PumpsEnd ==
  \A c \in Conns : pump[c] = "run" /\ handler[c] = "gone"
                    ~> pump[c] = "ended" \/ {c, Stopper} \cap panicked # {}

\* When the shutdown waits for the connections to leave, it has closed every one
\* of them, those too that registered while it began; and when it reports that
\* they have left, no connection is or will be registered.
ShutdownIsComplete ==
  /\ stop \in {"drain", "drained", "timedout"} => registered \subseteq closed
  /\ stop = "drained" => registered = {}

\* The shutdown drains: once the snapshot is closed, connections leave and no
\* new one takes their place.
ShutdownDrains == stop = "drain" ~> registered = {} \/ panicked # {}

(* Statements of the repository that concurrent goroutines break.          *)

\* "Close closes the connection (idempotent)": two goroutines may call it.
CloseIsIdempotent == panicked = {}
=============================================================================
