------------------------------ MODULE Presence ------------------------------
(***************************************************************************)
(* Who is online: the presence store, a key with a TTL per user in Redis   *)
(* or a set in memory, written by the handlers of the WebSocket            *)
(* connections and by the goroutine that refreshes the key while a         *)
(* connection lives.  Time passes, keys run out, and any write to Redis    *)
(* may fail.  Connections here come and go and a panic may cut a handler   *)
(* short; module Gateway models what happens inside one, the frames that   *)
(* tell the peers, and why a handler may panic.                            *)
(***************************************************************************)
EXTENDS Integers, FiniteSets

CONSTANTS
  Conns,      \* connections that may be opened, each once
  Users,
  TTL,        \* lifetime of a key, in units of time
  Floor,      \* the refresh interval is never below it: 5 s
  None

ASSUME NoneAssumption == None \notin Users
ASSUME TimeAssumption == TTL \in Nat \ {0} /\ Floor \in Nat \ {0}

\* Half the TTL, but never below the floor, and so not always below the TTL.
Interval == IF TTL \div 2 >= Floor THEN TTL \div 2 ELSE Floor

VARIABLES
  redis,       \* the store is Redis, else a map of the process
  registered,  \* connections in the Hub
  user,        \* the user of each connection
  handler,     \* how far the handler of each connection is
  refresher,   \* the goroutine that refreshes the key, by connection
  due,         \* time until the ticker of the refresher fires
  life,        \* how long the key of each user lives on; in the map, for ever
  missed       \* history: the last write of a connection failed, or it is late

presenceVars ==
  <<redis, registered, user, handler, refresher, due, life, missed>>

Stages == {"new", "registered", "marked", "serve", "closed", "left",
           "offline", "gone", "panicked"}
ConnsOf(u) == {c \in registered : user[c] = u}
Online == {u \in Users : life[u] > 0}

PresenceInit ==
  /\ redis \in BOOLEAN
  /\ registered = {}
  /\ user = [c \in Conns |-> None]
  /\ handler = [c \in Conns |-> "new"]
  /\ refresher = [c \in Conns |-> "off"]
  /\ due = [c \in Conns |-> 0]
  /\ life = [u \in Users |-> 0]
  /\ missed = [c \in Conns |-> FALSE]

Step(c, from, to) ==
  handler[c] = from /\ handler' = [handler EXCEPT ![c] = to]

\* A write to the store for connection c, with Redis after an error of which the
\* key stays what it was: the caller logs the error and goes on.
Write(c, lifetime) ==
  \/ /\ life' = [life EXCEPT ![user[c]] = lifetime]
     /\ missed' = [missed EXCEPT ![c] = FALSE]
  \/ /\ redis
     /\ missed' = [missed EXCEPT ![c] = TRUE]
     /\ UNCHANGED life

-----------------------------------------------------------------------------
(* Gateway.Handle, Presence.OnConnect and Presence.OnDisconnect            *)

Open(c) == \E u \in Users :
  /\ Step(c, "new", "registered")
  /\ user' = [user EXCEPT ![c] = u]
  /\ registered' = registered \cup {c}
  /\ UNCHANGED <<redis, refresher, due, life, missed>>

MarkOnline(c) ==
  /\ Step(c, "registered", "marked")
  /\ Write(c, TTL)
  /\ UNCHANGED <<redis, registered, user, refresher, due>>

\* Mutation: only the first connection of a user gets a refresher.
ServeUnrefreshed(c) ==
  /\ Step(c, "marked", "serve")
  /\ IF redis /\ ConnsOf(user[c]) = {c}
       THEN /\ refresher' = [refresher EXCEPT ![c] = "wait"]
            /\ due' = [due EXCEPT ![c] = Interval]
       ELSE UNCHANGED <<refresher, due>>
  /\ UNCHANGED <<redis, registered, user, life, missed>>

\* The peers have been told, or could not be looked up; the refresher starts
\* (the map has no TTL: there its Refresh does nothing) and readPump begins.
Serve(c) ==
  /\ Step(c, "marked", "serve")
  /\ IF redis
       THEN /\ refresher' = [refresher EXCEPT ![c] = "wait"]
            /\ due' = [due EXCEPT ![c] = Interval]
       ELSE UNCHANGED <<refresher, due>>
  /\ UNCHANGED <<redis, registered, user, life, missed>>

\* The connection is closed under its handler: an overflow, a broken socket.
Close(c) ==
  /\ Step(c, "serve", "closed")
  /\ UNCHANGED <<redis, registered, user, refresher, due, life, missed>>

\* Mutation: the connection is unregistered after OnDisconnect.
LeaveRegistered(c) ==
  /\ Step(c, "serve", "left") \/ Step(c, "closed", "left")
  /\ UNCHANGED <<redis, registered, user, refresher, due, life, missed>>

\* readPump returns and the connection is unregistered (and closed, if it was
\* the peer that left).
Leave(c) ==
  /\ Step(c, "serve", "left") \/ Step(c, "closed", "left")
  /\ registered' = registered \ {c}
  /\ UNCHANGED <<redis, user, refresher, due, life, missed>>

\* OnDisconnect asks the Hub once; what it does next comes later.
CheckOnline(c) ==
  /\ Step(c, "left", IF ConnsOf(user[c]) # {} THEN "gone" ELSE "offline")
  /\ UNCHANGED <<redis, registered, user, refresher, due, life, missed>>

\* The key is deleted (and the peers are told: nothing here follows from it).
MarkOffline(c) ==
  /\ Step(c, "offline", "gone")
  /\ Write(c, 0)
  /\ UNCHANGED <<redis, registered, user, refresher, due>>

\* A Send or a Close of the handler closes a channel that is closed already.
\* The middleware recovers, and whatever the handler still had to do is left
\* undone: nothing of it is deferred.
Panic(c) ==
  /\ handler[c] \in {"registered", "marked", "serve", "closed", "left"}
  /\ handler' = [handler EXCEPT ![c] = "panicked"]
  /\ UNCHANGED <<redis, registered, user, refresher, due, life, missed>>

-----------------------------------------------------------------------------
(* refreshPresence and the TTL of the key                                  *)

\* The ticker fires (select may prefer it to a closed connection); the write
\* to the store comes later.  The ticker keeps its rhythm: the sooner it fires
\* again the longer the refresher was busy.
RefreshTick(c) ==
  /\ refresher[c] = "wait" /\ due[c] = 0
  /\ refresher' = [refresher EXCEPT ![c] = "write"]
  /\ \E t \in 1..Interval : due' = [due EXCEPT ![c] = t]
  /\ UNCHANGED <<redis, registered, user, handler, life, missed>>

\* Mutation: only a key that still exists is extended (EXPIRE, not SET).
RefreshWriteExisting(c) ==
  /\ refresher[c] = "write"
  /\ refresher' = [refresher EXCEPT ![c] = "wait"]
  /\ Write(c, IF life[user[c]] > 0 THEN TTL ELSE 0)
  /\ UNCHANGED <<redis, registered, user, handler, due>>

\* SET with the full TTL; after an error the refresher waits for the next tick.
RefreshWrite(c) ==
  /\ refresher[c] = "write"
  /\ refresher' = [refresher EXCEPT ![c] = "wait"]
  /\ Write(c, TTL)
  /\ UNCHANGED <<redis, registered, user, handler, due>>

\* The connection is closed, or the context of its handler is done.
RefreshEnds(c) ==
  /\ refresher[c] = "wait"
  /\ c \notin registered \/ handler[c] \in {"closed", "panicked"}
  /\ refresher' = [refresher EXCEPT ![c] = "off"]
  /\ due' = [due EXCEPT ![c] = 0] /\ missed' = [missed EXCEPT ![c] = FALSE]
  /\ UNCHANGED <<redis, registered, user, handler, life>>

\* Connection c has marked its user online and has yet to start its refresher,
\* or the refresher is behind its ticker.
Late(c) == \/ handler[c] = "marked" \/ refresher[c] = "write"
           \/ refresher[c] = "wait" /\ due[c] = 0

\* A unit of time passes: keys live shorter and may disappear, tickers run,
\* and who should have worked meanwhile is late.
Elapse ==
  /\ redis
  /\ life' = [u \in Users |-> IF life[u] = 0 THEN 0 ELSE life[u] - 1]
  /\ due' = [c \in Conns |-> IF due[c] = 0 THEN 0 ELSE due[c] - 1]
  /\ missed' = [c \in Conns |-> missed[c] \/ Late(c)]
  /\ UNCHANGED <<redis, registered, user, handler, refresher>>

\* The process stops and starts again: the keys survive it, the map does not.
Crash ==
  /\ registered' = {}
  /\ handler' = [c \in Conns |-> IF handler[c] = "new" THEN "new" ELSE "gone"]
  /\ refresher' = [c \in Conns |-> "off"]
  /\ due' = [c \in Conns |-> 0] /\ missed' = [c \in Conns |-> FALSE]
  /\ life' = IF redis THEN life ELSE [u \in Users |-> 0]
  /\ UNCHANGED <<redis, user>>

-----------------------------------------------------------------------------
OnConnect(c)    == MarkOnline(c) \/ Serve(c)
OnDisconnect(c) == CheckOnline(c) \/ MarkOffline(c)
Refresh(c)      == RefreshTick(c) \/ RefreshWrite(c)

PresenceNext ==
  \/ \E c \in Conns : Open(c) \/ OnConnect(c) \/ Close(c) \/ Leave(c)
                        \/ OnDisconnect(c) \/ Panic(c)
                        \/ Refresh(c) \/ RefreshEnds(c)
  \/ Elapse
  \/ Crash

PresenceSpec == PresenceInit /\ [][PresenceNext]_presenceVars

\* Goroutines keep running, time passes; select finally takes the closed
\* connection although its ticker is ready too.  No write has to succeed.
PresenceFairness ==
  /\ \A c \in Conns :
       /\ WF_presenceVars(handler[c] = "closed" /\ Leave(c))
       /\ WF_presenceVars(OnConnect(c)) /\ WF_presenceVars(OnDisconnect(c))
       /\ WF_presenceVars(Refresh(c)) /\ SF_presenceVars(RefreshEnds(c))
  /\ WF_presenceVars(Elapse)

FairPresenceSpec == PresenceSpec /\ PresenceFairness
-----------------------------------------------------------------------------
(* Properties.                                                             *)

\* Every variable holds values of its type; no key outlives the TTL.
PresenceTypeOK ==
  /\ redis \in BOOLEAN
  /\ registered \subseteq Conns
  /\ user \in [Conns -> Users \cup {None}]
  /\ handler \in [Conns -> Stages]
  /\ refresher \in [Conns -> {"off", "wait", "write"}]
  /\ due \in [Conns -> 0..Interval]
  /\ life \in [Users -> 0..TTL]
  /\ missed \in [Conns -> BOOLEAN]

\* A connection of u is served, and one of them did its last write in time.
Served(u) == \E c \in registered : user[c] = u /\ handler[c] = "serve"
Kept(u)   == \E c \in registered :
               user[c] = u /\ handler[c] = "serve" /\ ~ missed[c]

\* While one connection of a user is served and its last write neither failed nor
\* is late, the key does not run out, however the connections of the user come
\* and go, unless the TTL is so short that the refresh interval is not below it:
\* the user goes offline only by the decision of another connection's handler,
\* which found the user without connections before.
ServedStaysOnline ==
  [][\A u \in Online \ Online' : Interval < TTL /\ Kept(u)' =>
       \E c \in Conns : user[c] = u /\ Step(c, "offline", "gone")]_presenceVars

\* The handlers that will still look whether their user is to go offline.
Tending == {"registered", "marked", "serve", "closed", "left", "offline"}

\* The map of the process has no TTL, so that nobody but a handler takes a user
\* off it: for every user who is online there is one that will still ask,
\* however the connections of the user overlap, or one that a panic cut short.
MemoryIsTended ==
  ~ redis => \A u \in Online : \E c \in Conns :
                   user[c] = u /\ handler[c] \in Tending \cup {"panicked"}

\* With Redis the store ends up with the truth, whatever order connections,
\* disconnections, refreshes and crashes take.  A user who stays connected ends
\* up online if from some time on a connection of the user has its refreshes
\* succeed in time and the TTL is above the refresh interval; a user who stays
\* away ends up offline, whichever writes fail.
PresenceConverges ==
  redis => \A u \in Users :
    /\ Interval < TTL /\ <>[]Kept(u) => <>[](u \in Online)
    /\ <>[](~ Served(u)) => <>[](u \notin Online)
=============================================================================
