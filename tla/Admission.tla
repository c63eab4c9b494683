----------------------------- MODULE Admission -----------------------------
(***************************************************************************)
(* How a device of one user gets a WebSocket connection.  An access token  *)
(* authenticates POST /ws/ticket and POST /auth/logout; the ticket that    *)
(* the first returns is presented to GET /ws, once, behind the limiter of  *)
(* handshakes.  A logout puts the token on the blacklist of Redis until it *)
(* expires.  The middleware, the blacklist and the ticket store are asked  *)
(* one after the other, by requests that overlap, while Redis may fail and *)
(* the process may restart.                                                *)
(***************************************************************************)
EXTENDS Limiter, FiniteSets

CONSTANTS
  Requests,   \* one asks for a ticket, logs out, or connects
  Tokens,     \* access tokens of the user, by jti
  AccessTTL,  \* lifetime of an access token
  Skew,       \* leeway of its verification
  TicketTTL,  \* lifetime of a ticket
  None

ASSUME AdmissionAssumption ==
  /\ AccessTTL \in Nat \ {0} /\ TicketTTL \in Nat \ {0} /\ Skew \in Nat
  /\ None \notin Requests \cup Tokens

VARIABLES
  redis,      \* whether Redis is configured
  expires,    \* when each access token expires; 0: not issued yet
  blacklist,  \* until when Redis holds the jti of each token
  tickets,    \* until when each stored ticket is good; a ticket has the name of
              \* the request that issued it
  step,       \* how far each request is
  ask,        \* what it asks for, and with which token or ticket
  born,       \* history: when each ticket was issued
  loggedOut,  \* history: tokens whose logout has been answered with success
  ended,      \* history: those of them that were logged out when a request began
  passed      \* history: how a request passed the authentication

requestVars   == <<step, ask, ended, passed>>
config        == <<redis, expires>>
storeVars     == <<config, blacklist, tickets, born, loggedOut>>
admissionVars == <<limiterVars, requestVars, storeVars>>

Nothing   == [op |-> "none", with |-> None]
NoTickets == [t \in {} |-> 0]
Stored    == DOMAIN tickets
Without(t) == [u \in Stored \ {t} |-> tickets[u]]

AdmissionInit ==
  /\ LimiterInit
  /\ redis \in BOOLEAN
  /\ expires = [t \in Tokens |-> 0]
  /\ blacklist = [t \in Tokens |-> 0]
  /\ tickets = NoTickets
  /\ step = [r \in Requests |-> "idle"]
  /\ ask = [r \in Requests |-> Nothing]
  /\ born = [r \in Requests |-> 0]
  /\ loggedOut = {}
  /\ ended = [r \in Requests |-> {}]
  /\ passed = [r \in Requests |-> "no"]

GoTo(r, stage) == step' = [step EXCEPT ![r] = stage]

\* Login or Refresh.
IssueAccessToken(t) ==
  /\ expires[t] = 0
  /\ expires' = [expires EXCEPT ![t] = now + AccessTTL]
  /\ UNCHANGED <<limiterVars, requestVars, redis, blacklist, tickets, born,
                 loggedOut>>

-----------------------------------------------------------------------------
(* The middleware in front of POST /ws/ticket and POST /auth/logout        *)

\* ParseToken: signed by the server and not expired, give or take Skew.
Begin(r) == \E op \in {"ticket", "logout"}, t \in Tokens :
  /\ step[r] = "idle"
  /\ expires[t] # 0
  /\ ask' = [ask EXCEPT ![r] = [op |-> op, with |-> t]]
  /\ ended' = [ended EXCEPT ![r] = loggedOut]
  /\ GoTo(r, IF now < expires[t] + Skew THEN "parsed" ELSE "refused")
  /\ UNCHANGED <<limiterVars, storeVars, passed>>

Revoked(t) == redis /\ now < blacklist[t]

\* IsRevoked: a blacklist that is not there, or cannot be read, revokes nothing.
CheckRevoked(r) ==
  /\ step[r] = "parsed"
  /\ \/ /\ ~ Revoked(ask[r].with)
        /\ passed' = [passed EXCEPT ![r] =
                        IF now < expires[ask[r].with] THEN "clean" ELSE "leeway"]
        /\ GoTo(r, "passed")
     \/ /\ Revoked(ask[r].with)
        /\ GoTo(r, "refused")
        /\ UNCHANGED passed
     \/ /\ redis
        /\ passed' = [passed EXCEPT ![r] = "open"]
        /\ GoTo(r, "passed")
  /\ UNCHANGED <<limiterVars, storeVars, ask, ended>>

-----------------------------------------------------------------------------
(* POST /ws/ticket and POST /auth/logout                                   *)

StoreTicket(r) ==
  tickets' = [t \in Stored \cup {r} |-> IF t = r THEN now + TicketTTL
                                        ELSE tickets[t]]

\* Issue: a ticket under a fresh random name.
Issue(r) ==
  /\ step[r] = "passed" /\ ask[r].op = "ticket"
  /\ StoreTicket(r)
  /\ born' = [born EXCEPT ![r] = now]
  /\ GoTo(r, "done")
  /\ UNCHANGED <<limiterVars, ask, ended, passed, config, blacklist, loggedOut>>

\* Mutation: the answer does not wait for the entry to be written.
LogoutHasty(r) ==
  /\ step[r] = "passed" /\ ask[r].op = "logout"
  /\ blacklist' \in {blacklist,
                     [blacklist EXCEPT ![ask[r].with] = expires[ask[r].with]]}
  /\ loggedOut' = loggedOut \cup {ask[r].with}
  /\ GoTo(r, "done")
  /\ UNCHANGED <<limiterVars, ask, ended, passed, config, tickets, born>>

\* Revoke: the entry is kept for the rest of the lifetime of the token, if there
\* is any; without Redis there is no entry.
Logout(r) ==
  /\ step[r] = "passed" /\ ask[r].op = "logout"
  /\ blacklist' = IF redis /\ now < expires[ask[r].with]
                    THEN [blacklist EXCEPT ![ask[r].with] = expires[ask[r].with]]
                    ELSE blacklist
  /\ loggedOut' = loggedOut \cup {ask[r].with}
  /\ GoTo(r, "done")
  /\ UNCHANGED <<limiterVars, ask, ended, passed, config, tickets, born>>

\* Redis does not answer, or the request is cancelled: it ends with an error.  A
\* ticket whose GETDEL is not answered may be gone.
Fail(r) ==
  /\ step[r] \in {"parsed", "passed", "admitted"}
  /\ GoTo(r, "refused")
  /\ \/ UNCHANGED tickets
     \/ step[r] = "admitted" /\ redis /\ tickets' = Without(ask[r].with)
  /\ UNCHANGED <<limiterVars, ask, ended, passed, config, blacklist, born,
                 loggedOut>>

-----------------------------------------------------------------------------
(* GET /ws                                                                 *)

\* Any request, with a ticket that was handed out or with none, meets the
\* limiter first.  A refused one may be repeated.
Handshake(r, k) ==
  /\ step[r] = "idle" \/ (ask[r].op = "connect" /\ step[r] = "refused")
  /\ \E t \in {q \in Requests : step[q] = "done" /\ ask[q].op = "ticket"} :
       ask' = [ask EXCEPT ![r] = [op |-> "connect", with |-> t]]
  /\ \/ Allow(k) /\ GoTo(r, "admitted")
     \/ Refuse(k) /\ GoTo(r, "refused")
  /\ UNCHANGED <<ended, passed, storeVars>>

\* A handshake with a ticket nobody issued.
Stranger(k) ==
  /\ Allow(k) \/ Refuse(k)
  /\ UNCHANGED <<requestVars, storeVars>>

Good(t) == t \in Stored /\ (IF redis THEN now < tickets[t]
                                         ELSE now <= tickets[t])

\* Mutation: the ticket is read now and deleted later, if at all.
ConsumeLater(r) ==
  /\ step[r] = "admitted"
  /\ GoTo(r, IF Good(ask[r].with) THEN "connected" ELSE "refused")
  /\ tickets' \in {tickets, Without(ask[r].with)}
  /\ UNCHANGED <<limiterVars, ask, ended, passed, config, blacklist, born,
                 loggedOut>>

\* Mutation: the key is written without its TTL.
ConsumeStale(r) ==
  /\ step[r] = "admitted"
  /\ GoTo(r, IF ask[r].with \in Stored THEN "connected" ELSE "refused")
  /\ tickets' = Without(ask[r].with)
  /\ UNCHANGED <<limiterVars, ask, ended, passed, config, blacklist, born,
                 loggedOut>>

\* Consume: GETDEL, or a lookup and a delete under the mutex.  From here on the
\* connection is that of module Gateway.
Consume(r) ==
  /\ step[r] = "admitted"
  /\ GoTo(r, IF Good(ask[r].with) THEN "connected" ELSE "refused")
  /\ tickets' = Without(ask[r].with)
  /\ UNCHANGED <<limiterVars, ask, ended, passed, config, blacklist, born,
                 loggedOut>>

-----------------------------------------------------------------------------
(* The process and the clock                                               *)

\* Requests under way fail, connections break, the limiter forgets its buckets;
\* tickets survive in Redis only.  The count of excess starts anew.
Restart ==
  /\ visitors' = [k \in {} |-> [tokens |-> Burst, lastSeen |-> 0]]
  /\ lastCleanup' = now - IdleTTL
  /\ excess' = [k \in Keys |-> 0]
  /\ tickets' = IF redis THEN tickets ELSE NoTickets
  /\ step' = [r \in Requests |->
                IF step[r] \in {"parsed", "passed", "admitted"} THEN "refused"
                ELSE step[r]]
  /\ UNCHANGED <<now, ask, ended, passed, config, blacklist, born, loggedOut>>

Time == Tick /\ UNCHANGED <<requestVars, storeVars>>

AdmissionNext ==
  \/ \E t \in Tokens : IssueAccessToken(t)
  \/ \E r \in Requests : \/ Begin(r) \/ CheckRevoked(r) \/ Issue(r) \/ Logout(r)
                         \/ Fail(r) \/ Consume(r)
                         \/ \E k \in Keys : Handshake(r, k)
  \/ \E k \in Keys : Stranger(k)
  \/ Restart
  \/ Time

AdmissionSpec == AdmissionInit /\ [][AdmissionNext]_admissionVars
-----------------------------------------------------------------------------
(* Properties.                                                             *)

\* A ticket opens one connection, whoever presents it, how often and at the same
\* time, and also when the process restarts in between.
TicketIsOneTime ==
  \A q, r \in Requests : step[q] = "connected" /\ step[r] = "connected"
                           /\ ask[q].with = ask[r].with => q = r

\* A connection is opened within the lifetime of its ticket.
TicketIsFresh ==
  [][\A r \in Requests : step[r] # "connected" /\ step'[r] = "connected" =>
       now <= born[ask[r].with] + TicketTTL]_admissionVars

\* "Rejects the access token for the rest of its lifetime": a request that began
\* after a successful logout of its token only passes when Redis cannot be read
\* or the token has expired (the leeway of ParseToken outlives the entry).
LogoutHolds ==
  redis => \A r \in Requests :
    passed[r] = "clean" => ask[r].with \notin ended[r]
=============================================================================
