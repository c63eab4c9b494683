--------------------------- MODULE AdmissionProofs ---------------------------
(***************************************************************************)
(* What Limiter and Admission promise, for any number of keys, requests    *)
(* and tokens, any rates and lifetimes, and without a last tick in view.   *)
(***************************************************************************)
EXTENDS Admission, TLAPS

(* The buckets: excess and content together never exceed Burst.            *)

\* More time refills more.
LEMMA Monotonic ==
  ASSUME NEW m \in Nat, NEW n \in Nat, m <= n
  PROVE  Rate * m \in Nat /\ Rate * m <= Rate * n
<1>1. Rate \in Nat
  BY LimiterAssumption
<1> QED
  BY <1>1

\* A known bucket holds between nothing and Burst, and when it is idle it is full.
LEMMA LevelRange ==
  ASSUME LimiterInv, NEW k \in Known
  PROVE  /\ Level(k) \in 0..Burst
         /\ Idle(k) => Level(k) = Burst
<1>1. /\ visitors[k].tokens \in 0..Burst /\ visitors[k].lastSeen \in 0..now
      /\ now \in Nat /\ Burst \in Nat /\ Rate \in Nat /\ IdleTTL \in Nat
      /\ Rate * IdleTTL >= Burst
  BY LimiterAssumption DEF LimiterInv, LimiterTypeOK
<1> DEFINE t == now - visitors[k].lastSeen
<1>2. t \in Nat
  BY <1>1
<1> HIDE DEF t
<1>3. Rate * t \in Nat /\ (t > IdleTTL => Rate * IdleTTL <= Rate * t)
  BY <1>1, <1>2, Monotonic
<1>4. Level(k) = Least(Burst, visitors[k].tokens + Rate * t)
  BY DEF Level, t
<1>5. Idle(k) <=> t > IdleTTL
  BY DEF Idle, t
<1>6. Rate * IdleTTL \in Nat
  BY <1>1
<1> QED
  BY <1>1, <1>3, <1>4, <1>5, <1>6 DEF Least

\* What a visit meets leaves room for what was let through before it.
LEMMA RefilledRange ==
  ASSUME LimiterInv, NEW k \in Keys
  PROVE  Refilled(k) \in 0..Burst /\ excess[k] + Refilled(k) <= Burst
<1>1. Burst \in Nat /\ excess[k] \in Nat
  BY LimiterAssumption DEF LimiterInv, LimiterTypeOK
<1>2. CASE k \in Kept
  <2>1. k \in Known /\ Refilled(k) = Level(k)
    BY <1>2 DEF Kept, Refilled, Level
  <2> QED
    BY <2>1, LevelRange DEF LimiterInv
<1>3. CASE k \notin Kept
  <2>1. Refilled(k) = Burst
    BY <1>3 DEF Refilled
  <2>2. excess[k] = 0
    <3>1. CASE k \in Known
      <4>1. Idle(k)
        BY <1>3, <3>1 DEF Kept
      <4>2. Level(k) = Burst /\ excess[k] + Level(k) <= Burst
        BY <3>1, <4>1, LevelRange DEF LimiterInv
      <4> QED
        BY <1>1, <4>2
    <3> QED
      BY <3>1 DEF LimiterInv
  <2> QED
    BY <1>1, <2>1, <2>2
<1> QED
  BY <1>2, <1>3

\* A visit that leaves n in the bucket of k, and accounts for e let through.
LEMMA Visit ==
  ASSUME LimiterInv, NEW k \in Keys, NEW n \in 0..Burst, NEW e \in Nat,
         e + n <= Burst, Put(k, n), lastCleanup' = CleanedAt, UNCHANGED now,
         excess' = [excess EXCEPT ![k] = e]
  PROVE  LimiterInv'
<1> USE DEF LimiterInv
<1>1. /\ Burst \in Nat /\ Rate \in Nat /\ now \in Nat /\ IdleTTL \in Nat
      /\ excess \in [Keys -> Nat] /\ Known \subseteq Keys
      /\ lastCleanup \in Int /\ lastCleanup <= now
  BY LimiterAssumption DEF LimiterTypeOK
<1>2. /\ Known' = Kept \cup {k} /\ Kept \subseteq Known
      /\ visitors'[k] = [tokens |-> n, lastSeen |-> now]
      /\ \A j \in Kept \ {k} : visitors'[j] = visitors[j]
  BY DEF Put, Kept, Known
<1>3. LimiterTypeOK'
  <2>1. CleanedAt \in Int /\ CleanedAt <= now
    BY <1>1 DEF CleanedAt
  <2>2. ASSUME NEW j \in Known'
        PROVE  visitors'[j].tokens \in 0..Burst /\ visitors'[j].lastSeen \in 0..now
    BY <1>1, <1>2, <2>2 DEF LimiterTypeOK
  <2> QED
    BY <1>1, <1>2, <2>1, <2>2 DEF LimiterTypeOK
<1>4. ASSUME NEW j \in Known' PROVE excess'[j] + Level(j)' <= Burst
  <2>1. CASE j = k
    <3>1. Rate * (now - now) = 0
      BY <1>1
    <3>2. Level(k)' = n
      BY <1>1, <1>2, <3>1 DEF Level, Least
    <3> QED
      BY <1>1, <2>1, <3>2
  <2>2. CASE j # k
    <3>1. j \in Known /\ visitors'[j] = visitors[j] /\ excess'[j] = excess[j]
      BY <1>1, <1>2, <2>2
    <3>2. Level(j)' = Level(j)
      BY <3>1 DEF Level
    <3> QED
      BY <3>1, <3>2
  <2> QED
    BY <2>1, <2>2
<1>5. ASSUME NEW j \in Keys \ Known' PROVE excess'[j] = 0
  <2>1. j # k /\ j \notin Kept
    BY <1>2
  <2>2. excess'[j] = excess[j] /\ Refilled(j) = Burst
    BY <1>1, <2>1 DEF Refilled
  <2>3. excess[j] \in Nat /\ excess[j] + Refilled(j) <= Burst
    BY <1>1, RefilledRange
  <2> QED
    BY <1>1, <2>2, <2>3
<1> QED
  BY <1>3, <1>4, <1>5

\* A visit keeps the account, whether it is allowed or refused.
LEMMA VisitKeeps ==
  ASSUME LimiterInv, NEW k \in Keys, Allow(k) \/ Refuse(k)
  PROVE  LimiterInv'
<1>1. /\ Unit \in Nat /\ Burst \in Nat /\ excess \in [Keys -> Nat]
      /\ Refilled(k) \in 0..Burst /\ excess[k] + Refilled(k) <= Burst
  BY RefilledRange, LimiterAssumption DEF LimiterInv, LimiterTypeOK
<1>2. CASE Allow(k)
  <2>1. /\ Refilled(k) - Unit \in 0..Burst /\ excess[k] + Unit \in Nat
        /\ (excess[k] + Unit) + (Refilled(k) - Unit) <= Burst
    BY <1>1, <1>2 DEF Allow
  <2> QED
    BY <1>2, <2>1, Visit DEF Allow
<1>3. CASE Refuse(k)
  <2>1. excess' = [excess EXCEPT ![k] = excess[k]] /\ excess[k] \in Nat
    BY <1>1, <1>3 DEF Refuse
  <2> QED
    BY <1>1, <1>3, <2>1, Visit DEF Refuse
<1> QED
  BY <1>2, <1>3

\* A tick keeps the account: what it adds to a bucket it takes off excess.
LEMMA TickKeeps ==
  ASSUME LimiterInv, Tick
  PROVE  LimiterInv'
<1>1. /\ now \in Nat /\ Rate \in Nat /\ Burst \in Nat /\ excess \in [Keys -> Nat]
      /\ now' = now + 1 /\ Known' = Known /\ Known \subseteq Keys
      /\ \A k \in Keys : excess'[k] = Greatest(0, excess[k] - Rate)
  BY LimiterAssumption DEF LimiterInv, LimiterTypeOK, Tick, Known
<1>2. \A k \in Keys : excess'[k] \in Nat
  BY <1>1 DEF Greatest
<1>3. LimiterTypeOK'
  <2>1. excess' \in [Keys -> Nat]
    BY <1>2 DEF Tick
  <2> QED
    BY <1>1, <2>1 DEF LimiterInv, LimiterTypeOK, Tick
<1>4. ASSUME NEW k \in Known PROVE excess'[k] + Level(k)' <= Burst
  <2>1. visitors[k].tokens \in Nat /\ visitors[k].lastSeen \in 0..now
    BY <1>1, <1>4 DEF LimiterInv, LimiterTypeOK
  <2> DEFINE t == now - visitors[k].lastSeen
  <2>2. t \in Nat /\ now' - visitors[k].lastSeen = t + 1
    BY <1>1, <2>1
  <2>3. /\ Level(k) = Least(Burst, visitors[k].tokens + Rate * t)
        /\ Level(k)' = Least(Burst, visitors[k].tokens + Rate * (t + 1))
    BY <2>2 DEF Level, Tick
  <2> HIDE DEF t
  <2>4. Rate * t \in Nat /\ Rate * (t + 1) = Rate * t + Rate
    BY <1>1, <2>2
  <2>5. /\ excess[k] + Level(k) <= Burst /\ excess[k] \in Nat
        /\ excess'[k] = Greatest(0, excess[k] - Rate)
    BY <1>1, <1>4 DEF LimiterInv
  <2> QED
    BY <1>1, <2>1, <2>3, <2>4, <2>5 DEF Least, Greatest
<1>5. ASSUME NEW k \in Keys \ Known PROVE excess'[k] = 0
  BY <1>1, <1>5 DEF LimiterInv, Greatest
<1> QED
  BY <1>1, <1>3, <1>4, <1>5 DEF LimiterInv

\* A limiter without buckets owes nobody anything.
LEMMA EmptyLimiter ==
  ASSUME now \in Nat, visitors = [k \in {} |-> [tokens |-> Burst, lastSeen |-> 0]],
         lastCleanup \in Int, lastCleanup <= now, excess = [k \in Keys |-> 0]
  PROVE  LimiterInv
BY DEF LimiterInv, LimiterTypeOK, Known

\* The invariant bounds the rate.
LEMMA InvBoundsRate ==
  ASSUME LimiterInv
  PROVE  RateIsBounded
<1>1. ASSUME NEW k \in Keys PROVE excess[k] <= Burst
  <2>1. excess[k] \in Nat /\ Burst \in Nat
    BY LimiterAssumption DEF LimiterInv, LimiterTypeOK
  <2>2. CASE k \in Known
    BY <2>1, <2>2, LevelRange DEF LimiterInv
  <2>3. CASE k \notin Known
    BY <2>1, <2>3 DEF LimiterInv
  <2> QED
    BY <2>2, <2>3
<1> QED
  BY <1>1 DEF RateIsBounded

\* The invariant holds in the initial states of the limiter.
LEMMA LimiterStarts ==
  ASSUME LimiterInit
  PROVE  LimiterInv
<1>1. IdleTTL \in Nat /\ -IdleTTL \in Int /\ -IdleTTL <= 0
  BY LimiterAssumption
<1> QED
  BY <1>1, EmptyLimiter DEF LimiterInit, NoBuckets

\* The invariant speaks of the variables of the limiter only.
LEMMA LimiterStutters ==
  ASSUME LimiterInv, UNCHANGED limiterVars
  PROVE  LimiterInv'
BY DEF LimiterInv, LimiterTypeOK, Known, Level, limiterVars

\* allow lets no key through more often than its burst and its rate permit, over
\* whatever interval, whichever buckets cleanup forgets and whenever it runs.
THEOREM LimiterBoundsRate == LimiterSpec => []RateIsBounded
<1>1. LimiterInv /\ [LimiterNext]_limiterVars => LimiterInv'
  BY VisitKeeps, TickKeeps, LimiterStutters DEF LimiterNext
<1>2. LimiterInit => LimiterInv
  BY LimiterStarts
<1>3. LimiterInv => RateIsBounded
  BY InvBoundsRate
<1> QED
  BY <1>1, <1>2, <1>3, PTL DEF LimiterSpec

-----------------------------------------------------------------------------
(* The limiter in front of the handshakes.                                 *)

\* Restart forgets the buckets together with what was counted against them.
LEMMA RestartKeepsLimiter ==
  ASSUME LimiterInv, Restart
  PROVE  LimiterInv'
<1>1. now \in Nat /\ IdleTTL \in Nat
  BY LimiterAssumption DEF LimiterInv, LimiterTypeOK
<1>2. /\ now' \in Nat /\ lastCleanup' \in Int /\ lastCleanup' <= now'
      /\ visitors' = [k \in {} |-> [tokens |-> Burst, lastSeen |-> 0]]
      /\ excess' = [k \in Keys |-> 0]
  BY <1>1 DEF Restart
<1>3. Known' = {}
  BY <1>2 DEF Known
<1> QED
  BY <1>2, <1>3 DEF LimiterInv, LimiterTypeOK

\* A step of Admission leaves the limiter alone, or is one of its steps or Restart.
LEMMA AdmissionKeepsLimiter ==
  ASSUME LimiterInv, [AdmissionNext]_admissionVars
  PROVE  LimiterInv'
<1>1. CASE UNCHANGED admissionVars
  BY <1>1, LimiterStutters DEF admissionVars
<1>2. ASSUME NEW t \in Tokens, IssueAccessToken(t) PROVE LimiterInv'
  BY <1>2, LimiterStutters DEF IssueAccessToken
<1>3. ASSUME NEW r \in Requests,
             Begin(r) \/ CheckRevoked(r) \/ Issue(r) \/ Logout(r) \/ Fail(r)
               \/ Consume(r)
      PROVE  LimiterInv'
  <2>1. UNCHANGED limiterVars
    BY <1>3 DEF Begin, CheckRevoked, Issue, Logout, Fail, Consume
  <2> QED
    BY <2>1, LimiterStutters
<1>4. ASSUME NEW r \in Requests, NEW k \in Keys, Handshake(r, k)
      PROVE  LimiterInv'
  BY <1>4, VisitKeeps DEF Handshake
<1>5. ASSUME NEW k \in Keys, Stranger(k) PROVE LimiterInv'
  BY <1>5, VisitKeeps DEF Stranger
<1>6. CASE Restart
  BY <1>6, RestartKeepsLimiter
<1>7. CASE Time
  BY <1>7, TickKeeps DEF Time
<1> QED
  BY <1>1, <1>2, <1>3, <1>4, <1>5, <1>6, <1>7 DEF AdmissionNext

\* The handshakes of a key are bounded between any two restarts of the process.
THEOREM HandshakesAreBounded == AdmissionSpec => []RateIsBounded
<1>1. AdmissionInit => LimiterInv
  BY LimiterStarts DEF AdmissionInit
<1>2. LimiterInv => RateIsBounded
  BY InvBoundsRate
<1> QED
  BY <1>1, <1>2, AdmissionKeepsLimiter, PTL DEF AdmissionSpec

-----------------------------------------------------------------------------
(* Tickets.                                                                *)

\* The names of the stages, and what a request asks for.
RequestsTyped ==
  /\ step \in [Requests -> {"idle", "parsed", "passed", "refused", "admitted",
                            "connected", "done"}]
  /\ ask \in [Requests -> [op : {"none", "ticket", "logout", "connect"},
                           with : Requests \cup Tokens \cup {None}]]
  /\ \A r \in Requests :
       /\ step[r] = "idle" => ask[r].op = "none"
       /\ step[r] \in {"parsed", "passed", "done"} => ask[r].op \in {"ticket", "logout"}
       /\ step[r] \in {"admitted", "connected"} => ask[r].op = "connect"

\* Only tickets that were handed out are presented,
Presented ==
  \A r \in Requests : ask[r].op = "connect" =>
    /\ ask[r].with \in Requests
    /\ step[ask[r].with] = "done"

\* a stored ticket was handed out, TicketTTL before it ends,
Handed ==
  /\ Stored \subseteq Requests
  /\ born \in [Requests -> Nat]
  /\ \A t \in Stored : /\ step[t] = "done"
                       /\ tickets[t] = born[t] + TicketTTL

\* and a connection has used up its ticket.
UsedUp == \A r \in Requests : step[r] = "connected" => ask[r].with \notin Stored

\* The strengthening of TicketIsOneTime that every step preserves.
TicketInv == RequestsTyped /\ Presented /\ Handed /\ UsedUp /\ TicketIsOneTime

\* A step of one request that opens no connection, and leaves what it asks for.
LEMMA OneMoves ==
  ASSUME TicketInv, NEW r \in Requests,
         NEW stage \in {"passed", "refused", "done"},
         step[r] \in {"parsed", "passed", "admitted"},
         step[r] = "admitted" => stage = "refused",
         GoTo(r, stage), ask' = ask
  PROVE  RequestsTyped' /\ Presented' /\ TicketIsOneTime'
         /\ (UNCHANGED <<tickets, born>> => Handed' /\ UsedUp')
<1>1. RequestsTyped'
  BY DEF TicketInv, RequestsTyped, GoTo
<1>2. Presented'
  BY DEF TicketInv, RequestsTyped, Presented, GoTo
<1>3. TicketIsOneTime'
  BY DEF TicketInv, RequestsTyped, TicketIsOneTime, GoTo
<1>4. ASSUME UNCHANGED <<tickets, born>> PROVE Handed' /\ UsedUp'
  BY <1>4 DEF TicketInv, RequestsTyped, Handed, UsedUp, GoTo, Stored
<1> QED
  BY <1>1, <1>2, <1>3, <1>4

\* A ticket that is handed out is new: no connection has used it.
LEMMA IssueKeepsTickets ==
  ASSUME TicketInv, now \in Nat, NEW r \in Requests, Issue(r)
  PROVE  TicketInv'
<1>1. RequestsTyped' /\ Presented' /\ TicketIsOneTime'
  BY OneMoves DEF Issue
<1>2. /\ Stored' = Stored \cup {r} /\ tickets'[r] = now + TicketTTL
      /\ \A t \in Stored \ {r} : tickets'[t] = tickets[t]
  BY DEF Issue, StoreTicket, Stored
<1>3. Handed'
  BY <1>2 DEF Issue, TicketInv, RequestsTyped, Handed, GoTo
<1>4. UsedUp'
  <2>1. step[r] = "passed"
    BY DEF Issue
  <2>2. ASSUME NEW q \in Requests, step'[q] = "connected"
        PROVE  ask'[q].with \notin Stored'
    <3>1. step[q] = "connected" /\ ask'[q] = ask[q]
      BY <2>2 DEF Issue, GoTo, TicketInv, RequestsTyped
    <3>2. ask[q].with # r /\ ask[q].with \notin Stored
      BY <2>1, <3>1 DEF TicketInv, RequestsTyped, Presented, UsedUp
    <3> QED
      BY <1>2, <3>1, <3>2
  <2> QED
    BY <2>2 DEF UsedUp
<1> QED
  BY <1>1, <1>3, <1>4 DEF TicketInv

\* Tickets may be lost, by the store or by a GETDEL without an answer.
LEMMA TicketsLost ==
  ASSUME NEW S \in SUBSET Stored, tickets' = [t \in S |-> tickets[t]],
         born' = born, Handed, UsedUp,
         \A t \in Requests : step[t] = "done" => step'[t] = "done",
         \A r \in Requests : step'[r] = "connected" =>
           step[r] = "connected" /\ ask'[r] = ask[r]
  PROVE  Handed' /\ UsedUp'
<1>1. Stored' = S
  BY DEF Stored
<1> QED
  BY <1>1 DEF Handed, UsedUp

\* A request that fails, with or without its ticket, opens no connection.
LEMMA FailKeepsTickets ==
  ASSUME TicketInv, NEW r \in Requests, Fail(r)
  PROVE  TicketInv'
<1>1. /\ RequestsTyped' /\ Presented' /\ TicketIsOneTime'
      /\ UNCHANGED <<tickets, born>> => Handed' /\ UsedUp'
  BY OneMoves DEF Fail
<1>2. CASE UNCHANGED tickets
  BY <1>1, <1>2 DEF Fail, TicketInv
<1>3. CASE tickets' = Without(ask[r].with)
  <2>1. Stored \ {ask[r].with} \in SUBSET Stored
    OBVIOUS
  <2>2. /\ \A t \in Requests : step[t] = "done" => step'[t] = "done"
        /\ \A q \in Requests : step'[q] = "connected" =>
             step[q] = "connected" /\ ask'[q] = ask[q]
    BY DEF Fail, GoTo, TicketInv, RequestsTyped
  <2>3. Handed' /\ UsedUp'
    BY <1>3, <2>1, <2>2, TicketsLost DEF Fail, Without, TicketInv
  <2> QED
    BY <1>1, <2>3 DEF TicketInv
<1> QED
  BY <1>2, <1>3 DEF Fail

\* A request that presents its ticket takes it out of the store.
LEMMA ConsumeKeepsTickets ==
  ASSUME TicketInv, NEW r \in Requests, Consume(r)
  PROVE  TicketInv'
<1>1. PICK stage \in {"connected", "refused"} :
        /\ step' = [step EXCEPT ![r] = stage]
        /\ stage = "connected" => ask[r].with \in Stored
  BY DEF Consume, GoTo, Good
<1>2. /\ step[r] = "admitted" /\ ask[r].op = "connect" /\ UNCHANGED <<ask, born>>
      /\ Stored' = Stored \ {ask[r].with}
      /\ \A t \in Stored' : tickets'[t] = tickets[t]
  BY DEF Consume, Without, Stored, TicketInv, RequestsTyped
<1>3. RequestsTyped'
  BY <1>1, <1>2 DEF TicketInv, RequestsTyped
<1>4. Presented'
  BY <1>1, <1>2 DEF TicketInv, RequestsTyped, Presented
<1>5. Handed'
  BY <1>1, <1>2 DEF TicketInv, RequestsTyped, Handed
<1>6. UsedUp'
  BY <1>1, <1>2 DEF TicketInv, RequestsTyped, UsedUp
<1>7. TicketIsOneTime'
  BY <1>1, <1>2 DEF TicketInv, RequestsTyped, UsedUp, TicketIsOneTime
<1> QED
  BY <1>3, <1>4, <1>5, <1>6, <1>7 DEF TicketInv

\* A handshake names a ticket that was handed out.
LEMMA HandshakeKeepsTickets ==
  ASSUME TicketInv, NEW r \in Requests, NEW k \in Keys, Handshake(r, k)
  PROVE  TicketInv'
<1>1. PICK stage \in {"admitted", "refused"} : step' = [step EXCEPT ![r] = stage]
  BY DEF Handshake, GoTo
<1>2. PICK t \in Requests : /\ step[t] = "done"
                            /\ ask' = [ask EXCEPT ![r] = [op |-> "connect", with |-> t]]
  BY DEF Handshake
<1>3. UNCHANGED <<tickets, born>> /\ step[r] \in {"idle", "refused"}
  BY DEF Handshake, storeVars
<1>4. RequestsTyped'
  BY <1>1, <1>2, <1>3 DEF TicketInv, RequestsTyped
<1>5. Presented'
  BY <1>1, <1>2, <1>3 DEF TicketInv, RequestsTyped, Presented
<1>6. Handed'
  BY <1>1, <1>3 DEF TicketInv, RequestsTyped, Handed, Stored
<1>7. UsedUp'
  BY <1>1, <1>2, <1>3 DEF TicketInv, RequestsTyped, UsedUp, Stored
<1>8. TicketIsOneTime'
  BY <1>1, <1>2, <1>3 DEF TicketInv, RequestsTyped, TicketIsOneTime
<1> QED
  BY <1>4, <1>5, <1>6, <1>7, <1>8 DEF TicketInv

\* A request that begins presents no ticket.
LEMMA BeginKeepsTickets ==
  ASSUME TicketInv, NEW r \in Requests, Begin(r)
  PROVE  TicketInv'
<1>1. PICK op \in {"ticket", "logout"}, t \in Tokens :
        ask' = [ask EXCEPT ![r] = [op |-> op, with |-> t]]
  BY DEF Begin
<1>2. PICK stage \in {"parsed", "refused"} : step' = [step EXCEPT ![r] = stage]
  BY DEF Begin, GoTo
<1>3. UNCHANGED <<tickets, born>> /\ step[r] = "idle"
  BY DEF Begin, storeVars
<1>4. RequestsTyped'
  BY <1>1, <1>2, <1>3 DEF TicketInv, RequestsTyped
<1>5. Presented'
  BY <1>1, <1>2, <1>3 DEF TicketInv, RequestsTyped, Presented
<1>6. Handed'
  BY <1>2, <1>3 DEF TicketInv, RequestsTyped, Handed, Stored
<1>7. UsedUp'
  BY <1>1, <1>2, <1>3 DEF TicketInv, RequestsTyped, UsedUp, Stored
<1>8. TicketIsOneTime'
  BY <1>1, <1>2, <1>3 DEF TicketInv, RequestsTyped, TicketIsOneTime
<1> QED
  BY <1>4, <1>5, <1>6, <1>7, <1>8 DEF TicketInv

\* A restart brings no ticket back.
LEMMA RestartKeepsTickets ==
  ASSUME TicketInv, Restart
  PROVE  TicketInv'
<1>1. /\ UNCHANGED <<ask, born>>
      /\ \A q \in Requests :
           step'[q] = IF step[q] \in {"parsed", "passed", "admitted"} THEN "refused"
                      ELSE step[q]
  BY DEF Restart
<1>2. RequestsTyped'
  <2>1. step' \in [Requests -> {"idle", "parsed", "passed", "refused", "admitted",
                                "connected", "done"}]
    BY DEF Restart, TicketInv, RequestsTyped
  <2> QED
    BY <1>1, <2>1 DEF TicketInv, RequestsTyped
<1>3. Presented' /\ TicketIsOneTime'
  BY <1>1 DEF TicketInv, RequestsTyped, Presented, TicketIsOneTime
<1>4. /\ \A t \in Requests : step[t] = "done" => step'[t] = "done"
      /\ \A q \in Requests : step'[q] = "connected" =>
           step[q] = "connected" /\ ask'[q] = ask[q]
  BY <1>1
<1>5. CASE tickets' = tickets
  BY <1>1, <1>2, <1>3, <1>4, <1>5 DEF TicketInv, Handed, UsedUp, Stored
<1>6. CASE tickets' = NoTickets
  <2>1. Stored' = {}
    BY <1>6 DEF NoTickets, Stored
  <2> QED
    BY <1>1, <1>2, <1>3, <2>1 DEF TicketInv, Handed, UsedUp
<1> QED
  BY <1>5, <1>6 DEF Restart

\* The invariant does not look at the clock, the limiter and the blacklist.
LEMMA TicketsStutter ==
  ASSUME TicketInv, UNCHANGED <<step, ask, tickets, born>>
  PROVE  TicketInv'
BY DEF TicketInv, RequestsTyped, Presented, Handed, UsedUp, TicketIsOneTime, Stored

\* Every step keeps the tickets one-time.
LEMMA StepKeepsTickets ==
  ASSUME TicketInv, now \in Nat, [AdmissionNext]_admissionVars
  PROVE  TicketInv'
<1>1. CASE UNCHANGED admissionVars
  BY <1>1, TicketsStutter DEF admissionVars, requestVars, storeVars
<1>2. ASSUME NEW t \in Tokens, IssueAccessToken(t) PROVE TicketInv'
  BY <1>2, TicketsStutter DEF IssueAccessToken, requestVars
<1>3. ASSUME NEW r \in Requests, CheckRevoked(r) PROVE TicketInv'
  <2>1. /\ step[r] = "parsed" /\ UNCHANGED <<ask, tickets, born>>
        /\ GoTo(r, "passed") \/ GoTo(r, "refused")
    BY <1>3 DEF CheckRevoked, storeVars
  <2>2. CASE GoTo(r, "passed")
    BY <2>1, <2>2, OneMoves DEF TicketInv
  <2>3. CASE GoTo(r, "refused")
    BY <2>1, <2>3, OneMoves DEF TicketInv
  <2> QED
    BY <2>1, <2>2, <2>3
<1>4. ASSUME NEW r \in Requests, Logout(r) PROVE TicketInv'
  <2>1. /\ step[r] = "passed" /\ UNCHANGED <<ask, tickets, born>>
        /\ GoTo(r, "done")
    BY <1>4 DEF Logout
  <2> QED
    BY <2>1, OneMoves DEF TicketInv
<1>5. ASSUME NEW k \in Keys, Stranger(k) PROVE TicketInv'
  BY <1>5, TicketsStutter DEF Stranger, requestVars, storeVars
<1>6. CASE Time
  BY <1>6, TicketsStutter DEF Time, requestVars, storeVars
<1> QED
  BY <1>1, <1>2, <1>3, <1>4, <1>5, <1>6, BeginKeepsTickets, IssueKeepsTickets,
     FailKeepsTickets, ConsumeKeepsTickets, HandshakeKeepsTickets,
     RestartKeepsTickets DEF AdmissionNext

\* At the start no ticket is stored.
LEMMA TicketsStart ==
  ASSUME AdmissionInit
  PROVE  TicketInv
<1>1. Stored = {}
  BY DEF AdmissionInit, Stored, NoTickets
<1> QED
  BY <1>1 DEF AdmissionInit, TicketInv, RequestsTyped, Presented, Handed, UsedUp,
              TicketIsOneTime, Nothing

\* Both invariants, together.
LEMMA TicketInvariant == AdmissionSpec => [](LimiterInv /\ TicketInv)
<1>1. AdmissionInit => LimiterInv /\ TicketInv
  BY LimiterStarts, TicketsStart DEF AdmissionInit
<1>2. LimiterInv /\ TicketInv /\ [AdmissionNext]_admissionVars
        => LimiterInv' /\ TicketInv'
  BY AdmissionKeepsLimiter, StepKeepsTickets DEF LimiterInv, LimiterTypeOK
<1> QED
  BY <1>1, <1>2, PTL DEF AdmissionSpec

\* A ticket opens one connection, whoever presents it, how often and at the same
\* time, and also when the process restarts in between.
THEOREM TicketsAreOneTime == AdmissionSpec => []TicketIsOneTime
<1>1. TicketInv => TicketIsOneTime
  BY DEF TicketInv
<1> QED
  BY <1>1, TicketInvariant, PTL

\* No connection is opened with a ticket older than its lifetime.
THEOREM TicketsAreFresh == AdmissionSpec => TicketIsFresh
<1>1. ASSUME LimiterInv, TicketInv, AdmissionNext, NEW r \in Requests,
             step[r] # "connected", step'[r] = "connected"
      PROVE  now <= born[ask[r].with] + TicketTTL
  <2>1. Consume(r) /\ Good(ask[r].with)
    BY <1>1 DEF AdmissionNext, IssueAccessToken, Begin, CheckRevoked, Issue, Logout,
                Fail, Consume, Handshake, Stranger, Restart, Time, GoTo,
                requestVars, TicketInv, RequestsTyped
  <2>2. /\ ask[r].with \in Stored
        /\ now < tickets[ask[r].with] \/ now <= tickets[ask[r].with]
    BY <2>1 DEF Good
  <2>3. /\ tickets[ask[r].with] = born[ask[r].with] + TicketTTL
        /\ born[ask[r].with] \in Nat /\ now \in Nat /\ TicketTTL \in Nat
    BY <1>1, <2>2, AdmissionAssumption
       DEF TicketInv, Handed, LimiterInv, LimiterTypeOK
  <2> QED
    BY <2>2, <2>3
<1>2. LimiterInv /\ TicketInv /\ [AdmissionNext]_admissionVars =>
        [\A r \in Requests : step[r] # "connected" /\ step'[r] = "connected" =>
           now <= born[ask[r].with] + TicketTTL]_admissionVars
  BY <1>1
<1> QED
  BY <1>2, TicketInvariant, PTL DEF AdmissionSpec, TicketIsFresh

-----------------------------------------------------------------------------
(* The blacklist.                                                          *)

\* Tokens and their entries are numbers, and only tokens are logged out.
BlacklistTyped ==
  /\ expires \in [Tokens -> Nat]
  /\ blacklist \in [Tokens -> Nat]
  /\ loggedOut \subseteq Tokens
  /\ ended \in [Requests -> SUBSET Tokens]
  /\ passed \in [Requests -> {"no", "clean", "leeway", "open"}]

\* While a token that was logged out lives, its entry lives as long.
Listed ==
  redis => \A t \in loggedOut :
    /\ expires[t] # 0
    /\ now < expires[t] => blacklist[t] = expires[t]

\* What a request remembers of the logouts before it is true, and a request that
\* carries no access token has passed nothing.
Remembered ==
  \A r \in Requests :
    /\ ended[r] \subseteq loggedOut
    /\ step[r] \in {"parsed", "passed"} =>
         ask[r].with \in Tokens /\ expires[ask[r].with] # 0
    /\ ask[r].op \in {"none", "connect"} => passed[r] = "no"

\* The strengthening of LogoutHolds that every step preserves.
LogoutInv == RequestsTyped /\ BlacklistTyped /\ Listed /\ Remembered /\ LogoutHolds

\* A new access token has not been logged out.
LEMMA NewTokenKeepsLogouts ==
  ASSUME LogoutInv, now \in Nat, NEW t \in Tokens, IssueAccessToken(t)
  PROVE  LogoutInv'
<1>1. /\ expires[t] = 0 /\ expires' = [expires EXCEPT ![t] = now + AccessTTL]
      /\ now + AccessTTL \in Nat /\ now + AccessTTL # 0
      /\ UNCHANGED <<now, step, ask, ended, passed, redis, blacklist, loggedOut>>
  BY AdmissionAssumption DEF IssueAccessToken, limiterVars, requestVars
<1>2. RequestsTyped'
  BY <1>1 DEF LogoutInv, RequestsTyped
<1>3. BlacklistTyped'
  BY <1>1 DEF LogoutInv, BlacklistTyped
<1>4. Listed'
  BY <1>1 DEF LogoutInv, BlacklistTyped, Listed
<1>5. Remembered'
  BY <1>1 DEF LogoutInv, BlacklistTyped, Remembered
<1>6. LogoutHolds'
  BY <1>1 DEF LogoutInv, LogoutHolds
<1> QED
  BY <1>2, <1>3, <1>4, <1>5, <1>6 DEF LogoutInv

\* A request that begins remembers the logouts before it and has passed nothing.
LEMMA BeginKeepsLogouts ==
  ASSUME LogoutInv, NEW r \in Requests, Begin(r)
  PROVE  LogoutInv'
<1>1. PICK op \in {"ticket", "logout"}, t \in Tokens :
        /\ ask' = [ask EXCEPT ![r] = [op |-> op, with |-> t]]
        /\ expires[t] # 0
  BY DEF Begin
<1>2. PICK stage \in {"parsed", "refused"} : step' = [step EXCEPT ![r] = stage]
  BY DEF Begin, GoTo
<1>3. /\ step[r] = "idle" /\ ended' = [ended EXCEPT ![r] = loggedOut]
      /\ UNCHANGED <<now, redis, expires, blacklist, loggedOut, passed>>
  BY DEF Begin, storeVars, config, limiterVars
<1>4. RequestsTyped'
  BY <1>1, <1>2, <1>3 DEF LogoutInv, RequestsTyped
<1>5. BlacklistTyped' /\ Listed'
  BY <1>3 DEF LogoutInv, BlacklistTyped, Listed
<1>6. passed[r] = "no"
  BY <1>3 DEF LogoutInv, RequestsTyped, Remembered
<1>7. Remembered'
  BY <1>1, <1>2, <1>3 DEF LogoutInv, RequestsTyped, BlacklistTyped, Remembered
<1>8. LogoutHolds'
  BY <1>1, <1>3, <1>6 DEF LogoutInv, RequestsTyped, BlacklistTyped, LogoutHolds
<1> QED
  BY <1>4, <1>5, <1>7, <1>8 DEF LogoutInv

\* A token that was logged out is found on the blacklist while it lives.
LEMMA CheckKeepsLogouts ==
  ASSUME LogoutInv, now \in Nat, NEW r \in Requests, CheckRevoked(r)
  PROVE  LogoutInv'
<1>1. /\ step[r] = "parsed"
      /\ UNCHANGED <<now, redis, expires, blacklist, loggedOut, ask, ended>>
  BY DEF CheckRevoked, storeVars, config, limiterVars
<1>2. PICK stage \in {"passed", "refused"} : step' = [step EXCEPT ![r] = stage]
  BY DEF CheckRevoked, GoTo
<1>3. PICK p \in {"no", "clean", "leeway", "open"} :
        /\ passed' = [passed EXCEPT ![r] = p]
        /\ p = "clean" => \/ passed[r] = "clean"
                          \/ /\ ~ Revoked(ask[r].with)
                             /\ now < expires[ask[r].with]
  <2>1. CASE UNCHANGED passed
    <3>1. passed' = [passed EXCEPT ![r] = passed[r]]
      BY <2>1 DEF LogoutInv, BlacklistTyped
    <3> QED
      BY <3>1 DEF LogoutInv, BlacklistTyped
  <2>2. CASE passed' = [passed EXCEPT ![r] = "open"]
    BY <2>2
  <2>3. CASE /\ ~ Revoked(ask[r].with)
             /\ passed' = [passed EXCEPT ![r] =
                             IF now < expires[ask[r].with] THEN "clean" ELSE "leeway"]
    BY <2>3
  <2> QED
    BY <2>1, <2>2, <2>3 DEF CheckRevoked
<1>4. RequestsTyped'
  BY <1>1, <1>2 DEF LogoutInv, RequestsTyped
<1>5. BlacklistTyped' /\ Listed'
  BY <1>1, <1>3 DEF LogoutInv, BlacklistTyped, Listed
<1>6. Remembered'
  BY <1>1, <1>2, <1>3 DEF LogoutInv, RequestsTyped, BlacklistTyped, Remembered
<1>7. ask[r].with \in Tokens /\ ended[r] \subseteq loggedOut
  BY <1>1 DEF LogoutInv, Remembered
<1>8. redis /\ ~ Revoked(ask[r].with) /\ now < expires[ask[r].with]
        => ask[r].with \notin ended[r]
  BY <1>7 DEF LogoutInv, BlacklistTyped, Listed, Revoked
<1>9. LogoutHolds'
  BY <1>1, <1>3, <1>8 DEF LogoutInv, BlacklistTyped, LogoutHolds
<1> QED
  BY <1>4, <1>5, <1>6, <1>9 DEF LogoutInv

\* A logout that succeeds has written the entry, if one is needed.
LEMMA LogoutKeepsLogouts ==
  ASSUME LogoutInv, NEW r \in Requests, Logout(r)
  PROVE  LogoutInv'
<1> DEFINE t == ask[r].with
<1>1. /\ step[r] = "passed" /\ GoTo(r, "done")
      /\ loggedOut' = loggedOut \cup {t}
      /\ blacklist' = IF redis /\ now < expires[t]
                        THEN [blacklist EXCEPT ![t] = expires[t]] ELSE blacklist
      /\ ask[r].op = "logout"
      /\ UNCHANGED <<now, redis, expires, ask, ended, passed>>
  BY DEF Logout, config, limiterVars
<1>2. t \in Tokens /\ expires[t] # 0
  BY <1>1 DEF LogoutInv, Remembered
<1> HIDE DEF t
<1>3. RequestsTyped'
  BY <1>1 DEF LogoutInv, RequestsTyped, GoTo
<1>4. BlacklistTyped'
  BY <1>1, <1>2 DEF LogoutInv, BlacklistTyped
<1>5. Listed'
  BY <1>1, <1>2 DEF LogoutInv, BlacklistTyped, Listed
<1>6. Remembered'
  BY <1>1 DEF LogoutInv, RequestsTyped, Remembered, GoTo
<1>7. LogoutHolds'
  BY <1>1 DEF LogoutInv, LogoutHolds
<1> QED
  BY <1>3, <1>4, <1>5, <1>6, <1>7 DEF LogoutInv

\* A request that moves on to no stage of the middleware leaves the logouts alone.
LEMMA OthersKeepLogouts ==
  ASSUME LogoutInv, NEW r \in Requests,
         NEW stage \in {"refused", "done", "connected"},
         \/ stage = "refused"
         \/ step[r] = "passed" /\ stage = "done"
         \/ step[r] = "admitted" /\ stage = "connected",
         step[r] \in {"parsed", "passed", "admitted"},
         GoTo(r, stage),
         UNCHANGED <<now, redis, expires, blacklist, loggedOut, ask, ended, passed>>
  PROVE  LogoutInv'
<1>1. RequestsTyped'
  BY DEF LogoutInv, RequestsTyped, GoTo
<1>2. Remembered'
  BY DEF LogoutInv, RequestsTyped, Remembered, GoTo
<1> QED
  BY <1>1, <1>2 DEF LogoutInv, BlacklistTyped, Listed, LogoutHolds

\* A handshake carries no access token, and passes nothing.
LEMMA HandshakeKeepsLogouts ==
  ASSUME LogoutInv, NEW r \in Requests, NEW k \in Keys, Handshake(r, k)
  PROVE  LogoutInv'
<1>1. PICK stage \in {"admitted", "refused"} : step' = [step EXCEPT ![r] = stage]
  BY DEF Handshake, GoTo
<1>2. PICK t \in Requests : ask' = [ask EXCEPT ![r] = [op |-> "connect", with |-> t]]
  BY DEF Handshake
<1>3. /\ step[r] = "idle" \/ (ask[r].op = "connect" /\ step[r] = "refused")
      /\ UNCHANGED <<now, redis, expires, blacklist, loggedOut, ended, passed>>
  BY DEF Handshake, storeVars, config, Allow, Refuse
<1>4. passed[r] = "no"
  BY <1>3 DEF LogoutInv, RequestsTyped, Remembered
<1>5. RequestsTyped'
  BY <1>1, <1>2, <1>3 DEF LogoutInv, RequestsTyped
<1>6. BlacklistTyped' /\ Listed'
  BY <1>3 DEF LogoutInv, BlacklistTyped, Listed
<1>7. Remembered'
  BY <1>1, <1>2, <1>3, <1>4 DEF LogoutInv, RequestsTyped, Remembered
<1>8. LogoutHolds'
  BY <1>2, <1>3, <1>4 DEF LogoutInv, RequestsTyped, LogoutHolds
<1> QED
  BY <1>5, <1>6, <1>7, <1>8 DEF LogoutInv

\* A restart only ends requests.
LEMMA RestartKeepsLogouts ==
  ASSUME LogoutInv, Restart
  PROVE  LogoutInv'
<1>1. /\ UNCHANGED <<now, redis, expires, blacklist, loggedOut, ask, ended, passed>>
      /\ \A q \in Requests :
           step'[q] = IF step[q] \in {"parsed", "passed", "admitted"} THEN "refused"
                      ELSE step[q]
      /\ step' \in [Requests -> {"idle", "parsed", "passed", "refused", "admitted",
                                 "connected", "done"}]
  BY DEF Restart, config, LogoutInv, RequestsTyped
<1>2. RequestsTyped'
  BY <1>1 DEF LogoutInv, RequestsTyped
<1>3. Remembered'
  BY <1>1 DEF LogoutInv, Remembered
<1> QED
  BY <1>1, <1>2, <1>3 DEF LogoutInv, BlacklistTyped, Listed, LogoutHolds

\* Time only takes tokens out of their lifetime.
LEMMA TimeKeepsLogouts ==
  ASSUME LogoutInv, now \in Nat, now' \in Nat, now' >= now,
         UNCHANGED <<redis, expires, blacklist, loggedOut, step, ask, ended, passed>>
  PROVE  LogoutInv'
<1>1. Listed'
  <2>1. \A t \in loggedOut : expires[t] \in Nat
    BY DEF LogoutInv, BlacklistTyped
  <2>2. \A t \in loggedOut : now' < expires[t] => now < expires[t]
    BY <2>1
  <2> QED
    BY <2>2 DEF LogoutInv, Listed
<1> QED
  BY <1>1 DEF LogoutInv, RequestsTyped, BlacklistTyped, Remembered, LogoutHolds

\* Every step keeps the logouts.
LEMMA StepKeepsLogouts ==
  ASSUME LogoutInv, now \in Nat, [AdmissionNext]_admissionVars
  PROVE  LogoutInv'
<1>1. CASE UNCHANGED admissionVars
  BY <1>1, TimeKeepsLogouts
     DEF admissionVars, requestVars, storeVars, config, limiterVars
<1>2. ASSUME NEW r \in Requests, Issue(r) PROVE LogoutInv'
  BY <1>2, OthersKeepLogouts DEF Issue, config, limiterVars
<1>3. ASSUME NEW r \in Requests, Fail(r) PROVE LogoutInv'
  BY <1>3, OthersKeepLogouts DEF Fail, config, limiterVars
<1>4. ASSUME NEW r \in Requests, Consume(r) PROVE LogoutInv'
  BY <1>4, OthersKeepLogouts DEF Consume, config, limiterVars
<1>5. ASSUME NEW k \in Keys, Stranger(k) PROVE LogoutInv'
  BY <1>5, TimeKeepsLogouts DEF Stranger, Allow, Refuse, requestVars, storeVars, config
<1>6. CASE Time
  <2>1. now' = now + 1
    BY <1>6 DEF Time, Tick
  <2> QED
    BY <1>6, <2>1, TimeKeepsLogouts DEF Time, requestVars, storeVars, config
<1> QED
  BY <1>1, <1>2, <1>3, <1>4, <1>5, <1>6, NewTokenKeepsLogouts, BeginKeepsLogouts,
     CheckKeepsLogouts, LogoutKeepsLogouts, HandshakeKeepsLogouts,
     RestartKeepsLogouts DEF AdmissionNext

\* A request that begins after the logout of its token has been answered with
\* success passes only when Redis cannot be read or the token has expired.
THEOREM LogoutsHold == AdmissionSpec => []LogoutHolds
<1>1. AdmissionInit => LogoutInv
  BY DEF AdmissionInit, LogoutInv, RequestsTyped, BlacklistTyped, Listed, Remembered,
         LogoutHolds, Nothing
<1>2. LimiterInv /\ LogoutInv /\ [AdmissionNext]_admissionVars => LogoutInv'
  BY StepKeepsLogouts DEF LimiterInv, LimiterTypeOK
<1>3. LogoutInv => LogoutHolds
  BY DEF LogoutInv
<1>4. AdmissionSpec => []LimiterInv
  BY TicketInvariant, PTL
<1> QED
  BY <1>1, <1>2, <1>3, <1>4, PTL DEF AdmissionSpec
=============================================================================
