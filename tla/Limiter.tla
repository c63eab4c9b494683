------------------------------ MODULE Limiter ------------------------------
(***************************************************************************)
(* The token bucket limiter of the HTTP middleware: a bucket per key, made *)
(* full at the first visit, refilled lazily by the time that has passed,   *)
(* and forgotten after a time without visits, which the visits themselves  *)
(* see to.  allow runs under a mutex and is one step.  A visit takes Unit  *)
(* out of a bucket that Rate refills with every tick of the clock, so that *)
(* fractions of a token are numbers too.                                   *)
(***************************************************************************)
EXTENDS Integers

CONSTANTS
  Keys,     \* client addresses, or users
  Unit,     \* what a request takes out of the bucket
  Rate,     \* what a tick adds
  Burst,    \* what a full bucket holds
  IdleTTL,  \* ticks without a visit after which a bucket may be forgotten
  MaxTime   \* bound: the last tick

\* A bucket holds a request at least, and one that is forgotten would be full by
\* then: 10 minutes refill 10 times requests_per_minute, more than any configured
\* burst.
ASSUME LimiterAssumption ==
  /\ Unit \in Nat \ {0} /\ Rate \in Nat \ {0} /\ Burst \in Nat
  /\ IdleTTL \in Nat /\ MaxTime \in Nat
  /\ Burst >= Unit /\ Rate * IdleTTL >= Burst

VARIABLES
  now,          \* the clock (time.Now is monotonic within a process)
  visitors,     \* the buckets, of some keys: tokens and lastSeen
  lastCleanup,  \* when the idle buckets were last forgotten
  excess        \* history: how much more was let through than Rate allows, at
                \* most, over the intervals that end now

limiterVars == <<now, visitors, lastCleanup, excess>>
buckets     == <<visitors, lastCleanup, excess>>

Known == DOMAIN visitors

NoBuckets ==
  /\ visitors = [k \in {} |-> [tokens |-> Burst, lastSeen |-> 0]]
  /\ lastCleanup = -IdleTTL
  /\ excess = [k \in Keys |-> 0]

LimiterInit == now = 0 /\ NoBuckets

Least(a, b)    == IF a <= b THEN a ELSE b
Greatest(a, b) == IF a >= b THEN a ELSE b

-----------------------------------------------------------------------------
\* Mutation: forgotten as soon as it has been left alone for a tick.
IdleEarly(k) == now - visitors[k].lastSeen >= 1

Idle(k) == now - visitors[k].lastSeen > IdleTTL

\* The keys whose buckets are left after cleanup.
Kept == IF now - lastCleanup < IdleTTL THEN Known ELSE {k \in Known : ~ Idle(k)}

CleanedAt == IF now - lastCleanup < IdleTTL THEN lastCleanup ELSE now

\* The content of the bucket a visit of k meets.
Refilled(k) ==
  IF k \in Kept
    THEN Least(Burst, visitors[k].tokens + Rate * (now - visitors[k].lastSeen))
    ELSE Burst

Put(k, tokens) ==
  visitors' = [j \in Kept \cup {k} |->
                 IF j = k THEN [tokens |-> tokens, lastSeen |-> now]
                 ELSE visitors[j]]

Allow(k) ==
  /\ Refilled(k) >= Unit
  /\ Put(k, Refilled(k) - Unit)
  /\ lastCleanup' = CleanedAt
  /\ excess' = [excess EXCEPT ![k] = @ + Unit]
  /\ UNCHANGED now

\* A refused visit is a visit: it keeps the bucket and the time of its refill.
Refuse(k) ==
  /\ Refilled(k) < Unit
  /\ Put(k, Refilled(k))
  /\ lastCleanup' = CleanedAt
  /\ UNCHANGED <<now, excess>>

Tick ==
  /\ now < MaxTime
  /\ now' = now + 1
  /\ excess' = [k \in Keys |-> Greatest(0, excess[k] - Rate)]
  /\ UNCHANGED <<visitors, lastCleanup>>

LimiterNext == Tick \/ \E k \in Keys : Allow(k) \/ Refuse(k)

LimiterSpec == LimiterInit /\ [][LimiterNext]_limiterVars
-----------------------------------------------------------------------------
(* Properties.                                                             *)

\* Over every interval of n ticks at most Burst + n * Rate is let through for a
\* key, also when its bucket is forgotten and made full again in between.
RateIsBounded == \A k \in Keys : excess[k] <= Burst

LimiterTypeOK ==
  /\ now \in Nat
  /\ Known \subseteq Keys
  /\ \A k \in Known : visitors[k].tokens \in 0..Burst
                        /\ visitors[k].lastSeen \in 0..now
  /\ lastCleanup \in Int /\ lastCleanup <= now
  /\ excess \in [Keys -> Nat]

\* What a bucket would hold if it were refilled now.
Level(k) == Least(Burst, visitors[k].tokens + Rate * (now - visitors[k].lastSeen))

\* The strengthening of RateIsBounded that every step preserves: what was let
\* through in excess is missing in the bucket, and a key without a bucket has
\* nothing to its account.
LimiterInv ==
  /\ LimiterTypeOK
  /\ \A k \in Known : excess[k] + Level(k) <= Burst
  /\ \A k \in Keys \ Known : excess[k] = 0
=============================================================================
