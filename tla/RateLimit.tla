------------------------------- MODULE RateLimit -------------------------------
(***************************************************************************)
(* The limit on ballots per client (apps/web/src/server/rate-limit.ts):    *)
(* a fixed window that opens at a client's first attempt, held in memory   *)
(* and swept now and then.  One instance of the server from one cold start *)
(* to the next, with a clock that does not go back.                        *)
(***************************************************************************)
EXTENDS Integers, FiniteSets

CONSTANTS
  Key,                   \* hashes of client addresses
  LIMIT,                 \* attempts allowed per window
  WINDOW,                \* its length, in milliseconds
  SweepAbove,            \* buckets beyond which the map is swept
  Horizon,               \* bound on the clock
  MaxPerInstant          \* bound on the attempts of a client at one instant

ASSUME RateLimitConstants ==
  /\ LIMIT \in Nat \ {0} /\ WINDOW \in Nat \ {0}
  /\ SweepAbove \in Nat /\ Horizon \in Nat /\ MaxPerInstant \in Nat

Instant == 0..Horizon

VARIABLES
  clock,                 \* server time
  buckets,               \* the map: [count, resetAt] by key
  decision,              \* the last one, as it is answered: [key, allowed]
  granted,               \* history: the attempts allowed, by key: <<instant, number>>
  attempts               \* history: the number of attempts of this instant, by key

limiter == <<clock, buckets, decision, granted, attempts>>

Live(k) == k \in DOMAIN buckets /\ buckets[k].resetAt > clock
NoDecision == [key |-> CHOOSE k \in Key : TRUE, allowed |-> TRUE]

LimitInit ==
  /\ clock = 0
  /\ buckets = [k \in {} |-> [count |-> 0, resetAt |-> 0]]
  /\ decision = NoDecision
  /\ granted = [k \in Key |-> {}]
  /\ attempts = [k \in Key |-> 0]

-------------------------------------------------------------------------------
\* What consume returns, and what enforce makes of it: a refusal is RATE_LIMITED and nothing
\* else, and the seconds until the window is over are dropped.
Record(k, allowed) ==
  /\ attempts[k] < MaxPerInstant
  /\ decision' = [key |-> k, allowed |-> allowed]
  /\ granted' = IF allowed THEN [granted EXCEPT ![k] = @ \cup {<<clock, attempts[k]>>}] ELSE granted
  /\ attempts' = [attempts EXCEPT ![k] = @ + 1]
  /\ UNCHANGED clock

\* consume, of a client without a bucket or with one that is over.
OpenWindow(k) ==
  /\ ~Live(k)
  /\ buckets' = [q \in DOMAIN buckets \cup {k} |->
                   IF q = k THEN [count |-> 1, resetAt |-> clock + WINDOW] ELSE buckets[q]]
  /\ Record(k, TRUE)

\* The keys the opportunistic sweep leaves.
Swept_Everything(map) == IF Cardinality(map) > SweepAbove THEN {} ELSE map

Swept(map) ==
  IF Cardinality(map) > SweepAbove THEN {k \in map : buckets[k].resetAt > clock} ELSE map

\* consume, of a client whose bucket is still open.
CountAttempt_Sliding(k) ==
  /\ Live(k)
  /\ LET bucket == [count |-> buckets[k].count + 1, resetAt |-> clock + WINDOW] IN
     /\ buckets' = [q \in Swept(DOMAIN buckets) \cup {k} |->
                      IF q = k THEN bucket ELSE buckets[q]]
     /\ Record(k, bucket.count <= LIMIT)

CountAttempt(k) ==
  /\ Live(k)
  /\ LET bucket == [buckets[k] EXCEPT !.count = @ + 1] IN
     /\ buckets' = [q \in Swept(DOMAIN buckets) |-> IF q = k THEN bucket ELSE buckets[q]]
     /\ Record(k, bucket.count <= LIMIT)

Tick ==
  /\ clock < Horizon
  /\ clock' = clock + 1
  /\ attempts' = [k \in Key |-> 0]
  /\ UNCHANGED <<buckets, decision, granted>>

LimitNext == Tick \/ \E k \in Key : OpenWindow(k) \/ CountAttempt(k)

LimitSpec == LimitInit /\ [][LimitNext]_limiter

-------------------------------------------------------------------------------
(***************************************************************************)
(* Properties.                                                             *)
(***************************************************************************)

GrantedIn(k, first, last) == Cardinality({a \in granted[k] : first <= a[1] /\ a[1] <= last})

\* A fixed window is no sliding one, but it does limit: whatever stretch of the length of a
\* window one looks at, fewer than twice the limit are allowed in it.
LessThanTwice ==
  \A k \in Key, i \in Instant : GrantedIn(k, i, i + WINDOW - 1) < 2 * LIMIT

(***************************************************************************)
(* Generous by design (rate-limit.ts:8): nobody is refused who was not     *)
(* allowed the whole limit within the last window.  So whoever keeps       *)
(* trying is not kept out: refused attempts do not prolong the refusal.    *)
(***************************************************************************)
RefusedAtLimitOnly ==
  [][~decision'.allowed /\ attempts' # attempts =>
       GrantedIn(decision'.key, clock - WINDOW + 1, clock) >= LIMIT]_limiter
===============================================================================
