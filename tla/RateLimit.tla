------------------------------- MODULE RateLimit -------------------------------
(***************************************************************************)
(* The rate limiter: the counter of one bucket in Redis, taken by a        *)
(* pipeline of INCR, EXPIRE NX and TTL.  The commands of a pipeline run in *)
(* order, those of other requests run between them, and the key may expire *)
(* between them.  Buckets are keys of their own: an action that guards     *)
(* itself with two takes the second when the first has granted it.         *)
(***************************************************************************)
EXTENDS Naturals, FiniteSets

CONSTANTS
    Attempts,          \* requests in flight at one time
    Window,            \* length of a window, in ticks
    MaxHits            \* requests allowed in a window

ASSUME RateAssumption == Window \in Nat \ {0} /\ MaxHits \in Nat \ {0}

Ages == 0..(Window - 1)

VARIABLES
    hits,              \* the counter; 0: the key is absent; MaxHits + 2: any more
    ttl,               \* ticks until the key expires; 0: it has no TTL
    attempt,           \* per request: its step, what INCR answered
    granted,           \* hits within the limit, by age in ticks (history)
    promise            \* what is left of the shortest wait a client was told (history)

rateVars == <<hits, ttl, attempt, granted, promise>>

AtRest == [step |-> "idle", count |-> 0]

RateInit ==
    /\ hits = 0
    /\ ttl = 0
    /\ attempt = [a \in Attempts |-> AtRest]
    /\ granted = [age \in Ages |-> 0]
    /\ promise = 0

-------------------------------------------------------------------------------
\* A server action calls rateLimitAction.
Arrive(a) ==
    /\ attempt[a].step = "idle"
    /\ attempt' = [attempt EXCEPT ![a].step = "incr"]
    /\ UNCHANGED <<hits, ttl, granted, promise>>

\* Mutant: off by one.
ExceedsByTwo(count) == count > MaxHits + 1

Exceeds(count) == count > MaxHits

Incr(a) ==
    /\ attempt[a].step = "incr"
    /\ hits' = IF hits > MaxHits + 1 THEN hits ELSE hits + 1
    /\ granted' = IF Exceeds(hits') THEN granted ELSE [granted EXCEPT ![0] = @ + 1]
    /\ attempt' = [attempt EXCEPT ![a] = [step |-> "expire", count |-> hits']]
    /\ UNCHANGED <<ttl, promise>>

\* Mutant: EXPIRE without NX.
TakesTtlAlways == hits > 0

\* EXPIRE NX takes effect on a key that is there and has no TTL.
TakesTtl == hits > 0 /\ ttl = 0

Expire(a) ==
    /\ attempt[a].step = "expire"
    /\ ttl' = IF TakesTtl THEN Window ELSE ttl
    /\ attempt' = [attempt EXCEPT ![a].step = "ttl"]
    /\ UNCHANGED <<hits, granted, promise>>

\* TTL, and the decision over its answer: a refusal tells the client the TTL.
DecideHit(a) ==
    /\ attempt[a].step = "ttl"
    /\ attempt' = [attempt EXCEPT ![a] = AtRest]
    /\ promise' = IF Exceeds(attempt[a].count) /\ ttl > 0 /\ promise \notin 1..ttl
                  THEN ttl ELSE promise
    /\ UNCHANGED <<hits, ttl, granted>>

\* The connection fails: the request is refused, what Redis has done stays.
FailClosed(a) ==
    /\ attempt[a].step # "idle"
    /\ attempt' = [attempt EXCEPT ![a] = AtRest]
    /\ UNCHANGED <<hits, ttl, granted, promise>>

\* Time passes; the key may expire.
Tick ==
    /\ hits' = IF ttl = 1 THEN 0 ELSE hits
    /\ ttl' = IF ttl = 0 THEN 0 ELSE ttl - 1
    /\ granted' = [age \in Ages |-> IF age = 0 THEN 0 ELSE granted[age - 1]]
    /\ promise' = IF ttl = 1 \/ promise = 0 THEN 0 ELSE promise - 1
    /\ UNCHANGED attempt

RateNext ==
    \/ \E a \in Attempts :
          \/ Arrive(a)
          \/ Incr(a)
          \/ Expire(a)
          \/ DecideHit(a)
          \/ FailClosed(a)
    \/ Tick

RateSpec == RateInit /\ [][RateNext]_rateVars

-------------------------------------------------------------------------------
(***************************************************************************)
(* Properties.                                                             *)
(***************************************************************************)

\* Types.
RateTypeOK ==
    /\ hits \in 0..(MaxHits + 2)
    /\ ttl \in 0..Window
    /\ attempt \in [Attempts -> [step : {"idle", "incr", "expire", "ttl"},
                                 count : 0..(MaxHits + 2)]]
    /\ granted \in [Ages -> Nat]
    /\ promise \in 0..Window

\* The hits granted less than k ticks ago, one by one.
GrantsYounger(k) == UNION {{age} \X (1..granted[age]) : age \in 0..(k - 1)}

\* The bucket grants fewer than twice its maximum in any window's length, however
\* commands interleave, the key expires and connections fail.  The windows of
\* the code are fixed, so the maximum itself is no bound.
BurstBounded == Cardinality(GrantsYounger(Window)) < 2 * MaxHits

\* A client that was refused and waits for the time it was told finds a new
\* window: later hits, refused or not, never put the end of the window off.
RetryAfterIsEnough == promise > 0 => ttl \in 1..promise
===============================================================================
