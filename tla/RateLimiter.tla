---------------------------- MODULE RateLimiter ----------------------------
(***************************************************************************)
(* The relay's rate limiter (server/api/middleware/ratelimit.py) for one   *)
(* path and one address.  A request reads the clock, then its pipeline of  *)
(* four commands runs in Redis as one transaction, some time later and not *)
(* always in the order in which the clock was read.                        *)
(***************************************************************************)
EXTENDS Naturals, Sequences, FiniteSets

CONSTANTS Limit,       \* limit
          Window,      \* window_seconds
          Pipes,       \* what id(pipe) may be: addresses that are used again
          MaxDelay,    \* assumed: a request runs at most so many seconds after it came
          MaxTime,     \* bound: seconds
          MaxRequests  \* bound: requests

ASSUME LimitAssumption == Limit \in Nat \ {0} /\ Window \in Nat \ {0}
ASSUME TimeAssumption == MaxTime \in Nat /\ MaxRequests \in Nat

\* expire is given window + 1: a second to spare, which is what a request may be late.
ASSUME DelayAssumption == MaxDelay \in 0..1

VARIABLES
    clock,     \* int(time.time()), at the relay and at Redis
    entries,   \* the sorted set: a member is the second and the pipe, its score the second
    expiry,    \* when Redis drops the whole key
    waiting,   \* requests whose pipeline is about to run
    answers,   \* history: the requests in the order in which they ran
    repeated   \* history: did a request write over the entry of another one

limiterVars == <<clock, entries, expiry, waiting, answers, repeated>>

Request == [now : 0..MaxTime, pipe : Pipes]

LimiterTypeOK ==
    /\ clock \in 0..MaxTime
    /\ entries \subseteq Request
    /\ expiry \in 0..(MaxTime + Window + 1)
    /\ waiting \subseteq Request
    /\ \A n \in DOMAIN answers : answers[n].now \in 0..MaxTime /\ answers[n].ok \in BOOLEAN
    /\ repeated \in BOOLEAN

LimiterInit ==
    /\ clock = 0
    /\ entries = {} /\ expiry = 0
    /\ waiting = {} /\ answers = <<>>
    /\ repeated = FALSE

\* -------------------------------------------------------------------------

\* check_rate_limit up to its await.  Pipes that exist at the same time differ.
Arrive(p) ==
    /\ Len(answers) + Cardinality(waiting) < MaxRequests
    /\ \A r \in waiting : r.pipe # p
    /\ waiting' = waiting \cup {[now |-> clock, pipe |-> p]}
    /\ UNCHANGED <<clock, entries, expiry, answers, repeated>>

\* Faulty variant: an entry as old as the window still counts.
KeptLonger(now) == {e \in entries : e.now + Window >= now}

\* zremrangebyscore, up to and including window_start.
Kept(now) == {e \in entries : e.now + Window > now}

\* Faulty variant: one request too many.
OneMore(now) == Cardinality(Kept(now)) <= Limit

\* zcard comes before zadd.
WithinLimit(now) == Cardinality(Kept(now)) < Limit

\* The transaction.  A request that is refused leaves its entry all the same.
Execute(r) ==
    /\ waiting' = waiting \ {r}
    /\ entries' = Kept(r.now) \cup {r}
    /\ expiry' = clock + Window + 1
    /\ answers' = Append(answers, [now |-> r.now, ok |-> WithinLimit(r.now)])
    /\ repeated' = (repeated \/ r \in Kept(r.now))
    /\ UNCHANGED clock

\* A second passes.  Redis drops the key when it is not used for long enough.
Tick ==
    /\ clock < MaxTime
    /\ \A r \in waiting : clock < r.now + MaxDelay
    /\ clock' = clock + 1
    /\ entries' = IF clock' >= expiry THEN {} ELSE entries
    /\ UNCHANGED <<expiry, waiting, answers, repeated>>

LimiterNext ==
    \/ \E p \in Pipes : Arrive(p)
    \/ \E r \in waiting : Execute(r)
    \/ Tick

LimiterSpec == LimiterInit /\ [][LimiterNext]_limiterVars

\* -------------------------------------------------------------------------
\* Properties

\* The first n requests ran in the order in which they read the clock.
InOrder(n) == \A l, m \in 1..n : l < m => answers[l].now <= answers[m].now

\* "Sliding window rate limit check. Raises HTTP 429 if limit exceeded": of the requests
\* of any Window seconds no more than Limit were let through, although entries are dropped
\* by age and by expiry.  Two things let more through: a request that runs after one of a
\* later second finds the entries it should count dropped, and two requests of one second
\* whose pipes had the same address count as one.
LimitHolds ==
    InOrder(Len(answers)) /\ ~repeated =>
        \A t \in 0..MaxTime :
            Cardinality({n \in DOMAIN answers :
                answers[n].ok /\ answers[n].now \in t..(t + Window - 1)}) <= Limit

\* Nobody is refused without a reason: at least Limit other requests, though perhaps
\* refused ones, came less than Window seconds before it (or, running earlier, after it).
\* So one who waits as long as Retry-After says is let through.
RefusedForAReason ==
    \A n \in DOMAIN answers :
        ~answers[n].ok =>
            Cardinality({m \in 1..(n - 1) : answers[m].now + Window > answers[n].now}) >= Limit
=============================================================================
