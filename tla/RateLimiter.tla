----------------------------- MODULE RateLimiter -----------------------------
(***************************************************************************)
(* The shared rate limiter: RateLimiter's three strategies over Redis and  *)
(* the two places that ask it, RateLimitMiddleware and the rate_limit      *)
(* decorator, for the requests of one client to one endpoint.              *)
(*                                                                         *)
(* The requests are handled by coroutines of several processes, so an      *)
(* action is one call to Redis, which is atomic there, together with what  *)
(* the handler computes until its next call.  One tick is one second; a    *)
(* stamp is the time a handler read from its clock, and a pipeline may run *)
(* up to MaxDelay ticks after the stamp it carries was taken.              *)
(***************************************************************************)
EXTENDS Integers, Sequences, FiniteSets, FiniteSetsExt

CONSTANTS
    Requests,    \* the requests of one client to one endpoint
    Strategies,  \* the strategies a limiter is built with
    Limit,       \* requests allowed ...
    Window,      \* ... per this many ticks; also the bucket's refill rate
    BucketTTL,   \* expiry of a bucket (3600)
    MaxRaised,   \* bound: requests for which Redis or the application raises
    MaxDelay,    \* bound: ticks between reading the clock and the call it is for
    MaxTime      \* bound: the clock

ASSUME LimiterAssumption ==
    /\ IsFiniteSet(Requests)
    /\ Strategies \subseteq {"fixed_window", "sliding_window", "token_bucket"}
    /\ Limit \in Nat \ {0} /\ Window \in Nat \ {0}
    /\ BucketTTL \in Nat /\ MaxRaised \in Nat /\ MaxDelay \in Nat /\ MaxTime \in Nat

VARIABLES
    strategy,  \* of the limiter
    wrapper,   \* who asks it: "middleware" or "decorator"
    clock,
    redis,     \* the keys: `zset` of stamps, `count` per window, the bucket; expiry times
    pc, now, retry,  \* per request: place, stamp, retry_after
    copy,      \* per request: the bucket as read, and how many decisions there were
    calls,     \* calls[q]: how often the application was called for q
    checks,    \* every decision, in the order Redis saw the requests (ghost)
    raised     \* requests for which Redis or the application raised (ghost)

lvars == <<strategy, wrapper, clock, redis, pc, now, copy, retry, calls, checks, raised>>

Never == -1
NoBucket == [tokens |-> Never, last |-> Never]
NoCopy == [bucket |-> NoBucket, seen |-> 0]

Init ==
    /\ strategy \in Strategies
    /\ wrapper \in {"middleware", "decorator"}
    /\ clock = 0
    /\ redis = [zset |-> {}, zexpire |-> Never, count |-> [k \in 0..MaxTime |-> 0],
                cexpire |-> [k \in 0..MaxTime |-> Never], bucket |-> NoBucket, bexpire |-> Never]
    /\ pc = [q \in Requests |-> "new"]
    /\ now = [q \in Requests |-> 0]
    /\ copy = [q \in Requests |-> NoCopy]
    /\ retry = [q \in Requests |-> 0]
    /\ calls = [q \in Requests |-> 0]
    /\ checks = <<>> /\ raised = {}

\* A key is gone once its expiry time has passed.
Gone(expire) == expire # Never /\ clock > expire

\* The requests that were let through, as far as Redis knows.
Granted == {i \in DOMAIN checks : checks[i].verdict \in {"granted", "granted_unanswered"}}

GoTo(q, place) == pc' = [pc EXCEPT ![q] = place]

Raise(q) ==
    /\ raised' = raised \cup {q}
    /\ Cardinality(raised') <= MaxRaised

\* Where an exception of Redis takes q: the middleware lets the request through
\* without a limit, the decorator lets the exception out.
OnError(q) == GoTo(q, IF wrapper = "middleware" THEN "calling_again" ELSE "failed")

\* Redis has run the call that decides on q; the answer may still be lost.
Decide(q, allowed, place) ==
    LET check(v) == [q |-> q, now |-> now[q], at |-> clock, verdict |-> v,
                     seen |-> copy[q].seen, found |-> copy[q].bucket # NoBucket]
    IN
    \/ /\ checks' = Append(checks, check(IF allowed THEN "granted" ELSE "refused"))
       /\ GoTo(q, place)
       /\ UNCHANGED raised
    \/ /\ checks' = Append(checks, check(IF allowed THEN "granted_unanswered" ELSE "unanswered"))
       /\ OnError(q)
       /\ Raise(q)
-----------------------------------------------------------------------------

\* dispatch calls check_rate_limit, whose first two strategies read the clock.
Arrive(q) ==
    /\ pc[q] = "new"
    /\ GoTo(q, "checking")
    /\ now' = [now EXCEPT ![q] = clock]
    /\ UNCHANGED <<strategy, wrapper, clock, redis, copy, retry, calls, checks, raised>>

\* Mutant of Allowed: the limit is compared with the count before this request.
AllowedBefore(n) == n - 1 <= Limit

\* count <= limit, where the count includes this request.
Allowed(n) == n <= Limit

\* _fixed_window: INCR and EXPIRE of the key of the stamp's window.
FixedWindow(q) ==
    LET k == now[q] \div Window
        n == IF Gone(redis.cexpire[k]) THEN 1 ELSE redis.count[k] + 1
    IN
    /\ strategy = "fixed_window" /\ pc[q] = "checking"
    /\ redis' = [redis EXCEPT !.count[k] = n, !.cexpire[k] = clock + Window]
    /\ Decide(q, Allowed(n), IF Allowed(n) THEN "calling" ELSE "refused")
    /\ retry' = [retry EXCEPT ![q] = IF Allowed(n) THEN 0 ELSE Window]
    /\ UNCHANGED <<strategy, wrapper, clock, now, copy, calls>>

\* Mutant of InWindow: old entries are never removed from the sorted set.
InWindowAll(z, t) == z

\* ZREMRANGEBYSCORE 0..t-window: the entries of z younger than that.
InWindow(z, t) == {s \in z : s + Window > t}

\* _sliding_window: one transaction removes the old entries, adds this one,
\* counts up to the stamp and sets the expiry.  Equal stamps are one entry.
SlidingWindow(q) ==
    LET z == InWindow(IF Gone(redis.zexpire) THEN {} ELSE redis.zset, now[q]) \cup {now[q]}
        n == Cardinality({s \in z : s <= now[q]})
    IN
    /\ strategy = "sliding_window" /\ pc[q] = "checking"
    /\ redis' = [redis EXCEPT !.zset = z, !.zexpire = clock + Window]
    /\ Decide(q, Allowed(n), IF Allowed(n) THEN "calling" ELSE "oldest")
    /\ UNCHANGED <<strategy, wrapper, clock, now, copy, retry, calls>>

\* A refused request then asks for the oldest entry to compute retry_after.
Oldest(q) ==
    LET z == IF Gone(redis.zexpire) THEN {} ELSE redis.zset IN
    /\ pc[q] = "oldest"
    /\ retry' = [retry EXCEPT ![q] = IF z = {} THEN Window ELSE Min(z) + Window - now[q]]
    /\ GoTo(q, "refused")
    /\ UNCHANGED <<strategy, wrapper, clock, redis, now, copy, calls, checks, raised>>

\* min(capacity, tokens + time_passed * refill_rate); check_rate_limit passes
\* the window as the refill rate.
Tokens(b, t) ==
    IF b = NoBucket THEN Limit ELSE Min({Limit, b.tokens + (t - b.last) * Window})

\* _token_bucket: HGETALL ...
ReadBucket(q) ==
    LET b == IF Gone(redis.bexpire) THEN NoBucket ELSE redis.bucket IN
    /\ strategy = "token_bucket" /\ pc[q] = "checking"
    /\ copy' = [copy EXCEPT ![q] = [bucket |-> b, seen |-> Len(checks)]]
    /\ GoTo(q, "computing")
    /\ UNCHANGED <<strategy, wrapper, clock, redis, now, retry, calls, checks, raised>>

\* ... then the clock, and the tokens there are by now.
Compute(q) ==
    /\ pc[q] = "computing"
    /\ now' = [now EXCEPT ![q] = clock]
    /\ GoTo(q, "writing")
    /\ UNCHANGED <<strategy, wrapper, clock, redis, copy, retry, calls, checks, raised>>

\* Mutant of Spent: an admitted request takes no token.
SpentNothing(n) == n

\* Of n tokens a request takes one, if there is one.
Spent(n) == IF n >= 1 THEN n - 1 ELSE n

\* ... HSET of what is left.  A grant made since q read is forgotten.
WriteBucket(q) ==
    LET n == Tokens(copy[q].bucket, now[q])
        allowed == n >= 1
    IN
    /\ pc[q] = "writing"
    /\ redis' = [redis EXCEPT
         !.bucket = [tokens |-> Spent(n), last |-> now[q]],
         !.bexpire = IF Gone(@) THEN Never ELSE @]
    /\ copy' = [copy EXCEPT ![q] = NoCopy]
    /\ Decide(q, allowed, IF allowed THEN "expiring" ELSE "expiring_refused")
    /\ UNCHANGED <<strategy, wrapper, clock, now, retry, calls>>

\* ... and EXPIRE, which leaves a key alone that ended since the write: the next
\* read finds no bucket.  The answer may be lost.  A missing token takes less than a
\* second to come back, and int() makes that a retry_after of 0.
ExpireBucket(q) ==
    /\ pc[q] \in {"expiring", "expiring_refused"}
    /\ redis' = [redis EXCEPT !.bexpire = IF Gone(@) THEN @ ELSE clock + BucketTTL]
    /\ \/ GoTo(q, IF pc[q] = "expiring" THEN "calling" ELSE "refused") /\ UNCHANGED raised
       \/ OnError(q) /\ Raise(q)
    /\ UNCHANGED <<strategy, wrapper, clock, now, copy, retry, calls, checks>>

\* A call to Redis that was not run raises.
RedisFails(q) ==
    /\ pc[q] \in {"checking", "oldest", "writing", "expiring", "expiring_refused"}
    /\ Raise(q)
    /\ OnError(q)
    /\ UNCHANGED <<strategy, wrapper, clock, redis, now, copy, retry, calls, checks>>

\* Mutant of Refuse: dispatch has no clause that lets RateLimitExceeded out.
RefuseCaught(q) ==
    /\ pc[q] = "refused"
    /\ GoTo(q, IF wrapper = "middleware" THEN "calling_again" ELSE "limited")
    /\ UNCHANGED <<strategy, wrapper, clock, redis, now, copy, retry, calls, checks, raised>>

\* raise RateLimitExceeded(retry_after)
Refuse(q) ==
    /\ pc[q] = "refused"
    /\ GoTo(q, "limited")
    /\ UNCHANGED <<strategy, wrapper, clock, redis, now, copy, retry, calls, checks, raised>>

\* call_next(request) returns, or raises.  What the application raises in the
\* middleware's try block is taken for an error of the limiter, and the
\* application is called a second time.
Call(q) ==
    /\ pc[q] \in {"calling", "calling_again"}
    /\ calls' = [calls EXCEPT ![q] = @ + 1]
    /\ \/ GoTo(q, "done") /\ UNCHANGED raised
       \/ /\ GoTo(q, IF pc[q] = "calling" /\ wrapper = "middleware"
                     THEN "calling_again" ELSE "failed")
          /\ Raise(q)
    /\ UNCHANGED <<strategy, wrapper, clock, redis, now, copy, retry, checks>>

\* Time passes, but no request waits longer than MaxDelay for its call.
Tick ==
    /\ clock < MaxTime
    /\ \A q \in Requests : pc[q] \in {"checking", "oldest", "writing"} => clock - now[q] < MaxDelay
    /\ clock' = clock + 1
    /\ UNCHANGED <<strategy, wrapper, redis, pc, now, copy, retry, calls, checks, raised>>

Step(q) ==
    \/ Arrive(q) \/ FixedWindow(q) \/ SlidingWindow(q) \/ Oldest(q)
    \/ ReadBucket(q) \/ Compute(q) \/ WriteBucket(q) \/ ExpireBucket(q)
    \/ RedisFails(q) \/ Refuse(q) \/ Call(q)

Next == Tick \/ \E q \in Requests : Step(q)

Spec == Init /\ [][Next]_lvars
-----------------------------------------------------------------------------
(* Correctness.                                                            *)

Places == {"new", "checking", "oldest", "computing", "writing", "expiring", "expiring_refused",
           "calling", "calling_again", "refused", "done", "failed", "limited"}

TypeOK ==
    /\ strategy \in Strategies /\ wrapper \in {"middleware", "decorator"}
    /\ clock \in 0..MaxTime
    /\ redis.zset \subseteq 0..MaxTime
    /\ \A k \in 0..MaxTime : redis.count[k] \in 0..Cardinality(Requests)
    /\ redis.bucket # NoBucket => redis.bucket.tokens \in 0..Limit /\ redis.bucket.last \in 0..clock
    /\ pc \in [Requests -> Places]
    /\ now \in [Requests -> 0..clock]
    /\ calls \in [Requests -> 0..2]
    /\ retry \in [Requests -> Int]
    /\ raised \subseteq Requests

\* The decisions with a stamp in (t - Window, t].
Recent(t) == {i \in DOMAIN checks : t < checks[i].now + Window /\ checks[i].now <= t}
Before(i) == 1..(i - 1)

\* Nobody is refused who has not used up the limit: a refused request had Limit
\* others in its window, or, for the bucket, a burst that drained a full bucket
\* and all that was refilled since (the three strategies of RateLimiter).
RefusedOnlyWhenUsedUp ==
    \A i \in DOMAIN checks : checks[i].verdict = "refused" =>
        LET t == checks[i].now IN
        CASE strategy = "fixed_window" ->
                Cardinality({j \in Before(i) : checks[j].now \div Window = t \div Window}) >= Limit
          [] strategy = "sliding_window" ->
                Cardinality(Recent(t) \cap Before(i)) >= Limit
          [] OTHER ->
                \E c \in 0..t : Limit + Window * (t - c) <=
                    Cardinality({j \in Granted : c <= checks[j].now /\ checks[j].now <= t})

\* A fixed window admits no more than the limit, apart from requests that reach
\* Redis only after the window they were stamped in, when its key may be gone
\* (_fixed_window).
FixedWindowLimit ==
    strategy = "fixed_window" => \A k \in 0..MaxTime :
        Cardinality({i \in Granted : checks[i].now \div Window = k
                                  /\ checks[i].at \div Window = k}) <= Limit

\* The sliding window admits a request only if fewer than Limit were admitted in
\* the window that ends with it, provided no two stamps were equal and this
\* one is the latest and reached Redis at once (_sliding_window).
SlidingWindowLimit ==
    strategy = "sliding_window" => \A i \in Granted :
        (/\ checks[i].at = checks[i].now
         /\ \A j \in Before(i) : checks[j].now < checks[i].now
         /\ \A j, k \in Before(i) : j # k => checks[j].now # checks[k].now)
        => Cardinality(Granted \cap Recent(checks[i].now) \cap Before(i)) < Limit

\* Neither kind of window admits more than its limit (_fixed_window, _sliding_window).
WindowLimit == FixedWindowLimit /\ SlidingWindowLimit

\* The i-th check read a bucket, and none was granted between its read and its write.
Alone(i) == checks[i].found /\ \A j \in Granted \cap Before(i) : j <= checks[i].seen

\* What concurrent checks overspend does not last: from any grant on, whatever it
\* undid, for as long as the checks after it neither overlap a grant nor miss the
\* bucket, the bucket admits no more than its capacity and what it was refilled with
\* (_token_bucket).
BucketLimit ==
    strategy = "token_bucket" => \A a, b \in Granted :
        a <= b /\ (\A i \in (a + 1)..b : Alone(i)) =>
            Cardinality(Granted \cap a..b) <= Limit + Window * (checks[b].now - checks[a].now)

\* A refused request never reaches the application, and no request reaches it
\* twice unless something raised (RateLimitMiddleware.dispatch).
ServedAsDecided ==
    /\ \A i \in DOMAIN checks :
         checks[i].verdict = "refused" /\ checks[i].q \notin raised => calls[checks[i].q] = 0
    /\ \A q \in Requests : calls[q] = 2 => q \in raised
=============================================================================
