------------------------------ MODULE Attempts ------------------------------
(***************************************************************************)
(* The two counters of the shared library that are a key in Redis with a   *)
(* lifetime: AuthRateLimiter.check_auth_attempt, which counts failed       *)
(* logins of one identifier, and RateLimitValidator.check_rate_limit,      *)
(* which counts the calls for one key.  Both increment the key and set its *)
(* lifetime in two calls, between which other callers have their turn, the *)
(* key may expire or be deleted, and the caller may die.                   *)
(***************************************************************************)
EXTENDS Integers, Sequences, FiniteSets

CONSTANTS
    Callers,   \* coroutines that may be in a check at a time
    Kinds,     \* which of the two: "auth", "validator"
    Limit,     \* of the validator
    Lifetime,  \* of the key, in ticks: 3600, or window_seconds
    MaxCalls,  \* bound: checks
    MaxCuts,   \* bound: checks that end between their two calls
    MaxTime    \* bound: the clock

VARIABLES
    kind,     \* the counter this behaviour is about
    clock,
    counter,  \* the key: its value, 0 when there is none, and when it expires
    caller,   \* caller[c]: the check c is in, as a place in `log`, or 0
    log       \* every check, in the order Redis saw them (ghost)

avars == <<kind, clock, counter, caller, log>>

Never == -1
NoKey == [n |-> 0, expire |-> Never]

Init ==
    /\ kind \in Kinds
    /\ clock = 0
    /\ counter = NoKey
    /\ caller = [c \in Callers |-> 0]
    /\ log = <<>>

\* The lowest key of failed_attempt_delays: at any of them the login is refused.
Threshold == 3

Gone == counter.expire # Never /\ clock > counter.expire

\* current <= limit, where the count includes this call.
WithinLimit(n) == n <= Limit

\* The answer to a check that was counted as n.
Verdict(n) ==
    IF (kind = "validator" /\ WithinLimit(n)) \/ (kind = "auth" /\ n < Threshold)
    THEN "allowed" ELSE "refused"

\* Mutant of SetsLifetime: current is taken for the count before this call.
SetsLifetimeOfZero(n) == kind = "auth" \/ n = 0

\* AuthRateLimiter sets the lifetime every time, the validator only for a new key.
SetsLifetime(n) == kind = "auth" \/ n = 1

Check(n, answer) == [failed |-> TRUE, at |-> clock, n |-> n, kept |-> Never, answer |-> answer]
-----------------------------------------------------------------------------

\* INCR, which makes the key if there is none and leaves its lifetime alone.
Increment(c) ==
    LET n == IF Gone THEN 1 ELSE counter.n + 1 IN
    /\ caller[c] = 0 /\ Len(log) < MaxCalls
    /\ counter' = [n |-> n, expire |-> IF Gone THEN Never ELSE counter.expire]
    /\ IF SetsLifetime(n)
       THEN log' = Append(log, Check(n, "pending")) /\ caller' = [caller EXCEPT ![c] = Len(log) + 1]
       ELSE log' = Append(log, Check(n, Verdict(n))) /\ UNCHANGED caller
    /\ UNCHANGED <<kind, clock>>

\* Mutant of Extended: the lifetime is set only if the key has none.
ExtendedOnce == IF counter.expire = Never THEN clock + Lifetime ELSE counter.expire

\* The new lifetime starts now, whatever was left of the old one.
Extended == clock + Lifetime

\* EXPIRE, which does nothing when the key is gone, and the answer.
SetLifetime(c) ==
    LET i == caller[c] IN
    /\ i # 0
    /\ counter' = IF Gone \/ counter.n = 0 THEN counter ELSE [counter EXCEPT !.expire = Extended]
    /\ log' = [log EXCEPT ![i].kept = clock, ![i].answer = Verdict(log[i].n)]
    /\ caller' = [caller EXCEPT ![c] = 0]
    /\ UNCHANGED <<kind, clock>>

\* The answer to INCR is lost, EXPIRE raises, or the process dies before it.
Cut(c) ==
    LET i == caller[c] IN
    /\ i # 0
    /\ Cardinality({j \in DOMAIN log : log[j].answer = "raised"}) < MaxCuts
    /\ log' = [log EXCEPT ![i].answer = "raised"]
    /\ caller' = [caller EXCEPT ![c] = 0]
    /\ UNCHANGED <<kind, clock, counter>>

\* check_auth_attempt after a successful login: DEL.
Succeed(c) ==
    /\ kind = "auth" /\ caller[c] = 0 /\ Len(log) < MaxCalls
    /\ counter' = NoKey
    /\ log' = Append(log, [Check(0, "allowed") EXCEPT !.failed = FALSE])
    /\ UNCHANGED <<kind, clock, caller>>

Tick == clock < MaxTime /\ clock' = clock + 1 /\ UNCHANGED <<kind, counter, caller, log>>

Next == Tick \/ \E c \in Callers : Increment(c) \/ SetLifetime(c) \/ Cut(c) \/ Succeed(c)

Spec == Init /\ [][Next]_avars
-----------------------------------------------------------------------------
(* Correctness.                                                            *)

\* The failures before check i that nothing excuses: no login succeeded since,
\* they are no older than the lifetime, and their EXPIRE came in time.
Failures(i) ==
    {j \in 1..(i - 1) :
        /\ log[j].failed /\ log[j].kept = log[j].at
        /\ log[i].at - log[j].at <= Lifetime
        /\ \A k \in j..(i - 1) : log[k].failed}

\* However the checks of several callers interleave with logins that succeed and
\* with the expiry of the key, nobody is allowed a third failure within the
\* lifetime (AuthRateLimiter.check_auth_attempt).
ThirdFailureRefused ==
    kind = "auth" => \A i \in DOMAIN log :
        log[i].failed /\ log[i].answer = "allowed" => Cardinality(Failures(i)) < Threshold - 1

\* A counter without a lifetime, which would shut its client out for good, exists
\* only as long as the check that made it has not set one, or if that check was
\* cut short (check_rate_limit and check_auth_attempt).
CountersEnd ==
    counter.n > 0 /\ counter.expire = Never =>
        \E i \in DOMAIN log :
            /\ log[i].n = 1 /\ \A j \in DOMAIN log : log[j].n = 1 => j <= i
            /\ log[i].answer \in {"pending", "raised"}

\* The window starts with the first call and not with the clock, so any stretch of
\* time as long as the lifetime meets at most two windows, and lets at most twice
\* the limit through (RateLimitValidator.check_rate_limit).
TwiceTheLimit ==
    kind = "validator" => \A t \in 0..MaxTime :
        Cardinality({i \in DOMAIN log : /\ log[i].answer = "allowed"
                                        /\ log[i].at \in t..(t + Lifetime - 1)}) <= 2 * Limit

\* What either counter lets through is bounded.
LetThroughBounded == ThirdFailureRefused /\ TwiceTheLimit
=============================================================================
