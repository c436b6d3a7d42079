------------------------------- MODULE Limits -------------------------------
(***************************************************************************)
(* The rate limiter and, beside it, the attempt counters.  `focus` says    *)
(* which of the two takes the steps of a behaviour, so that the states are *)
(* the sum of theirs.                                                      *)
(***************************************************************************)
EXTENDS RateLimiter

CONSTANTS Callers, Kinds, Lifetime, MaxCalls, MaxCuts

ASSUME CountersAssumption == Lifetime \in Nat

VARIABLES
    kind, ticks, counter, caller, log,
    focus  \* "limiter" or "counters"

countersVars == <<kind, ticks, counter, caller, log>>

AT == INSTANCE Attempts WITH clock <- ticks

\* Where a component does not take the steps, one of its initial states will do.
LimitsInit ==
    /\ focus \in {"limiter", "counters"}
    /\ Init /\ (focus = "counters" => strategy = "token_bucket" /\ wrapper = "decorator")
    /\ AT!Init /\ (focus = "limiter" => kind = "auth")

LimitsNext ==
    \/ focus = "limiter" /\ Next /\ UNCHANGED <<countersVars, focus>>
    \/ focus = "counters" /\ AT!Next /\ UNCHANGED <<lvars, focus>>

LimitsSpec == LimitsInit /\ [][LimitsNext]_<<lvars, countersVars, focus>>
-----------------------------------------------------------------------------

\* Attempt counters: what they let through is bounded.
LetThroughBounded == focus = "counters" => AT!LetThroughBounded
\* Attempt counters: no client is shut out for good.
CountersEnd == focus = "counters" => AT!CountersEnd
=============================================================================
