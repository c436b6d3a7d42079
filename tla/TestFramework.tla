---------------------------- MODULE TestFramework ----------------------------
(***************************************************************************)
(* testing-service: ScriptTestFramework.run_tests and the four families of *)
(* tests.  A script is what the tests can tell about it (Script below).    *)
(*                                                                         *)
(* The families are coroutines without an await, so each runs in one step  *)
(* of the event loop, in the order in which gather was given them; between *)
(* those steps other requests run.                                         *)
(***************************************************************************)
EXTENDS Integers, Sequences, FiniteSets, SequencesExt, FiniteSetsExt

CONSTANTS
    Suites,        \* requests to run the tests of a script
    Scripts,       \* script ids
    Contents,      \* the scripts' contents, members of Script
    TypeLists,     \* the lists of types a request may ask for
    MaxConcurrent  \* MAX_CONCURRENT_TESTS

VARIABLES
    suite,   \* suite[s]: script, content and types asked for, and its place
    raw,     \* raw[s]: what the families of s returned so far, in order
    result,  \* result[s]: the TestResults object of s
    active,  \* active_tests: the suite whose results a script's status shows
    permits  \* of the semaphore

tvars == <<suite, raw, result, active, permits>>

Risks == {"low", "medium", "high", "critical"}

\* kind; what the interpreter says of the syntax; which texts it contains; the
\* risks the security rules find; its size and nesting.
Script == [kind : {"bash", "python", "other"},
           check : {"valid", "invalid", "unavailable", "timeout", "crash"},
           shebang : BOOLEAN, main : BOOLEAN, handling : BOOLEAN,
           risks : SUBSET Risks, long : BOOLEAN, nested : BOOLEAN]

\* list(TestType), and the families in the order run_tests builds them.
AllTypes == <<"unit", "integration", "security", "performance", "syntax">>
Families == <<"syntax", "unit", "security", "performance">>

Case(type, status) == [type |-> type, status |-> status]
PassIf(type, ok) == Case(type, IF ok THEN "passed" ELSE "failed")

\* _run_syntax_tests: only Python and Bash have a syntax check.  compile() lets
\* every error but SyntaxError out (a "crash").
SyntaxTests(c) ==
    LET status == CASE c.check = "valid" -> "passed" [] c.check = "invalid" -> "failed"
                    [] c.check = "unavailable" -> "skipped" [] OTHER -> "error"
    IN (IF c.kind = "other" THEN <<>> ELSE <<Case("syntax", status)>>)
       \o <<PassIf("syntax", c.shebang)>>

\* _run_unit_tests: the second test of other kinds keeps its initial status.
UnitTests(c) ==
    <<PassIf("unit", c.kind # "other" /\ c.main),
      IF c.kind = "other" THEN Case("unit", "pending") ELSE PassIf("unit", c.handling)>>

\* _run_security_tests: one test for the whole scan and one per level.
SecurityTests(c) ==
    <<PassIf("security", c.risks \cap {"high", "critical"} = {})>> \o
    [i \in 1..4 |-> LET level == <<"low", "medium", "high", "critical">>[i] IN
        PassIf("security", level \notin c.risks \cap {"high", "critical"})]

\* _run_performance_tests
PerformanceTests(c) == <<PassIf("performance", ~c.long), PassIf("performance", ~c.nested)>>

Raised == <<Case("none", "raised")>>

\* What a family's coroutine returns or raises.
Run(family, c) ==
    CASE family = "syntax" -> IF c.kind = "python" /\ c.check = "crash" THEN Raised ELSE SyntaxTests(c)
      [] family = "unit" -> UnitTests(c)
      [] family = "security" -> SecurityTests(c)
      [] OTHER -> PerformanceTests(c)

\* The coroutines for the types asked for.
Tasks(types) == SelectSeq(Families, LAMBDA f : f \in ToSet(types))

Empty == [f \in ToSet(Families) |-> <<>>]
Fresh == [status |-> "running", lists |-> Empty, total |-> 0, passed |-> 0, failed |-> 0]

Init ==
    /\ suite \in [Suites -> {[script |-> i, content |-> c, types |-> t, at |-> "new"] :
                             i \in Scripts, c \in Contents, t \in TypeLists}]
    /\ raw = [s \in Suites |-> <<>>]
    /\ result = [s \in Suites |-> [Fresh EXCEPT !.status = "pending"]]
    /\ active = [i \in Scripts |-> {}]
    /\ permits = MaxConcurrent
-----------------------------------------------------------------------------

\* async with self._semaphore: the suite begins and becomes the one shown.
Begin(s) ==
    /\ suite[s].at = "new" /\ permits > 0
    /\ permits' = permits - 1
    /\ suite' = [suite EXCEPT ![s].at = "running"]
    /\ result' = [result EXCEPT ![s] = Fresh]
    /\ active' = [active EXCEPT ![suite[s].script] = {s}]
    /\ UNCHANGED raw

\* The next family runs.
RunFamily(s) ==
    /\ suite[s].at = "running"
    /\ Len(raw[s]) < Len(Tasks(suite[s].types))
    /\ raw' = [raw EXCEPT ![s] = Append(@, Run(Tasks(suite[s].types)[Len(@) + 1], suite[s].content))]
    /\ UNCHANGED <<suite, result, active, permits>>

\* Mutant of TypeOf: the index is one off.
TypeOfNext(s, i) == IF i < Len(suite[s].types) THEN suite[s].types[i + 1] ELSE "none"

\* The type a result is filed under: the i-th that was asked for.
TypeOf(s, i) == IF i <= Len(suite[s].types) THEN suite[s].types[i] ELSE "none"

\* The list of type f: the last result filed under it, if any.
Filed(s, f) ==
    LET mine == {i \in DOMAIN raw[s] : TypeOf(s, i) = f /\ raw[s][i] # Raised}
    IN IF mine = {} THEN <<>> ELSE raw[s][Max(mine)]

Count(cases, status) == Cardinality({i \in DOMAIN cases : cases[i].status = status})

\* gather has all results: they are filed and counted, the semaphore is released.
Finish(s) ==
    LET lists == [f \in ToSet(Families) |-> Filed(s, f)]
        all == FlattenSeq([i \in 1..4 |-> lists[Families[i]]])
    IN
    /\ suite[s].at = "running"
    /\ Len(raw[s]) = Len(Tasks(suite[s].types))
    /\ result' = [result EXCEPT ![s] =
         [status |-> IF Count(all, "failed") = 0 THEN "passed" ELSE "failed", lists |-> lists,
          total |-> Len(all), passed |-> Count(all, "passed"), failed |-> Count(all, "failed")]]
    /\ suite' = [suite EXCEPT ![s].at = "done"]
    /\ permits' = permits + 1
    /\ UNCHANGED <<raw, active>>

Next == \E s \in Suites : Begin(s) \/ RunFamily(s) \/ Finish(s)

Spec == Init /\ [][Next]_tvars
-----------------------------------------------------------------------------
(* Correctness.                                                            *)

TypeOK ==
    /\ \A s \in Suites : /\ suite[s].at \in {"new", "running", "done"} /\ suite[s].content \in Script
                         /\ result[s].status \in {"pending", "running", "passed", "failed"}
                         /\ result[s].passed + result[s].failed <= result[s].total
    /\ \A i \in Scripts : Cardinality(active[i]) <= 1
    /\ permits + Cardinality({s \in Suites : suite[s].at = "running"}) = MaxConcurrent

\* A finished suite whose types were asked for in the order of the code holds the
\* tests of every type in that type's list, and passes only if no test of those
\* types failed.  (For the default list the code files syntax tests as unit tests
\* and drops the unit tests: types and tasks are matched by position.)
ResultsAreOfTheirTypes ==
    \A s \in Suites :
        suite[s].at = "done" /\ Tasks(suite[s].types) = suite[s].types =>
            \A f \in ToSet(Families) :
                /\ \A i \in DOMAIN result[s].lists[f] : result[s].lists[f][i].type = f
                /\ f \in ToSet(suite[s].types) /\ result[s].status = "passed" =>
                      Count(Run(f, suite[s].content), "failed") = 0
=============================================================================
