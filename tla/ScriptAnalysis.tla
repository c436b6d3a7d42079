--------------------------- MODULE ScriptAnalysis ---------------------------
(***************************************************************************)
(* ai-service: the scores ScriptAnalyzer gives a script, and the cache of  *)
(* its results.  A content is what the analysis can tell of it: how often  *)
(* each security pattern matches, which of the texts it looks for occur,   *)
(* and how many lines are of each kind.  The coroutines of an analysis     *)
(* never suspend, so a request is one action and its 30 s timeout cannot   *)
(* strike.  The weights 0.4, 0.3 and 0.3 are taken ten times as large.     *)
(***************************************************************************)
EXTENDS Integers, FiniteSets, FiniteSetsExt

CONSTANTS
    Submissions,    \* the contents submitted: records of matches, texts and lines
    ScriptTypes,    \* of "bash", "python", "ansible", "terraform"
    ModelCacheSize  \* MODEL_CACHE_SIZE

VARIABLES
    analysisCache,  \* _analysis_cache: what is cached, by content and type
    analysed        \* what was answered, by content and type (ghost)

avars == <<analysisCache, analysed>>

\* SECURITY_PATTERNS with their risk.  The fork bomb's pattern reads `:()` as a
\* colon and an empty group: it matches `:{`, never the fork bomb's `:(){`.
RiskOf ==
    [rm_root |-> "critical", fork_bomb |-> "critical", dd_device |-> "high", eval |-> "high",
     exec |-> "high", shell_true |-> "high", chmod_777 |-> "medium", password |-> "high",
     api_key |-> "high", curl_bash |-> "high", wget_sh |-> "high", os_system |-> "medium"]
Matching(content) == DOMAIN content.matches \ {"fork_bomb"}

RiskWeight == [low |-> 5, medium |-> 15, high |-> 30, critical |-> 50]

AtLeast(low, n) == IF n < low THEN low ELSE n
AtMost(high, n) == IF n > high THEN high ELSE n
If(condition, n) == IF condition THEN n ELSE 0
-----------------------------------------------------------------------------

\* A mutant of AnalyzeSecurity: the comparison that keeps max_risk is the other way.
AnalyzeSecurityLowest(content) ==
    LET penalty == MapThenSumSet(LAMBDA p : content.matches[p] * RiskWeight[RiskOf[p]],
                                 Matching(content))
        risks == {RiskOf[p] : p \in {q \in Matching(content) : content.matches[q] > 0}}
    IN  [score |-> AtLeast(0, 100 - penalty),
         risk_level |-> IF risks = {} THEN "low"
                        ELSE CHOOSE r \in risks : \A s \in risks : RiskWeight[r] <= RiskWeight[s]]

\* _analyze_security: every match costs the weight of its pattern.
AnalyzeSecurity(content) ==
    LET penalty == MapThenSumSet(LAMBDA p : content.matches[p] * RiskWeight[RiskOf[p]],
                                 Matching(content))
        risks == {"low"} \cup {RiskOf[p] : p \in {q \in Matching(content) : content.matches[q] > 0}}
    IN  [score |-> AtLeast(0, 100 - penalty),
         risk_level |-> CHOOSE r \in risks : \A s \in risks : RiskWeight[s] <= RiskWeight[r]]

\* _analyze_quality, over the lines in all, blank, of comment and over 120 wide.
AnalyzeQuality(content) ==
    LET l == content.lines
        code == l.total - l.blank - l.comment
    IN  [score |-> 100 - If(10 * l.comment < AtLeast(1, code), 10)
                       - If(10 * l.long > AtLeast(1, l.total), 15)
                       - If(l.total > 500, 10)
                       - If("function" \notin content.texts /\ code > 50, 15),
         performance |-> 100 - If("nested_for" \in content.texts, 20)
                             - If("endless_while" \in content.texts, 10)]

\* How many suggestions _generate_suggestions makes.
Suggestions(content, type) ==
    LET lacks(text) == If(text \notin content.texts, 1) IN
    Cardinality({p \in Matching(content) : content.matches[p] > 0})
    + If(type = "bash", lacks("set -e") + lacks("#!"))
    + If(type = "python", If("print" \in content.texts, lacks("import logging")) + lacks("if __name__"))
    + content.lines.long

\* _check_best_practices; only bash has practices of its own.
BestPractices(content, type) ==
    content.texts \cap (IF type = "bash" THEN {"set -e", "set -u", "set -o pipefail", "#!/bin/bash"}
                        ELSE {"if __name__", "import logging", "try:", "with open"})

AnalyzeScript(content, type) ==
    LET security == AnalyzeSecurity(content)
        quality == AnalyzeQuality(content)
        overall == 4 * security.score + 3 * quality.score + 3 * (100 - 5 * Suggestions(content, type))
    IN  [security |-> security.score, quality |-> quality.score,
         performance |-> quality.performance, overall |-> AtLeast(0, AtMost(1000, overall)),
         risk_level |-> security.risk_level, practices |-> BestPractices(content, type)]

Init == analysisCache = {} /\ analysed = {}

\* POST /analyze: the cache answers, or the analysis, which is cached while there
\* is room.
Analyze(content, type) ==
    LET known == {e \in analysisCache : e.content = content /\ e.type = type}
        entry == IF known # {} THEN CHOOSE e \in known : TRUE
                 ELSE [content |-> content, type |-> type, result |-> AnalyzeScript(content, type)]
    IN  /\ analysisCache' = IF Cardinality(analysisCache) < ModelCacheSize
                            THEN analysisCache \cup {entry} ELSE analysisCache
        /\ analysed' = analysed \cup {entry}

Next == \E content \in Submissions, type \in ScriptTypes : Analyze(content, type)

Spec == Init /\ [][Next]_avars
-----------------------------------------------------------------------------

TypeOK ==
    /\ Cardinality(analysisCache) <= ModelCacheSize /\ analysisCache \subseteq analysed
    /\ \A e \in analysed :
        /\ e.result.security \in 0..100 /\ e.result.overall \in 0..1000
        /\ e.result.quality \in 50..100 /\ e.result.performance \in 70..100
        /\ e.result.risk_level \in DOMAIN RiskWeight

\* A dangerous construct never pays: of two analysed contents that differ only in
\* how often the patterns match, the one with more matches has no better score
\* and no lower risk, also when scores are cut off at 0 and answers are cached.
DangerNeverPays ==
    \A e, f \in analysed :
        /\ e.type = f.type /\ e.content.texts = f.content.texts /\ e.content.lines = f.content.lines
        /\ \A p \in DOMAIN RiskOf : e.content.matches[p] <= f.content.matches[p]
        => /\ f.result.security <= e.result.security
           /\ f.result.overall <= e.result.overall
           /\ RiskWeight[e.result.risk_level] <= RiskWeight[f.result.risk_level]
=============================================================================
