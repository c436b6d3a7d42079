------------------------------ MODULE CollabDoc ------------------------------
(***************************************************************************)
(* The shared document of one collaboration session: the operational       *)
(* transformation engine and CollaborationManager.handle_operation.        *)
(*                                                                         *)
(* A document is a sequence of character identities, so that the model can *)
(* say which character an author meant.  A client sends an operation that  *)
(* is valid in the document of some revision it has seen; the server       *)
(* transforms it against what it finds in its history, applies it and      *)
(* records it.  handle_operation does not await before all this is done,   *)
(* so it is one step.                                                      *)
(***************************************************************************)
EXTENDS Naturals, Sequences, SequencesExt

CONSTANTS
    HistoryMax,    \* history is cut when it grows longer than this (1000)
    HistoryKeep,   \* what the cut keeps (500)
    Lengths,       \* lengths of inserted and deleted text
    MaxRevision    \* bound: operations handled

ASSUME DocAssumption ==
    /\ HistoryMax \in Nat /\ HistoryKeep \in 1..HistoryMax
    /\ Lengths \subseteq Nat \ {0}
    /\ MaxRevision \in Nat

VARIABLES
    content,   \* the document
    revision,  \* number of operations applied
    history,   \* the retained operations, as transformed
    views,     \* views[r + 1]: the document at revision r (ghost)
    log,       \* every operation as recorded (ghost)
    last       \* the last request and what became of it (ghost)

vars == <<content, revision, history, views, log, last>>

\* Operation: `text` is empty for a delete, `len` zero for an insert, and a
\* retain has neither.
Insert(p, s)  == [type |-> "insert", position |-> p, text |-> s, len |-> 0]
Delete(p, n)  == [type |-> "delete", position |-> p, text |-> <<>>, len |-> n]
Retain(p)     == [type |-> "retain", position |-> p, text |-> <<>>, len |-> 0]

Shift(op, p) == [op EXCEPT !.position = p]

\* content[:p] and content[p:] of Python: indices beyond the end are clamped.
UpTo(s, p) == SubSeq(s, 1, IF p < Len(s) THEN p ELSE Len(s))
From(s, p) == SubSeq(s, p + 1, Len(s))

Apply(s, op) ==
    CASE op.type = "insert" -> UpTo(s, op.position) \o op.text \o From(s, op.position)
      [] op.type = "delete" -> UpTo(s, op.position) \o From(s, op.position + op.len)
      [] OTHER              -> s

\* Mutant of Transform: the insert that comes second is not shifted on a tie.
TransformNoTie(a, b) ==
    CASE a.type = "insert" /\ b.type = "insert" ->
            IF a.position < b.position
            THEN <<a, Shift(b, b.position + Len(a.text))>>
            ELSE <<Shift(a, a.position + Len(b.text)), Shift(b, b.position + Len(a.text))>>
      [] OTHER -> <<a, b>>

\* OperationalTransform.transform.  Pairs with no rule come back unchanged.
Transform(a, b) ==
    CASE a.type = "insert" /\ b.type = "insert" ->
            IF a.position <= b.position
            THEN <<a, Shift(b, b.position + Len(a.text))>>
            ELSE <<Shift(a, a.position + Len(b.text)), b>>
      [] a.type = "delete" /\ b.type = "delete" /\ a.position >= b.position + b.len ->
            <<Shift(a, a.position - b.len), b>>
      [] a.type = "delete" /\ b.type = "delete" /\ b.position >= a.position + a.len ->
            <<a, Shift(b, b.position - a.len)>>
      [] a.type = "insert" /\ b.type = "delete" /\ a.position <= b.position ->
            <<a, Shift(b, b.position + Len(a.text))>>
      [] a.type = "insert" /\ b.type = "delete"
            /\ a.position > b.position /\ a.position >= b.position + b.len ->
            <<Shift(a, a.position - b.len), b>>
      [] OTHER -> <<a, b>>

\* The pairs of edits for which `transform` has a rule.
HasRule(a, b) ==
    \/ "retain" \in {a.type, b.type}
    \/ a.type = "insert" /\ b.type = "insert"
    \/ /\ a.type = "delete" /\ b.type = "delete"
       /\ a.position >= b.position + b.len \/ b.position >= a.position + a.len
    \/ /\ a.type = "insert" /\ b.type = "delete"
       /\ a.position <= b.position \/ a.position >= b.position + b.len

\* One round of the loop over the history: the first of the transformed pair is
\* kept.  `ruled` says whether every pair met a rule.
Against(acc, h) == [op |-> Transform(acc.op, h)[1], ruled |-> acc.ruled /\ HasRule(acc.op, h)]

\* Mutant of TransformOver: the newest retained operation is skipped.
TransformOverButLast(op, ops) ==
    LET over[i \in 0..Len(ops)] ==
            IF i = 0 THEN [op |-> op, ruled |-> TRUE]
            ELSE IF i = Len(ops) THEN over[i - 1] ELSE Against(over[i - 1], ops[i])
    IN over[Len(ops)]

\* The loop over the history.
TransformOver(op, ops) ==
    LET over[i \in 0..Len(ops)] ==
            IF i = 0 THEN [op |-> op, ruled |-> TRUE] ELSE Against(over[i - 1], ops[i])
    IN over[Len(ops)]

\* Mutant of Trim: keeps the oldest operations instead of the newest.
TrimOldest(h) == IF Len(h) > HistoryMax THEN SubSeq(h, 1, HistoryKeep) ELSE h

\* if len(history) > 1000: history = history[-500:]
Trim(h) ==
    IF Len(h) > HistoryMax THEN SubSeq(h, Len(h) - HistoryKeep + 1, Len(h)) ELSE h

\* n new characters, inserted by the operation that gets revision r.
Fresh(r, n) == [i \in 1..n |-> <<r, i>>]

\* The operations a client can form on the document s, to get revision r.
Requests(s, r) ==
    {Insert(p, Fresh(r, n)) : p \in 0..Len(s), n \in Lengths}
    \cup {Delete(p, n) : p \in 0..Len(s), n \in Lengths}
    \cup {Retain(0)}

\* session.revision += 1; operation.revision = session.revision
Stamped(op, r) == [type |-> op.type, position |-> op.position, text |-> op.text,
                   len |-> op.len, revision |-> r + 1]

ValidOn(op, s) == op.position + op.len <= Len(s)

Init ==
    /\ content = <<>>
    /\ revision = 0
    /\ history = <<>>
    /\ views = <<(<<>>)>>
    /\ log = <<>>
    /\ last = [op |-> Retain(0), base |-> 0, ruled |-> TRUE, concurrent |-> 0]

\* handle_operation for a request formed at revision `base`.  The slice
\* history[base:] counts from the start of the retained history.
HandleOperation(base, op) ==
    LET slice == IF base < revision THEN From(history, base) ELSE <<>>
        done  == TransformOver(op, slice)
        entry == Stamped(done.op, revision)
    IN
    /\ revision < MaxRevision
    /\ content' = Apply(content, done.op)
    /\ revision' = revision + 1
    /\ history' = Trim(Append(history, entry))
    /\ views' = Append(views, content')
    /\ log' = Append(log, entry)
    /\ last' = [op |-> op, base |-> base, ruled |-> done.ruled,
                concurrent |-> Len(slice)]

Next ==
    \E base \in 0..revision : \E op \in Requests(views[base + 1], revision + 1) :
        ValidOn(op, views[base + 1]) /\ HandleOperation(base, op)

Spec == Init /\ [][Next]_vars

-----------------------------------------------------------------------------

Chars == Nat \X Nat

IsOperation(op) ==
    /\ op.type \in {"insert", "delete", "retain"}
    /\ op.position \in Nat /\ op.len \in Nat
    /\ op.text \in Seq(Chars)

TypeOK ==
    /\ content \in Seq(Chars)
    /\ revision \in 0..MaxRevision
    /\ \A i \in DOMAIN history : IsOperation(history[i]) /\ history[i].revision \in 1..revision
    /\ Len(views) = revision + 1 /\ Len(log) = revision

\* Two operations formed on the same document, for which the engine has a
\* rule, lead to the same document in either order once transformed
\* (OperationalTransform.transform and apply).
PairsConverge ==
    \A a \in Requests(content, revision + 1), b \in Requests(content, revision + 2) :
        ValidOn(a, content) /\ ValidOn(b, content) /\ HasRule(a, b) =>
            LET t == Transform(a, b) IN
            Apply(Apply(content, a), t[2]) = Apply(Apply(content, b), t[1])

\* The history always ends with the latest operations in order, and a cut
\* never leaves fewer than HistoryKeep of them (handle_operation's trimming).
HistoryIsLatest ==
    /\ IsSuffix(history, log)
    /\ Len(history) <= HistoryMax
    /\ Len(history) >= (IF revision < HistoryKeep THEN revision ELSE HistoryKeep)

\* What the author of `op` meant, who saw `view`, of a step from `before` to
\* `after`: text goes between the characters seen on the left and on the right,
\* and a delete removes the selected characters and nothing else.
Means(op, view, before, after) ==
    LET p     == op.position
        At(c) == CHOOSE i \in DOMAIN after : after[i] = c
    IN
    CASE op.type = "insert" ->
            /\ ToSet(op.text) \subseteq ToSet(after)
            /\ \A c \in ToSet(view) \cap ToSet(after) : \A x \in ToSet(op.text) :
                 (At(c) < At(x)) <=> (\E i \in 1..p : view[i] = c)
      [] op.type = "delete" ->
            ToSet(after) = ToSet(before) \ {view[i] : i \in (p + 1)..(p + op.len)}
      [] OTHER -> after = before

\* The last operation did what its author meant.
Meant == Means(last.op, views[last.base + 1], views[revision], content)

\* Every operation does what its author meant, however old the revision it
\* was formed on, as long as the engine has a rule for each pair it meets and
\* the history still reaches back to that revision.
IntentKept ==
    last.ruled /\ last.concurrent + last.base + 1 = revision => Meant

\* "Operational Transformation engine for conflict resolution.": concurrent
\* operations are resolved so that each does what its author meant.
ConflictsResolved == revision > 0 => Meant
=============================================================================
