-------------------------- MODULE CollabDocProofs --------------------------
(***************************************************************************)
(* The shared document: proofs for CollabDoc, for documents and operations *)
(* of any length, any number of operations and any limits of the history.  *)
(*                                                                         *)
(* The first part says what the operations of the engine compute, character*)
(* by character; that pairs converge is about the engine alone.  The second*)
(* relates the history and the documents so far by an inductive invariant. *)
(* The third follows an operation through the loop over the history: what  *)
(* its author meant is the same after each round that has a rule.          *)
(***************************************************************************)
EXTENDS CollabDoc, SequenceTheorems, WellFoundedInduction, TLAPS

-----------------------------------------------------------------------------
(* Induction over the natural numbers, for the members of one set: the     *)
(* theorems of the library take a predicate as their parameter, which the  *)
(* provers cannot instantiate.                                             *)

LEMMA AllNaturals ==
  ASSUME NEW S, 0 \in S, \A n \in Nat : n \in S => n + 1 \in S
  PROVE  \A n \in Nat : n \in S
<1> SUFFICES ASSUME {n \in Nat : n \notin S} # {} PROVE FALSE
  OBVIOUS
<1> DEFINE T == {n \in Nat : n \notin S}
<1>1. IsWellFoundedOn(OpToRel(<, Nat), Nat)
  BY NatLessThanWellFounded, Zenon
<1>2. T \subseteq Nat /\ T # {}
  OBVIOUS
<1>3. PICK m \in T : \A n \in T : ~(<<n, m>> \in OpToRel(<, Nat))
  BY <1>1, <1>2, WFMin, Zenon
<1>4. \A n \in T : ~(n < m)
  BY <1>2, <1>3, Zenon DEF OpToRel
<1>5. m \in Nat /\ m # 0 /\ m \notin S
  OBVIOUS
<1>6. m - 1 \in Nat /\ m - 1 < m /\ (m - 1) + 1 = m
  BY <1>5
<1>7. m - 1 \notin T
  BY <1>4, <1>6
<1> QED BY <1>5, <1>6, <1>7

-----------------------------------------------------------------------------
(* Operations: what their fields are and what they do to a document.       *)

Kinds == {"insert", "delete", "retain"}

Texts == Seq(Chars)

IsEdit(op) ==
    /\ op.type \in Kinds /\ op.position \in Nat /\ op.len \in Nat /\ op.text \in Texts
    /\ op.type = "delete" <=> op.len > 0

OpRecords == [type : Kinds, position : Nat, text : Texts, len : Nat]

Edits == {op \in OpRecords : op.type = "delete" <=> op.len > 0}

LEMMA EditFields == \A op \in Edits : IsEdit(op) /\ op \in OpRecords
  BY DEF Edits, IsEdit, OpRecords

\* What a client forms names the characters that it inserts by the revision.
LEMMA RequestFields ==
  ASSUME DocAssumption, NEW s \in Texts, NEW r \in Nat, NEW op \in Requests(s, r)
  PROVE  op \in Edits /\ \A i \in 1..Len(op.text) : op.text[i] = <<r, i>>
<1>0. Lengths \subseteq Nat \ {0} /\ Len(s) \in Nat
  BY DEF DocAssumption, Texts
<1>1. <<>> \in Texts /\ Len(<<>>) = 0
  BY EmptySeq DEF Texts
<1> DEFINE Inserts == {Insert(p, Fresh(r, n)) : p \in 0..Len(s), n \in Lengths}
           Deletes == {Delete(p, n) : p \in 0..Len(s), n \in Lengths}
<1>2. CASE op \in Inserts
  <2>1. PICK p \in 0..Len(s), n \in Lengths : op = Insert(p, Fresh(r, n))
    BY <1>2
  <2>2. PICK t : t = Fresh(r, n)
    OBVIOUS
  <2>3. n \in Nat /\ p \in Nat
    BY <1>0
  <2>4. \A i \in 1..n : <<r, i>> \in Chars
    BY <2>3 DEF Chars
  <2>5. t \in Texts /\ Len(t) = n /\ \A i \in 1..n : t[i] = <<r, i>>
    <3>1. t \in [1..n -> Chars]
      BY <2>2, <2>4 DEF Fresh
    <3> QED BY <2>2, <2>3, <3>1 DEF Texts, Fresh
  <2>6. op = [type |-> "insert", position |-> p, text |-> t, len |-> 0]
    BY <2>1, <2>2 DEF Insert
  <2>7. op \in OpRecords /\ op.type = "insert" /\ op.len = 0 /\ op.text = t
    BY <2>3, <2>5, <2>6 DEF OpRecords, Kinds
  <2> QED BY <2>5, <2>7 DEF Edits
<1>3. CASE op \in Deletes
  <2>1. PICK p \in 0..Len(s), n \in Lengths : op = Delete(p, n)
    BY <1>3
  <2>2. n \in Nat /\ p \in Nat /\ n > 0
    BY <1>0
  <2> QED BY <1>1, <2>1, <2>2 DEF Edits, OpRecords, Kinds, Delete
<1>4. CASE op = Retain(0)
  BY <1>1, <1>4 DEF Edits, OpRecords, Kinds, Retain
<1>5. op \in Inserts \cup Deletes \cup {Retain(0)}
  BY DEF Requests
<1> HIDE DEF Inserts, Deletes
<1> QED BY <1>2, <1>3, <1>4, <1>5

\* r is s with the text x between its first p characters and the others.
Inserted(s, p, x, r) ==
    /\ r \in Texts /\ Len(r) = Len(s) + Len(x)
    /\ \A i \in 1..Len(s) + Len(x) :
         r[i] = IF i <= p THEN s[i] ELSE IF i <= p + Len(x) THEN x[i - p] ELSE s[i - Len(x)]

\* r is s without the n characters that follow its first p.
Deleted(s, p, n, r) ==
    /\ r \in Texts /\ Len(r) = Len(s) - n
    /\ \A i \in 1..Len(s) - n : r[i] = IF i <= p THEN s[i] ELSE s[i + n]

Least(m, n) == IF m <= n THEN m ELSE n

LEMMA TextLen == \A s \in Texts : Len(s) \in Nat
  BY DEF Texts

LEMMA Joined ==
  ASSUME NEW s \in Texts, NEW t \in Texts
  PROVE  /\ s \o t \in Texts /\ Len(s \o t) = Len(s) + Len(t)
         /\ \A i \in 1..Len(s) + Len(t) :
              (s \o t)[i] = IF i <= Len(s) THEN s[i] ELSE t[i - Len(s)]
  BY ConcatProperties DEF Texts

LEMMA UpToIs ==
  ASSUME NEW s \in Texts, NEW p \in Nat
  PROVE  /\ UpTo(s, p) \in Texts /\ Len(UpTo(s, p)) = Least(p, Len(s))
         /\ \A i \in 1..Least(p, Len(s)) : UpTo(s, p)[i] = s[i]
<1>1. PICK n \in 0..Len(s) : n = Least(p, Len(s)) /\ n = IF p < Len(s) THEN p ELSE Len(s)
  BY TextLen DEF Least
<1>2. \A i \in 1..n : s[i] \in Chars
  BY DEF Texts
<1>3. 1 \in Int /\ n \in Int /\ n \in Nat
  BY TextLen
<1>4. /\ SubSeq(s, 1, n) \in Seq(Chars)
      /\ Len(SubSeq(s, 1, n)) = IF 1 <= n THEN n - 1 + 1 ELSE 0
      /\ \A i \in 1 .. n - 1 + 1 : SubSeq(s, 1, n)[i] = s[1 + i - 1]
  BY <1>2, <1>3, SubSeqProperties
<1>5. /\ Len(SubSeq(s, 1, n)) = n
      /\ \A i \in 1..n : SubSeq(s, 1, n)[i] = s[i]
  BY <1>3, <1>4
<1>6. UpTo(s, p) = SubSeq(s, 1, n)
  BY <1>1 DEF UpTo
<1> QED BY <1>1, <1>4, <1>5, <1>6 DEF Texts

LEMMA FromIs ==
  ASSUME NEW S, NEW s \in Seq(S), NEW p \in Nat
  PROVE  /\ From(s, p) \in Seq(S) /\ Len(From(s, p)) = Len(s) - Least(p, Len(s))
         /\ \A i \in 1..Len(s) - Least(p, Len(s)) : From(s, p)[i] = s[p + i]
<1>1. PICK n \in Nat : n = Len(s)
  OBVIOUS
<1>2. \A i \in (p + 1)..n : s[i] \in S
  BY <1>1
<1>3. p + 1 \in Int /\ n \in Int
  OBVIOUS
<1>4. /\ SubSeq(s, p + 1, n) \in Seq(S)
      /\ Len(SubSeq(s, p + 1, n)) = IF p + 1 <= n THEN n - (p + 1) + 1 ELSE 0
      /\ \A i \in 1 .. n - (p + 1) + 1 : SubSeq(s, p + 1, n)[i] = s[(p + 1) + i - 1]
  BY <1>2, <1>3, SubSeqProperties
<1>5. Len(SubSeq(s, p + 1, n)) = n - Least(p, n)
  BY <1>4 DEF Least
<1>6. ASSUME NEW i \in 1..n - Least(p, n)
      PROVE  SubSeq(s, p + 1, n)[i] = s[p + i]
  <2>1. i \in 1 .. n - (p + 1) + 1 /\ (p + 1) + i - 1 = p + i
    BY DEF Least
  <2> QED BY <1>4, <2>1
<1> QED BY <1>1, <1>4, <1>5, <1>6 DEF From

LEMMA TextFrom ==
  ASSUME NEW s \in Texts, NEW p \in Nat
  PROVE  /\ From(s, p) \in Texts /\ Len(From(s, p)) = Len(s) - Least(p, Len(s))
         /\ \A i \in 1..Len(s) - Least(p, Len(s)) : From(s, p)[i] = s[p + i]
<1>1. s \in Seq(Chars)
  BY DEF Texts
<1> HIDE DEF Texts
<1>2. /\ From(s, p) \in Seq(Chars) /\ Len(From(s, p)) = Len(s) - Least(p, Len(s))
      /\ \A i \in 1..Len(s) - Least(p, Len(s)) : From(s, p)[i] = s[p + i]
  BY <1>1, FromIs
<1> QED BY <1>2 DEF Texts

\* Positions beyond the end count as the end.
LEMMA InsertDoes ==
  ASSUME NEW s \in Texts, NEW op, IsEdit(op), op.type = "insert"
  PROVE  Inserted(s, Least(op.position, Len(s)), op.text, Apply(s, op))
<1>1. PICK p, x, l, n, q : /\ p = op.position /\ x = op.text /\ l = Len(s) /\ n = Len(x)
                           /\ q = Least(p, l)
  OBVIOUS
<1>2. /\ p \in Nat /\ x \in Texts /\ l \in Nat /\ n \in Nat /\ q \in Nat
      /\ q <= l /\ (q < l => q = p)
  BY <1>1, TextLen DEF IsEdit, Least
<1>3. PICK a, b, c, r : a = UpTo(s, p) /\ b = From(s, p) /\ c = a \o x /\ r = c \o b
  OBVIOUS
<1>4. a \in Texts /\ Len(a) = q /\ \A i \in 1..q : a[i] = s[i]
  BY <1>1, <1>2, <1>3, UpToIs
<1>5. b \in Texts /\ Len(b) = l - q /\ \A i \in 1..l - q : b[i] = s[p + i]
  BY <1>1, <1>2, <1>3, TextFrom
<1>6. Apply(s, op) = r
  BY <1>1, <1>3 DEF Apply
<1>7. /\ c \in Texts /\ Len(c) = q + n
      /\ \A i \in 1..q + n : c[i] = IF i <= q THEN a[i] ELSE x[i - q]
  <2>1. /\ c \in Texts /\ Len(c) = Len(a) + Len(x)
        /\ \A i \in 1..Len(a) + Len(x) : c[i] = IF i <= Len(a) THEN a[i] ELSE x[i - Len(a)]
    BY <1>2, <1>3, <1>4, Joined
  <2>2. Len(a) = q /\ Len(x) = n
    BY <1>1, <1>4
  <2> QED BY <2>1, <2>2
<1>8. /\ r \in Texts /\ Len(r) = l + n
      /\ \A i \in 1..l + n : r[i] = IF i <= q + n THEN c[i] ELSE b[i - (q + n)]
  <2>1. /\ r \in Texts /\ Len(r) = Len(c) + Len(b)
        /\ \A i \in 1..Len(c) + Len(b) : r[i] = IF i <= Len(c) THEN c[i] ELSE b[i - Len(c)]
    <3>1. c \in Texts /\ b \in Texts /\ r = c \o b
      BY <1>3, <1>5, <1>7
    <3> QED BY <3>1, Joined
  <2>2. Len(c) = q + n /\ Len(c) + Len(b) = l + n
    BY <1>2, <1>5, <1>7
  <2> QED BY <2>1, <2>2
<1>9. ASSUME NEW i \in 1..l + n
      PROVE  r[i] = IF i <= q THEN s[i] ELSE IF i <= q + n THEN x[i - q] ELSE s[i - n]
  <2>1. i \in Nat /\ 1 <= i /\ i <= l + n
    BY <1>2
  <2>2. CASE i <= q
    <3>1. i \in 1..q /\ i \in 1..q + n /\ i <= q + n
      BY <1>2, <2>1, <2>2
    <3> QED BY <1>4, <1>7, <1>8, <2>2, <3>1
  <2>3. CASE q < i /\ i <= q + n
    <3>1. i \in 1..q + n /\ ~(i <= q)
      BY <1>2, <2>1, <2>3
    <3> QED BY <1>7, <1>8, <2>3, <3>1
  <2>4. CASE q + n < i
    <3>1. /\ ~(i <= q) /\ ~(i <= q + n) /\ q < l
      BY <1>2, <2>1, <2>4
    <3>2. i - (q + n) \in 1..l - q /\ p + (i - (q + n)) = i - n
      BY <1>2, <2>1, <2>4, <3>1
    <3> QED BY <1>5, <1>8, <3>1, <3>2
  <2> QED BY <1>2, <2>1, <2>2, <2>3, <2>4
<1> QED BY <1>1, <1>6, <1>8, <1>9 DEF Inserted

LEMMA DeleteDoes ==
  ASSUME NEW s \in Texts, NEW op, IsEdit(op), op.type = "delete"
  PROVE  LET p == Least(op.position, Len(s)) IN
         Deleted(s, p, Least(op.position + op.len, Len(s)) - p, Apply(s, op))
<1>1. PICK p, e, l, q, f : /\ p = op.position /\ e = p + op.len /\ l = Len(s)
                           /\ q = Least(p, l) /\ f = Least(e, l)
  OBVIOUS
<1>2. /\ p \in Nat /\ e \in Nat /\ l \in Nat /\ q \in Nat /\ f \in Nat
      /\ q <= f /\ f <= l /\ (f < l => f = e)
  <2>1. p \in Nat /\ e \in Nat /\ l \in Nat /\ p <= e
    BY <1>1, TextLen DEF IsEdit
  <2> QED BY <1>1, <2>1 DEF Least
<1>3. PICK a, b, r : a = UpTo(s, p) /\ b = From(s, e) /\ r = a \o b
  OBVIOUS
<1>4. a \in Texts /\ Len(a) = q /\ \A i \in 1..q : a[i] = s[i]
  BY <1>1, <1>2, <1>3, UpToIs
<1>5. b \in Texts /\ Len(b) = l - f /\ \A i \in 1..l - f : b[i] = s[e + i]
  BY <1>1, <1>2, <1>3, TextFrom
<1>6. Apply(s, op) = r
  BY <1>1, <1>3 DEF Apply
<1>7. /\ r \in Texts /\ Len(r) = l - (f - q)
      /\ \A i \in 1..l - (f - q) : r[i] = IF i <= q THEN a[i] ELSE b[i - q]
  <2>1. /\ r \in Texts /\ Len(r) = Len(a) + Len(b)
        /\ \A i \in 1..Len(a) + Len(b) : r[i] = IF i <= Len(a) THEN a[i] ELSE b[i - Len(a)]
    BY <1>3, <1>4, <1>5, Joined
  <2>2. Len(a) = q /\ Len(a) + Len(b) = l - (f - q)
    BY <1>2, <1>4, <1>5
  <2> QED BY <2>1, <2>2
<1>8. ASSUME NEW i \in 1..l - (f - q)
      PROVE  r[i] = IF i <= q THEN s[i] ELSE s[i + (f - q)]
  <2>1. i \in Nat /\ 1 <= i /\ i <= l - (f - q)
    BY <1>2
  <2>2. CASE i <= q
    <3>1. i \in 1..q
      BY <1>2, <2>1, <2>2
    <3> QED BY <1>4, <1>7, <2>2, <3>1
  <2>3. CASE q < i
    <3>1. f < l /\ i - q \in 1..l - f /\ ~(i <= q)
      BY <1>2, <2>1, <2>3
    <3>2. e + (i - q) = i + (f - q)
      BY <1>2, <2>1, <3>1
    <3> QED BY <1>5, <1>7, <3>1, <3>2
  <2> QED BY <1>2, <2>1, <2>2, <2>3
<1>9. Deleted(s, q, f - q, r)
  BY <1>1, <1>7, <1>8 DEF Deleted
<1> QED BY <1>1, <1>6, <1>9

LEMMA RetainDoes ==
  ASSUME NEW s, NEW op, op.type = "retain"
  PROVE  Apply(s, op) = s
BY DEF Apply

LEMMA ApplyText ==
  ASSUME NEW s \in Texts, NEW op, IsEdit(op)
  PROVE  Apply(s, op) \in Texts
BY InsertDoes, DeleteDoes, RetainDoes DEF IsEdit, Kinds, Inserted, Deleted

-----------------------------------------------------------------------------
(* Convergence of pairs.                                                   *)

LEMMA Same ==
  ASSUME NEW s \in Texts, NEW t \in Texts, Len(s) = Len(t), \A i \in 1..Len(s) : s[i] = t[i]
  PROVE  s = t
  BY SeqEqual DEF Texts

LEMMA InsertInsert ==
  ASSUME NEW s \in Texts, NEW x \in Texts, NEW y \in Texts, NEW p \in Nat, NEW q \in Nat,
         p <= q, q <= Len(s), NEW r1, NEW r, NEW t1, NEW t,
         Inserted(s, p, x, r1), Inserted(r1, q + Len(x), y, r),
         Inserted(s, q, y, t1), Inserted(t1, p, x, t)
  PROVE  r = t
<1>1. PICK l \in Nat, m \in Nat, n \in Nat : l = Len(s) /\ m = Len(x) /\ n = Len(y)
  BY TextLen
<1>2. /\ Len(r1) = l + m /\ Len(t1) = l + n
      /\ \A i \in 1..l + m : r1[i] = IF i <= p THEN s[i] ELSE IF i <= p + m THEN x[i - p] ELSE s[i - m]
      /\ \A i \in 1..l + n : t1[i] = IF i <= q THEN s[i] ELSE IF i <= q + n THEN y[i - q] ELSE s[i - n]
  BY <1>1 DEF Inserted
<1>3. /\ r \in Texts /\ Len(r) = l + m + n
      /\ \A i \in 1..l + m + n : r[i] = IF i <= q + m THEN r1[i]
                                        ELSE IF i <= (q + m) + n THEN y[i - (q + m)] ELSE r1[i - n]
  BY <1>1, <1>2 DEF Inserted
<1>4. /\ t \in Texts /\ Len(t) = l + n + m
      /\ \A i \in 1..l + n + m : t[i] = IF i <= p THEN t1[i]
                                        ELSE IF i <= p + m THEN x[i - p] ELSE t1[i - m]
  BY <1>1, <1>2 DEF Inserted
<1>5. ASSUME NEW i \in 1..l + m + n PROVE r[i] = t[i]
  <2>1. i \in 1..l + n + m /\ i \in Nat /\ 1 <= i
    BY <1>1
  <2>2. /\ r[i] = IF i <= q + m THEN r1[i]
                  ELSE IF i <= (q + m) + n THEN y[i - (q + m)] ELSE r1[i - n]
        /\ t[i] = IF i <= p THEN t1[i] ELSE IF i <= p + m THEN x[i - p] ELSE t1[i - m]
    BY <1>3, <1>4, <2>1
  <2>3. CASE i <= p
    <3>1. i \in 1..l + m /\ i \in 1..l + n /\ i <= q /\ i <= q + m
      BY <1>1, <2>1, <2>3
    <3> QED BY <1>2, <2>2, <2>3, <3>1
  <2>4. CASE p < i /\ i <= p + m
    <3>1. i \in 1..l + m /\ i <= q + m /\ ~(i <= p)
      BY <1>1, <2>1, <2>4
    <3> QED BY <1>2, <2>2, <2>4, <3>1
  <2>5. CASE p + m < i /\ i <= q + m
    <3>1. i \in 1..l + m /\ ~(i <= p) /\ ~(i <= p + m)
      BY <1>1, <2>1, <2>5
    <3>2. i - m \in 1..l + n /\ i - m <= q
      BY <1>1, <2>1, <2>5
    <3> QED BY <1>2, <2>2, <2>5, <3>1, <3>2
  <2>6. CASE q + m < i /\ i <= q + m + n
    <3>1. ~(i <= p) /\ ~(i <= p + m) /\ ~(i <= q + m)
      BY <1>1, <2>1, <2>6
    <3>2. /\ i - m \in 1..l + n /\ ~(i - m <= q) /\ i - m <= q + n
          /\ (i - m) - q = i - (q + m)
      BY <1>1, <2>1, <2>6
    <3> QED BY <1>2, <2>2, <2>6, <3>1, <3>2
  <2>7. CASE q + m + n < i
    <3>1. ~(i <= p) /\ ~(i <= p + m) /\ ~(i <= q + m) /\ ~(i <= (q + m) + n)
      BY <1>1, <2>1, <2>7
    <3>2. i - m \in 1..l + n /\ ~(i - m <= q) /\ ~(i - m <= q + n)
      BY <1>1, <2>1, <2>7
    <3>3. /\ i - n \in 1..l + m /\ ~(i - n <= p) /\ ~(i - n <= p + m)
          /\ (i - n) - m = (i - m) - n
      BY <1>1, <2>1, <2>7
    <3> QED BY <1>2, <2>2, <3>1, <3>2, <3>3
  <2> QED BY <1>1, <2>1, <2>3, <2>4, <2>5, <2>6, <2>7
<1>6. l + m + n = l + n + m
  BY <1>1
<1> QED BY <1>3, <1>4, <1>5, <1>6, Same

LEMMA DeleteDelete ==
  ASSUME NEW s \in Texts, NEW p \in Nat, NEW m \in Nat, NEW q \in Nat, NEW n \in Nat,
         p + m <= q, q + n <= Len(s), NEW r1, NEW r, NEW t1, NEW t,
         Deleted(s, p, m, r1), Deleted(r1, q - m, n, r),
         Deleted(s, q, n, t1), Deleted(t1, p, m, t)
  PROVE  r = t
<1>1. PICK l \in Nat : l = Len(s)
  BY TextLen
<1>2. /\ Len(r1) = l - m /\ Len(t1) = l - n
      /\ \A i \in 1..l - m : r1[i] = IF i <= p THEN s[i] ELSE s[i + m]
      /\ \A i \in 1..l - n : t1[i] = IF i <= q THEN s[i] ELSE s[i + n]
  BY <1>1 DEF Deleted
<1>3. /\ r \in Texts /\ Len(r) = (l - m) - n
      /\ \A i \in 1..(l - m) - n : r[i] = IF i <= q - m THEN r1[i] ELSE r1[i + n]
  BY <1>2 DEF Deleted
<1>4. /\ t \in Texts /\ Len(t) = (l - n) - m
      /\ \A i \in 1..(l - n) - m : t[i] = IF i <= p THEN t1[i] ELSE t1[i + m]
  BY <1>2 DEF Deleted
<1>5. ASSUME NEW i \in 1..(l - m) - n PROVE r[i] = t[i]
  <2>1. /\ i \in 1..(l - n) - m /\ i \in Nat /\ 1 <= i /\ i \in 1..l - m /\ i \in 1..l - n
        /\ i + n \in 1..l - m /\ i + m \in 1..l - n /\ (i + n) + m = (i + m) + n
    BY <1>1
  <2>2. /\ r[i] = IF i <= q - m THEN r1[i] ELSE r1[i + n]
        /\ t[i] = IF i <= p THEN t1[i] ELSE t1[i + m]
    BY <1>3, <1>4, <2>1
  <2>3. CASE i <= p
    <3>1. i <= q - m /\ i <= q
      BY <2>1, <2>3
    <3> QED BY <1>2, <2>1, <2>2, <2>3, <3>1
  <2>4. CASE p < i /\ i <= q - m
    <3>1. ~(i <= p) /\ i + m <= q
      BY <2>1, <2>4
    <3> QED BY <1>2, <2>1, <2>2, <2>4, <3>1
  <2>5. CASE q - m < i
    <3>1. ~(i <= p) /\ ~(i <= q - m) /\ ~(i + m <= q) /\ ~(i + n <= p)
      BY <2>1, <2>5
    <3> QED BY <1>2, <2>1, <2>2, <3>1
  <2> QED BY <2>1, <2>3, <2>4, <2>5
<1>6. (l - m) - n = (l - n) - m
  BY <1>1
<1> QED BY <1>3, <1>4, <1>5, <1>6, Same

LEMMA InsertBeforeDelete ==
  ASSUME NEW s \in Texts, NEW x \in Texts, NEW p \in Nat, NEW q \in Nat, NEW n \in Nat,
         p <= q, q + n <= Len(s), NEW r1, NEW r, NEW t1, NEW t,
         Inserted(s, p, x, r1), Deleted(r1, q + Len(x), n, r),
         Deleted(s, q, n, t1), Inserted(t1, p, x, t)
  PROVE  r = t
<1>1. PICK l \in Nat, m \in Nat : l = Len(s) /\ m = Len(x)
  BY TextLen
<1>2. /\ Len(r1) = l + m /\ Len(t1) = l - n
      /\ \A i \in 1..l + m : r1[i] = IF i <= p THEN s[i] ELSE IF i <= p + m THEN x[i - p] ELSE s[i - m]
      /\ \A i \in 1..l - n : t1[i] = IF i <= q THEN s[i] ELSE s[i + n]
  BY <1>1 DEF Deleted, Inserted
<1>3. /\ r \in Texts /\ Len(r) = (l + m) - n
      /\ \A i \in 1..(l + m) - n : r[i] = IF i <= q + m THEN r1[i] ELSE r1[i + n]
  BY <1>1, <1>2 DEF Deleted
<1>4. /\ t \in Texts /\ Len(t) = (l - n) + m
      /\ \A i \in 1..(l - n) + m : t[i] = IF i <= p THEN t1[i]
                                          ELSE IF i <= p + m THEN x[i - p] ELSE t1[i - m]
  BY <1>1, <1>2 DEF Inserted
<1>5. ASSUME NEW i \in 1..(l + m) - n PROVE r[i] = t[i]
  <2>1. i \in 1..(l - n) + m /\ i \in Nat /\ 1 <= i /\ i \in 1..l + m /\ i + n \in 1..l + m
    BY <1>1
  <2>2. /\ r[i] = IF i <= q + m THEN r1[i] ELSE r1[i + n]
        /\ t[i] = IF i <= p THEN t1[i] ELSE IF i <= p + m THEN x[i - p] ELSE t1[i - m]
    BY <1>3, <1>4, <2>1
  <2>3. CASE i <= p
    <3>1. i <= q /\ i <= q + m /\ i \in 1..l - n
      BY <1>1, <2>1, <2>3
    <3> QED BY <1>2, <2>1, <2>2, <2>3, <3>1
  <2>4. CASE p < i /\ i <= p + m
    <3>1. ~(i <= p) /\ i <= q + m
      BY <1>1, <2>1, <2>4
    <3> QED BY <1>2, <2>1, <2>2, <2>4, <3>1
  <2>5. CASE p + m < i /\ i <= q + m
    <3>1. ~(i <= p) /\ ~(i <= p + m) /\ i - m \in 1..l - n /\ i - m <= q
      BY <1>1, <2>1, <2>5
    <3> QED BY <1>2, <2>1, <2>2, <2>5, <3>1
  <2>6. CASE q + m < i
    <3>1. ~(i <= p) /\ ~(i <= p + m) /\ ~(i <= q + m)
      BY <1>1, <2>1, <2>6
    <3>2. /\ i - m \in 1..l - n /\ ~(i - m <= q) /\ (i - m) + n = (i + n) - m
          /\ ~(i + n <= p) /\ ~(i + n <= p + m)
      BY <1>1, <2>1, <2>6
    <3> QED BY <1>2, <2>1, <2>2, <3>1, <3>2
  <2> QED BY <1>1, <2>1, <2>3, <2>4, <2>5, <2>6
<1>6. (l + m) - n = (l - n) + m
  BY <1>1
<1> QED BY <1>3, <1>4, <1>5, <1>6, Same

LEMMA InsertAfterDelete ==
  ASSUME NEW s \in Texts, NEW x \in Texts, NEW p \in Nat, NEW q \in Nat, NEW n \in Nat,
         q + n <= p, p <= Len(s), NEW r1, NEW r, NEW t1, NEW t,
         Inserted(s, p, x, r1), Deleted(r1, q, n, r),
         Deleted(s, q, n, t1), Inserted(t1, p - n, x, t)
  PROVE  r = t
<1>1. PICK l \in Nat, m \in Nat : l = Len(s) /\ m = Len(x)
  BY TextLen
<1>2. /\ Len(r1) = l + m /\ Len(t1) = l - n
      /\ \A i \in 1..l + m : r1[i] = IF i <= p THEN s[i] ELSE IF i <= p + m THEN x[i - p] ELSE s[i - m]
      /\ \A i \in 1..l - n : t1[i] = IF i <= q THEN s[i] ELSE s[i + n]
  BY <1>1 DEF Deleted, Inserted
<1>3. /\ r \in Texts /\ Len(r) = (l + m) - n
      /\ \A i \in 1..(l + m) - n : r[i] = IF i <= q THEN r1[i] ELSE r1[i + n]
  BY <1>1, <1>2 DEF Deleted
<1>4. /\ t \in Texts /\ Len(t) = (l - n) + m
      /\ \A i \in 1..(l - n) + m : t[i] = IF i <= p - n THEN t1[i]
                                          ELSE IF i <= (p - n) + m THEN x[i - (p - n)] ELSE t1[i - m]
  BY <1>1, <1>2 DEF Inserted
<1>5. ASSUME NEW i \in 1..(l + m) - n PROVE r[i] = t[i]
  <2>1. /\ i \in 1..(l - n) + m /\ i \in Nat /\ 1 <= i /\ i \in 1..l + m /\ i + n \in 1..l + m
    BY <1>1
  <2>2. /\ r[i] = IF i <= q THEN r1[i] ELSE r1[i + n]
        /\ t[i] = IF i <= p - n THEN t1[i]
                  ELSE IF i <= (p - n) + m THEN x[i - (p - n)] ELSE t1[i - m]
    BY <1>3, <1>4, <2>1
  <2>3. CASE i <= q
    <3>1. i <= p - n /\ i <= p /\ i \in 1..l - n
      BY <1>1, <2>1, <2>3
    <3> QED BY <1>2, <2>1, <2>2, <2>3, <3>1
  <2>4. CASE q < i /\ i <= p - n
    <3>1. ~(i <= q) /\ i + n <= p /\ i \in 1..l - n
      BY <1>1, <2>1, <2>4
    <3> QED BY <1>2, <2>1, <2>2, <2>4, <3>1
  <2>5. CASE p - n < i /\ i <= (p - n) + m
    <3>1. /\ ~(i <= q) /\ ~(i <= p - n) /\ ~(i + n <= p) /\ i + n <= p + m
          /\ (i + n) - p = i - (p - n)
      BY <1>1, <2>1, <2>5
    <3> QED BY <1>2, <2>1, <2>2, <2>5, <3>1
  <2>6. CASE (p - n) + m < i
    <3>1. /\ ~(i <= q) /\ ~(i <= p - n) /\ ~(i <= (p - n) + m)
          /\ ~(i + n <= p) /\ ~(i + n <= p + m)
      BY <1>1, <2>1, <2>6
    <3>2. i - m \in 1..l - n /\ ~(i - m <= q) /\ (i - m) + n = (i + n) - m
      BY <1>1, <2>1, <2>6
    <3> QED BY <1>2, <2>1, <2>2, <3>1, <3>2
  <2> QED BY <1>1, <2>1, <2>3, <2>4, <2>5, <2>6
<1>6. (l + m) - n = (l - n) + m
  BY <1>1
<1> QED BY <1>3, <1>4, <1>5, <1>6, Same

LEMMA Shifted ==
  ASSUME NEW a \in Edits, NEW p \in Nat
  PROVE  /\ Shift(a, p) \in Edits /\ Shift(a, p).type = a.type /\ Shift(a, p).position = p
         /\ Shift(a, p).text = a.text /\ Shift(a, p).len = a.len
<1>1. a \in OpRecords /\ (a.type = "delete" <=> a.len > 0)
  BY EditFields DEF IsEdit
<1>2. /\ Shift(a, p) \in OpRecords /\ Shift(a, p).type = a.type /\ Shift(a, p).position = p
      /\ Shift(a, p).text = a.text /\ Shift(a, p).len = a.len
  BY <1>1 DEF Shift, OpRecords
<1> QED BY <1>1, <1>2 DEF Edits

\* The rules of transform, one by one.
LEMMA TransformRules ==
  ASSUME NEW a, NEW b, IsEdit(a), IsEdit(b)
  PROVE  /\ a.type = "insert" /\ b.type = "insert" =>
              Transform(a, b) = IF a.position <= b.position
                                THEN <<a, Shift(b, b.position + Len(a.text))>>
                                ELSE <<Shift(a, a.position + Len(b.text)), b>>
         /\ a.type = "delete" /\ b.type = "delete" =>
              Transform(a, b) = IF a.position >= b.position + b.len
                                THEN <<Shift(a, a.position - b.len), b>>
                                ELSE IF b.position >= a.position + a.len
                                     THEN <<a, Shift(b, b.position - a.len)>> ELSE <<a, b>>
         /\ a.type = "insert" /\ b.type = "delete" =>
              Transform(a, b) = IF a.position <= b.position
                                THEN <<a, Shift(b, b.position + Len(a.text))>>
                                ELSE IF a.position >= b.position + b.len
                                     THEN <<Shift(a, a.position - b.len), b>> ELSE <<a, b>>
         /\ a.type = "delete" /\ b.type = "insert" => Transform(a, b) = <<a, b>>
         /\ a.type = "retain" \/ b.type = "retain" => Transform(a, b) = <<a, b>>
<1>1. CASE a.type = "insert" /\ b.type = "insert"
  BY <1>1 DEF Transform
<1>2. CASE a.type = "delete" /\ b.type = "delete"
  <2>1. ~(a.position >= b.position + b.len /\ b.position >= a.position + a.len)
    BY <1>2 DEF IsEdit
  <2> QED BY <1>2, <2>1 DEF Transform
<1>3. CASE a.type = "insert" /\ b.type = "delete"
  <2>1. a.position \in Nat /\ b.position \in Nat
    BY DEF IsEdit
  <2> QED BY <1>3, <2>1 DEF Transform
<1>4. CASE (a.type = "delete" /\ b.type = "insert") \/ a.type = "retain" \/ b.type = "retain"
  BY <1>4 DEF Transform
<1> QED BY <1>1, <1>2, <1>3, <1>4 DEF IsEdit, Kinds

\* What an edit does to a document in which its positions are.
LEMMA InsertWithin ==
  ASSUME NEW s \in Texts, NEW a \in Edits, a.type = "insert", a.position <= Len(s)
  PROVE  Inserted(s, a.position, a.text, Apply(s, a))
<1>1. Least(a.position, Len(s)) = a.position
  BY DEF Least
<1> QED BY <1>1, EditFields, InsertDoes

LEMMA DeleteWithin ==
  ASSUME NEW s \in Texts, NEW a \in Edits, a.type = "delete", a.position + a.len <= Len(s)
  PROVE  Deleted(s, a.position, a.len, Apply(s, a))
<1>1. a.position \in Nat /\ a.len \in Nat /\ Len(s) \in Nat
  BY EditFields, TextLen DEF IsEdit
<1>2. /\ Least(a.position, Len(s)) = a.position
      /\ Least(a.position + a.len, Len(s)) - a.position = a.len
  BY <1>1 DEF Least
<1>3. LET p == Least(a.position, Len(s)) IN
      Deleted(s, p, Least(a.position + a.len, Len(s)) - p, Apply(s, a))
  BY EditFields, DeleteDoes
<1> QED BY <1>2, <1>3

LEMMA Converge ==
  ASSUME NEW s \in Texts, NEW a \in Edits, NEW b \in Edits,
         ValidOn(a, s), ValidOn(b, s), HasRule(a, b)
  PROVE  Apply(Apply(s, a), Transform(a, b)[2]) = Apply(Apply(s, b), Transform(a, b)[1])
<1>1. /\ IsEdit(a) /\ IsEdit(b)
      /\ a.position \in Nat /\ a.len \in Nat /\ a.text \in Texts /\ Len(a.text) \in Nat
      /\ b.position \in Nat /\ b.len \in Nat /\ b.text \in Texts /\ Len(b.text) \in Nat
      /\ Len(s) \in Nat /\ a.position + a.len <= Len(s) /\ b.position + b.len <= Len(s)
  BY EditFields, TextLen DEF IsEdit, ValidOn
<1>2. a.position <= Len(s) /\ b.position <= Len(s)
  BY <1>1
<1>3. PICK r1, t1 : r1 = Apply(s, a) /\ t1 = Apply(s, b)
  OBVIOUS
<1>4. r1 \in Texts /\ t1 \in Texts
  BY <1>1, <1>3, ApplyText
<1>5. PICK c, d : d = Transform(a, b)[1] /\ c = Transform(a, b)[2]
  OBVIOUS
<1>6. CASE a.type = "insert" /\ b.type = "insert"
  <2>1. Inserted(s, a.position, a.text, r1) /\ Inserted(s, b.position, b.text, t1)
    BY <1>2, <1>3, <1>6, InsertWithin
  <2>2. Len(r1) = Len(s) + Len(a.text) /\ Len(t1) = Len(s) + Len(b.text)
    BY <2>1 DEF Inserted
  <2>3. CASE a.position <= b.position
    <3>1. c = Shift(b, b.position + Len(a.text)) /\ d = a
      BY <1>1, <1>5, <1>6, <2>3, TransformRules
    <3>2. /\ c \in Edits /\ c.type = "insert" /\ c.text = b.text
          /\ c.position = b.position + Len(a.text) /\ c.position <= Len(r1)
      <4>1. b.position + Len(a.text) \in Nat /\ b.position + Len(a.text) <= Len(r1)
        BY <1>1, <1>2, <1>6, <2>2
      <4> QED BY <1>1, <1>6, <3>1, <4>1, Shifted
    <3>3. Inserted(r1, b.position + Len(a.text), b.text, Apply(r1, c))
      BY <1>4, <3>2, InsertWithin
    <3>4. Inserted(t1, a.position, a.text, Apply(t1, d))
      BY <1>1, <1>2, <1>4, <1>6, <2>2, <3>1, InsertWithin
    <3> QED BY <1>1, <1>2, <1>3, <1>5, <2>1, <2>3, <3>3, <3>4, InsertInsert
  <2>4. CASE ~(a.position <= b.position)
    <3>1. c = b /\ d = Shift(a, a.position + Len(b.text))
      BY <1>1, <1>5, <1>6, <2>4, TransformRules
    <3>2. /\ d \in Edits /\ d.type = "insert" /\ d.text = a.text
          /\ d.position = a.position + Len(b.text) /\ d.position <= Len(t1)
      <4>1. a.position + Len(b.text) \in Nat /\ a.position + Len(b.text) <= Len(t1)
        BY <1>1, <1>2, <1>6, <2>2
      <4> QED BY <1>1, <1>6, <3>1, <4>1, Shifted
    <3>3. Inserted(t1, a.position + Len(b.text), a.text, Apply(t1, d))
      BY <1>4, <3>2, InsertWithin
    <3>4. Inserted(r1, b.position, b.text, Apply(r1, c))
      BY <1>1, <1>2, <1>4, <1>6, <2>2, <3>1, InsertWithin
    <3>5. b.position <= a.position
      BY <1>1, <2>4
    <3> QED BY <1>1, <1>2, <1>3, <1>5, <2>1, <3>3, <3>4, <3>5, InsertInsert
  <2> QED BY <2>3, <2>4
<1>7. CASE a.type = "delete" /\ b.type = "delete"
  <2>1. Deleted(s, a.position, a.len, r1) /\ Deleted(s, b.position, b.len, t1)
    BY <1>1, <1>3, <1>7, DeleteWithin
  <2>2. Len(r1) = Len(s) - a.len /\ Len(t1) = Len(s) - b.len
    BY <2>1 DEF Deleted
  <2>3. CASE a.position >= b.position + b.len
    <3>1. c = b /\ d = Shift(a, a.position - b.len)
      BY <1>1, <1>5, <1>7, <2>3, TransformRules
    <3>2. /\ d \in Edits /\ d.type = "delete" /\ d.len = a.len /\ d.position = a.position - b.len
          /\ d.position + d.len <= Len(t1)
      <4>1. a.position - b.len \in Nat /\ (a.position - b.len) + a.len <= Len(t1)
        <5>1. PICK p \in Nat, m \in Nat, n \in Nat, l \in Nat, q \in Nat :
                /\ p = a.position /\ m = a.len /\ n = b.len /\ l = Len(s) /\ q = b.position
          BY <1>1
        <5>2. p + m <= l /\ p >= q + n /\ Len(t1) = l - n
          BY <1>1, <2>2, <2>3, <5>1
        <5>3. p - n \in Nat /\ (p - n) + m <= l - n
          BY <5>2
        <5> QED BY <5>1, <5>2, <5>3
      <4> QED BY <1>1, <1>7, <3>1, <4>1, Shifted
    <3>3. Deleted(t1, a.position - b.len, a.len, Apply(t1, d))
      BY <1>4, <3>2, DeleteWithin
    <3>4. b.position + b.len <= Len(r1) /\ b.position + b.len <= a.position
      BY <1>1, <2>2, <2>3
    <3>5. Deleted(r1, b.position, b.len, Apply(r1, c))
      BY <1>4, <1>7, <3>1, <3>4, DeleteWithin
    <3> QED BY <1>1, <1>3, <1>5, <2>1, <3>3, <3>4, <3>5, DeleteDelete
  <2>4. CASE b.position >= a.position + a.len
    <3>0. ~(a.position >= b.position + b.len)
      BY <1>1, <1>7, <2>4 DEF IsEdit
    <3>1. d = a /\ c = Shift(b, b.position - a.len)
      BY <1>1, <1>5, <1>7, <2>4, <3>0, TransformRules
    <3>2. /\ c \in Edits /\ c.type = "delete" /\ c.len = b.len /\ c.position = b.position - a.len
          /\ c.position + c.len <= Len(r1)
      <4>1. b.position - a.len \in Nat /\ (b.position - a.len) + b.len <= Len(r1)
        <5>1. PICK p \in Nat, m \in Nat, n \in Nat, l \in Nat, q \in Nat :
                /\ p = b.position /\ m = b.len /\ n = a.len /\ l = Len(s) /\ q = a.position
          BY <1>1
        <5>2. p + m <= l /\ p >= q + n /\ Len(r1) = l - n
          BY <1>1, <2>2, <2>4, <5>1
        <5>3. p - n \in Nat /\ (p - n) + m <= l - n
          BY <5>2
        <5> QED BY <5>1, <5>2, <5>3
      <4> QED BY <1>1, <1>7, <3>1, <4>1, Shifted
    <3>3. Deleted(r1, b.position - a.len, b.len, Apply(r1, c))
      BY <1>4, <3>2, DeleteWithin
    <3>4. a.position + a.len <= Len(t1) /\ a.position + a.len <= b.position
      BY <1>1, <2>2, <2>4
    <3>5. Deleted(t1, a.position, a.len, Apply(t1, d))
      BY <1>4, <1>7, <3>1, <3>4, DeleteWithin
    <3> QED BY <1>1, <1>3, <1>5, <2>1, <3>3, <3>4, <3>5, DeleteDelete
  <2> QED BY <1>7, <2>3, <2>4 DEF HasRule
<1>8. CASE a.type = "insert" /\ b.type = "delete"
  <2>1. Inserted(s, a.position, a.text, r1) /\ Deleted(s, b.position, b.len, t1)
    BY <1>1, <1>2, <1>3, <1>8, DeleteWithin, InsertWithin
  <2>2. Len(r1) = Len(s) + Len(a.text) /\ Len(t1) = Len(s) - b.len
    BY <2>1 DEF Deleted, Inserted
  <2>3. CASE a.position <= b.position
    <3>1. c = Shift(b, b.position + Len(a.text)) /\ d = a
      BY <1>1, <1>5, <1>8, <2>3, TransformRules
    <3>2. /\ c \in Edits /\ c.type = "delete" /\ c.len = b.len
          /\ c.position = b.position + Len(a.text) /\ c.position + c.len <= Len(r1)
      <4>1. b.position + Len(a.text) \in Nat /\ (b.position + Len(a.text)) + b.len <= Len(r1)
        BY <1>1, <1>8, <2>2
      <4> QED BY <1>1, <1>8, <3>1, <4>1, Shifted
    <3>3. Deleted(r1, b.position + Len(a.text), b.len, Apply(r1, c))
      BY <1>4, <3>2, DeleteWithin
    <3>4. a.position <= Len(t1)
      BY <1>1, <2>2, <2>3
    <3>5. Inserted(t1, a.position, a.text, Apply(t1, d))
      BY <1>4, <1>8, <3>1, <3>4, InsertWithin
    <3> QED BY <1>1, <1>3, <1>5, <2>1, <2>3, <3>3, <3>5, InsertBeforeDelete
  <2>4. CASE a.position >= b.position + b.len
    <3>0. ~(a.position <= b.position)
      BY <1>1, <1>8, <2>4 DEF IsEdit
    <3>1. c = b /\ d = Shift(a, a.position - b.len)
      BY <1>1, <1>5, <1>8, <2>4, <3>0, TransformRules
    <3>2. /\ d \in Edits /\ d.type = "insert" /\ d.text = a.text
          /\ d.position = a.position - b.len /\ d.position <= Len(t1)
      <4>1. a.position - b.len \in Nat /\ a.position - b.len <= Len(t1)
        BY <1>1, <1>2, <1>8, <2>2, <2>4
      <4> QED BY <1>1, <1>8, <3>1, <4>1, Shifted
    <3>3. Inserted(t1, a.position - b.len, a.text, Apply(t1, d))
      BY <1>4, <3>2, InsertWithin
    <3>4. b.position + b.len <= Len(r1) /\ b.position + b.len <= a.position
      BY <1>1, <2>2, <2>4
    <3>5. Deleted(r1, b.position, b.len, Apply(r1, c))
      BY <1>4, <1>8, <3>1, <3>4, DeleteWithin
    <3> QED BY <1>1, <1>2, <1>3, <1>5, <2>1, <3>3, <3>4, <3>5, InsertAfterDelete
  <2> QED BY <1>8, <2>3, <2>4 DEF HasRule
<1>9. CASE a.type = "retain" \/ b.type = "retain"
  <2>1. Transform(a, b) = <<a, b>>
    BY <1>1, <1>9, TransformRules
  <2>2. CASE a.type = "retain"
    BY <2>1, <2>2, RetainDoes
  <2>3. CASE b.type = "retain"
    BY <2>1, <2>3, RetainDoes
  <2> QED BY <1>9, <2>2, <2>3
<1>10. ~(a.type = "delete" /\ b.type = "insert")
  BY DEF HasRule
<1> QED BY <1>1, <1>6, <1>7, <1>8, <1>9, <1>10 DEF IsEdit, Kinds

-----------------------------------------------------------------------------
(* The loop over the history.                                              *)

EntryRecords == [type : Kinds, position : Nat, text : Texts, len : Nat, revision : Nat]

Entries == {e \in EntryRecords : e.type = "delete" <=> e.len > 0}

LEMMA EntryFields == \A e \in Entries : IsEdit(e)
  BY DEF Entries, EntryRecords, IsEdit

LEMMA StampedEntry ==
  ASSUME NEW op \in Edits, NEW r \in Nat
  PROVE  /\ Stamped(op, r) \in Entries /\ Stamped(op, r).type = op.type
         /\ Stamped(op, r).position = op.position /\ Stamped(op, r).len = op.len
         /\ Stamped(op, r).text = op.text /\ Stamped(op, r).revision = r + 1
<1>1. IsEdit(op)
  BY EditFields
<1>2. /\ Stamped(op, r) \in EntryRecords /\ Stamped(op, r).type = op.type
      /\ Stamped(op, r).position = op.position /\ Stamped(op, r).len = op.len
      /\ Stamped(op, r).text = op.text /\ Stamped(op, r).revision = r + 1
  BY <1>1 DEF Stamped, EntryRecords, IsEdit
<1> QED BY <1>1, <1>2 DEF Entries, IsEdit

\* The first of a transformed pair: an edit of the same kind, elsewhere perhaps.
LEMMA TransformFirst ==
  ASSUME NEW a \in Edits, NEW b, IsEdit(b)
  PROVE  LET t == Transform(a, b)[1] IN
         t \in Edits /\ t.type = a.type /\ t.text = a.text /\ t.len = a.len
<1>1. /\ IsEdit(a) /\ a.position \in Nat /\ b.position \in Nat /\ b.len \in Nat
      /\ Len(b.text) \in Nat
  BY EditFields, TextLen DEF IsEdit
<1>2. PICK t : t = Transform(a, b)[1]
  OBVIOUS
<1>3. CASE t = a
  BY <1>2, <1>3
<1>4. CASE t = Shift(a, a.position + Len(b.text))
  <2>1. a.position + Len(b.text) \in Nat
    BY <1>1
  <2>2. /\ t \in Edits /\ t.type = a.type /\ t.text = a.text /\ t.len = a.len
    BY <1>4, <2>1, Shifted
  <2> QED BY <1>2, <2>2
<1>5. CASE t = Shift(a, a.position - b.len) /\ a.position >= b.position + b.len
  <2>1. a.position - b.len \in Nat
    BY <1>1, <1>5
  <2> QED BY <1>2, <1>5, <2>1, Shifted
<1>6. \/ t = a \/ t = Shift(a, a.position + Len(b.text))
      \/ t = Shift(a, a.position - b.len) /\ a.position >= b.position + b.len
  BY <1>1, <1>2, TransformRules DEF IsEdit, Kinds
<1> QED BY <1>3, <1>4, <1>5, <1>6

Rounds(op, ops, n, f) ==
    f = [i \in 0..n |-> IF i = 0 THEN [op |-> op, ruled |-> TRUE] ELSE Against(f[i - 1], ops[i])]

LEMMA RoundsExist ==
  ASSUME NEW op, NEW ops
  PROVE  \A n \in Nat : \E f : Rounds(op, ops, n, f)
<1> DEFINE S == {n \in Nat : \E f : Rounds(op, ops, n, f)}
           start == [op |-> op, ruled |-> TRUE]
<1>1. 0 \in S
  <2>1. PICK f : f = [i \in 0..0 |-> start]
    OBVIOUS
  <2>2. \A i \in 0..0 : i = 0
    OBVIOUS
  <2>3. f = [i \in 0..0 |-> IF i = 0 THEN start ELSE Against(f[i - 1], ops[i])]
    BY <2>1, <2>2
  <2> QED BY <2>3 DEF Rounds
<1>2. ASSUME NEW n \in Nat, n \in S PROVE n + 1 \in S
  <2>1. PICK f : f = [i \in 0..n |-> IF i = 0 THEN start ELSE Against(f[i - 1], ops[i])]
    BY <1>2 DEF Rounds
  <2>2. PICK g : g = [i \in 0..n + 1 |-> IF i = n + 1 THEN Against(f[n], ops[n + 1]) ELSE f[i]]
    OBVIOUS
  <2>3. ASSUME NEW i \in 0..n + 1
        PROVE  g[i] = IF i = 0 THEN start ELSE Against(g[i - 1], ops[i])
    <3>1. CASE i = 0
      <4>1. i \in 0..n /\ i # n + 1
        BY <3>1
      <4> QED BY <2>1, <2>2, <3>1, <4>1
    <3>2. CASE i # 0 /\ i # n + 1
      <4>1. i \in 0..n /\ i - 1 \in 0..n + 1 /\ i - 1 # n + 1
        BY <3>2
      <4>2. g[i] = f[i] /\ g[i - 1] = f[i - 1]
        BY <2>2, <3>2, <4>1
      <4> QED BY <2>1, <3>2, <4>1, <4>2
    <3>3. CASE i = n + 1
      <4>1. i - 1 = n /\ n \in 0..n + 1 /\ n # n + 1 /\ i # 0
        BY <3>3
      <4>2. g[n] = f[n] /\ g[i] = Against(f[n], ops[n + 1])
        BY <2>2, <3>3, <4>1
      <4> QED BY <3>3, <4>1, <4>2
    <3> QED BY <3>1, <3>2, <3>3
  <2>4. g = [i \in 0..n + 1 |-> IF i = 0 THEN start ELSE Against(g[i - 1], ops[i])]
    BY <2>2, <2>3
  <2>5. n + 1 \in Nat
    OBVIOUS
  <2> QED BY <2>4, <2>5 DEF Rounds
<1> HIDE DEF S
<1>3. \A n \in Nat : n \in S
  BY <1>1, <1>2, AllNaturals
<1> QED BY <1>3 DEF S

\* f[i] is what the loop over ops has made of op after i rounds.
Looped(op, ops, f) ==
    /\ f[0] = [op |-> op, ruled |-> TRUE]
    /\ \A i \in 1..Len(ops) : f[i] = Against(f[i - 1], ops[i])
    /\ TransformOver(op, ops) = f[Len(ops)]
    /\ \A i \in 0..Len(ops) : /\ f[i].op \in Edits /\ f[i].op.type = op.type
                              /\ f[i].op.text = op.text /\ f[i].op.len = op.len

LEMMA Loop ==
  ASSUME NEW op \in Edits, NEW ops \in Seq(Entries)
  PROVE  \E f : Looped(op, ops, f)
<1>1. PICK n \in Nat : n = Len(ops)
  OBVIOUS
<1> DEFINE R(f) == f = [i \in 0..n |-> IF i = 0 THEN [op |-> op, ruled |-> TRUE]
                                      ELSE Against(f[i - 1], ops[i])]
<1>2. \E f : R(f)
  <2>1. PICK g : Rounds(op, ops, n, g)
    BY RoundsExist
  <2> QED BY <2>1 DEF Rounds
<1>3. PICK f : f = CHOOSE g : R(g)
  OBVIOUS
<1>4. R(f)
  BY <1>2, <1>3
<1>5. TransformOver(op, ops) = f[n]
  BY <1>1, <1>3 DEF TransformOver
<1>6. /\ f[0] = [op |-> op, ruled |-> TRUE]
      /\ \A i \in 1..n : f[i] = Against(f[i - 1], ops[i])
  <2>1. \A i \in 0..n : f[i] = IF i = 0 THEN [op |-> op, ruled |-> TRUE]
                                ELSE Against(f[i - 1], ops[i])
    BY <1>4
  <2> HIDE DEF R
  <2>2. 0 \in 0..n /\ \A i \in 1..n : i \in 0..n /\ i # 0
    OBVIOUS
  <2> QED BY <2>1, <2>2
<1> HIDE DEF R
<1> DEFINE Kept(i) == /\ f[i].op \in Edits /\ f[i].op.type = op.type
                      /\ f[i].op.text = op.text /\ f[i].op.len = op.len
           S == {i \in Nat : i > n \/ Kept(i)}
<1>7. 0 \in S
  BY <1>6
<1>8. ASSUME NEW i \in Nat, i \in S PROVE i + 1 \in S
  <2>1. CASE i + 1 > n
    BY <2>1
  <2>2. CASE ~(i + 1 > n)
    <3>1. Kept(i) /\ i + 1 \in 1..n /\ (i + 1) - 1 = i
      BY <1>8, <2>2
    <3>2. f[i + 1] = Against(f[i], ops[i + 1])
      BY <1>6, <3>1
    <3>3. IsEdit(ops[i + 1])
      BY <1>1, <3>1, EntryFields
    <3>4. f[i + 1].op = Transform(f[i].op, ops[i + 1])[1]
      BY <3>2 DEF Against
    <3>5. Kept(i + 1)
      BY <3>1, <3>3, <3>4, TransformFirst
    <3> QED BY <3>5
  <2> QED BY <2>1, <2>2
<1>9. \A i \in Nat : i \in S
  <2> HIDE DEF S
  <2> QED BY <1>7, <1>8, AllNaturals
<1>10. \A i \in 0..n : Kept(i)
  BY <1>9
<1> QED BY <1>1, <1>5, <1>6, <1>10 DEF Looped

-----------------------------------------------------------------------------
(* The inductive invariant.                                                *)

DocTypes ==
    /\ content \in Texts /\ revision \in 0..MaxRevision
    /\ history \in Seq(Entries)
    /\ views \in Seq(Texts) /\ Len(views) = revision + 1 /\ views[revision + 1] = content
    /\ log \in Seq(Entries) /\ Len(log) = revision

\* The history is the end of the log.
HistoryIsTail ==
    /\ Len(history) <= revision /\ Len(history) <= HistoryMax
    /\ Len(history) >= Least(revision, HistoryKeep)
    /\ \A i \in 1..Len(history) : history[i] = log[(revision - Len(history)) + i]

\* Every document came from the one before by the operation in the log.
Chain == \A r \in 1..revision : views[r + 1] = Apply(views[r], log[r])

\* A character bears the revision that inserted it, so each document has older
\* ones only, and each operation its own.
Older(s, r) == \A i \in 1..Len(s) : s[i][1] < r
Own(s, r)   == \A i \in 1..Len(s) : s[i][1] = r
Named ==
    /\ \A r \in 1..revision + 1 : Older(views[r], r)
    /\ \A r \in 1..revision : Own(log[r].text, r) /\ log[r].revision = r

\* No character is twice in a document.
Distinct(s) == \A i, j \in 1..Len(s) : s[i] = s[j] => i = j
AllDistinct == \A r \in 1..revision + 1 : Distinct(views[r])

DocInv == DocTypes /\ HistoryIsTail /\ Chain /\ Named /\ AllDistinct

LEMMA DocInit ==
  ASSUME DocAssumption, Init
  PROVE  DocInv
<1>1. <<>> \in Texts /\ Len(<<>>) = 0 /\ <<>> \in Seq(Entries)
  BY EmptySeq DEF Texts
<1>2. PICK e : e = <<>> /\ e \in Texts /\ Len(e) = 0
  BY <1>1
<1>3. views = <<e>> /\ content = e /\ revision = 0 /\ history = <<>> /\ log = <<>>
  BY <1>2 DEF Init
<1>4. views \in Seq(Texts) /\ Len(views) = 1 /\ views[1] = e
  BY <1>2, <1>3
<1>5. 0 \in 0..MaxRevision /\ HistoryMax \in Nat /\ HistoryKeep \in Nat
  BY DEF DocAssumption
<1>6. DocTypes
  BY <1>1, <1>2, <1>3, <1>4, <1>5 DEF DocTypes
<1>7. HistoryIsTail
  BY <1>1, <1>3, <1>5 DEF HistoryIsTail, Least
<1>8. Chain
  BY <1>3 DEF Chain
<1>9. Older(e, 1) /\ Distinct(e)
  BY <1>2 DEF Older, Distinct
<1>10. \A r \in 1..revision + 1 : r = 1
  BY <1>3
<1>11. Named /\ AllDistinct
  BY <1>3, <1>4, <1>9, <1>10 DEF Named, AllDistinct
<1> QED BY <1>6, <1>7, <1>8, <1>11 DEF DocInv

\* What handle_operation does, in terms of the rounds f of its loop over ops, of
\* which d is the outcome.
HandledAs(base, op, ops, f, d) ==
    /\ ops = IF base < revision THEN From(history, base) ELSE <<>>
    /\ Looped(op, ops, f) /\ d = f[Len(ops)].op
    /\ d.type = op.type /\ d.text = op.text /\ d.len = op.len
    /\ content' = Apply(content, d)
    /\ revision' = revision + 1 /\ revision < MaxRevision
    /\ history' = Trim(Append(history, Stamped(d, revision)))
    /\ views' = Append(views, content')
    /\ log' = Append(log, Stamped(d, revision))
    /\ last' = [op |-> op, base |-> base, ruled |-> f[Len(ops)].ruled, concurrent |-> Len(ops)]

LEMMA Handled ==
  ASSUME DocAssumption, DocTypes, NEW base \in 0..revision,
         NEW op \in Requests(views[base + 1], revision + 1), HandleOperation(base, op)
  PROVE  /\ op \in Edits /\ \A i \in 1..Len(op.text) : op.text[i] = <<revision + 1, i>>
         /\ views[base + 1] \in Texts
         /\ \E ops \in Seq(Entries), d \in Edits : \E f : HandledAs(base, op, ops, f, d)
<1>1. revision \in Nat /\ base \in Nat /\ base + 1 \in 1..Len(views) /\ revision + 1 \in Nat
  BY DEF DocTypes, DocAssumption
<1>2. views[base + 1] \in Texts
  BY <1>1 DEF DocTypes
<1>3. op \in Edits /\ \A i \in 1..Len(op.text) : op.text[i] = <<revision + 1, i>>
  BY <1>1, <1>2, RequestFields
<1>4. PICK ops : ops = IF base < revision THEN From(history, base) ELSE <<>>
  OBVIOUS
<1>5. ops \in Seq(Entries)
  <2>1. From(history, base) \in Seq(Entries)
    BY <1>1, FromIs DEF DocTypes
  <2>2. <<>> \in Seq(Entries)
    BY EmptySeq
  <2> QED BY <1>4, <2>1, <2>2
<1>6. PICK f : Looped(op, ops, f)
  BY <1>3, <1>5, Loop
<1>7. PICK d : d = f[Len(ops)].op
  OBVIOUS
<1>8. d \in Edits /\ d.type = op.type /\ d.text = op.text /\ d.len = op.len
  <2>1. Len(ops) \in 0..Len(ops)
    BY <1>5
  <2> QED BY <1>6, <1>7, <2>1 DEF Looped
<1>9. TransformOver(op, ops).op = d /\ TransformOver(op, ops).ruled = f[Len(ops)].ruled
  BY <1>6, <1>7 DEF Looped
<1>10. /\ content' = Apply(content, d)
       /\ revision' = revision + 1 /\ revision < MaxRevision
       /\ history' = Trim(Append(history, Stamped(d, revision)))
       /\ views' = Append(views, content')
       /\ log' = Append(log, Stamped(d, revision))
       /\ last' = [op |-> op, base |-> base, ruled |-> f[Len(ops)].ruled,
                   concurrent |-> Len(ops)]
  BY <1>4, <1>9, Zenon DEF HandleOperation
<1>11. HandledAs(base, op, ops, f, d)
  BY <1>4, <1>6, <1>7, <1>8, <1>10, Zenon DEF HandledAs
<1>12. \E x \in Seq(Entries), z \in Edits : \E y : HandledAs(base, op, x, y, z)
  BY <1>5, <1>8, <1>11, Zenon
<1> QED BY <1>2, <1>3, <1>12, Zenon

\* The history after an operation: the latest ones, in order.
LEMMA TrimKeeps ==
  ASSUME DocAssumption, NEW h \in Seq(Entries), NEW e \in Entries
  PROVE  LET k == Trim(Append(h, e)) IN
         /\ k \in Seq(Entries)
         /\ IF Len(h) + 1 > HistoryMax THEN Len(k) = HistoryKeep ELSE Len(k) = Len(h) + 1
         /\ Len(k) <= Len(h) + 1
         /\ \A i \in 1..Len(k) : k[i] = IF i = Len(k) THEN e ELSE h[((Len(h) + 1) - Len(k)) + i]
<1>1. PICK g, m, k : g = Append(h, e) /\ m = Len(h) + 1 /\ k = Trim(g)
  OBVIOUS
<1>2. /\ HistoryMax \in Nat /\ HistoryKeep \in Nat /\ HistoryKeep >= 1
      /\ HistoryKeep <= HistoryMax /\ Len(h) \in Nat /\ m \in Nat
  BY <1>1 DEF DocAssumption
<1>3. /\ g \in Seq(Entries) /\ Len(g) = m /\ g[m] = e
      /\ \A i \in 1..Len(h) : g[i] = h[i]
  BY <1>1, AppendProperties
<1>4. CASE m > HistoryMax
  <2>1. PICK a : a = m - HistoryKeep + 1
    OBVIOUS
  <2>2. a \in Int /\ a \in 1..m /\ m - a + 1 = HistoryKeep /\ m \in Int
    BY <1>2, <1>4, <2>1
  <2>3. \A i \in a..m : g[i] \in Entries
    BY <1>2, <1>3, <2>2
  <2>4. k = SubSeq(g, a, m)
    BY <1>1, <1>3, <1>4, <2>1 DEF Trim
  <2>5. /\ k \in Seq(Entries) /\ Len(k) = IF a <= m THEN m - a + 1 ELSE 0
        /\ \A i \in 1..m - a + 1 : k[i] = g[a + i - 1]
    BY <2>2, <2>3, <2>4, SubSeqProperties
  <2>6. Len(k) = HistoryKeep /\ \A i \in 1..HistoryKeep : k[i] = g[a + i - 1]
    BY <2>2, <2>5
  <2>7. ASSUME NEW i \in 1..HistoryKeep
        PROVE  k[i] = IF i = HistoryKeep THEN e ELSE h[(m - HistoryKeep) + i]
    <3>1. a + i - 1 = (m - HistoryKeep) + i
      BY <1>2, <2>1
    <3>2. CASE i = HistoryKeep
      <4>1. a + i - 1 = m
        BY <1>2, <2>1, <3>2
      <4> QED BY <1>3, <2>6, <3>2, <4>1
    <3>3. CASE i # HistoryKeep
      <4>1. a + i - 1 \in 1..Len(h)
        BY <1>1, <1>2, <1>4, <2>1, <3>3
      <4> QED BY <1>3, <2>6, <3>1, <3>3, <4>1
    <3> QED BY <3>2, <3>3
  <2>8. HistoryKeep <= m
    BY <1>2, <1>4
  <2> QED BY <1>1, <1>4, <2>5, <2>6, <2>7, <2>8
<1>5. CASE ~(m > HistoryMax)
  <2>1. k = g /\ Len(k) = m
    BY <1>1, <1>3, <1>5 DEF Trim
  <2>2. ASSUME NEW i \in 1..m
        PROVE  k[i] = IF i = m THEN e ELSE h[(m - m) + i]
    <3>1. (m - m) + i = i /\ (i # m => i \in 1..Len(h))
      BY <1>1, <1>2
    <3> QED BY <1>3, <2>1, <3>1
  <2> QED BY <1>1, <1>2, <1>3, <1>5, <2>1, <2>2
<1> QED BY <1>4, <1>5

Has(s, c) == \E j \in 1..Len(s) : s[j] = c

\* The character c is among the n that follow position p.
Between(s, p, n, c) == \E j \in p + 1..p + n : s[j] = c

\* Which characters there are after an operation, and that none is there twice.
LEMMA InsertedChars ==
  ASSUME NEW s \in Texts, NEW x \in Texts, NEW p \in Nat, p <= Len(s), NEW r,
         Inserted(s, p, x, r)
  PROVE  /\ \A i \in 1..Len(r) : Has(s, r[i]) \/ Has(x, r[i])
         /\ \A j \in 1..Len(s) : Has(r, s[j])
         /\ \A j \in 1..Len(x) : Has(r, x[j])
<1>1. PICK l \in Nat, m \in Nat : l = Len(s) /\ m = Len(x)
  BY TextLen
<1>2. /\ Len(r) = l + m
      /\ \A i \in 1..l + m : r[i] = IF i <= p THEN s[i] ELSE IF i <= p + m THEN x[i - p] ELSE s[i - m]
  BY <1>1 DEF Inserted
<1>3. ASSUME NEW i \in 1..l + m
      PROVE  (\E j \in 1..l : r[i] = s[j]) \/ (\E j \in 1..m : r[i] = x[j])
  <2>1. CASE i <= p
    <3>1. i \in 1..l
      BY <1>1, <2>1
    <3> QED BY <1>2, <2>1, <3>1
  <2>2. CASE p < i /\ i <= p + m
    <3>1. i - p \in 1..m /\ ~(i <= p)
      BY <1>1, <2>2
    <3> QED BY <1>2, <2>2, <3>1
  <2>3. CASE p + m < i
    <3>1. i - m \in 1..l /\ ~(i <= p) /\ ~(i <= p + m)
      BY <1>1, <2>3
    <3> QED BY <1>2, <3>1
  <2> QED BY <1>1, <2>1, <2>2, <2>3
<1>4. ASSUME NEW j \in 1..l
      PROVE  \E i \in 1..l + m : r[i] = s[j]
  <2>1. CASE j <= p
    <3>1. j \in 1..l + m
      BY <1>1
    <3> QED BY <1>2, <2>1, <3>1
  <2>2. CASE p < j
    <3>1. j + m \in 1..l + m /\ ~(j + m <= p) /\ ~(j + m <= p + m) /\ (j + m) - m = j
      BY <1>1, <2>2
    <3> QED BY <1>2, <3>1
  <2> QED BY <1>1, <2>1, <2>2
<1>5. ASSUME NEW j \in 1..m
      PROVE  \E i \in 1..l + m : r[i] = x[j]
  <2>1. j + p \in 1..l + m /\ ~(j + p <= p) /\ j + p <= p + m /\ (j + p) - p = j
    BY <1>1
  <2> QED BY <1>2, <2>1
<1>6. ASSUME NEW i \in 1..l + m PROVE Has(s, r[i]) \/ Has(x, r[i])
  BY <1>1, <1>3 DEF Has
<1>7. ASSUME NEW j \in 1..l PROVE Has(r, s[j])
  BY <1>2, <1>4 DEF Has
<1>8. ASSUME NEW j \in 1..m PROVE Has(r, x[j])
  BY <1>2, <1>5 DEF Has
<1> QED BY <1>1, <1>2, <1>6, <1>7, <1>8

LEMMA InsertedDistinct ==
  ASSUME NEW s \in Texts, NEW x \in Texts, NEW p \in Nat, p <= Len(s), NEW r,
         Inserted(s, p, x, r), Distinct(s), Distinct(x),
         \A i \in 1..Len(s) : \A j \in 1..Len(x) : s[i] # x[j]
  PROVE  Distinct(r)
<1>1. PICK l \in Nat, m \in Nat : l = Len(s) /\ m = Len(x)
  BY TextLen
<1>2. /\ Len(r) = l + m
      /\ \A i \in 1..l + m : r[i] = IF i <= p THEN s[i] ELSE IF i <= p + m THEN x[i - p] ELSE s[i - m]
  BY <1>1 DEF Inserted
<1> DEFINE Old(i) == i <= p \/ p + m < i
           at(i)  == IF i <= p THEN i ELSE i - m
<1>3. ASSUME NEW i \in 1..l + m, Old(i)
      PROVE  at(i) \in 1..l /\ r[i] = s[at(i)]
  <2>1. at(i) \in 1..l
    BY <1>1, <1>3
  <2>2. i <= p => r[i] = s[i]
    BY <1>2
  <2>3. ~(i <= p) => ~(i <= p + m)
    BY <1>1, <1>3
  <2> QED BY <1>2, <2>1, <2>2, <2>3
<1>4. ASSUME NEW i \in 1..l + m, ~Old(i)
      PROVE  i - p \in 1..m /\ r[i] = x[i - p]
  <2>1. i - p \in 1..m /\ ~(i <= p) /\ i <= p + m
    BY <1>1, <1>4
  <2> QED BY <1>2, <2>1
<1>5. ASSUME NEW i \in 1..l + m, NEW j \in 1..l + m, r[i] = r[j]
      PROVE  i = j
  <2>1. CASE Old(i) /\ Old(j)
    <3>1. at(i) = at(j)
      <4>1. at(i) \in 1..Len(s) /\ at(j) \in 1..Len(s) /\ s[at(i)] = s[at(j)]
        BY <1>1, <1>3, <1>5, <2>1
      <4> HIDE DEF at
      <4> QED BY <4>1 DEF Distinct
    <3> QED BY <1>1, <2>1, <3>1
  <2>2. CASE ~Old(i) /\ ~Old(j)
    <3>1. i - p = j - p
      BY <1>1, <1>4, <1>5, <2>2 DEF Distinct
    <3> QED BY <1>1, <3>1
  <2>3. CASE Old(i) /\ ~Old(j)
    <3>1. at(i) \in 1..l /\ j - p \in 1..m /\ s[at(i)] = x[j - p]
      BY <1>3, <1>4, <1>5, <2>3
    <3> QED BY <1>1, <3>1
  <2>4. CASE ~Old(i) /\ Old(j)
    <3>1. at(j) \in 1..l /\ i - p \in 1..m /\ s[at(j)] = x[i - p]
      BY <1>3, <1>4, <1>5, <2>4
    <3> QED BY <1>1, <3>1
  <2> QED BY <2>1, <2>2, <2>3, <2>4
<1> QED BY <1>2, <1>5 DEF Distinct

LEMMA DeletedChars ==
  ASSUME NEW s \in Texts, NEW p \in Nat, NEW n \in Nat, p + n <= Len(s), NEW r,
         Deleted(s, p, n, r)
  PROVE  /\ \A i \in 1..Len(r) : Has(s, r[i])
         /\ \A j \in 1..Len(s) : Has(r, s[j]) \/ Between(s, p, n, s[j])
         /\ Distinct(s) => Distinct(r)
         /\ Distinct(s) => \A i \in 1..Len(r) : ~Between(s, p, n, r[i])
<1>1. PICK l \in Nat : l = Len(s)
  BY TextLen
<1>2. /\ Len(r) = l - n /\ l - n \in Nat
      /\ \A i \in 1..l - n : r[i] = IF i <= p THEN s[i] ELSE s[i + n]
  BY <1>1 DEF Deleted
<1>3. ASSUME NEW i \in 1..l - n
      PROVE  \E j \in 1..l : /\ r[i] = s[j] /\ ~(j \in p + 1..p + n)
                             /\ j = IF i <= p THEN i ELSE i + n
  <2>1. CASE i <= p
    <3>1. i \in 1..l /\ ~(i \in p + 1..p + n)
      BY <1>1, <2>1
    <3> QED BY <1>2, <2>1, <3>1
  <2>2. CASE p < i
    <3>1. i + n \in 1..l /\ ~(i + n \in p + 1..p + n) /\ ~(i <= p)
      BY <1>1, <2>2
    <3> QED BY <1>2, <3>1
  <2> QED BY <1>1, <2>1, <2>2
<1>4. ASSUME NEW j \in 1..l, ~(j \in p + 1..p + n)
      PROVE  \E i \in 1..l - n : r[i] = s[j] /\ j = IF i <= p THEN i ELSE i + n
  <2>1. CASE j <= p
    <3>1. j \in 1..l - n
      BY <1>1, <2>1
    <3> QED BY <1>2, <2>1, <3>1
  <2>2. CASE p + n < j
    <3>1. j - n \in 1..l - n /\ ~(j - n <= p) /\ (j - n) + n = j
      BY <1>1, <2>2
    <3> QED BY <1>2, <3>1
  <2>3. j <= p \/ p + n < j
    BY <1>1, <1>4
  <2> QED BY <2>1, <2>2, <2>3
<1>5. ASSUME Distinct(s), NEW i \in 1..l - n, NEW j \in 1..l - n, r[i] = r[j]
      PROVE  i = j
  <2>1. PICK a \in 1..l : r[i] = s[a] /\ a = IF i <= p THEN i ELSE i + n
    BY <1>3
  <2>2. PICK b \in 1..l : r[j] = s[b] /\ b = IF j <= p THEN j ELSE j + n
    BY <1>3
  <2>3. a = b
    BY <1>1, <1>5, <2>1, <2>2 DEF Distinct
  <2>4. i \in Nat /\ j \in Nat
    OBVIOUS
  <2> QED BY <2>1, <2>2, <2>3, <2>4
<1>6. \A i \in 1..l - n : Has(s, r[i])
  BY <1>1, <1>3 DEF Has
<1>7. ASSUME NEW j \in 1..l PROVE Has(r, s[j]) \/ Between(s, p, n, s[j])
  <2>1. CASE j \in p + 1..p + n
    BY <2>1 DEF Between
  <2>2. CASE ~(j \in p + 1..p + n)
    <3>1. PICK i \in 1..l - n : r[i] = s[j]
      BY <1>4, <2>2
    <3> QED BY <1>2, <3>1 DEF Has
  <2> QED BY <2>1, <2>2
<1>8. ASSUME Distinct(s), NEW i \in 1..l - n, Between(s, p, n, r[i])
      PROVE  FALSE
  <2>1. PICK a \in 1..l : r[i] = s[a] /\ ~(a \in p + 1..p + n)
    BY <1>3
  <2>2. PICK b \in p + 1..p + n : s[b] = r[i]
    BY <1>8 DEF Between
  <2>3. b \in 1..l
    BY <1>1
  <2>4. a = b
    BY <1>1, <1>8, <2>1, <2>2, <2>3 DEF Distinct
  <2> QED BY <2>1, <2>4
<1>9. Distinct(s) => Distinct(r)
  BY <1>2, <1>5 DEF Distinct
<1> QED BY <1>1, <1>2, <1>6, <1>7, <1>8, <1>9

\* Positions beyond the end included, an operation inserts or deletes somewhere.
LEMMA Applied ==
  ASSUME NEW s \in Texts, NEW op, IsEdit(op)
  PROVE  /\ op.type = "insert" =>
              /\ Least(op.position, Len(s)) \in Nat /\ Least(op.position, Len(s)) <= Len(s)
              /\ Inserted(s, Least(op.position, Len(s)), op.text, Apply(s, op))
         /\ op.type = "delete" =>
              \E p, n \in Nat : /\ p = Least(op.position, Len(s)) /\ p + n <= Len(s)
                                /\ p + n = Least(op.position + op.len, Len(s))
                                /\ Deleted(s, p, n, Apply(s, op))
<1>1. op.position \in Nat /\ op.len \in Nat /\ Len(s) \in Nat
  BY TextLen DEF IsEdit
<1>2. PICK p, e : p = Least(op.position, Len(s)) /\ e = Least(op.position + op.len, Len(s))
  OBVIOUS
<1>3. p \in Nat /\ p <= Len(s) /\ e - p \in Nat /\ p + (e - p) <= Len(s) /\ p + (e - p) = e
  BY <1>1, <1>2 DEF Least
<1>4. ASSUME op.type = "insert" PROVE Inserted(s, p, op.text, Apply(s, op))
  BY <1>2, <1>4, InsertDoes
<1>5. ASSUME op.type = "delete" PROVE Deleted(s, p, e - p, Apply(s, op))
  BY <1>2, <1>5, DeleteDoes
<1> QED BY <1>2, <1>3, <1>4, <1>5

\* The characters after an operation are those before and those it inserts.
LEMMA AppliedChars ==
  ASSUME NEW s \in Texts, NEW op, IsEdit(op), NEW r, r = Apply(s, op)
  PROVE  \A i \in 1..Len(r) : Has(s, r[i]) \/ Has(op.text, r[i])
<1>1. CASE op.type = "insert"
  <2>1. PICK x \in Texts : x = op.text
    BY DEF IsEdit
  <2>2. PICK p : p = Least(op.position, Len(s))
    OBVIOUS
  <2>3. p \in Nat /\ p <= Len(s) /\ Inserted(s, p, x, r)
    BY <1>1, <2>1, <2>2, Applied
  <2> QED BY <2>1, <2>3, InsertedChars
<1>2. CASE op.type = "delete"
  <2>1. PICK p, n \in Nat : p + n <= Len(s) /\ Deleted(s, p, n, r)
    BY <1>2, Applied
  <2> QED BY <2>1, DeletedChars
<1>3. CASE op.type = "retain"
  <2>1. r = s
    BY <1>3, RetainDoes
  <2> QED BY <2>1 DEF Has
<1> QED BY <1>1, <1>2, <1>3 DEF IsEdit, Kinds

LEMMA AppliedDistinct ==
  ASSUME NEW s \in Texts, NEW op, IsEdit(op), Distinct(s), Distinct(op.text),
         \A i \in 1..Len(s) : \A j \in 1..Len(op.text) : s[i] # op.text[j]
  PROVE  Distinct(Apply(s, op))
<1>1. CASE op.type = "insert"
  <2>1. op.text \in Texts
    BY DEF IsEdit
  <2> QED BY <1>1, <2>1, Applied, InsertedDistinct
<1>2. CASE op.type = "delete"
  <2>1. PICK p, n \in Nat : p + n <= Len(s) /\ Deleted(s, p, n, Apply(s, op))
    BY <1>2, Applied
  <2> QED BY <2>1, DeletedChars
<1>3. CASE op.type = "retain"
  BY <1>3, RetainDoes
<1> QED BY <1>1, <1>2, <1>3 DEF IsEdit, Kinds

LEMMA OperationKeeps ==
  ASSUME DocAssumption, DocInv, NEW base \in 0..revision,
         NEW op \in Requests(views[base + 1], revision + 1), HandleOperation(base, op)
  PROVE  DocInv'
<1>1. DocTypes /\ HistoryIsTail /\ Chain /\ Named /\ AllDistinct
  BY DEF DocInv
<1>2. op \in Edits /\ \A i \in 1..Len(op.text) : op.text[i] = <<revision + 1, i>>
  BY <1>1, Handled
<1>3. PICK ops \in Seq(Entries), d \in Edits : \E f : HandledAs(base, op, ops, f, d)
  BY <1>1, Handled
<1>4. PICK e : e = Stamped(d, revision)
  OBVIOUS
<1>5. /\ d.type = op.type /\ d.text = op.text /\ d.len = op.len
      /\ content' = Apply(content, d)
      /\ revision' = revision + 1 /\ revision < MaxRevision
      /\ history' = Trim(Append(history, e))
      /\ views' = Append(views, content') /\ log' = Append(log, e)
  BY <1>3, <1>4 DEF HandledAs
<1>6. /\ revision \in Nat /\ content \in Texts /\ history \in Seq(Entries)
      /\ views \in Seq(Texts) /\ Len(views) = revision + 1 /\ views[revision + 1] = content
      /\ log \in Seq(Entries) /\ Len(log) = revision /\ MaxRevision \in Nat
      /\ revision + 1 \in Nat
  BY <1>1 DEF DocTypes, DocAssumption
<1>7. /\ e \in Entries /\ e.type = d.type /\ e.position = d.position /\ e.len = d.len
      /\ e.text = d.text /\ e.revision = revision + 1 /\ IsEdit(d) /\ IsEdit(e)
  BY <1>4, <1>6, EditFields, EntryFields, StampedEntry
<1>8. Apply(content, e) = content' /\ content' \in Texts
  <2>1. Apply(content, e) = Apply(content, d)
    BY <1>7 DEF Apply
  <2> QED BY <1>5, <1>6, <1>7, <2>1, ApplyText
<1>9. /\ views' \in Seq(Texts) /\ Len(views') = revision + 2 /\ views'[revision + 2] = content'
      /\ \A r \in 1..revision + 1 : views'[r] = views[r]
  <2>1. PICK c \in Texts : c = content'
    BY <1>8
  <2>2. /\ Append(views, c) \in Seq(Texts) /\ Len(Append(views, c)) = (revision + 1) + 1
        /\ Append(views, c)[(revision + 1) + 1] = c
        /\ \A r \in 1..revision + 1 : Append(views, c)[r] = views[r]
    BY <1>6, AppendProperties
  <2>3. (revision + 1) + 1 = revision + 2
    BY <1>6
  <2> QED BY <1>5, <2>1, <2>2, <2>3
<1>10. /\ log' \in Seq(Entries) /\ Len(log') = revision + 1 /\ log'[revision + 1] = e
       /\ \A r \in 1..revision : log'[r] = log[r]
  BY <1>5, <1>6, <1>7, AppendProperties
<1>11. /\ history' \in Seq(Entries)
       /\ IF Len(history) + 1 > HistoryMax THEN Len(history') = HistoryKeep
          ELSE Len(history') = Len(history) + 1
       /\ Len(history') <= Len(history) + 1
       /\ \A i \in 1..Len(history') :
            history'[i] = IF i = Len(history') THEN e
                          ELSE history[((Len(history) + 1) - Len(history')) + i]
  BY <1>5, <1>6, <1>7, TrimKeeps
<1>12. DocTypes'
  <2>1. revision' \in 0..MaxRevision /\ revision' + 1 = revision + 2
    BY <1>5, <1>6
  <2> QED BY <1>5, <1>8, <1>9, <1>10, <1>11, <2>1 DEF DocTypes
<1>13. HistoryIsTail'
  <2>1. PICK n \in Nat, m \in Nat : n = Len(history) /\ m = Len(history')
    BY <1>6, <1>11
  <2>2. /\ n <= revision /\ n <= HistoryMax /\ n >= Least(revision, HistoryKeep)
        /\ \A i \in 1..n : history[i] = log[(revision - n) + i]
        /\ HistoryMax \in Nat /\ HistoryKeep \in Nat /\ HistoryKeep <= HistoryMax
    BY <1>1, <2>1 DEF HistoryIsTail, DocAssumption
  <2>3. m <= n + 1 /\ IF n + 1 > HistoryMax THEN m = HistoryKeep ELSE m = n + 1
    BY <1>11, <2>1
  <2>4. m <= revision + 1 /\ m <= HistoryMax /\ m >= Least(revision + 1, HistoryKeep)
    BY <1>6, <2>2, <2>3 DEF Least
  <2>5. ASSUME NEW i \in 1..m
        PROVE  history'[i] = log'[((revision + 1) - m) + i]
    <3>1. history'[i] = IF i = m THEN e ELSE history[((n + 1) - m) + i]
      BY <1>11, <2>1
    <3>2. CASE i = m
      <4>1. ((revision + 1) - m) + i = revision + 1
        BY <1>6, <3>2
      <4> QED BY <1>10, <3>1, <3>2, <4>1
    <3>3. CASE i # m
      <4>1. PICK k : k = ((n + 1) - m) + i
        OBVIOUS
      <4>2. k \in 1..n /\ (revision - n) + k = ((revision + 1) - m) + i
        BY <1>6, <2>3, <3>3, <4>1
      <4>3. ((revision + 1) - m) + i \in 1..revision
        BY <1>6, <2>2, <2>3, <3>3
      <4> QED BY <1>10, <2>2, <3>1, <3>3, <4>1, <4>2, <4>3
    <3> QED BY <3>2, <3>3
  <2> QED BY <1>5, <2>1, <2>4, <2>5 DEF HistoryIsTail
<1>14. Chain'
  <2>1. ASSUME NEW r \in 1..revision + 1
        PROVE  views'[r + 1] = Apply(views'[r], log'[r])
    <3>1. CASE r = revision + 1
      <4>1. r + 1 = revision + 2 /\ r \in 1..revision + 1
        BY <1>6, <3>1
      <4>2. views'[r] = content
        BY <1>6, <1>9, <3>1, <4>1
      <4> QED BY <1>8, <1>9, <1>10, <3>1, <4>1, <4>2
    <3>2. CASE r # revision + 1
      <4>1. r \in 1..revision /\ r + 1 \in 1..revision + 1
        BY <1>6, <3>2
      <4> QED BY <1>1, <1>9, <1>10, <4>1 DEF Chain
    <3> QED BY <3>1, <3>2
  <2> QED BY <1>5, <2>1 DEF Chain
<1>15. Own(e.text, revision + 1) /\ Distinct(e.text)
  <2>1. e.text = op.text
    BY <1>5, <1>7
  <2>2. \A i \in 1..Len(e.text) :
          /\ e.text[i] = <<revision + 1, i>> /\ e.text[i][1] = revision + 1 /\ e.text[i][2] = i
    BY <1>2, <2>1
  <2>3. Own(e.text, revision + 1)
    BY <2>2 DEF Own
  <2>4. Distinct(e.text)
    BY <2>2 DEF Distinct
  <2> QED BY <2>3, <2>4
<1>16. Older(content, revision + 1) /\ Distinct(content) /\ revision + 1 \in 1..revision + 1
  BY <1>1, <1>6 DEF Named, AllDistinct
<1>17. Named'
  <2>1. Older(content', revision + 2)
    <3>0. \A k \in 1..Len(content') : Has(content, content'[k]) \/ Has(e.text, content'[k])
      <4>1. PICK r : r = Apply(content, e)
        OBVIOUS
      <4>2. \A k \in 1..Len(r) : Has(content, r[k]) \/ Has(e.text, r[k])
        BY <1>6, <1>7, <4>1, AppliedChars
      <4> QED BY <1>8, <4>1, <4>2
    <3>1. ASSUME NEW i \in 1..Len(content') PROVE content'[i][1] < revision + 2
      <4>1. Has(content, content'[i]) \/ Has(e.text, content'[i])
        BY <3>0
      <4>2. CASE Has(content, content'[i])
        <5>1. PICK j \in 1..Len(content) : content[j] = content'[i]
          BY <4>2 DEF Has
        <5>2. content[j] \in Chars /\ content[j][1] < revision + 1
          BY <1>6, <1>16 DEF Texts, Older
        <5>3. content[j][1] \in Nat
          BY <5>2 DEF Chars
        <5> QED BY <1>6, <5>1, <5>2, <5>3
      <4>3. CASE Has(e.text, content'[i])
        <5>1. PICK j \in 1..Len(e.text) : e.text[j] = content'[i]
          BY <4>3 DEF Has
        <5>2. e.text[j][1] = revision + 1
          BY <1>15 DEF Own
        <5> QED BY <1>6, <5>1, <5>2
      <4> QED BY <4>1, <4>2, <4>3
    <3> QED BY <3>1 DEF Older
  <2>2. \A r \in 1..revision + 2 : Older(views'[r], r)
    <3>1. \A r \in 1..revision + 2 : r = revision + 2 \/ r \in 1..revision + 1
      BY <1>6
    <3> QED BY <1>1, <1>9, <2>1, <3>1 DEF Named
  <2>3. \A r \in 1..revision + 1 : Own(log'[r].text, r) /\ log'[r].revision = r
    <3>1. \A r \in 1..revision + 1 : r = revision + 1 \/ r \in 1..revision
      BY <1>6
    <3> QED BY <1>1, <1>7, <1>10, <1>15, <3>1 DEF Named
  <2>4. revision' + 1 = revision + 2
    BY <1>5, <1>6
  <2> QED BY <1>5, <2>2, <2>3, <2>4 DEF Named
<1>18. AllDistinct'
  <2>1. \A i \in 1..Len(content) : \A j \in 1..Len(e.text) : content[i] # e.text[j]
    <3> SUFFICES ASSUME NEW i \in 1..Len(content), NEW j \in 1..Len(e.text),
                        content[i] = e.text[j] PROVE FALSE
      OBVIOUS
    <3>1. content[i][1] < revision + 1 /\ e.text[j][1] = revision + 1
      BY <1>15, <1>16 DEF Older, Own
    <3> QED BY <1>6, <3>1
  <2>2. Distinct(content')
    BY <1>6, <1>7, <1>8, <1>15, <1>16, <2>1, AppliedDistinct
  <2>3. \A r \in 1..revision + 2 : r = revision + 2 \/ r \in 1..revision + 1
    BY <1>6
  <2>4. revision' + 1 = revision + 2
    BY <1>5, <1>6
  <2> QED BY <1>1, <1>9, <2>2, <2>3, <2>4 DEF AllDistinct
<1> QED BY <1>12, <1>13, <1>14, <1>17, <1>18 DEF DocInv


LEMMA NextKeeps ==
  ASSUME DocAssumption, DocInv, [Next]_vars
  PROVE  DocInv'
<1>1. CASE Next
  <2>1. PICK base \in 0..revision : \E op \in Requests(views[base + 1], revision + 1) :
          HandleOperation(base, op)
    BY <1>1, Zenon DEF Next
  <2>2. PICK op \in Requests(views[base + 1], revision + 1) : HandleOperation(base, op)
    BY <2>1, Zenon
  <2> QED BY <2>2, OperationKeeps
<1>2. CASE UNCHANGED vars
  BY <1>2, Zenon DEF vars, DocInv, DocTypes, HistoryIsTail, Chain, Named, AllDistinct
<1> QED BY <1>1, <1>2

THEOREM DocumentInvariant == Spec => []DocInv
<1>1. Init => DocInv
  BY DocAssumption, DocInit
<1>2. DocInv /\ [Next]_vars => DocInv'
  BY DocAssumption, NextKeeps
<1> QED BY <1>1, <1>2, PTL DEF Spec

LEMMA InvTypes ==
  ASSUME DocAssumption, DocInv
  PROVE  TypeOK
<1>1. /\ content \in Texts /\ revision \in 0..MaxRevision /\ revision \in Nat
      /\ history \in Seq(Entries) /\ log \in Seq(Entries) /\ Len(log) = revision
      /\ Len(views) = revision + 1
  BY DEF DocInv, DocTypes, DocAssumption
<1>2. PICK n \in Nat : n = Len(history) /\ DOMAIN history = 1..n
  BY <1>1
<1>3. ASSUME NEW i \in 1..n
      PROVE  IsOperation(history[i]) /\ history[i].revision \in 1..revision
  <2>1. history[i] \in EntryRecords
    BY <1>1, <1>2 DEF Entries
  <2>2. IsOperation(history[i])
    BY <2>1 DEF IsOperation, EntryRecords, Kinds, Texts
  <2>3. PICK r : r = (revision - n) + i
    OBVIOUS
  <2>4. n <= revision /\ history[i] = log[r]
    BY <1>2, <2>3 DEF DocInv, HistoryIsTail
  <2>5. r \in 1..revision
    BY <1>1, <2>3, <2>4
  <2>6. log[r].revision = r
    BY <2>5 DEF DocInv, Named
  <2> QED BY <2>2, <2>4, <2>5, <2>6
<1> QED BY <1>1, <1>2, <1>3 DEF TypeOK, Texts

\* The document is text, the revision counts the operations handled, and every
\* retained operation is one the engine knows and bears the revision it got
\* (the fields of CollaborationSession and Operation).
THEOREM TypesAlwaysOK == Spec => []TypeOK
<1>1. DocInv => TypeOK
  BY DocAssumption, InvTypes
<1> QED BY <1>1, DocumentInvariant, PTL

LEMMA InvConverge ==
  ASSUME DocAssumption, DocInv
  PROVE  PairsConverge
<1>1. content \in Texts /\ revision + 1 \in Nat /\ revision + 2 \in Nat
  BY DEF DocInv, DocTypes, DocAssumption
<1>2. ASSUME NEW a \in Requests(content, revision + 1), NEW b \in Requests(content, revision + 2),
             ValidOn(a, content), ValidOn(b, content), HasRule(a, b)
      PROVE  Apply(Apply(content, a), Transform(a, b)[2])
                = Apply(Apply(content, b), Transform(a, b)[1])
  <2>1. a \in Edits /\ b \in Edits
    BY <1>1, RequestFields
  <2> QED BY <1>1, <1>2, <2>1, Converge
<1> QED BY <1>2, Zenon DEF PairsConverge

\* Two operations formed on the same document, for which transform has a rule,
\* lead to the same document in either order, whatever the document and the
\* operations (OperationalTransform.transform, and apply).
THEOREM PairsAlwaysConverge == Spec => []PairsConverge
<1>1. DocInv => PairsConverge
  BY DocAssumption, InvConverge
<1> QED BY <1>1, DocumentInvariant, PTL

LEMMA InvLatest ==
  ASSUME DocAssumption, DocInv
  PROVE  HistoryIsLatest
<1>1. PICK n, m : n = Len(history) /\ m = Len(log)
  OBVIOUS
<1>2. /\ n \in Nat /\ m \in Nat /\ revision = m /\ n <= m /\ n <= HistoryMax
      /\ n >= Least(revision, HistoryKeep) /\ HistoryKeep \in Nat
      /\ history \in Seq(Entries) /\ log \in Seq(Entries)
      /\ \A i \in 1..n : history[i] = log[(m - n) + i]
  <2>1. /\ m = revision /\ n \in Nat /\ m \in Nat
        /\ history \in Seq(Entries) /\ log \in Seq(Entries)
        /\ HistoryMax \in Nat /\ HistoryKeep \in Nat
    BY <1>1 DEF DocInv, DocTypes, DocAssumption
  <2>2. /\ n <= revision /\ n <= HistoryMax /\ n >= Least(revision, HistoryKeep)
        /\ \A i \in 1..n : history[i] = log[(revision - n) + i]
    BY <1>1 DEF DocInv, HistoryIsTail
  <2> QED BY <2>1, <2>2
<1>3. PICK g, h : g = Reverse(history) /\ h = Reverse(log)
  OBVIOUS
<1>4. /\ g = [i \in 1..n |-> history[(n - i) + 1]]
      /\ h = [i \in 1..m |-> log[(m - i) + 1]]
  BY <1>1, <1>3 DEF Reverse
<1>5. g \in Seq(Entries) /\ Len(g) = n /\ h \in Seq(Entries) /\ Len(h) = m
  <2>1. \A i \in 1..n : (n - i) + 1 \in 1..n
    BY <1>2
  <2>2. \A i \in 1..m : (m - i) + 1 \in 1..m
    BY <1>2
  <2> QED BY <1>1, <1>2, <1>4, <2>1, <2>2
<1>6. ASSUME NEW i \in 1..n PROVE g[i] = h[i]
  <2>1. (n - i) + 1 \in 1..n /\ i \in 1..m /\ (m - n) + ((n - i) + 1) = (m - i) + 1
    BY <1>2
  <2> QED BY <1>2, <1>4, <2>1
<1>7. IsSuffix(history, log)
  <2>1. SubSeq(h, 1, n) = g
    <3>1. \A i \in 1..n : h[i] \in Entries
      BY <1>2, <1>5
    <3>2. PICK k : k = SubSeq(h, 1, n)
      OBVIOUS
    <3>3. k \in Seq(Entries) /\ Len(k) = n /\ \A i \in 1..n : k[i] = h[i]
      BY <1>2, <1>5, <3>1, <3>2
    <3> QED BY <1>5, <1>6, <3>2, <3>3
  <2> QED BY <1>1, <1>2, <1>3, <1>5, <2>1 DEF IsSuffix, IsPrefix
<1>8. Len(history) >= (IF revision < HistoryKeep THEN revision ELSE HistoryKeep)
  BY <1>1, <1>2 DEF Least
<1> QED BY <1>1, <1>2, <1>7, <1>8 DEF HistoryIsLatest

\* The retained history is always the end of what was handled, in order, within
\* its limit, and a cut leaves HistoryKeep operations (handle_operation).
THEOREM HistoryLatest == Spec => []HistoryIsLatest
<1>1. DocInv => HistoryIsLatest
  BY DocAssumption, InvLatest
<1> QED BY <1>1, DocumentInvariant, PTL


-----------------------------------------------------------------------------
(* What an author meant survives the loop.                                 *)

\* An insert leaves every character on the side of position p it was on.
LEMMA InsertKeepsPlace ==
  ASSUME NEW s \in Texts, NEW x \in Texts, NEW q \in Nat, q <= Len(s), NEW r,
         Inserted(s, q, x, r), NEW p \in Nat, p <= Len(s), NEW c, ~Has(x, c)
  PROVE  /\ p <= q => p <= Len(r) /\ (Between(r, 0, p, c) <=> Between(s, 0, p, c))
         /\ q <= p => /\ p + Len(x) <= Len(r)
                      /\ Between(r, 0, p + Len(x), c) <=> Between(s, 0, p, c)
<1>1. PICK l \in Nat, m \in Nat : l = Len(s) /\ m = Len(x)
  BY TextLen
<1>2. /\ Len(r) = l + m
      /\ \A i \in 1..l + m : r[i] = IF i <= q THEN s[i] ELSE IF i <= q + m THEN x[i - q] ELSE s[i - m]
  BY <1>1 DEF Inserted
<1>3. ASSUME p <= q
      PROVE  p <= Len(r) /\ (Between(r, 0, p, c) <=> Between(s, 0, p, c))
  <2>1. \A i \in 0 + 1..0 + p : i \in 1..l + m /\ i <= q
    BY <1>1, <1>3
  <2>2. \A i \in 0 + 1..0 + p : r[i] = s[i]
    BY <1>2, <2>1
  <2> QED BY <1>1, <1>2, <2>2 DEF Between
<1>4. ASSUME q <= p
      PROVE  p + m <= Len(r) /\ (Between(r, 0, p + m, c) <=> Between(s, 0, p, c))
  <2>1. ASSUME NEW i \in 0 + 1..0 + (p + m), r[i] = c PROVE \E j \in 0 + 1..0 + p : s[j] = c
    <3>1. i \in 1..l + m
      BY <1>1
    <3>2. CASE i <= q
      <4>1. i \in 0 + 1..0 + p
        BY <1>4, <3>2
      <4> QED BY <1>2, <2>1, <3>1, <3>2, <4>1
    <3>3. CASE q < i /\ i <= q + m
      <4>1. i - q \in 1..m /\ ~(i <= q)
        BY <1>1, <3>3
      <4> QED BY <1>1, <1>2, <2>1, <3>1, <3>3, <4>1 DEF Has
    <3>4. CASE q + m < i
      <4>1. i - m \in 0 + 1..0 + p /\ ~(i <= q) /\ ~(i <= q + m)
        BY <1>1, <1>4, <3>4
      <4> QED BY <1>2, <2>1, <3>1, <4>1
    <3> QED BY <1>1, <3>2, <3>3, <3>4
  <2>2. ASSUME NEW j \in 0 + 1..0 + p, s[j] = c PROVE \E i \in 0 + 1..0 + (p + m) : r[i] = c
    <3>1. CASE j <= q
      <4>1. j \in 1..l + m /\ j \in 0 + 1..0 + (p + m)
        BY <1>1
      <4> QED BY <1>2, <2>2, <3>1, <4>1
    <3>2. CASE q < j
      <4>1. /\ j + m \in 1..l + m /\ j + m \in 0 + 1..0 + (p + m) /\ ~(j + m <= q)
            /\ ~(j + m <= q + m) /\ (j + m) - m = j
        BY <1>1, <3>2
      <4> QED BY <1>2, <2>2, <4>1
    <3> QED BY <3>1, <3>2
  <2> QED BY <1>1, <1>2, <2>1, <2>2 DEF Between
<1> QED BY <1>1, <1>3, <1>4

\* A delete of the n characters after q leaves what is outside them in order:
\* position p corresponds to p before them, and to p - n behind them.
LEMMA DeleteKeepsPlace ==
  ASSUME NEW s \in Texts, NEW q \in Nat, NEW n \in Nat, q + n <= Len(s), NEW r,
         Deleted(s, q, n, r), Distinct(s), NEW p \in Nat, p <= Len(s), NEW c, Has(r, c)
  PROVE  /\ p <= q => p <= Len(r) /\ (Between(r, 0, p, c) <=> Between(s, 0, p, c))
         /\ q + n <= p => /\ p - n \in Nat /\ p - n <= Len(r)
                          /\ Between(r, 0, p - n, c) <=> Between(s, 0, p, c)
<1>1. PICK l \in Nat : l = Len(s)
  BY TextLen
<1>2. /\ Len(r) = l - n
      /\ \A i \in 1..l - n : r[i] = IF i <= q THEN s[i] ELSE s[i + n]
  BY <1>1 DEF Deleted
<1>3. ASSUME p <= q
      PROVE  p <= Len(r) /\ (Between(r, 0, p, c) <=> Between(s, 0, p, c))
  <2>1. \A i \in 0 + 1..0 + p : i \in 1..l - n /\ i <= q
    BY <1>1, <1>3
  <2>2. \A i \in 0 + 1..0 + p : r[i] = s[i]
    BY <1>2, <2>1
  <2>3. p <= Len(r)
    BY <1>1, <1>2, <1>3
  <2> QED BY <2>2, <2>3 DEF Between
<1>4. ASSUME q + n <= p
      PROVE  /\ p - n \in Nat /\ p - n <= Len(r)
             /\ Between(r, 0, p - n, c) <=> Between(s, 0, p, c)
  <2>1. p - n \in Nat /\ p - n <= Len(r)
    BY <1>1, <1>2, <1>4
  <2>2. ASSUME NEW i \in 0 + 1..0 + (p - n), r[i] = c PROVE \E j \in 0 + 1..0 + p : s[j] = c
    <3>1. i \in 1..l - n /\ i \in 0 + 1..0 + p /\ i + n \in 0 + 1..0 + p
      BY <1>1, <1>4
    <3> QED BY <1>2, <2>2, <3>1
  <2>3. ASSUME NEW j \in 0 + 1..0 + p, s[j] = c PROVE \E i \in 0 + 1..0 + (p - n) : r[i] = c
    <3>1. PICK i \in 1..l - n : r[i] = c
      BY <1>2 DEF Has
    <3>2. PICK k : k = IF i <= q THEN i ELSE i + n
      OBVIOUS
    <3>3. k \in 1..l /\ j \in 1..l
      BY <1>1, <3>2
    <3>4. s[k] = c
      BY <1>2, <3>1, <3>2
    <3>5. k = j
      BY <1>1, <2>3, <3>3, <3>4 DEF Distinct
    <3>6. i \in 0 + 1..0 + (p - n)
      BY <1>1, <1>4, <3>2, <3>5
    <3> QED BY <3>1, <3>6
  <2> QED BY <2>1, <2>2, <2>3 DEF Between
<1> QED BY <1>3, <1>4

\* It leaves a disjoint selection as it was.
LEMMA DeleteKeepsSelection ==
  ASSUME NEW s \in Texts, NEW q \in Nat, NEW n \in Nat, q + n <= Len(s), NEW r,
         Deleted(s, q, n, r), NEW p \in Nat, NEW m \in Nat, p + m <= Len(s), NEW c
  PROVE  /\ p + m <= q => p + m <= Len(r) /\ (Between(r, p, m, c) <=> Between(s, p, m, c))
         /\ q + n <= p => /\ p - n \in Nat /\ (p - n) + m <= Len(r)
                          /\ Between(r, p - n, m, c) <=> Between(s, p, m, c)
<1>1. PICK l \in Nat : l = Len(s)
  BY TextLen
<1>2. /\ Len(r) = l - n
      /\ \A i \in 1..l - n : r[i] = IF i <= q THEN s[i] ELSE s[i + n]
  BY <1>1 DEF Deleted
<1>3. ASSUME p + m <= q
      PROVE  p + m <= Len(r) /\ (Between(r, p, m, c) <=> Between(s, p, m, c))
  <2>1. \A i \in p + 1..p + m : i \in 1..l - n /\ i <= q
    BY <1>1, <1>3
  <2>2. \A i \in p + 1..p + m : r[i] = s[i]
    BY <1>2, <2>1
  <2>3. p + m <= Len(r)
    BY <1>1, <1>2, <1>3
  <2> QED BY <2>2, <2>3 DEF Between
<1>4. ASSUME q + n <= p
      PROVE  /\ p - n \in Nat /\ (p - n) + m <= Len(r)
             /\ Between(r, p - n, m, c) <=> Between(s, p, m, c)
  <2>1. p - n \in Nat /\ (p - n) + m <= Len(r)
    BY <1>1, <1>2, <1>4
  <2>2. ASSUME NEW i \in (p - n) + 1..(p - n) + m, r[i] = c PROVE \E j \in p + 1..p + m : s[j] = c
    <3>1. i \in 1..l - n /\ ~(i <= q) /\ i + n \in p + 1..p + m
      BY <1>1, <1>4
    <3> QED BY <1>2, <2>2, <3>1
  <2>3. ASSUME NEW j \in p + 1..p + m, s[j] = c PROVE \E i \in (p - n) + 1..(p - n) + m : r[i] = c
    <3>1. /\ j - n \in 1..l - n /\ ~(j - n <= q) /\ j - n \in (p - n) + 1..(p - n) + m
          /\ (j - n) + n = j
      BY <1>1, <1>4
    <3> QED BY <1>2, <2>3, <3>1
  <2> QED BY <2>1, <2>2, <2>3 DEF Between
<1> QED BY <1>3, <1>4


\* On the document v, the operation o means what op meant on the document u: an
\* insert goes between the same characters, as far as both documents have them,
\* and a delete selects the same ones.
SamePlace(p, u, q, v) ==
    /\ q <= Len(v)
    /\ \A c : Has(u, c) /\ Has(v, c) => (Between(v, 0, q, c) <=> Between(u, 0, p, c))
SameSelection(p, u, q, v, n) ==
    /\ q + n <= Len(v)
    /\ \A c : Between(v, q, n, c) <=> Between(u, p, n, c)
SameIntent(op, u, o, v) ==
    /\ op.type = "insert" => SamePlace(op.position, u, o.position, v)
    /\ op.type = "delete" => SameSelection(op.position, u, o.position, v, op.len)

LEMMA PlaceAfterInsert ==
  ASSUME NEW u, NEW v \in Texts, NEW x \in Texts, NEW p, NEW q \in Nat, NEW k \in Nat, NEW r,
         SamePlace(p, u, q, v), \A c : Has(u, c) => ~Has(x, c),
         k <= Len(v), Inserted(v, k, x, r)
  PROVE  /\ q <= k => SamePlace(p, u, q, r)
         /\ k <= q => SamePlace(p, u, q + Len(x), r)
<1>1. q <= Len(v) /\ \A c : Has(u, c) /\ Has(v, c) => (Between(v, 0, q, c) <=> Between(u, 0, p, c))
  BY DEF SamePlace
<1>2. /\ q <= k => q <= Len(r)
      /\ k <= q => q + Len(x) <= Len(r)
  <2>1. Len(r) = Len(v) + Len(x) /\ Len(x) \in Nat /\ Len(v) \in Nat
    BY TextLen DEF Inserted
  <2> QED BY <1>1, <2>1
<1>3. ASSUME NEW c, Has(u, c), Has(r, c)
      PROVE  /\ q <= k => (Between(r, 0, q, c) <=> Between(u, 0, p, c))
             /\ k <= q => (Between(r, 0, q + Len(x), c) <=> Between(u, 0, p, c))
  <2>1. ~Has(x, c)
    BY <1>3
  <2>2. Has(v, c)
    <3>1. PICK i \in 1..Len(r) : r[i] = c
      BY <1>3 DEF Has
    <3>2. Has(v, r[i]) \/ Has(x, r[i])
      BY InsertedChars
    <3> QED BY <2>1, <3>1, <3>2
  <2>3. /\ q <= k => (Between(r, 0, q, c) <=> Between(v, 0, q, c))
        /\ k <= q => (Between(r, 0, q + Len(x), c) <=> Between(v, 0, q, c))
    BY <1>1, <2>1, InsertKeepsPlace
  <2> QED BY <1>1, <1>3, <2>2, <2>3
<1> QED BY <1>2, <1>3, Zenon DEF SamePlace

LEMMA PlaceAfterDelete ==
  ASSUME NEW u, NEW v \in Texts, NEW p, NEW q \in Nat, NEW k \in Nat, NEW n \in Nat, NEW r,
         SamePlace(p, u, q, v), Distinct(v), k + n <= Len(v), Deleted(v, k, n, r)
  PROVE  /\ q <= k => SamePlace(p, u, q, r)
         /\ k + n <= q => SamePlace(p, u, q - n, r)
<1>1. q <= Len(v) /\ \A c : Has(u, c) /\ Has(v, c) => (Between(v, 0, q, c) <=> Between(u, 0, p, c))
  BY DEF SamePlace
<1>2. /\ q <= k => q <= Len(r)
      /\ k + n <= q => q - n <= Len(r)
  <2>1. Len(r) = Len(v) - n /\ Len(v) \in Nat
    BY TextLen DEF Deleted
  <2> QED BY <1>1, <2>1
<1>3. ASSUME NEW c, Has(u, c), Has(r, c)
      PROVE  /\ q <= k => (Between(r, 0, q, c) <=> Between(u, 0, p, c))
             /\ k + n <= q => (Between(r, 0, q - n, c) <=> Between(u, 0, p, c))
  <2>1. Has(v, c)
    <3>1. PICK i \in 1..Len(r) : r[i] = c
      BY <1>3 DEF Has
    <3>2. Has(v, r[i])
      BY DeletedChars
    <3> QED BY <3>1, <3>2
  <2>2. /\ q <= k => (Between(r, 0, q, c) <=> Between(v, 0, q, c))
        /\ k + n <= q => (Between(r, 0, q - n, c) <=> Between(v, 0, q, c))
    BY <1>1, <1>3, DeleteKeepsPlace
  <2> QED BY <1>1, <1>3, <2>1, <2>2
<1> QED BY <1>2, <1>3, Zenon DEF SamePlace

LEMMA SelectionAfterDelete ==
  ASSUME NEW u, NEW v \in Texts, NEW p, NEW q \in Nat, NEW m \in Nat, NEW k \in Nat, NEW n \in Nat,
         NEW r, SameSelection(p, u, q, v, m), k + n <= Len(v), Deleted(v, k, n, r)
  PROVE  /\ q + m <= k => SameSelection(p, u, q, r, m)
         /\ k + n <= q => SameSelection(p, u, q - n, r, m)
<1>1. q + m <= Len(v) /\ \A c : Between(v, q, m, c) <=> Between(u, p, m, c)
  BY DEF SameSelection
<1>2. /\ q + m <= k => q + m <= Len(r)
      /\ k + n <= q => (q - n) + m <= Len(r)
  <2>1. Len(r) = Len(v) - n /\ Len(v) \in Nat
    BY TextLen DEF Deleted
  <2> QED BY <1>1, <2>1
<1>3. ASSUME NEW c
      PROVE  /\ q + m <= k => (Between(r, q, m, c) <=> Between(u, p, m, c))
             /\ k + n <= q => (Between(r, q - n, m, c) <=> Between(u, p, m, c))
  <2>1. /\ q + m <= k => (Between(r, q, m, c) <=> Between(v, q, m, c))
        /\ k + n <= q => (Between(r, q - n, m, c) <=> Between(v, q, m, c))
    BY <1>1, DeleteKeepsSelection
  <2> QED BY <1>1, <2>1
<1> QED BY <1>2, <1>3, Zenon DEF SameSelection

\* One round of the loop: o, which means on v what op meant on u, meets the
\* operation h that was applied to v.
LEMMA RoundKeepsIntent ==
  ASSUME NEW u \in Texts, NEW v \in Texts, Distinct(v), NEW op, NEW o \in Edits, NEW h, IsEdit(h),
         o.type = op.type, o.len = op.len, HasRule(o, h), SameIntent(op, u, o, v),
         \A c : Has(u, c) => ~Has(h.text, c)
  PROVE  SameIntent(op, u, Transform(o, h)[1], Apply(v, h))
<1>1. /\ IsEdit(o) /\ o.position \in Nat /\ o.len \in Nat
      /\ h.position \in Nat /\ h.len \in Nat /\ h.text \in Texts /\ Len(h.text) \in Nat
      /\ Len(v) \in Nat
  BY EditFields, TextLen DEF IsEdit
<1>2. PICK r, t : r = Apply(v, h) /\ t = Transform(o, h)[1]
  OBVIOUS
<1>3. CASE h.type = "retain"
  <2>1. t = o /\ r = v
    BY <1>1, <1>2, <1>3, TransformRules, RetainDoes
  <2> QED BY <1>2, <2>1
<1>4. CASE o.type = "insert"
  <2>1. SamePlace(op.position, u, o.position, v) /\ o.position <= Len(v)
    BY <1>4 DEF SameIntent, SamePlace
  <2>2. CASE h.type = "insert"
    <3>1. PICK k : k = Least(h.position, Len(v))
      OBVIOUS
    <3>2. k \in Nat /\ k <= Len(v) /\ Inserted(v, k, h.text, r)
      BY <1>2, <2>2, <3>1, Applied
    <3>3. /\ o.position <= k => SamePlace(op.position, u, o.position, r)
          /\ k <= o.position => SamePlace(op.position, u, o.position + Len(h.text), r)
      BY <1>1, <2>1, <3>2, PlaceAfterInsert
    <3>4. CASE o.position <= h.position
      <4>1. t = o /\ o.position <= k
        BY <1>1, <1>2, <1>4, <2>1, <2>2, <3>1, <3>4, TransformRules DEF Least
      <4> QED BY <1>2, <1>4, <3>3, <4>1 DEF SameIntent
    <3>5. CASE ~(o.position <= h.position)
      <4>1. t = Shift(o, o.position + Len(h.text)) /\ k <= o.position
        BY <1>1, <1>2, <1>4, <2>1, <2>2, <3>1, <3>5, TransformRules DEF Least
      <4>2. t.position = o.position + Len(h.text)
        <5>1. o.position + Len(h.text) \in Nat
          BY <1>1
        <5> QED BY <4>1, <5>1, Shifted
      <4> QED BY <1>2, <1>4, <3>3, <4>1, <4>2 DEF SameIntent
    <3> QED BY <3>4, <3>5
  <2>3. CASE h.type = "delete"
    <3>1. PICK k, n \in Nat : /\ k = Least(h.position, Len(v)) /\ k + n <= Len(v)
                              /\ k + n = Least(h.position + h.len, Len(v))
                              /\ Deleted(v, k, n, r)
      BY <1>2, <2>3, Applied
    <3>2. /\ o.position <= k => SamePlace(op.position, u, o.position, r)
          /\ k + n <= o.position => SamePlace(op.position, u, o.position - n, r)
      BY <1>1, <2>1, <3>1, PlaceAfterDelete
    <3>3. CASE o.position <= h.position
      <4>1. t = o /\ o.position <= k
        BY <1>1, <1>2, <1>4, <2>1, <2>3, <3>1, <3>3, TransformRules DEF Least
      <4> QED BY <1>2, <1>4, <3>2, <4>1 DEF SameIntent
    <3>4. CASE ~(o.position <= h.position)
      <4>1. o.position >= h.position + h.len
        BY <1>4, <2>3, <3>4 DEF HasRule
      <4>2. n = h.len /\ k + n <= o.position /\ o.position - h.len \in Nat
        <5>1. PICK a \in Nat, b \in Nat, l \in Nat, p \in Nat :
               a = h.position /\ b = h.len /\ l = Len(v) /\ p = o.position
          BY <1>1
        <5>2. p <= l /\ p >= a + b /\ k = Least(a, l) /\ k + n = Least(a + b, l)
          BY <1>1, <2>1, <3>1, <4>1, <5>1
        <5>3. n = b /\ k + n <= p /\ p - b \in Nat
          BY <5>2 DEF Least
        <5> QED BY <5>1, <5>3
      <4>3. t = Shift(o, o.position - h.len)
        BY <1>1, <1>2, <1>4, <2>3, <3>4, <4>1, TransformRules
      <4>4. t.position = o.position - n
        BY <4>2, <4>3, Shifted
      <4> QED BY <1>2, <1>4, <3>2, <4>2, <4>4 DEF SameIntent
    <3> QED BY <3>3, <3>4
  <2> QED BY <1>3, <2>2, <2>3 DEF IsEdit, Kinds
<1>5. CASE o.type = "delete" /\ h.type = "delete"
  <2>1. /\ SameSelection(op.position, u, o.position, v, op.len)
        /\ o.position + o.len <= Len(v) /\ o.len > 0 /\ h.len > 0
    BY <1>1, <1>5 DEF SameIntent, SameSelection, IsEdit
  <2>2. PICK k, n \in Nat : /\ k = Least(h.position, Len(v)) /\ k + n <= Len(v)
                            /\ k + n = Least(h.position + h.len, Len(v))
                            /\ Deleted(v, k, n, r)
    BY <1>2, <1>5, Applied
  <2>3. /\ o.position + op.len <= k => SameSelection(op.position, u, o.position, r, op.len)
        /\ k + n <= o.position => SameSelection(op.position, u, o.position - n, r, op.len)
    BY <1>1, <2>1, <2>2, SelectionAfterDelete
  <2>4. CASE o.position >= h.position + h.len
    <3>1. n = h.len /\ k + n <= o.position /\ o.position - h.len \in Nat
      <4>1. PICK a \in Nat, b \in Nat, l \in Nat, p \in Nat :
             a = h.position /\ b = h.len /\ l = Len(v) /\ p = o.position
        BY <1>1
      <4>2. p <= l /\ p >= a + b /\ k = Least(a, l) /\ k + n = Least(a + b, l)
        BY <1>1, <2>1, <2>2, <2>4, <4>1
      <4>3. n = b /\ k + n <= p /\ p - b \in Nat
        BY <4>2 DEF Least
      <4> QED BY <4>1, <4>3
    <3>2. t = Shift(o, o.position - h.len)
      BY <1>1, <1>2, <1>5, <2>4, TransformRules
    <3>3. t.position = o.position - n
      BY <3>1, <3>2, Shifted
    <3> QED BY <1>2, <1>5, <2>3, <3>1, <3>3 DEF SameIntent
  <2>5. CASE h.position >= o.position + o.len
    <3>1. ~(o.position >= h.position + h.len) /\ o.position + op.len <= k
      BY <1>1, <2>1, <2>2, <2>5 DEF Least
    <3>2. t = o
      BY <1>1, <1>2, <1>5, <2>5, <3>1, TransformRules
    <3> QED BY <1>2, <1>5, <2>3, <3>1, <3>2 DEF SameIntent
  <2> QED BY <1>5, <2>4, <2>5 DEF HasRule
<1>6. CASE o.type = "retain"
  BY <1>6 DEF SameIntent
<1>7. ~(o.type = "delete" /\ h.type = "insert")
  BY DEF HasRule
<1> QED BY <1>1, <1>3, <1>4, <1>5, <1>6, <1>7 DEF IsEdit, Kinds


\* The loop as a whole, when it meets every operation since the revision the
\* author saw.
LEMMA LoopKeepsIntent ==
  ASSUME DocAssumption, DocInv, NEW base \in 0..revision, NEW op \in Edits,
         ValidOn(op, views[base + 1]), NEW ops \in Seq(Entries), NEW f, Looped(op, ops, f),
         Len(ops) = revision - base, \A i \in 1..Len(ops) : ops[i] = log[base + i],
         f[Len(ops)].ruled
  PROVE  SameIntent(op, views[base + 1], f[Len(ops)].op, content)
<1>0. PICK u : u = views[base + 1]
  OBVIOUS
<1>1. PICK n \in Nat : n = Len(ops)
  OBVIOUS
<1>2. /\ revision \in Nat /\ base \in Nat /\ base <= revision /\ base + n = revision
      /\ views \in Seq(Texts) /\ Len(views) = revision + 1 /\ views[revision + 1] = content
      /\ base + 1 \in 1..revision + 1
  BY <1>1 DEF DocInv, DocTypes, DocAssumption
<1>3. u \in Texts /\ Older(u, base + 1) /\ ValidOn(op, u)
  BY <1>0, <1>2 DEF DocInv, Named
<1>4. /\ f[0] = [op |-> op, ruled |-> TRUE]
      /\ \A i \in 1..n : f[i] = Against(f[i - 1], ops[i])
      /\ \A i \in 0..n : f[i].op \in Edits /\ f[i].op.type = op.type /\ f[i].op.len = op.len
      /\ \A i \in 1..n : ops[i] = log[base + i] /\ ops[i] \in Entries
  <2>1. \A i \in 1..n : ops[i] = log[base + i] /\ ops[i] \in Entries
    BY <1>1
  <2>2. f[0] = [op |-> op, ruled |-> TRUE] /\ \A i \in 1..n : f[i] = Against(f[i - 1], ops[i])
    BY <1>1, Zenon DEF Looped
  <2>3. \A i \in 0..n : f[i].op \in Edits /\ f[i].op.type = op.type /\ f[i].op.len = op.len
    BY <1>1, Zenon DEF Looped
  <2> QED BY <2>1, <2>2, <2>3
<1> DEFINE Meets(i) == f[i].ruled => SameIntent(op, u, f[i].op, views[(base + 1) + i])
           S == {i \in Nat : i > n \/ Meets(i)}
<1>5. 0 \in S
  <2>1. f[0].op = op /\ (base + 1) + 0 = base + 1
    BY <1>2, <1>4
  <2>2. SameIntent(op, u, op, u)
    <3>1. op.position + op.len <= Len(u) /\ op.position \in Nat /\ op.len \in Nat /\ Len(u) \in Nat
      BY <1>3, EditFields, TextLen DEF ValidOn, IsEdit
    <3>2. op.position <= Len(u)
      BY <3>1
    <3> QED BY <3>1, <3>2 DEF SameIntent, SamePlace, SameSelection
  <2>3. Meets(0)
    BY <1>0, <2>1, <2>2
  <2> QED BY <2>3
<1>6. ASSUME NEW i \in Nat, i \in S PROVE i + 1 \in S
  <2>1. CASE i + 1 > n
    BY <2>1
  <2>2. CASE ~(i + 1 > n)
    <3>0. ~(i > n) /\ i \in 0..n /\ i + 1 \in 1..n /\ (i + 1) - 1 = i /\ i + 1 \in Nat
      BY <2>2
    <3>1. Meets(i) /\ i \in 0..n /\ i + 1 \in 1..n /\ (i + 1) - 1 = i /\ i + 1 \in Nat
      <4> HIDE DEF Meets
      <4> QED BY <1>6, <3>0
    <3>2. PICK k : k = (base + 1) + i
      OBVIOUS
    <3>3. /\ k \in 1..revision /\ k \in 1..revision + 1 /\ k + 1 = (base + 1) + (i + 1)
          /\ base + (i + 1) = k /\ k > base
      BY <1>2, <3>1, <3>2
    <3>4. PICK o, h, v : o = f[i].op /\ h = ops[i + 1] /\ v = views[k]
      OBVIOUS
    <3>5. /\ o \in Edits /\ o.type = op.type /\ o.len = op.len /\ h \in Entries /\ h = log[k]
          /\ f[i + 1] = Against(f[i], h)
      BY <1>4, <3>1, <3>3, <3>4
    <3>6. /\ v \in Texts /\ Distinct(v) /\ views[k + 1] = Apply(v, h) /\ Own(h.text, k)
      <4>1. v \in Texts
        BY <1>2, <3>3, <3>4
      <4>2. Distinct(v)
        BY <3>3, <3>4 DEF DocInv, AllDistinct
      <4>3. views[k + 1] = Apply(v, h)
        BY <3>3, <3>4, <3>5 DEF DocInv, Chain
      <4>4. Own(h.text, k)
        BY <3>3, <3>5 DEF DocInv, Named
      <4> QED BY <4>1, <4>2, <4>3, <4>4
    <3>7. \A c : Has(u, c) => ~Has(h.text, c)
      <4> SUFFICES ASSUME NEW c, Has(u, c), Has(h.text, c) PROVE FALSE
        OBVIOUS
      <4>1. PICK a \in 1..Len(u) : u[a] = c
        BY DEF Has
      <4>2. PICK b \in 1..Len(h.text) : h.text[b] = c
        BY DEF Has
      <4>3. c[1] < base + 1 /\ c[1] = k
        BY <1>3, <3>6, <4>1, <4>2 DEF Older, Own
      <4> QED BY <1>2, <3>3, <4>3
    <3>8. f[i + 1].op = Transform(o, h)[1]
      BY <3>4, <3>5 DEF Against
    <3>9. f[i + 1].ruled => f[i].ruled /\ HasRule(o, h)
      <4>1. f[i + 1].ruled = (f[i].ruled /\ HasRule(o, h))
        BY <3>4, <3>5 DEF Against
      <4> QED BY <4>1, Zenon
    <3>10. ASSUME f[i + 1].ruled PROVE SameIntent(op, u, f[i + 1].op, views[k + 1])
      <4>1. SameIntent(op, u, o, v) /\ HasRule(o, h)
        BY <3>1, <3>2, <3>4, <3>9, <3>10
      <4>2. IsEdit(h)
        BY <3>5, EntryFields
      <4>3. SameIntent(op, u, Transform(o, h)[1], Apply(v, h))
        BY <1>3, <3>5, <3>6, <3>7, <4>1, <4>2, RoundKeepsIntent
      <4> QED BY <3>6, <3>8, <4>3
    <3>11. Meets(i + 1)
      BY <3>3, <3>10
    <3> QED BY <3>1, <3>11
  <2> QED BY <2>1, <2>2
<1>7. \A i \in Nat : i \in S
  <2> HIDE DEF S
  <2> QED BY <1>5, <1>6, AllNaturals
<1>8. Meets(n)
  BY <1>7
<1>9. (base + 1) + n = revision + 1
  BY <1>2
<1> QED BY <1>0, <1>1, <1>2, <1>8, <1>9


LEMMA SetOf == ASSUME NEW s \in Texts PROVE \A c : c \in ToSet(s) <=> Has(s, c)
<1>1. DOMAIN s = 1..Len(s)
  BY DEF Texts
<1>2. ToSet(s) = {s[i] : i \in 1..Len(s)}
  BY <1>1 DEF ToSet
<1> QED BY <1>2, Zenon DEF Has

\* In the place that means the same, an insert does what the author meant.
LEMMA InsertMeant ==
  ASSUME NEW u \in Texts, NEW v \in Texts, NEW op, IsEdit(op), op.type = "insert",
         NEW q \in Nat, NEW r \in Texts, SamePlace(op.position, u, q, v),
         Inserted(v, q, op.text, r), Distinct(r), \A c : Has(u, c) => ~Has(op.text, c)
  PROVE  Means(op, u, v, r)
<1> DEFINE At(c) == CHOOSE i \in DOMAIN r : r[i] = c
<1>1. PICK x : x = op.text
  OBVIOUS
<1>2. PICK p : p = op.position
  OBVIOUS
<1>3. PICK l \in Nat, m \in Nat : l = Len(v) /\ m = Len(x)
  BY <1>1, TextLen DEF IsEdit
<1>4. /\ x \in Texts /\ Len(r) = l + m /\ DOMAIN r = 1..l + m /\ q <= l
      /\ \A i \in 1..l + m : r[i] = IF i <= q THEN v[i] ELSE IF i <= q + m THEN x[i - q] ELSE v[i - m]
  BY <1>1, <1>3 DEF Inserted, IsEdit, SamePlace, Texts
<1>5. \A c : Has(r, c) => At(c) \in 1..l + m /\ r[At(c)] = c
  BY <1>4 DEF Has
<1>6. \A i, j \in 1..l + m : r[i] = r[j] => i = j
  BY <1>4 DEF Distinct
<1>7. \A c : Has(u, c) /\ Has(v, c) => (Between(v, 0, q, c) <=> Between(u, 0, p, c))
  BY <1>2 DEF SamePlace
<1>8. \A c : Has(x, c) => Has(r, c) /\ At(c) \in q + 1..q + m
  <2> SUFFICES ASSUME NEW c, Has(x, c) PROVE Has(r, c) /\ At(c) \in q + 1..q + m
    OBVIOUS
  <2>1. PICK j \in 1..m : x[j] = c
    BY <1>3 DEF Has
  <2>2. PICK k : k = j + q
    OBVIOUS
  <2>3. k \in 1..l + m /\ ~(k <= q) /\ k <= q + m /\ k - q = j /\ k \in q + 1..q + m
    BY <1>4, <2>2
  <2>4. r[k] = c
    BY <1>4, <2>1, <2>3
  <2>5. Has(r, c)
    BY <1>4, <2>3, <2>4 DEF Has
  <2>6. At(c) = k
    <3>1. At(c) \in 1..l + m /\ r[At(c)] = r[k]
      BY <1>5, <2>4, <2>5
    <3> HIDE DEF At
    <3> QED BY <1>6, <2>3, <3>1
  <2> QED BY <2>3, <2>5, <2>6
<1>9. ASSUME NEW c, Has(u, c), Has(r, c), NEW y, Has(x, y)
      PROVE  (At(c) < At(y)) <=> Between(u, 0, p, c)
  <2>1. ~Has(x, c)
    BY <1>1, <1>9
  <2>2. PICK i, j : i = At(c) /\ j = At(y)
    OBVIOUS
  <2>3. i \in 1..l + m /\ r[i] = c /\ j \in q + 1..q + m
    BY <1>5, <1>8, <1>9, <2>2
  <2> HIDE DEF At
  <2>4. CASE i <= q
    <3>1. v[i] = c /\ i \in 1..l /\ i \in 0 + 1..0 + q /\ i < j
      BY <1>3, <1>4, <2>3, <2>4
    <3>2. Has(v, c) /\ Between(v, 0, q, c)
      BY <1>3, <3>1 DEF Has, Between
    <3> QED BY <1>7, <1>9, <2>2, <3>1, <3>2
  <2>5. CASE q < i /\ i <= q + m
    <3>1. i - q \in 1..m /\ ~(i <= q)
      BY <2>3, <2>5
    <3>2. x[i - q] = c
      BY <1>4, <2>3, <2>5, <3>1
    <3> QED BY <1>3, <2>1, <3>1, <3>2 DEF Has
  <2>6. CASE q + m < i
    <3>1. /\ i - m \in 1..l /\ ~(i <= q) /\ ~(i <= q + m) /\ ~(i < j)
      BY <1>4, <2>3, <2>6
    <3>2. v[i - m] = c
      BY <1>4, <2>3, <3>1
    <3>3. Has(v, c)
      BY <1>3, <3>1, <3>2 DEF Has
    <3>4. ~Between(v, 0, q, c)
      <4> SUFFICES ASSUME Between(v, 0, q, c) PROVE FALSE
        OBVIOUS
      <4>1. PICK k \in 0 + 1..0 + q : v[k] = c
        BY DEF Between
      <4>2. k \in 1..l + m /\ k <= q /\ k # i
        BY <1>4, <2>3, <3>1
      <4>3. r[k] = c
        BY <1>4, <4>1, <4>2
      <4> QED BY <1>6, <2>3, <4>2, <4>3
    <3> QED BY <1>7, <1>9, <2>2, <3>1, <3>3, <3>4
  <2> QED BY <2>3, <2>4, <2>5, <2>6
<1>10. \A c : /\ c \in ToSet(u) <=> Has(u, c)
              /\ c \in ToSet(r) <=> Has(r, c)
              /\ c \in ToSet(x) <=> Has(x, c)
  BY <1>4, SetOf
<1>11. ToSet(x) \subseteq ToSet(r)
  BY <1>8, <1>10
<1>12. \A c \in ToSet(u) \cap ToSet(r) : \A y \in ToSet(x) :
         (At(c) < At(y)) <=> (\E i \in 1..p : u[i] = c)
  <2> SUFFICES ASSUME NEW c \in ToSet(u) \cap ToSet(r), NEW y \in ToSet(x)
               PROVE  (At(c) < At(y)) <=> (\E i \in 1..p : u[i] = c)
    OBVIOUS
  <2>1. (At(c) < At(y)) <=> Between(u, 0, p, c)
    BY <1>9, <1>10
  <2>2. 0 + 1..0 + p = 1..p
    BY <1>2 DEF IsEdit
  <2> HIDE DEF At
  <2> QED BY <2>1, <2>2 DEF Between
<1> QED BY <1>1, <1>2, <1>11, <1>12 DEF Means

\* A delete of the same selection does what the author meant.
LEMMA DeleteMeant ==
  ASSUME NEW u \in Texts, NEW v \in Texts, Distinct(v), NEW op, IsEdit(op), op.type = "delete",
         NEW q \in Nat, NEW r \in Texts, SameSelection(op.position, u, q, v, op.len),
         Deleted(v, q, op.len, r)
  PROVE  Means(op, u, v, r)
<1>1. PICK p, n : p = op.position /\ n = op.len
  OBVIOUS
<1>2. /\ p \in Nat /\ n \in Nat /\ q + n <= Len(v) /\ Deleted(v, q, n, r)
      /\ \A c : Between(v, q, n, c) <=> Between(u, p, n, c)
  BY <1>1 DEF IsEdit, SameSelection
<1>3. /\ \A i \in 1..Len(r) : Has(v, r[i]) /\ ~Between(v, q, n, r[i])
      /\ \A j \in 1..Len(v) : Has(r, v[j]) \/ Between(v, q, n, v[j])
  BY <1>2, DeletedChars
<1>4. \A c : Has(r, c) <=> Has(v, c) /\ ~Between(v, q, n, c)
  BY <1>3 DEF Has
<1>5. \A c : /\ c \in ToSet(v) <=> Has(v, c)
             /\ c \in ToSet(r) <=> Has(r, c)
             /\ c \in {u[i] : i \in (p + 1)..(p + n)} <=> Between(u, p, n, c)
  BY SetOf DEF Between
<1>6. ToSet(r) = ToSet(v) \ {u[i] : i \in (p + 1)..(p + n)}
  BY <1>2, <1>4, <1>5
<1> QED BY <1>1, <1>6 DEF Means


\* The slice of the history that an operation meets, when it is as long as the
\* number of operations since `base`, is those operations.
LEMMA SliceIsSince ==
  ASSUME DocAssumption, DocInv, NEW base \in 0..revision, NEW ops,
         ops = IF base < revision THEN From(history, base) ELSE <<>>,
         Len(ops) = revision - base
  PROVE  \A i \in 1..Len(ops) : ops[i] = log[base + i]
<1>0. /\ revision \in Nat /\ base \in Nat /\ base <= revision /\ history \in Seq(Entries)
  BY DEF DocInv, DocTypes, DocAssumption
<1>1. PICK n, m : n = Len(history) /\ m = Len(ops)
  OBVIOUS
<1>2. /\ n \in Nat /\ m = revision - base /\ m \in Nat /\ n <= revision
      /\ \A i \in 1..n : history[i] = log[(revision - n) + i]
  BY <1>0, <1>1 DEF DocInv, HistoryIsTail
<1>3. CASE base < revision
  <2>1. PICK k : k = n - Least(base, n)
    OBVIOUS
  <2>2. ops = From(history, base)
    BY <1>3
  <2>3. m = k /\ \A i \in 1..k : ops[i] = history[base + i]
    <3>1. /\ Len(From(history, base)) = Len(history) - Least(base, Len(history))
          /\ \A i \in 1..Len(history) - Least(base, Len(history)) :
               From(history, base)[i] = history[base + i]
      BY <1>0, FromIs
    <3> QED BY <1>1, <2>1, <2>2, <3>1
  <2>4. n = revision
    BY <1>0, <1>2, <1>3, <2>1, <2>3 DEF Least
  <2>5. \A i \in 1..m : base + i \in 1..n /\ (revision - n) + (base + i) = base + i
    BY <1>0, <1>2, <2>4
  <2> QED BY <1>1, <1>2, <2>3, <2>5
<1>4. CASE ~(base < revision)
  BY <1>0, <1>1, <1>2, <1>4
<1> QED BY <1>3, <1>4

LEMMA OperationMeans ==
  ASSUME DocAssumption, DocInv, NEW base \in 0..revision,
         NEW op \in Requests(views[base + 1], revision + 1), ValidOn(op, views[base + 1]),
         HandleOperation(base, op)
  PROVE  IntentKept'
<1>1. /\ DocTypes /\ DocInv' /\ op \in Edits /\ IsEdit(op) /\ views[base + 1] \in Texts
      /\ \A i \in 1..Len(op.text) : op.text[i] = <<revision + 1, i>>
  BY Handled, OperationKeeps, EditFields DEF DocInv
<1>2. PICK ops \in Seq(Entries), d \in Edits : \E f : HandledAs(base, op, ops, f, d)
  BY <1>1, Handled
<1>3. PICK f : HandledAs(base, op, ops, f, d)
  BY <1>2
<1>4. /\ ops = IF base < revision THEN From(history, base) ELSE <<>>
      /\ Looped(op, ops, f) /\ d = f[Len(ops)].op
      /\ d.type = op.type /\ d.text = op.text /\ d.len = op.len
      /\ content' = Apply(content, d) /\ revision' = revision + 1
      /\ views' = Append(views, content')
      /\ last' = [op |-> op, base |-> base, ruled |-> f[Len(ops)].ruled, concurrent |-> Len(ops)]
  BY <1>3, Zenon DEF HandledAs
<1>5. /\ last'.op = op /\ last'.base = base /\ last'.ruled = f[Len(ops)].ruled
      /\ last'.concurrent = Len(ops)
  BY <1>4
<1>6. PICK u : u = views[base + 1]
  OBVIOUS
<1>7. /\ revision \in Nat /\ base \in Nat /\ base <= revision /\ content \in Texts
      /\ views \in Seq(Texts) /\ Len(views) = revision + 1 /\ views[revision + 1] = content
      /\ base + 1 \in 1..revision + 1 /\ u \in Texts
  BY <1>1, <1>6 DEF DocTypes, DocAssumption
<1>8. /\ content' \in Texts /\ Distinct(content) /\ Distinct(content')
      /\ views'[base + 1] = u /\ views'[revision'] = content
  <2>1. content' \in Texts /\ Len(views') = revision' + 1 /\ views'[revision' + 1] = content'
    BY <1>1 DEF DocInv, DocTypes
  <2>2. revision + 1 \in 1..revision + 1 /\ revision' + 1 \in 1..revision' + 1
    BY <1>4, <1>7
  <2>3. Distinct(content) /\ Distinct(content')
    BY <1>1, <1>7, <2>1, <2>2 DEF DocInv, AllDistinct
  <2>4. \A r \in 1..revision + 1 : views'[r] = views[r]
    BY <1>4, <1>7, <2>1, AppendProperties
  <2> QED BY <1>4, <1>6, <1>7, <2>1, <2>2, <2>3, <2>4
<1>9. SUFFICES ASSUME f[Len(ops)].ruled, Len(ops) + base + 1 = revision + 1
               PROVE  Means(op, u, content, content')
  <2>1. Meant' = Means(op, u, content, content')
    BY <1>5, <1>8 DEF Meant
  <2>2. last'.ruled /\ last'.concurrent + last'.base + 1 = revision' =>
          f[Len(ops)].ruled /\ Len(ops) + base + 1 = revision + 1
    BY <1>4, <1>5
  <2> QED BY <2>1, <2>2, Zenon DEF IntentKept
<1>10. Len(ops) = revision - base
  <2>1. Len(ops) \in Nat
    BY <1>2
  <2> QED BY <1>7, <1>9, <2>1
<1>11. \A i \in 1..Len(ops) : ops[i] = log[base + i]
  BY <1>4, <1>10, SliceIsSince
<1>12. SameIntent(op, u, d, content)
  BY <1>1, <1>4, <1>6, <1>9, <1>10, <1>11, LoopKeepsIntent
<1>13. \A c : Has(u, c) => ~Has(op.text, c)
  <2> SUFFICES ASSUME NEW c, Has(u, c), Has(op.text, c) PROVE FALSE
    OBVIOUS
  <2>1. PICK a \in 1..Len(u) : u[a] = c
    BY DEF Has
  <2>2. PICK b \in 1..Len(op.text) : op.text[b] = c
    BY DEF Has
  <2>3. Older(u, base + 1)
    BY <1>6, <1>7 DEF DocInv, Named
  <2>4. c[1] < base + 1 /\ c[1] = revision + 1
    BY <1>1, <2>1, <2>2, <2>3 DEF Older
  <2> QED BY <1>7, <2>4
<1>14. IsEdit(d) /\ d.position \in Nat /\ d.len \in Nat /\ Len(content) \in Nat
  BY <1>7, EditFields, TextLen DEF IsEdit
<1>15. CASE op.type = "insert"
  <2>1. SamePlace(op.position, u, d.position, content) /\ d.position <= Len(content)
    BY <1>12, <1>15 DEF SameIntent, SamePlace
  <2>2. Least(d.position, Len(content)) = d.position
    BY <2>1 DEF Least
  <2>3. Inserted(content, d.position, op.text, content')
    BY <1>4, <1>7, <1>14, <1>15, <2>2, Applied
  <2> QED BY <1>1, <1>7, <1>8, <1>13, <1>14, <1>15, <2>1, <2>3, InsertMeant
<1>16. CASE op.type = "delete"
  <2>1. /\ SameSelection(op.position, u, d.position, content, op.len)
        /\ d.position + op.len <= Len(content)
    BY <1>12, <1>16 DEF SameIntent, SameSelection
  <2>2. PICK p, n \in Nat : /\ p = Least(d.position, Len(content))
                            /\ p + n = Least(d.position + d.len, Len(content))
                            /\ Deleted(content, p, n, Apply(content, d))
    BY <1>4, <1>7, <1>14, <1>16, Applied
  <2>3. p = d.position /\ n = op.len
    <3>1. PICK q \in Nat, k \in Nat, l \in Nat :
            q = d.position /\ k = d.len /\ l = Len(content)
      BY <1>14
    <3>2. q + k <= l /\ p = Least(q, l) /\ p + n = Least(q + k, l)
      BY <1>4, <2>1, <2>2, <3>1
    <3>3. p = q /\ n = k
      BY <3>2 DEF Least
    <3> QED BY <1>4, <3>1, <3>3
  <2>4. Deleted(content, d.position, op.len, content')
    BY <1>4, <2>2, <2>3
  <2> QED BY <1>1, <1>7, <1>8, <1>14, <1>16, <2>1, <2>4, DeleteMeant
<1>17. CASE op.type = "retain"
  <2>1. content' = content
    BY <1>4, <1>17, RetainDoes
  <2> QED BY <1>17, <2>1 DEF Means
<1> QED BY <1>1, <1>15, <1>16, <1>17 DEF IsEdit, Kinds

LEMMA NextMeans ==
  ASSUME DocAssumption, DocInv, IntentKept, [Next]_vars
  PROVE  IntentKept'
<1>1. CASE Next
  <2>1. PICK base \in 0..revision : \E op \in Requests(views[base + 1], revision + 1) :
          ValidOn(op, views[base + 1]) /\ HandleOperation(base, op)
    BY <1>1, Zenon DEF Next
  <2>2. PICK op \in Requests(views[base + 1], revision + 1) :
          ValidOn(op, views[base + 1]) /\ HandleOperation(base, op)
    BY <2>1, Zenon
  <2> QED BY <2>2, OperationMeans
<1>2. CASE UNCHANGED vars
  BY <1>2, Zenon DEF vars, IntentKept, Meant
<1> QED BY <1>1, <1>2

\* Every operation does what its author meant on the document it was formed on,
\* however many operations were handled since, when each pair has a rule in
\* transform and the history still reaches back that far (handle_operation).
THEOREM IntentAlwaysKept == Spec => []IntentKept
<1>1. Init => IntentKept
  BY DEF Init, IntentKept
<1>2. DocInv /\ IntentKept /\ [Next]_vars => IntentKept'
  BY DocAssumption, NextMeans
<1> QED BY <1>1, <1>2, DocumentInvariant, PTL DEF Spec
=============================================================================
