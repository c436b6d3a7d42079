------------------------- MODULE CollabSessionProofs -------------------------
(***************************************************************************)
(* Who is in a collaboration session and who is told what: proofs for      *)
(* CollabSession, for any number of sockets, users and operations.         *)
(*                                                                         *)
(* NoGhost and StayedInformed follow from one inductive invariant.  Its    *)
(* first parts say where a socket may be registered; the last one, what a  *)
(* broadcast that is under way still owes to whom.                         *)
(***************************************************************************)
EXTENDS CollabSession, FiniteSetTheorems, SequenceTheorems, WellFoundedInduction, TLAPS

Places == {"new", "accepting", "joining", "serving", "leaving", "done"}

Entries == Seq(Handlers \cup {None})

SessionRows == [entries : Entries, spare : Nat, log : Seq(Handlers)]

SessionTypes ==
    /\ sess \in Seq(SessionRows)
    /\ current \in 0..Len(sess)
    /\ alive \subseteq Handlers
    /\ pc \in [Handlers -> Places]
    /\ obj \in [Handlers -> Nat]
    /\ frame \in [Handlers -> Frames \cup {None}]
    /\ pending \in [Handlers -> Seq(Users)]
    /\ base \in [Handlers -> Nat]
    /\ got \in [Handlers -> SUBSET Nat]

\* The script's session is the newest object: one that was deleted stays so.
CurrentIsNewest == current # 0 => current = Len(sess)

\* A handler is registered in the object it holds, and only after its accept.
OwnObject ==
    /\ \A h \in Handlers : pc[h] \in {"accepting", "joining", "serving"} => obj[h] \in 1..Len(sess)
    /\ \A o \in 1..Len(sess) : \A i \in Live(sess[o].entries) :
           /\ obj[sess[o].entries[i]] = o
           /\ pc[sess[o].entries[i]] \notin {"new", "accepting"}

\* Who leaves, or has left, is not in the script's session.
Gone ==
    current # 0 => \A i \in Live(sess[current].entries) :
                       pc[sess[current].entries[i]] \notin {"leaving", "done"}

\* A broadcast runs over an object there is, and one of an operation skips its author.
FramesTrue ==
    \A h \in Handlers : frame[h] # None =>
        /\ pc[h] \in {"joining", "serving", "leaving"}
        /\ frame[h].o \in 1..Len(sess)
        /\ frame[h].msg # 0 =>
             /\ frame[h].msg \in 1..Len(sess[frame[h].o].log)
             /\ frame[h].excl = UserOf[sess[frame[h].o].log[frame[h].msg]]

\* Operation r of object o is on its way to the entry i.
Coming(o, i, r) ==
    \E g \in Handlers :
        frame[g] # None /\ frame[g].o = o /\ frame[g].msg = r /\ frame[g].pos < i

\* Handler h is to know operation r of object o.
Owed(o, h, r) ==
    /\ h \in alive /\ pc[h] = "serving" /\ base[h] < r
    /\ UserOf[sess[o].log[r]] # UserOf[h]

\* What a registered handler is to know it knows, or it is on its way, or its broadcast
\* was disturbed.
Informing ==
    \A o \in 1..Len(sess) : \A i \in Live(sess[o].entries) : \A r \in 1..Len(sess[o].log) :
        Owed(o, sess[o].entries[i], r) =>
            r \in got[sess[o].entries[i]] \/ Coming(o, i, r) \/ <<o, r>> \in upset

SessionInv ==
    SessionTypes /\ CurrentIsNewest /\ OwnObject /\ Gone /\ FramesTrue /\ Informing
-----------------------------------------------------------------------------
(* Entries, and the place of an iterator among them.                       *)

\* A set of naturals that is not empty has a least element.
LEMMA Least ==
  ASSUME NEW S \in SUBSET Nat, S # {}
  PROVE  Min(S) \in S /\ \A n \in S : Min(S) <= n
<1>1. IsWellFoundedOn(OpToRel(<, Nat), Nat)
  BY NatLessThanWellFounded, Zenon
<1>2. PICK m \in S : \A n \in S : ~(<<n, m>> \in OpToRel(<, Nat))
  BY <1>1, WFMin, Zenon
<1>3. \A n \in S : ~(n < m)
  BY <1>2, Zenon DEF OpToRel
<1>4. \A n \in S : m <= n
  BY <1>3
<1> QED BY <1>4 DEF Min

LEMMA LiveEntries ==
  ASSUME NEW es \in Entries
  PROVE  /\ Live(es) \subseteq 1..Len(es) /\ Live(es) \subseteq Nat
         /\ \A i \in Live(es) : es[i] \in Handlers /\ UserOf[es[i]] \in Users
         /\ Cardinality(Live(es)) \in Nat
<1>1. Len(es) \in Nat /\ DOMAIN es = 1..Len(es)
  BY DEF Entries
<1>2. Live(es) \subseteq 1..Len(es)
  BY <1>1 DEF Live
<1>3. \A i \in Live(es) : es[i] \in Handlers
  BY <1>1 DEF Live, Entries
<1>4. Cardinality(Live(es)) \in Nat
  <2>1. 1 \in Int /\ Len(es) \in Int
    BY <1>1
  <2>2. IsFiniteSet(1..Len(es))
    BY <2>1, FS_Interval
  <2>3. IsFiniteSet(Live(es))
    BY <1>2, <2>2, FS_Subset
  <2> QED BY <2>3, FS_CardinalityType
<1> QED BY <1>1, <1>2, <1>3, <1>4 DEF Users

LEMMA Rows ==
  ASSUME NEW s \in Seq(SessionRows), NEW o \in 1..Len(s)
  PROVE  /\ s[o].entries \in Entries /\ s[o].log \in Seq(Handlers) /\ Len(s[o].log) \in Nat
         /\ \A i \in Live(s[o].entries) : i \in Nat /\ s[o].entries[i] \in Handlers
<1>1. s[o] \in SessionRows
  OBVIOUS
<1>2. s[o].entries \in Entries /\ s[o].log \in Seq(Handlers)
  BY <1>1 DEF SessionRows
<1> QED BY <1>2, LiveEntries

LEMMA SeqUpdate ==
  ASSUME NEW S, NEW s \in Seq(S), NEW o \in 1..Len(s), NEW x \in S
  PROVE  /\ [s EXCEPT ![o] = x] \in Seq(S) /\ Len([s EXCEPT ![o] = x]) = Len(s)
         /\ [s EXCEPT ![o] = x][o] = x
         /\ \A p \in 1..Len(s) : p # o => [s EXCEPT ![o] = x][p] = s[p]
  OBVIOUS

\* Objects after one of them got other entries, or one more operation.
LEMMA EntriesSet ==
  ASSUME NEW s \in Seq(SessionRows), NEW o \in 1..Len(s), NEW es \in Entries
  PROVE  LET t == [s EXCEPT ![o].entries = es] IN
         /\ t \in Seq(SessionRows) /\ Len(t) = Len(s)
         /\ t[o].entries = es /\ t[o].log = s[o].log
         /\ \A p \in 1..Len(s) : p # o => t[p] = s[p]
<1> DEFINE t == [s EXCEPT ![o].entries = es]
<1>1. PICK row \in SessionRows : row = s[o]
  OBVIOUS
<1>2. PICK new : new = [row EXCEPT !.entries = es]
  OBVIOUS
<1>3. new \in SessionRows /\ new.entries = es /\ new.log = row.log
  BY <1>1, <1>2 DEF SessionRows
<1>4. t = [s EXCEPT ![o] = new]
  BY <1>1, <1>2
<1> HIDE DEF t
<1>5. /\ t \in Seq(SessionRows) /\ Len(t) = Len(s) /\ t[o] = new
      /\ \A p \in 1..Len(s) : p # o => t[p] = s[p]
  BY <1>3, <1>4, SeqUpdate
<1> QED BY <1>1, <1>3, <1>5 DEF t

LEMMA LogSet ==
  ASSUME NEW s \in Seq(SessionRows), NEW o \in 1..Len(s), NEW log \in Seq(Handlers)
  PROVE  LET t == [s EXCEPT ![o].log = log] IN
         /\ t \in Seq(SessionRows) /\ Len(t) = Len(s)
         /\ t[o].log = log /\ t[o].entries = s[o].entries
         /\ \A p \in 1..Len(s) : p # o => t[p] = s[p]
<1> DEFINE t == [s EXCEPT ![o].log = log]
<1>1. PICK row \in SessionRows : row = s[o]
  OBVIOUS
<1>2. PICK new : new = [row EXCEPT !.log = log]
  OBVIOUS
<1>3. new \in SessionRows /\ new.log = log /\ new.entries = row.entries
  BY <1>1, <1>2 DEF SessionRows
<1>4. t = [s EXCEPT ![o] = new]
  BY <1>1, <1>2
<1> HIDE DEF t
<1>5. /\ t \in Seq(SessionRows) /\ Len(t) = Len(s) /\ t[o] = new
      /\ \A p \in 1..Len(s) : p # o => t[p] = s[p]
  BY <1>3, <1>4, SeqUpdate
<1> QED BY <1>1, <1>3, <1>5 DEF t

\* A call that has not sent anything is a frame.
LEMMA NewFrameType ==
  ASSUME NEW o \in Nat, NEW excl \in Users \cup {None}, NEW msg \in Nat, NEW es \in Entries
  PROVE  /\ NewFrame(o, excl, msg, es) \in Frames
         /\ NewFrame(o, excl, msg, es).o = o /\ NewFrame(o, excl, msg, es).excl = excl
         /\ NewFrame(o, excl, msg, es).msg = msg /\ NewFrame(o, excl, msg, es).pos = 0
<1>1. Cardinality(Live(es)) \in Nat /\ <<>> \in Seq(Users)
  BY LiveEntries
<1> QED BY <1>1 DEF NewFrame, Frames

\* connections[user_id] = websocket adds or replaces one entry; the others keep their
\* places unless the table is made anew.
LEMMA PutFacts ==
  ASSUME sess \in Seq(SessionRows), NEW o \in 1..Len(sess), NEW h \in Handlers, NEW row \in Put(o, h)
  PROVE  /\ row \in SessionRows /\ row.log = sess[o].log
         /\ \A i \in Live(row.entries) :
                row.entries[i] = h \/ \E j \in Live(sess[o].entries) : row.entries[i] = sess[o].entries[j]
         /\ ~Full(o, UserOf[h]) =>
                \A i \in Live(row.entries) :
                    row.entries[i] = h \/ (i \in Live(sess[o].entries) /\ row.entries[i] = sess[o].entries[i])
         /\ \E i \in Live(row.entries) : row.entries[i] = h
<1>1. h # None
  BY SessionAssumption
<1>2. PICK old \in SessionRows : old = sess[o]
  OBVIOUS
<1>3. PICK es \in Entries : es = old.entries
  BY DEF SessionRows
<1>4. /\ DOMAIN es = 1..Len(es) /\ Len(es) \in Nat /\ Live(es) \subseteq 1..Len(es)
      /\ Cardinality(Live(es)) \in Nat /\ \A i \in Live(es) : es[i] \in Handlers
  BY LiveEntries DEF Entries
<1>5. old.spare \in Nat /\ old.log \in Seq(Handlers)
  BY DEF SessionRows
<1>6. ASSUME NEW q \in Seq(Handlers \cup {None})
      PROVE  /\ Append(q, h) \in Entries
             /\ \A i \in Live(Append(q, h)) : Append(q, h)[i] = h \/ (i \in Live(q) /\ Append(q, h)[i] = q[i])
             /\ \E i \in Live(Append(q, h)) : Append(q, h)[i] = h
  <2>1. /\ Append(q, h) \in Entries /\ Len(Append(q, h)) = Len(q) + 1 /\ Len(q) \in Nat
        /\ DOMAIN q = 1..Len(q) /\ DOMAIN Append(q, h) = 1..(Len(q) + 1)
        /\ Append(q, h)[Len(q) + 1] = h
        /\ \A i \in 1..Len(q) : Append(q, h)[i] = q[i]
    BY AppendProperties DEF Entries
  <2> QED BY <1>1, <2>1 DEF Live
<1>7. CASE EntryOf(es, UserOf[h]) # {}
  <2>1. PICK new : new = [i \in DOMAIN es |-> IF i \in EntryOf(es, UserOf[h]) THEN h ELSE es[i]]
    OBVIOUS
  <2>2. row \in [entries : {new}, spare : {old.spare}, log : {old.log}]
    BY <1>2, <1>3, <1>7, <2>1 DEF Put
  <2>3. new \in Entries
    BY <1>4, <2>1 DEF Entries
  <2>4. row \in SessionRows /\ row.entries = new /\ row.log = old.log
    BY <1>5, <2>2, <2>3 DEF SessionRows
  <2>5. \A i \in Live(new) : new[i] = h \/ (i \in Live(es) /\ new[i] = es[i])
    BY <1>4, <2>1 DEF Live
  <2>6. \E i \in Live(new) : new[i] = h
    BY <1>1, <1>4, <1>7, <2>1 DEF Live, EntryOf
  <2> QED BY <1>2, <1>3, <2>4, <2>5, <2>6
<1>8. CASE EntryOf(es, UserOf[h]) = {} /\ old.spare > 0
  <2>1. ~Full(o, UserOf[h])
    BY <1>2, <1>3, <1>5, <1>8 DEF Full
  <2>2. row \in [entries : {Append(es, h)}, spare : {old.spare - 1}, log : {old.log}]
    BY <1>2, <1>3, <1>8, <2>1 DEF Put
  <2>3. old.spare - 1 \in Nat
    BY <1>5, <1>8
  <2>4. PICK q \in Seq(Handlers \cup {None}) : q = es
    BY DEF Entries
  <2>5. PICK more \in Entries : more = Append(q, h)
    BY <1>6
  <2>6. row \in SessionRows /\ row.entries = more /\ row.log = old.log
    BY <1>5, <2>2, <2>3, <2>4, <2>5 DEF SessionRows
  <2>7. /\ \A i \in Live(more) : more[i] = h \/ (i \in Live(es) /\ more[i] = es[i])
        /\ \E i \in Live(more) : more[i] = h
    BY <1>6, <2>4, <2>5
  <2> QED BY <1>2, <1>3, <2>6, <2>7
<1>9. CASE EntryOf(es, UserOf[h]) = {} /\ old.spare = 0
  <2>1. Full(o, UserOf[h])
    BY <1>2, <1>3, <1>9 DEF Full
  <2>2. row \in [entries : {Append(moved, h) : moved \in Packings(es)}, spare : Spares, log : {old.log}]
    BY <1>2, <1>3, <1>9, <2>1 DEF Put
  <2>3. PICK q \in Packings(es) : row.entries = Append(q, h)
    BY <2>2
  <2>4. PICK n \in Nat : n = Cardinality(Live(es))
    BY <1>4
  <2>5. PICK from \in [1..n -> Live(es)] : q = [k \in 1..n |-> es[from[k]]]
    BY <2>4 DEF Packings
  <2>6. \A k \in 1..n : from[k] \in Live(es) /\ q[k] = es[from[k]] /\ q[k] \in Handlers
    BY <1>4, <2>5
  <2>7. q = [k \in 1..n |-> q[k]]
    BY <2>5
  <2>8. q \in Seq(Handlers \cup {None})
    BY <2>6, <2>7
  <2>9. \A k \in Live(q) : \E j \in Live(es) : q[k] = es[j]
    <3>1. DOMAIN q = 1..n
      BY <2>5
    <3> QED BY <2>6, <3>1 DEF Live
  <2>10. Append(q, h) \in Entries
    BY <1>6, <2>8
  <2>11. row \in SessionRows /\ row.log = old.log
    BY <1>5, <2>2, <2>3, <2>10, SessionAssumption DEF SessionRows
  <2>12. /\ \A i \in Live(Append(q, h)) : Append(q, h)[i] = h \/ (i \in Live(q) /\ Append(q, h)[i] = q[i])
         /\ \E i \in Live(Append(q, h)) : Append(q, h)[i] = h
    BY <1>6, <2>8
  <2> QED BY <1>2, <1>3, <2>1, <2>3, <2>9, <2>11, <2>12
<1> QED BY <1>5, <1>7, <1>8, <1>9

\* connections.pop(user_id) leaves no entry of the user, and the others alone.
LEMMA PopFacts ==
  ASSUME NEW es \in Entries, NEW u
  PROVE  /\ Pop(es, u) \in Entries
         /\ \A i \in Live(Pop(es, u)) :
                i \in Live(es) /\ Pop(es, u)[i] = es[i] /\ UserOf[es[i]] # u
<1>1. DOMAIN es = 1..Len(es) /\ Len(es) \in Nat
  BY DEF Entries
<1>2. Pop(es, u) \in Entries
  BY <1>1 DEF Pop, Entries
<1> QED BY <1>1, <1>2 DEF Pop, Live, EntryOf
-----------------------------------------------------------------------------
(* The parts of the invariant, over what the steps have in common.         *)

\* The broadcast of g has nobody left to send to, or g has none.
Finished(g) ==
    frame[g] # None => Recipients(sess[frame[g].o].entries, frame[g]) = {}

\* Entries are only removed; nothing else happens to the objects.
Shrinks ==
    /\ sess' \in Seq(SessionRows) /\ Len(sess') = Len(sess)
    /\ \A o \in 1..Len(sess) :
        /\ sess'[o].log = sess[o].log
        /\ \A i \in Live(sess'[o].entries) :
               i \in Live(sess[o].entries) /\ sess'[o].entries[i] = sess[o].entries[i]

\* A send goes to the next recipient: it hears of the operation, or it is gone; the
\* others are still to come.
LEMMA SendEffect ==
  ASSUME SessionTypes, NEW h \in Handlers, NEW f \in Frames, NEW rest \in Seq(Users),
         Send(h, f, rest), sess'[f.o].entries \in Entries,
         Recipients(sess'[f.o].entries, f) # {}
  PROVE  /\ pending' \in [Handlers -> Seq(Users)]
         /\ frame' \in [Handlers -> Frames \cup {None}] /\ got' \in [Handlers -> SUBSET Nat]
         /\ frame'[h] # None /\ frame'[h].o = f.o /\ frame'[h].msg = f.msg
         /\ frame'[h].excl = f.excl
         /\ \A g \in Handlers : g # h => frame'[g] = frame[g]
         /\ \A g \in Handlers : got[g] \subseteq got'[g]
         /\ \A i \in Recipients(sess'[f.o].entries, f) :
                \/ f.msg = 0 \/ f.msg \in got'[sess'[f.o].entries[i]]
                \/ sess'[f.o].entries[i] \notin alive \/ frame'[h].pos < i
<1>1. PICK es \in Entries : es = sess'[f.o].entries
  OBVIOUS
<1>2. PICK R \in SUBSET Nat : R = Recipients(es, f)
  BY LiveEntries DEF Recipients
<1>3. PICK m \in R : m = Min(R) /\ \A j \in R : m <= j
  BY <1>1, <1>2, Least
<1>4. es[m] \in Handlers /\ UserOf[es[m]] \in Users
  BY <1>2, LiveEntries DEF Recipients
<1>14. PICK next : next = [f EXCEPT !.pos = m, !.seen = @ + Cardinality(Turn(es, f))]
  OBVIOUS
<1>15. /\ next \in Frames /\ next.o = f.o /\ next.msg = f.msg /\ next.excl = f.excl
       /\ next.pos = m /\ next.failed = f.failed
  <2>1. PICK seen \in Nat : seen = f.seen + Cardinality(Turn(es, f))
    <3>1. 1 \in Int /\ Len(es) \in Int
      BY <1>1 DEF Entries
    <3>2. IsFiniteSet(1..Len(es))
      BY <3>1, FS_Interval
    <3>3. Turn(es, f) \subseteq 1..Len(es)
      BY <1>1, LiveEntries DEF Turn
    <3>4. IsFiniteSet(Turn(es, f))
      BY <3>2, <3>3, FS_Subset
    <3>5. Cardinality(Turn(es, f)) \in Nat /\ f.seen \in Nat
      BY <3>4, FS_CardinalityType DEF Frames
    <3> QED BY <3>5
  <2>2. m \in Nat /\ next = [f EXCEPT !.pos = m, !.seen = seen]
    BY <1>2, <1>14, <2>1
  <2> QED BY <2>2 DEF Frames
<1>5. /\ pending' = [pending EXCEPT ![h] = rest]
      /\ \/ /\ got' = [got EXCEPT ![es[m]] = @ \cup ({f.msg} \ {0})]
            /\ frame' = [frame EXCEPT ![h] = next]
         \/ /\ es[m] \notin alive /\ got' = got
            /\ frame' = [frame EXCEPT ![h] = [next EXCEPT !.failed = Append(@, UserOf[es[m]])]]
  BY <1>1, <1>2, <1>3, <1>14 DEF Send
<1>6. \A q \in {next, [next EXCEPT !.failed = Append(next.failed, UserOf[es[m]])]} :
        q \in Frames /\ q.o = f.o /\ q.msg = f.msg /\ q.excl = f.excl /\ q.pos = m
  <2>1. next.failed \in Seq(Users)
    BY <1>15 DEF Frames
  <2>2. Append(next.failed, UserOf[es[m]]) \in Seq(Users)
    BY <1>4, <2>1
  <2> QED BY <1>15, <2>2 DEF Frames
<1>7. f.msg \in Nat
  BY DEF Frames
<1>8. PICK q \in Frames :
        /\ frame' = [frame EXCEPT ![h] = q]
        /\ q.o = f.o /\ q.msg = f.msg /\ q.excl = f.excl /\ q.pos = m
  BY <1>5, <1>6
<1>9. q # None
  BY SessionAssumption
<1>10. /\ frame' \in [Handlers -> Frames \cup {None}] /\ frame'[h] = q
       /\ \A g \in Handlers : g # h => frame'[g] = frame[g]
  BY <1>8 DEF SessionTypes
<1>11. /\ got' \in [Handlers -> SUBSET Nat]
       /\ \A g \in Handlers : got[g] \subseteq got'[g]
       /\ f.msg = 0 \/ f.msg \in got'[es[m]] \/ es[m] \notin alive
  <2>1. got \in [Handlers -> SUBSET Nat] /\ (f.msg = 0 \/ f.msg \in {f.msg} \ {0})
    BY DEF SessionTypes
  <2>2. {f.msg} \ {0} \in SUBSET Nat
    BY <1>7
  <2>3. CASE got' = [got EXCEPT ![es[m]] = @ \cup ({f.msg} \ {0})]
    <3>1. /\ got' \in [Handlers -> SUBSET Nat] /\ got'[es[m]] = got[es[m]] \cup ({f.msg} \ {0})
          /\ \A g \in Handlers : g # es[m] => got'[g] = got[g]
      BY <1>4, <2>1, <2>2, <2>3
    <3> QED BY <2>1, <3>1
  <2>4. CASE es[m] \notin alive /\ got' = got
    BY <2>1, <2>4
  <2> QED BY <1>5, <2>3, <2>4
<1>12. \A i \in R : i = m \/ m < i
  BY <1>2, <1>3
<1>13. pending' \in [Handlers -> Seq(Users)]
  BY <1>5 DEF SessionTypes
<1> QED BY <1>1, <1>2, <1>8, <1>9, <1>10, <1>11, <1>12, <1>13

\* Nobody loses anything unnoticed when the broadcast of g ends now.
Released(g) ==
    Finished(g) \/ (frame[g] # None /\ (frame[g].msg = 0 \/ <<frame[g].o, frame[g].msg>> \in upset'))

\* What a handler is owed stays on its way as long as the broadcasts that are
\* replaced were released, and nobody is served anew who has not seen the document.
LEMMA QuietInforming ==
  ASSUME SessionInv, upset \subseteq upset', alive' \subseteq alive,
         \A g \in Handlers : frame'[g] = frame[g] \/ Released(g),
         \A o \in 1..Len(sess') : \A i \in Live(sess'[o].entries) :
             LET g == sess'[o].entries[i] IN
             /\ o \in 1..Len(sess) /\ sess'[o].log = sess[o].log
             /\ \/ pc'[g] # "serving" \/ base'[g] = Len(sess[o].log)
                \/ /\ i \in Live(sess[o].entries) /\ g = sess[o].entries[i]
                   /\ pc[g] = "serving" /\ base'[g] = base[g] /\ got[g] \subseteq got'[g]
  PROVE  Informing'
<1> SUFFICES ASSUME NEW o \in 1..Len(sess'), NEW i \in Live(sess'[o].entries),
                    NEW r \in 1..Len(sess'[o].log), Owed(o, sess[o].entries[i], r)'
             PROVE  r \in got'[sess'[o].entries[i]] \/ Coming(o, i, r)' \/ <<o, r>> \in upset'
  BY DEF Informing
<1>1. PICK g : g = sess'[o].entries[i]
  OBVIOUS
<1>2. /\ g \in alive' /\ pc'[g] = "serving" /\ base'[g] < r /\ UserOf[sess'[o].log[r]] # UserOf[g]
  BY <1>1 DEF Owed
<1>3. o \in 1..Len(sess) /\ sess'[o].log = sess[o].log
  OBVIOUS
<1>4. sess[o].entries \in Entries /\ Len(sess[o].log) \in Nat /\ r \in Nat /\ r <= Len(sess[o].log)
  BY <1>3, Rows DEF SessionInv, SessionTypes
<1>5. /\ i \in Live(sess[o].entries) /\ g = sess[o].entries[i]
      /\ pc[g] = "serving" /\ base'[g] = base[g] /\ got[g] \subseteq got'[g]
  <2>1. \/ pc'[g] # "serving" \/ base'[g] = Len(sess[o].log)
        \/ /\ i \in Live(sess[o].entries) /\ g = sess[o].entries[i]
           /\ pc[g] = "serving" /\ base'[g] = base[g] /\ got[g] \subseteq got'[g]
    BY <1>1
  <2>2. base'[g] # Len(sess[o].log)
    BY <1>2, <1>4
  <2> QED BY <1>2, <2>1, <2>2
<1>6. r \in got[g] \/ Coming(o, i, r) \/ <<o, r>> \in upset
  BY <1>2, <1>3, <1>5 DEF SessionInv, Informing, Owed
<1>7. ASSUME Coming(o, i, r) PROVE Coming(o, i, r)' \/ <<o, r>> \in upset'
  <2>1. PICK b \in Handlers : /\ frame[b] # None /\ frame[b].o = o
                              /\ frame[b].msg = r /\ frame[b].pos < i
    BY <1>7 DEF Coming
  <2>2. frame[b].excl = UserOf[sess[o].log[r]]
    BY <1>4, <2>1 DEF SessionInv, FramesTrue
  <2>3. i \in Recipients(sess[o].entries, frame[b])
    <3>1. UserOf[g] # frame[b].excl
      BY <1>2, <1>3, <2>2
    <3>2. frame[b].pos \in Nat /\ i \in Nat
      BY <1>4, <1>5, <2>1, LiveEntries DEF SessionInv, SessionTypes, Frames
    <3> QED BY <1>5, <2>1, <3>1, <3>2 DEF Recipients
  <2>4. ~Finished(b)
    BY <2>1, <2>3 DEF Finished
  <2>5. frame'[b] = frame[b] \/ <<o, r>> \in upset'
    BY <1>4, <2>1, <2>4 DEF Released
  <2> QED BY <2>1, <2>5 DEF Coming
<1> QED BY <1>1, <1>5, <1>6, <1>7

\* The rest of the invariant, over the same.
LEMMA QuietRest ==
  ASSUME SessionInv, SessionTypes', Len(sess') = Len(sess), current' = current, obj' = obj,
         \A h \in Handlers : pc[h] \in {"leaving", "done"} => pc'[h] \in {"leaving", "done"},
         \A h \in Handlers :
             /\ pc'[h] \in {"leaving", "done"} /\ pc[h] \notin {"leaving", "done"}
             /\ current # 0
             => \A i \in Live(sess'[current].entries) : sess'[current].entries[i] # h,
         \A h \in Handlers : pc'[h] \in {"new", "accepting"} => pc[h] = pc'[h],
         \A h \in Handlers : pc'[h] \in {"joining", "serving"} =>
             pc[h] \in {"accepting", "joining", "serving"},
         \A o \in 1..Len(sess) :
           /\ \A r \in 1..Len(sess[o].log) :
                r \in 1..Len(sess'[o].log) /\ sess'[o].log[r] = sess[o].log[r]
           /\ \A i \in Live(sess'[o].entries) :
                LET g == sess'[o].entries[i] IN
                \/ \E j \in Live(sess[o].entries) : g = sess[o].entries[j]
                \/ pc'[g] = "joining" /\ obj[g] = o,
         \A h \in Handlers : frame'[h] # None =>
             /\ pc'[h] \in {"joining", "serving", "leaving"}
             /\ \/ /\ frame[h] # None /\ frame'[h].o = frame[h].o
                   /\ frame'[h].msg = frame[h].msg /\ frame'[h].excl = frame[h].excl
                \/ frame'[h].o \in 1..Len(sess) /\ frame'[h].msg = 0
  PROVE  CurrentIsNewest' /\ OwnObject' /\ Gone' /\ FramesTrue'
<1>1. CurrentIsNewest'
  BY DEF SessionInv, CurrentIsNewest
<1>2. \A o \in 1..Len(sess) : \A i \in Live(sess'[o].entries) : sess'[o].entries[i] \in Handlers
  BY Rows DEF SessionTypes
<1>3. OwnObject'
  <2>1. ASSUME NEW h \in Handlers, pc'[h] \in {"accepting", "joining", "serving"}
        PROVE  obj'[h] \in 1..Len(sess')
    BY <2>1 DEF SessionInv, OwnObject
  <2>2. ASSUME NEW o \in 1..Len(sess'), NEW i \in Live(sess'[o].entries)
        PROVE  obj'[sess'[o].entries[i]] = o /\ pc'[sess'[o].entries[i]] \notin {"new", "accepting"}
    <3>1. PICK g \in Handlers : g = sess'[o].entries[i]
      BY <1>2, <2>2
    <3>2. CASE \E j \in Live(sess[o].entries) : g = sess[o].entries[j]
      BY <3>1, <3>2 DEF SessionInv, OwnObject
    <3>3. CASE pc'[g] = "joining" /\ obj[g] = o
      BY <3>1, <3>3
    <3> QED BY <3>1, <3>2, <3>3
  <2> QED BY <2>1, <2>2 DEF OwnObject
<1>4. Gone'
  <2> SUFFICES ASSUME current # 0, NEW i \in Live(sess'[current].entries)
               PROVE  pc'[sess'[current].entries[i]] \notin {"leaving", "done"}
    BY DEF Gone
  <2>1. current \in 1..Len(sess)
    BY DEF SessionInv, SessionTypes
  <2>2. sess'[current].entries[i] \in Handlers
    BY <1>2, <2>1
  <2>3. PICK g \in Handlers : g = sess'[current].entries[i]
    BY <2>2
  <2>4. CASE \E j \in Live(sess[current].entries) : g = sess[current].entries[j]
    <3>1. pc[g] \notin {"leaving", "done"}
      BY <2>1, <2>4 DEF SessionInv, Gone
    <3> QED BY <2>1, <2>3, <3>1
  <2>5. CASE pc'[g] = "joining" /\ obj[g] = current
    BY <2>3, <2>5
  <2> QED BY <2>1, <2>3, <2>4, <2>5
<1>5. FramesTrue'
  <2> SUFFICES ASSUME NEW h \in Handlers, frame'[h] # None
               PROVE  /\ pc'[h] \in {"joining", "serving", "leaving"}
                      /\ frame'[h].o \in 1..Len(sess')
                      /\ frame'[h].msg # 0 =>
                           /\ frame'[h].msg \in 1..Len(sess'[frame'[h].o].log)
                           /\ frame'[h].excl = UserOf[sess'[frame'[h].o].log[frame'[h].msg]]
    BY DEF FramesTrue
  <2>1. CASE frame'[h].o \in 1..Len(sess) /\ frame'[h].msg = 0
    BY <2>1
  <2>2. CASE /\ frame[h] # None /\ frame'[h].o = frame[h].o
             /\ frame'[h].msg = frame[h].msg /\ frame'[h].excl = frame[h].excl
    <3>1. /\ frame[h].o \in 1..Len(sess)
          /\ frame[h].msg # 0 =>
               /\ frame[h].msg \in 1..Len(sess[frame[h].o].log)
               /\ frame[h].excl = UserOf[sess[frame[h].o].log[frame[h].msg]]
      BY <2>2 DEF SessionInv, FramesTrue
    <3> QED BY <2>2, <3>1
  <2> QED BY <2>1, <2>2
<1> QED BY <1>1, <1>3, <1>4, <1>5
-----------------------------------------------------------------------------
(* leave_session, and what follows a broadcast.                            *)

\* Where a handler may be whose broadcast ends.
Ends == {"joining", "serving", "leaving"}

\* What the handler h does else when its broadcast ends, or when it leaves.
Elsewhere(h, at) ==
    /\ UNCHANGED <<current, alive, obj>>
    /\ upset \subseteq upset' /\ Released(h)
    /\ at # "leaving" => at = pc[h]

\* The broadcast and the evictions are over.
LEMMA ReturnKeeps ==
  ASSUME SessionInv, Shrinks, NEW h \in Handlers, NEW at \in Ends, Return(h, at),
         Elsewhere(h, at),
         at = "leaving" /\ current # 0 =>
             \A i \in Live(sess'[current].entries) : sess'[current].entries[i] # h
  PROVE  SessionInv'
<1> USE DEF Elsewhere
<1>1. SessionTypes
  BY DEF SessionInv
<1>2. /\ frame' = [frame EXCEPT ![h] = None] /\ pending' = [pending EXCEPT ![h] = <<>>]
      /\ \/ /\ at = "leaving" /\ pc' = [pc EXCEPT ![h] = "done"]
            /\ base' = [base EXCEPT ![h] = 0] /\ got' = [got EXCEPT ![h] = {}]
         \/ /\ at = "joining" /\ pc' = [pc EXCEPT ![h] = "serving"]
            /\ base' = [base EXCEPT ![h] = Len(sess'[obj[h]].log)] /\ got' = got
         \/ /\ at = "serving" /\ pc' = [pc EXCEPT ![h] = "serving"]
            /\ base' = base /\ got' = got
  BY DEF Return, Ends
<1>3. /\ frame' \in [Handlers -> Frames \cup {None}] /\ frame'[h] = None
      /\ \A g \in Handlers : g # h => frame'[g] = frame[g]
      /\ pending' \in [Handlers -> Seq(Users)]
  BY <1>1, <1>2 DEF SessionTypes
<1>4. /\ pc' \in [Handlers -> Places] /\ \A g \in Handlers : g # h => pc'[g] = pc[g]
      /\ pc'[h] = IF at = "leaving" THEN "done" ELSE "serving"
  <2>1. "done" \in Places /\ "serving" \in Places
    BY DEF Places
  <2> QED BY <1>1, <1>2, <2>1 DEF SessionTypes
<1>5. at = "joining" => obj[h] \in 1..Len(sess) /\ Len(sess'[obj[h]].log) \in Nat
  BY <1>1, Rows DEF SessionInv, OwnObject, Shrinks
<1>6. /\ base' \in [Handlers -> Nat] /\ got' \in [Handlers -> SUBSET Nat]
      /\ \A g \in Handlers : g # h => base'[g] = base[g] /\ got'[g] = got[g]
      /\ at = "joining" => base'[h] = Len(sess'[obj[h]].log)
      /\ at = "serving" => base'[h] = base[h] /\ got'[h] = got[h]
  <2>1. base \in [Handlers -> Nat] /\ got \in [Handlers -> SUBSET Nat] /\ {} \in SUBSET Nat
    BY <1>1 DEF SessionTypes
  <2>2. CASE /\ at = "leaving" /\ base' = [base EXCEPT ![h] = 0] /\ got' = [got EXCEPT ![h] = {}]
    BY <2>1, <2>2
  <2>3. CASE at = "joining" /\ base' = [base EXCEPT ![h] = Len(sess'[obj[h]].log)] /\ got' = got
    BY <1>5, <2>1, <2>3
  <2>4. CASE at = "serving" /\ base' = base /\ got' = got
    BY <2>1, <2>4
  <2> QED BY <1>2, <2>2, <2>3, <2>4
<1>7. SessionTypes'
  BY <1>1, <1>3, <1>4, <1>6 DEF SessionTypes, Shrinks
<1>8. \A o \in 1..Len(sess') : \A i \in Live(sess'[o].entries) :
        /\ o \in 1..Len(sess) /\ sess'[o].log = sess[o].log
        /\ i \in Live(sess[o].entries) /\ sess'[o].entries[i] = sess[o].entries[i]
        /\ sess'[o].entries[i] \in Handlers /\ obj[sess[o].entries[i]] = o
  <2> SUFFICES ASSUME NEW o \in 1..Len(sess'), NEW i \in Live(sess'[o].entries)
               PROVE  /\ o \in 1..Len(sess) /\ sess'[o].log = sess[o].log
                      /\ i \in Live(sess[o].entries) /\ sess'[o].entries[i] = sess[o].entries[i]
                      /\ sess'[o].entries[i] \in Handlers /\ obj[sess[o].entries[i]] = o
    OBVIOUS
  <2>1. o \in 1..Len(sess) /\ sess' \in Seq(SessionRows)
    BY DEF Shrinks
  <2>2. sess'[o].entries[i] \in Handlers
    BY <2>1, Rows
  <2> QED BY <2>1, <2>2 DEF Shrinks, SessionInv, OwnObject
<1>9. Informing'
  <2>1. \A g \in Handlers : frame'[g] = frame[g] \/ g = h
    BY <1>3
  <2>2. ASSUME NEW o \in 1..Len(sess'), NEW i \in Live(sess'[o].entries)
        PROVE  LET g == sess'[o].entries[i] IN
               \/ pc'[g] # "serving" \/ base'[g] = Len(sess[o].log)
               \/ /\ i \in Live(sess[o].entries) /\ g = sess[o].entries[i]
                  /\ pc[g] = "serving" /\ base'[g] = base[g] /\ got[g] \subseteq got'[g]
    <3>1. PICK g \in Handlers : g = sess'[o].entries[i]
      BY <1>8
    <3>2. CASE g = h
      <4>1. /\ i \in Live(sess[o].entries) /\ g = sess[o].entries[i] /\ obj[g] = o
            /\ sess'[o].log = sess[o].log
        BY <1>8, <3>1
      <4>2. CASE at = "leaving"
        BY <1>4, <3>1, <3>2, <4>2
      <4>3. CASE at = "joining"
        BY <1>6, <3>1, <3>2, <4>1, <4>3
      <4>4. CASE at = "serving"
        BY <1>6, <3>1, <3>2, <4>1, <4>4
      <4> QED BY <4>2, <4>3, <4>4 DEF Ends
    <3>3. CASE g # h
      BY <1>4, <1>6, <1>8, <3>1, <3>3
    <3> QED BY <3>2, <3>3
  <2>3. alive' \subseteq alive
    OBVIOUS
  <2> QED BY <1>8, <2>1, <2>2, <2>3, QuietInforming
<1>10. CurrentIsNewest' /\ OwnObject' /\ Gone' /\ FramesTrue'
  <2>1. \A g \in Handlers : pc[g] \in {"leaving", "done"} => pc'[g] \in {"leaving", "done"}
    BY <1>4 DEF Ends
  <2>2. ASSUME NEW g \in Handlers, pc'[g] \in {"leaving", "done"}, pc[g] \notin {"leaving", "done"},
               current # 0
        PROVE  \A i \in Live(sess'[current].entries) : sess'[current].entries[i] # g
    BY <1>4, <2>2
  <2>3. \A g \in Handlers : pc'[g] \in {"new", "accepting"} => pc[g] = pc'[g]
    BY <1>4
  <2>4. \A g \in Handlers : pc'[g] \in {"joining", "serving"} =>
            pc[g] \in {"accepting", "joining", "serving"}
    BY <1>4 DEF Ends
  <2>5. \A g \in Handlers : frame'[g] # None =>
          /\ pc'[g] \in {"joining", "serving", "leaving"}
          /\ frame[g] # None /\ frame'[g].o = frame[g].o
          /\ frame'[g].msg = frame[g].msg /\ frame'[g].excl = frame[g].excl
    BY <1>3, <1>4 DEF SessionInv, FramesTrue
  <2>6. \A o \in 1..Len(sess) :
          /\ \A r \in 1..Len(sess[o].log) :
               r \in 1..Len(sess'[o].log) /\ sess'[o].log[r] = sess[o].log[r]
          /\ \A i \in Live(sess'[o].entries) :
               \E j \in Live(sess[o].entries) : sess'[o].entries[i] = sess[o].entries[j]
    BY DEF Shrinks
  <2>7. Len(sess') = Len(sess) /\ current' = current /\ obj' = obj
    BY DEF Shrinks
  <2> QED BY <1>7, <2>1, <2>2, <2>3, <2>4, <2>5, <2>6, <2>7, QuietRest
<1> QED BY <1>7, <1>9, <1>10 DEF SessionInv

\* The others are told, with no operation to tell them of.
LEMMA TellKeeps ==
  ASSUME SessionInv, Shrinks, NEW h \in Handlers, NEW at \in Ends, NEW f \in Frames,
         NEW rest \in Seq(Users), Send(h, f, rest), f.msg = 0, f.o \in 1..Len(sess),
         Recipients(sess'[f.o].entries, f) # {},
         pc' = [pc EXCEPT ![h] = at],
         UNCHANGED base, Elsewhere(h, at),
         at = "leaving" /\ current # 0 =>
             \A i \in Live(sess'[current].entries) : sess'[current].entries[i] # h
  PROVE  SessionInv'
<1> USE DEF Elsewhere
<1>1. SessionTypes
  BY DEF SessionInv
<1>2. sess'[f.o].entries \in Entries
  BY Rows DEF Shrinks
<1>3. /\ pending' \in [Handlers -> Seq(Users)]
      /\ frame' \in [Handlers -> Frames \cup {None}] /\ got' \in [Handlers -> SUBSET Nat]
      /\ frame'[h] # None /\ frame'[h].o = f.o /\ frame'[h].msg = 0
      /\ \A g \in Handlers : g # h => frame'[g] = frame[g]
      /\ \A g \in Handlers : got[g] \subseteq got'[g]
  BY <1>1, <1>2, SendEffect
<1>4. /\ pc' \in [Handlers -> Places] /\ \A g \in Handlers : g # h => pc'[g] = pc[g]
      /\ pc'[h] = at
  <2>1. at \in Places
    BY DEF Places, Ends
  <2> QED BY <1>1, <2>1 DEF SessionTypes
<1>5. SessionTypes'
  BY <1>1, <1>3, <1>4 DEF SessionTypes, Shrinks
<1>6. Informing'
  <2>1. \A g \in Handlers : frame'[g] = frame[g] \/ g = h
    BY <1>3
  <2>2. ASSUME NEW o \in 1..Len(sess'), NEW i \in Live(sess'[o].entries)
        PROVE  LET g == sess'[o].entries[i] IN
               /\ o \in 1..Len(sess) /\ sess'[o].log = sess[o].log
               /\ \/ pc'[g] # "serving" \/ base'[g] = Len(sess[o].log)
                  \/ /\ i \in Live(sess[o].entries) /\ g = sess[o].entries[i]
                     /\ pc[g] = "serving" /\ base'[g] = base[g] /\ got[g] \subseteq got'[g]
    <3>1. o \in 1..Len(sess) /\ sess' \in Seq(SessionRows)
      BY DEF Shrinks
    <3>2. PICK g \in Handlers : g = sess'[o].entries[i]
      BY <3>1, Rows
    <3>3. pc'[g] = "serving" => pc[g] = "serving"
      BY <1>4
    <3> QED BY <1>3, <3>1, <3>2, <3>3 DEF Shrinks
  <2>3. alive' \subseteq alive
    OBVIOUS
  <2> QED BY <2>1, <2>2, <2>3, QuietInforming
<1>7. CurrentIsNewest' /\ OwnObject' /\ Gone' /\ FramesTrue'
  <2>1. \A g \in Handlers : pc[g] \in {"leaving", "done"} => pc'[g] \in {"leaving", "done"}
    BY <1>4 DEF Ends
  <2>2. ASSUME NEW g \in Handlers, pc'[g] \in {"leaving", "done"}, pc[g] \notin {"leaving", "done"},
               current # 0
        PROVE  \A i \in Live(sess'[current].entries) : sess'[current].entries[i] # g
    BY <1>4, <2>2 DEF Ends
  <2>3. \A g \in Handlers : pc'[g] \in {"new", "accepting"} => pc[g] = pc'[g]
    BY <1>4
  <2>4. \A g \in Handlers : pc'[g] \in {"joining", "serving"} =>
            pc[g] \in {"accepting", "joining", "serving"}
    BY <1>4 DEF Ends
  <2>5. ASSUME NEW g \in Handlers, frame'[g] # None
        PROVE  /\ pc'[g] \in {"joining", "serving", "leaving"}
               /\ \/ /\ frame[g] # None /\ frame'[g].o = frame[g].o
                     /\ frame'[g].msg = frame[g].msg /\ frame'[g].excl = frame[g].excl
                  \/ frame'[g].o \in 1..Len(sess) /\ frame'[g].msg = 0
    <3>1. CASE g = h
      BY <1>3, <1>4, <3>1 DEF Ends
    <3>2. CASE g # h
      BY <1>3, <1>4, <2>5, <3>2 DEF SessionInv, FramesTrue
    <3> QED BY <3>1, <3>2
  <2>6. \A o \in 1..Len(sess) :
          /\ \A r \in 1..Len(sess[o].log) :
               r \in 1..Len(sess'[o].log) /\ sess'[o].log[r] = sess[o].log[r]
          /\ \A i \in Live(sess'[o].entries) :
               \E j \in Live(sess[o].entries) : sess'[o].entries[i] = sess[o].entries[j]
    BY DEF Shrinks
  <2>7. Len(sess') = Len(sess) /\ current' = current /\ obj' = obj
    BY DEF Shrinks
  <2> QED BY <1>5, <2>1, <2>2, <2>3, <2>4, <2>5, <2>6, <2>7, QuietRest
<1> QED BY <1>5, <1>6, <1>7 DEF SessionInv

\* The user a leaving handler takes out is its own, unless it had done so before.
Exits(h, u, at) == at = "leaving" => u = UserOf[h] \/ pc[h] = "leaving"

\* leave_session takes the user out of the session and tells the others.
LEMMA LeaveSessionKeeps ==
  ASSUME SessionInv, NEW h \in Handlers, NEW u \in Users, NEW rest \in Seq(Users),
         NEW at \in Ends, LeaveSession(h, u, rest, at),
         Elsewhere(h, at),
         Exits(h, u, at)
  PROVE  SessionInv'
<1>1. SessionTypes /\ sess \in Seq(SessionRows) /\ current \in 0..Len(sess)
  BY DEF SessionInv, SessionTypes
<1>2. CASE current = 0
  <2>1. sess' = sess /\ Return(h, at)
    BY <1>2 DEF LeaveSession
  <2>2. Shrinks
    BY <1>1, <2>1 DEF Shrinks
  <2> QED BY <1>2, <2>1, <2>2, ReturnKeeps
<1>3. CASE current # 0
  <2>1. current \in 1..Len(sess) /\ sess[current].entries \in Entries
    BY <1>1, <1>3, Rows
  <2>2. PICK es \in Entries : es = Pop(sess[current].entries, u)
    BY <2>1, PopFacts
  <2>3. /\ sess' = [sess EXCEPT ![current].entries = es]
        /\ \/ Return(h, at)
           \/ /\ Live(es) # {} /\ Send(h, NewFrame(current, u, 0, es), rest)
              /\ pc' = [pc EXCEPT ![h] = at] /\ base' = base
    BY <1>3, <2>2 DEF LeaveSession
  <2>4. \A i \in Live(es) : /\ i \in Live(sess[current].entries) /\ es[i] = sess[current].entries[i]
                             /\ UserOf[es[i]] # u
    BY <2>1, <2>2, PopFacts
  <2>5. /\ Shrinks /\ sess'[current].entries = es
    <3>1. /\ sess' \in Seq(SessionRows) /\ Len(sess') = Len(sess)
          /\ sess'[current].entries = es /\ sess'[current].log = sess[current].log
          /\ \A o \in 1..Len(sess) : o # current => sess'[o] = sess[o]
      <4>1. sess' = [sess EXCEPT ![current].entries = es]
        BY <2>3
      <4>2. PICK c \in 1..Len(sess) : c = current
        BY <2>1
      <4>3. sess' = [sess EXCEPT ![c].entries = es]
        BY <4>1, <4>2
      <4> QED BY <1>1, <4>2, <4>3, EntriesSet
    <3>2. ASSUME NEW o \in 1..Len(sess)
          PROVE  /\ sess'[o].log = sess[o].log
                 /\ \A i \in Live(sess'[o].entries) :
                      i \in Live(sess[o].entries) /\ sess'[o].entries[i] = sess[o].entries[i]
      BY <2>4, <3>1
    <3> QED BY <3>1, <3>2 DEF Shrinks
  <2>6. at = "leaving" /\ current # 0 =>
          \A i \in Live(sess'[current].entries) : sess'[current].entries[i] # h
    BY <2>4, <2>5 DEF SessionInv, Gone, Exits, Elsewhere
  <2>7. CASE Return(h, at)
    BY <2>5, <2>6, <2>7, ReturnKeeps
  <2>8. CASE /\ Live(es) # {} /\ Send(h, NewFrame(current, u, 0, es), rest)
             /\ pc' = [pc EXCEPT ![h] = at] /\ base' = base
    <3>1. PICK f \in Frames : /\ f = NewFrame(current, u, 0, es) /\ f.o = current
                              /\ f.excl = u /\ f.msg = 0 /\ f.pos = 0
      <4>1. current \in Nat /\ u \in Users \cup {None} /\ 0 \in Nat
        BY <1>1
      <4>2. /\ NewFrame(current, u, 0, es) \in Frames /\ NewFrame(current, u, 0, es).o = current
            /\ NewFrame(current, u, 0, es).excl = u /\ NewFrame(current, u, 0, es).msg = 0
            /\ NewFrame(current, u, 0, es).pos = 0
        BY <4>1, NewFrameType
      <4> QED BY <4>2
    <3>2. Recipients(sess'[f.o].entries, f) # {}
      <4>1. PICK i \in Live(es) : TRUE
        BY <2>8
      <4>2. i \in Nat /\ i > 0 /\ UserOf[es[i]] # u
        BY <2>4, LiveEntries
      <4>3. i \in Recipients(es, f)
        BY <3>1, <4>2 DEF Recipients
      <4> QED BY <2>5, <3>1, <4>3
    <3>3. Send(h, f, rest)
      BY <2>8, <3>1
    <3> QED BY <2>1, <2>5, <2>6, <2>8, <3>1, <3>2, <3>3, TellKeeps
  <2> QED BY <2>3, <2>7, <2>8
<1> QED BY <1>2, <1>3
-----------------------------------------------------------------------------
(* The handlers' steps.                                                    *)

LEMMA NoFrame ==
  ASSUME SessionInv, NEW h \in Handlers, pc[h] \notin Ends
  PROVE  frame[h] = None /\ Finished(h)
  BY DEF SessionInv, FramesTrue, Ends, Finished

\* Any exception of the endpoint while it tells nobody anything.
LEMMA LeaveKeeps ==
  ASSUME SessionInv, NEW h \in Handlers, Leave(h), UNCHANGED <<current, alive, obj>>,
         upset \subseteq upset', Released(h)
  PROVE  SessionInv'
<1>1. UserOf[h] \in Users /\ <<>> \in Seq(Users) /\ "leaving" \in Ends
  BY DEF Users, Ends
<1>2. LeaveSession(h, UserOf[h], <<>>, "leaving")
  BY DEF Leave
<1>3. Elsewhere(h, "leaving") /\ Exits(h, UserOf[h], "leaving")
  BY DEF Elsewhere, Exits
<1> QED BY <1>1, <1>2, <1>3, LeaveSessionKeeps

\* A handler gets the session, or a new one, which has no entries.
LEMMA EntersKeeps ==
  ASSUME SessionInv, NEW h \in Handlers, pc[h] = "new",
         sess' \in Seq(SessionRows), Len(sess') >= Len(sess),
         \A o \in 1..Len(sess) : sess'[o] = sess[o],
         \A o \in 1..Len(sess') : o > Len(sess) => Live(sess'[o].entries) = {},
         current' \in 1..Len(sess'), current' = Len(sess'),
         current' = current \/ current' > Len(sess),
         pc' = [pc EXCEPT ![h] = "accepting"], obj' = [obj EXCEPT ![h] = current'],
         UNCHANGED <<frame, pending, base, got, alive, upset>>
  PROVE  SessionInv'
<1>1. SessionTypes /\ Len(sess) \in Nat /\ Len(sess') \in Nat
  BY DEF SessionInv, SessionTypes
<1>2. /\ pc' \in [Handlers -> Places] /\ pc'[h] = "accepting"
      /\ \A g \in Handlers : g # h => pc'[g] = pc[g]
      /\ obj' \in [Handlers -> Nat] /\ obj'[h] = current'
      /\ \A g \in Handlers : g # h => obj'[g] = obj[g]
  <2>1. "accepting" \in Places /\ current' \in Nat
    BY <1>1 DEF Places
  <2> QED BY <1>1, <2>1 DEF SessionTypes
<1>3. SessionTypes'
  BY <1>1, <1>2 DEF SessionTypes
<1>4. \A o \in 1..Len(sess') : \A i \in Live(sess'[o].entries) :
        /\ o \in 1..Len(sess) /\ sess'[o] = sess[o] /\ i \in Live(sess[o].entries)
        /\ sess[o].entries[i] \in Handlers /\ sess[o].entries[i] # h
  <2> SUFFICES ASSUME NEW o \in 1..Len(sess'), NEW i \in Live(sess'[o].entries)
               PROVE  /\ o \in 1..Len(sess) /\ sess'[o] = sess[o] /\ i \in Live(sess[o].entries)
                      /\ sess[o].entries[i] \in Handlers /\ sess[o].entries[i] # h
    OBVIOUS
  <2>1. o \in 1..Len(sess)
    <3>1. o \in Nat /\ o >= 1
      BY <1>1
    <3>2. Live(sess'[o].entries) # {}
      OBVIOUS
    <3>3. ~(o > Len(sess))
      BY <3>2
    <3> QED BY <1>1, <3>1, <3>3
  <2>2. sess'[o] = sess[o] /\ i \in Live(sess[o].entries)
    BY <2>1
  <2>3. sess[o].entries[i] \in Handlers
    BY <1>1, <2>1, <2>2, Rows DEF SessionTypes
  <2>4. pc[sess[o].entries[i]] # "new"
    BY <2>1, <2>2 DEF SessionInv, OwnObject
  <2> QED BY <2>1, <2>2, <2>3, <2>4
<1>5. CurrentIsNewest'
  BY DEF CurrentIsNewest
<1>6. OwnObject'
  <2>1. ASSUME NEW g \in Handlers, pc'[g] \in {"accepting", "joining", "serving"}
        PROVE  obj'[g] \in 1..Len(sess')
    <3>1. CASE g = h
      BY <1>2, <3>1
    <3>2. CASE g # h
      BY <1>1, <1>2, <2>1, <3>2 DEF SessionInv, OwnObject
    <3> QED BY <3>1, <3>2
  <2>2. ASSUME NEW o \in 1..Len(sess'), NEW i \in Live(sess'[o].entries)
        PROVE  /\ obj'[sess'[o].entries[i]] = o
               /\ pc'[sess'[o].entries[i]] \notin {"new", "accepting"}
    <3>1. /\ o \in 1..Len(sess) /\ sess'[o] = sess[o] /\ i \in Live(sess[o].entries)
      BY <1>4
    <3>2. PICK g \in Handlers : g = sess[o].entries[i] /\ g # h
      BY <1>4
    <3>3. obj[g] = o /\ pc[g] \notin {"new", "accepting"}
      BY <3>1, <3>2 DEF SessionInv, OwnObject
    <3> QED BY <1>2, <3>1, <3>2, <3>3
  <2> QED BY <2>1, <2>2 DEF OwnObject
<1>7. Gone'
  <2> SUFFICES ASSUME NEW i \in Live(sess'[current'].entries)
               PROVE  pc'[sess'[current'].entries[i]] \notin {"leaving", "done"}
    BY DEF Gone
  <2>1. /\ current' \in 1..Len(sess) /\ sess'[current'] = sess[current']
        /\ i \in Live(sess[current'].entries)
        /\ sess[current'].entries[i] \in Handlers /\ sess[current'].entries[i] # h
    BY <1>4
  <2>2. current' = current /\ current # 0
    BY <1>1, <2>1
  <2> QED BY <1>2, <2>1, <2>2 DEF SessionInv, Gone
<1>8. FramesTrue'
  <2> SUFFICES ASSUME NEW g \in Handlers, frame[g] # None
               PROVE  /\ pc'[g] \in {"joining", "serving", "leaving"}
                      /\ frame[g].o \in 1..Len(sess')
                      /\ frame[g].msg # 0 =>
                           /\ frame[g].msg \in 1..Len(sess'[frame[g].o].log)
                           /\ frame[g].excl = UserOf[sess'[frame[g].o].log[frame[g].msg]]
    BY DEF FramesTrue
  <2>1. /\ pc[g] \in {"joining", "serving", "leaving"}
        /\ frame[g].o \in 1..Len(sess)
        /\ frame[g].msg # 0 =>
             /\ frame[g].msg \in 1..Len(sess[frame[g].o].log)
             /\ frame[g].excl = UserOf[sess[frame[g].o].log[frame[g].msg]]
    BY DEF SessionInv, FramesTrue
  <2>2. sess'[frame[g].o] = sess[frame[g].o] /\ frame[g].o \in 1..Len(sess') /\ g # h
    BY <1>1, <2>1
  <2> QED BY <1>2, <2>1, <2>2
<1>9. Informing'
  <2>1. ASSUME NEW o \in 1..Len(sess'), NEW i \in Live(sess'[o].entries)
        PROVE  LET g == sess'[o].entries[i] IN
               /\ o \in 1..Len(sess) /\ sess'[o].log = sess[o].log
               /\ \/ pc'[g] # "serving" \/ base'[g] = Len(sess[o].log)
                  \/ /\ i \in Live(sess[o].entries) /\ g = sess[o].entries[i]
                     /\ pc[g] = "serving" /\ base'[g] = base[g] /\ got[g] \subseteq got'[g]
    BY <1>2, <1>4
  <2>2. alive' \subseteq alive /\ upset \subseteq upset' /\ \A g \in Handlers : frame'[g] = frame[g]
    OBVIOUS
  <2> QED BY <2>1, <2>2, QuietInforming
<1> QED BY <1>3, <1>5, <1>6, <1>7, <1>8, <1>9 DEF SessionInv

LEMMA ConnectKeeps ==
  ASSUME SessionInv, NEW h \in Handlers, Connect(h)
  PROVE  SessionInv'
<1>1. pc[h] = "new" /\ UNCHANGED <<alive, upset>>
  BY DEF Connect
<1>2. /\ SessionTypes /\ sess \in Seq(SessionRows) /\ Len(sess) \in Nat /\ current \in 0..Len(sess)
      /\ current # 0 => current = Len(sess)
  BY DEF SessionInv, SessionTypes, CurrentIsNewest
<1>3. CASE current = 0
  <2>1. PICK row : row = [entries |-> <<>>, spare |-> 0, log |-> <<>>]
    OBVIOUS
  <2>2. row \in SessionRows /\ row.entries = <<>>
    BY <2>1 DEF SessionRows, Entries
  <2>3. /\ sess' = Append(sess, row) /\ current' = Len(sess')
        /\ pc' = [pc EXCEPT ![h] = "accepting"] /\ obj' = [obj EXCEPT ![h] = current']
        /\ UNCHANGED <<frame, pending, base, got>>
    BY <1>3, <2>1 DEF Connect
  <2>4. /\ sess' \in Seq(SessionRows) /\ Len(sess') = Len(sess) + 1 /\ sess'[Len(sess) + 1] = row
        /\ \A o \in 1..Len(sess) : sess'[o] = sess[o]
    BY <1>2, <2>2, <2>3, AppendProperties
  <2>5. Live(<<>>) = {}
    BY DEF Live
  <2>6. \A o \in 1..Len(sess') : o > Len(sess) => Live(sess'[o].entries) = {}
    BY <1>2, <2>2, <2>4, <2>5
  <2>7. /\ current' \in 1..Len(sess') /\ current' = Len(sess') /\ current' > Len(sess)
        /\ Len(sess') >= Len(sess)
    BY <1>2, <2>3, <2>4
  <2> QED BY <1>1, <2>3, <2>4, <2>6, <2>7, EntersKeeps
<1>4. CASE current # 0 /\ Cardinality(Live(sess[current].entries)) >= MaxUsers
  <2>1. Leave(h) /\ UNCHANGED <<obj, current>>
    BY <1>4 DEF Connect
  <2>2. Released(h)
    BY <1>1, NoFrame DEF Ends, Released
  <2> QED BY <1>1, <2>1, <2>2, LeaveKeeps
<1>5. CASE current # 0 /\ ~(Cardinality(Live(sess[current].entries)) >= MaxUsers)
  <2>1. /\ current' = current /\ sess' = sess
        /\ pc' = [pc EXCEPT ![h] = "accepting"] /\ obj' = [obj EXCEPT ![h] = current]
        /\ UNCHANGED <<frame, pending, base, got>>
    BY <1>5 DEF Connect
  <2>2. /\ current' \in 1..Len(sess') /\ current' = Len(sess') /\ Len(sess') >= Len(sess)
        /\ \A o \in 1..Len(sess') : o > Len(sess) => Live(sess'[o].entries) = {}
    BY <1>2, <1>5, <2>1
  <2> QED BY <1>1, <1>2, <2>1, <2>2, EntersKeeps
<1> QED BY <1>3, <1>4, <1>5

\* The registered handler is told first, or some other of the session.  Broadcasts whose
\* table is made anew are upset: their entries may have moved.
LEMMA RegisterKeeps ==
  ASSUME SessionInv, NEW h \in Handlers, Register(h)
  PROVE  SessionInv'
<1>1. /\ pc[h] = "accepting" /\ pc' = [pc EXCEPT ![h] = "joining"]
      /\ UNCHANGED <<current, alive, obj, base>>
  BY DEF Register
<1>2. /\ SessionTypes /\ sess \in Seq(SessionRows) /\ Len(sess) \in Nat
  BY DEF SessionInv, SessionTypes
<1>3. PICK p \in 1..Len(sess) : p = obj[h]
  BY <1>1 DEF SessionInv, OwnObject
<1>4. PICK row \in Put(p, h) :
        sess' = [sess EXCEPT ![p] = row] /\ Send(h, NewFrame(p, None, 0, row.entries), <<>>)
  BY <1>3 DEF Register
<1>5. /\ row \in SessionRows /\ row.log = sess[p].log
      /\ \A i \in Live(row.entries) :
             row.entries[i] = h \/ \E j \in Live(sess[p].entries) : row.entries[i] = sess[p].entries[j]
      /\ ~Full(p, UserOf[h]) =>
             \A i \in Live(row.entries) :
                 row.entries[i] = h \/ (i \in Live(sess[p].entries) /\ row.entries[i] = sess[p].entries[i])
      /\ \E i \in Live(row.entries) : row.entries[i] = h
  BY <1>2, PutFacts
<1>6. PICK es \in Entries : es = row.entries
  BY <1>5 DEF SessionRows
<1>7. /\ sess' \in Seq(SessionRows) /\ Len(sess') = Len(sess)
      /\ sess'[p].entries = es /\ sess'[p].log = sess[p].log
      /\ \A o \in 1..Len(sess) : o # p => sess'[o] = sess[o]
  <2>1. /\ sess' \in Seq(SessionRows) /\ Len(sess') = Len(sess) /\ sess'[p] = row
        /\ \A o \in 1..Len(sess) : o # p => sess'[o] = sess[o]
    BY <1>2, <1>4, <1>5, SeqUpdate
  <2> QED BY <1>5, <1>6, <2>1
<1>8. /\ upset \subseteq upset'
      /\ \A g \in Handlers : Full(p, UserOf[h]) /\ frame[g] # None /\ frame[g].o = p /\ frame[g].msg # 0 =>
             <<p, frame[g].msg>> \in upset'
  <2>1. PICK G : G = {g \in Handlers : Full(obj[h], UserOf[h]) /\ frame[g] # None /\ frame[g].o = obj[h]}
    OBVIOUS
  <2>2. upset' = upset \cup {<<frame[g].o, frame[g].msg>> : g \in {g \in G : frame[g].msg # 0}}
    BY <2>1 DEF Register, Upset
  <2> QED BY <1>3, <2>1, <2>2
<1>9. PICK f \in Frames : /\ f = NewFrame(p, None, 0, es) /\ f.o = p
                          /\ f.excl = None /\ f.msg = 0 /\ f.pos = 0
  <2>1. p \in Nat /\ None \in Users \cup {None} /\ 0 \in Nat
    BY <1>2
  <2>2. /\ NewFrame(p, None, 0, es) \in Frames /\ NewFrame(p, None, 0, es).o = p
        /\ NewFrame(p, None, 0, es).excl = None /\ NewFrame(p, None, 0, es).msg = 0
        /\ NewFrame(p, None, 0, es).pos = 0
    BY <2>1, NewFrameType
  <2> QED BY <2>2
<1>10. Recipients(sess'[f.o].entries, f) # {}
  <2>1. PICK i \in Live(es) : es[i] = h
    BY <1>5, <1>6
  <2>2. i \in Nat /\ i > 0 /\ UserOf[es[i]] # None
    BY LiveEntries, SessionAssumption
  <2>3. i \in Recipients(es, f)
    BY <1>9, <2>2 DEF Recipients
  <2> QED BY <1>7, <1>9, <2>3
<1>11. /\ pending' \in [Handlers -> Seq(Users)]
       /\ frame' \in [Handlers -> Frames \cup {None}] /\ got' \in [Handlers -> SUBSET Nat]
       /\ frame'[h] # None /\ frame'[h].o = p /\ frame'[h].msg = 0
       /\ \A g \in Handlers : g # h => frame'[g] = frame[g]
       /\ \A g \in Handlers : got[g] \subseteq got'[g]
  <2>1. Send(h, f, <<>>) /\ <<>> \in Seq(Users) /\ sess'[f.o].entries \in Entries
    BY <1>4, <1>6, <1>7, <1>9
  <2> QED BY <1>2, <1>9, <1>10, <2>1, SendEffect
<1>12. /\ pc' \in [Handlers -> Places] /\ \A g \in Handlers : g # h => pc'[g] = pc[g]
       /\ pc'[h] = "joining"
  <2>1. "joining" \in Places
    BY DEF Places
  <2> QED BY <1>1, <1>2, <2>1 DEF SessionTypes
<1>13. SessionTypes'
  BY <1>1, <1>2, <1>7, <1>11, <1>12 DEF SessionTypes
<1>14. frame[h] = None
  BY <1>1, NoFrame DEF Ends
<1>15. ASSUME NEW o \in 1..Len(sess), NEW i \in Live(sess'[o].entries)
       PROVE  /\ sess'[o].log = sess[o].log /\ sess'[o].entries[i] \in Handlers
              /\ \/ sess'[o].entries[i] = h /\ obj[h] = o
                 \/ /\ o # p \/ ~Full(p, UserOf[h])
                    /\ i \in Live(sess[o].entries) /\ sess'[o].entries[i] = sess[o].entries[i]
                 \/ /\ o = p /\ Full(p, UserOf[h])
                    /\ \E j \in Live(sess[o].entries) : sess'[o].entries[i] = sess[o].entries[j]
  <2>1. sess'[o].entries[i] \in Handlers
    BY <1>7, Rows
  <2>2. CASE o = p
    BY <1>3, <1>5, <1>6, <1>7, <2>1, <2>2
  <2>3. CASE o # p
    BY <1>7, <2>1, <2>3
  <2> QED BY <2>2, <2>3
<1>16. Informing'
  <2> SUFFICES ASSUME NEW o \in 1..Len(sess), NEW i \in Live(sess'[o].entries),
                      NEW r \in 1..Len(sess[o].log), Owed(o, sess[o].entries[i], r)'
               PROVE  r \in got'[sess'[o].entries[i]] \/ Coming(o, i, r)' \/ <<o, r>> \in upset'
    BY <1>7, <1>15 DEF Informing
  <2>1. PICK g \in Handlers : g = sess'[o].entries[i]
    BY <1>15
  <2>2. /\ g \in alive /\ pc'[g] = "serving" /\ base[g] < r /\ UserOf[sess[o].log[r]] # UserOf[g]
    BY <1>1, <1>15, <2>1 DEF Owed
  <2>3. g # h /\ pc[g] = "serving" /\ Owed(o, g, r) /\ got[g] \subseteq got'[g]
    BY <1>11, <1>12, <2>2 DEF Owed
  <2>4. Len(sess[o].log) \in Nat /\ r # 0
    BY <1>2, Rows
  <2>5. CASE /\ o # p \/ ~Full(p, UserOf[h])
             /\ i \in Live(sess[o].entries) /\ g = sess[o].entries[i]
    <3>1. r \in got[g] \/ Coming(o, i, r) \/ <<o, r>> \in upset
      BY <2>3, <2>5 DEF SessionInv, Informing
    <3>2. Coming(o, i, r) => Coming(o, i, r)'
      BY <1>11, <1>14 DEF Coming
    <3> QED BY <1>8, <2>1, <2>3, <3>1, <3>2
  <2>6. CASE o = p /\ Full(p, UserOf[h]) /\ \E j \in Live(sess[o].entries) : g = sess[o].entries[j]
    <3>1. PICK j \in Live(sess[o].entries) : g = sess[o].entries[j]
      BY <2>6
    <3>2. r \in got[g] \/ Coming(o, j, r) \/ <<o, r>> \in upset
      BY <2>3, <3>1 DEF SessionInv, Informing
    <3>3. Coming(o, j, r) => <<o, r>> \in upset'
      BY <1>8, <2>4, <2>6 DEF Coming
    <3> QED BY <1>8, <2>1, <2>3, <3>2, <3>3
  <2> QED BY <1>15, <2>1, <2>3, <2>5, <2>6
<1>17. CurrentIsNewest' /\ OwnObject' /\ Gone' /\ FramesTrue'
  <2>1. \A g \in Handlers : pc[g] \in {"leaving", "done"} => pc'[g] \in {"leaving", "done"}
    BY <1>1, <1>12
  <2>2. \A g \in Handlers : pc'[g] \in {"leaving", "done"} => pc[g] \in {"leaving", "done"}
    BY <1>12
  <2>3. \A g \in Handlers : pc'[g] \in {"new", "accepting"} => pc[g] = pc'[g]
    BY <1>12
  <2>4. \A g \in Handlers : pc'[g] \in {"joining", "serving"} =>
            pc[g] \in {"accepting", "joining", "serving"}
    BY <1>1, <1>12
  <2>5. ASSUME NEW g \in Handlers, frame'[g] # None
        PROVE  /\ pc'[g] \in {"joining", "serving", "leaving"}
               /\ \/ /\ frame[g] # None /\ frame'[g].o = frame[g].o
                     /\ frame'[g].msg = frame[g].msg /\ frame'[g].excl = frame[g].excl
                  \/ frame'[g].o \in 1..Len(sess) /\ frame'[g].msg = 0
    <3>1. CASE g = h
      BY <1>11, <1>12, <3>1
    <3>2. CASE g # h
      BY <1>11, <1>12, <2>5, <3>2 DEF SessionInv, FramesTrue
    <3> QED BY <3>1, <3>2
  <2>6. ASSUME NEW o \in 1..Len(sess)
        PROVE  /\ \A r \in 1..Len(sess[o].log) :
                    r \in 1..Len(sess'[o].log) /\ sess'[o].log[r] = sess[o].log[r]
               /\ \A i \in Live(sess'[o].entries) :
                    LET g == sess'[o].entries[i] IN
                    \/ \E j \in Live(sess[o].entries) : g = sess[o].entries[j]
                    \/ pc'[g] = "joining" /\ obj[g] = o
    <3>1. sess'[o].log = sess[o].log
      BY <1>7
    <3>2. ASSUME NEW i \in Live(sess'[o].entries)
          PROVE  \/ \E j \in Live(sess[o].entries) : sess'[o].entries[i] = sess[o].entries[j]
                 \/ sess'[o].entries[i] = h /\ obj[h] = o
      BY <1>15
    <3> QED BY <1>12, <3>1, <3>2
  <2> QED BY <1>1, <1>7, <1>13, <2>1, <2>2, <2>3, <2>4, <2>5, <2>6, QuietRest
<1> QED BY <1>13, <1>16, <1>17 DEF SessionInv

\* A client that goes away is owed nothing any more.
LEMMA DisconnectKeeps ==
  ASSUME SessionInv, NEW h \in Handlers, Disconnect(h)
  PROVE  SessionInv'
<1>1. /\ alive' = alive \ {h}
      /\ UNCHANGED <<sess, current, idle, pc, obj, frame, pending, base, got, upset>>
  BY DEF Disconnect
<1>2. SessionTypes' /\ CurrentIsNewest' /\ OwnObject' /\ Gone' /\ FramesTrue'
  BY <1>1 DEF SessionInv, SessionTypes, CurrentIsNewest, OwnObject, Gone, FramesTrue
<1>3. Informing'
  <2> SUFFICES ASSUME NEW o \in 1..Len(sess), NEW i \in Live(sess[o].entries),
                      NEW r \in 1..Len(sess[o].log), Owed(o, sess[o].entries[i], r)'
               PROVE  r \in got[sess[o].entries[i]] \/ Coming(o, i, r)' \/ <<o, r>> \in upset
    BY <1>1 DEF Informing
  <2>1. Owed(o, sess[o].entries[i], r)
    BY <1>1 DEF Owed
  <2>2. r \in got[sess[o].entries[i]] \/ Coming(o, i, r) \/ <<o, r>> \in upset
    BY <2>1 DEF SessionInv, Informing
  <2> QED BY <1>1, <2>2 DEF Coming
<1> QED BY <1>2, <1>3 DEF SessionInv

\* A broadcast goes on to its next recipient.
LEMMA SendNextKeeps ==
  ASSUME SessionInv, NEW h \in Handlers, SendNext(h)
  PROVE  SessionInv'
<1>1. /\ frame[h] # None /\ Recipients(sess[frame[h].o].entries, frame[h]) # {}
      /\ Send(h, frame[h], pending[h])
      /\ UNCHANGED <<sess, current, idle, alive, pc, obj, base, upset>>
  BY DEF SendNext
<1>2. SessionTypes /\ sess \in Seq(SessionRows)
  BY DEF SessionInv, SessionTypes
<1>3. PICK f \in Frames : f = frame[h]
  BY <1>1, <1>2 DEF SessionTypes
<1>4. f.o \in 1..Len(sess) /\ f.msg \in Nat
  BY <1>1, <1>3 DEF SessionInv, FramesTrue, Frames
<1>5. sess'[f.o].entries \in Entries /\ sess'[f.o].entries = sess[f.o].entries
  BY <1>1, <1>2, <1>4, Rows
<1>6. /\ pending' \in [Handlers -> Seq(Users)]
      /\ frame' \in [Handlers -> Frames \cup {None}] /\ got' \in [Handlers -> SUBSET Nat]
      /\ frame'[h] # None /\ frame'[h].o = f.o /\ frame'[h].msg = f.msg
      /\ frame'[h].excl = f.excl
      /\ \A g \in Handlers : g # h => frame'[g] = frame[g]
      /\ \A g \in Handlers : got[g] \subseteq got'[g]
      /\ \A i \in Recipients(sess[f.o].entries, f) :
             \/ f.msg = 0 \/ f.msg \in got'[sess[f.o].entries[i]]
             \/ sess[f.o].entries[i] \notin alive \/ frame'[h].pos < i
  <2>1. PICK rest \in Seq(Users) : rest = pending[h]
    BY <1>2 DEF SessionTypes
  <2>2. Send(h, f, rest)
    BY <1>1, <1>3, <2>1
  <2>3. Recipients(sess'[f.o].entries, f) # {}
    BY <1>1, <1>3, <1>5
  <2> QED BY <1>2, <1>5, <2>2, <2>3, SendEffect
<1>7. SessionTypes'
  BY <1>1, <1>2, <1>6 DEF SessionTypes
<1>8. CurrentIsNewest' /\ OwnObject' /\ Gone'
  BY <1>1 DEF SessionInv, CurrentIsNewest, OwnObject, Gone
<1>9. FramesTrue'
  <2> SUFFICES ASSUME NEW g \in Handlers, frame'[g] # None
               PROVE  /\ pc[g] \in {"joining", "serving", "leaving"}
                      /\ frame'[g].o \in 1..Len(sess)
                      /\ frame'[g].msg # 0 =>
                           /\ frame'[g].msg \in 1..Len(sess[frame'[g].o].log)
                           /\ frame'[g].excl = UserOf[sess[frame'[g].o].log[frame'[g].msg]]
    BY <1>1 DEF FramesTrue
  <2>1. frame[g] # None /\ frame'[g].o = frame[g].o
        /\ frame'[g].msg = frame[g].msg /\ frame'[g].excl = frame[g].excl
    BY <1>1, <1>3, <1>6
  <2> QED BY <2>1 DEF SessionInv, FramesTrue
<1>10. Informing'
  <2> SUFFICES ASSUME NEW o \in 1..Len(sess), NEW i \in Live(sess[o].entries),
                      NEW r \in 1..Len(sess[o].log), Owed(o, sess[o].entries[i], r)
               PROVE  r \in got'[sess[o].entries[i]] \/ Coming(o, i, r)' \/ <<o, r>> \in upset
    BY <1>1 DEF Informing, Owed
  <2>1. PICK g \in Handlers : g = sess[o].entries[i] /\ i \in Nat
    BY <1>2, Rows
  <2>2. CASE r \in got[g]
    BY <1>6, <2>1, <2>2
  <2>3. CASE Coming(o, i, r)
    <3>1. PICK b \in Handlers : /\ frame[b] # None /\ frame[b].o = o
                                /\ frame[b].msg = r /\ frame[b].pos < i
      BY <2>3 DEF Coming
    <3>2. CASE b # h
      BY <1>6, <3>1, <3>2 DEF Coming
    <3>3. CASE b = h
      <4>1. f.excl = UserOf[sess[o].log[r]] /\ f.o = o /\ f.msg = r /\ f.pos < i /\ f.msg # 0
        BY <1>3, <3>1, <3>3 DEF SessionInv, FramesTrue
      <4>2. UserOf[g] # f.excl /\ g \in alive
        BY <2>1, <4>1 DEF Owed
      <4>3. f.pos \in Nat
        BY DEF Frames
      <4>4. i \in Recipients(sess[o].entries, f)
        BY <2>1, <4>1, <4>2, <4>3 DEF Recipients
      <4>5. r \in got'[g] \/ frame'[h].pos < i
        BY <1>6, <2>1, <4>1, <4>2, <4>4
      <4> QED BY <1>6, <2>1, <4>1, <4>5 DEF Coming
    <3> QED BY <3>2, <3>3
  <2> QED BY <2>1, <2>2, <2>3 DEF SessionInv, Informing
<1> QED BY <1>7, <1>8, <1>9, <1>10 DEF SessionInv

LEMMA NothingChanged ==
  ASSUME SessionInv, UNCHANGED <<sess, current, alive, pc, obj, frame, pending, base, got, upset>>
  PROVE  SessionInv'
<1>1. SessionTypes' /\ CurrentIsNewest' /\ OwnObject' /\ Gone' /\ FramesTrue'
  BY DEF SessionInv, SessionTypes, CurrentIsNewest, OwnObject, Gone, FramesTrue
<1>2. Informing'
  <2> SUFFICES ASSUME NEW o \in 1..Len(sess), NEW i \in Live(sess[o].entries),
                      NEW r \in 1..Len(sess[o].log), Owed(o, sess[o].entries[i], r)'
               PROVE  r \in got[sess[o].entries[i]] \/ Coming(o, i, r)' \/ <<o, r>> \in upset
    BY DEF Informing
  <2>1. Owed(o, sess[o].entries[i], r)
    BY DEF Owed
  <2> QED BY <2>1 DEF SessionInv, Informing, Coming
<1> QED BY <1>1, <1>2 DEF SessionInv

\* A cursor update goes to the first of the others.
LEMMA UpdateCursorKeeps ==
  ASSUME SessionInv, NEW h \in Handlers, UpdateCursor(h)
  PROVE  SessionInv'
<1>1. /\ pc[h] = "serving" /\ frame[h] = None /\ current # 0
      /\ Broadcast(h, sess[current].entries, 0)
      /\ UNCHANGED <<sess, current, idle, alive, pc, obj, base, upset>>
  BY DEF UpdateCursor
<1>2. SessionTypes /\ sess \in Seq(SessionRows) /\ current \in 1..Len(sess)
  BY <1>1 DEF SessionInv, SessionTypes
<1>3. PICK es \in Entries : es = sess[current].entries
  BY <1>2, Rows
<1>4. PICK f \in Frames : /\ f = NewFrame(current, UserOf[h], 0, es) /\ f.o = current
                          /\ f.msg = 0
  <2>1. current \in Nat /\ UserOf[h] \in Users \cup {None} /\ 0 \in Nat
    BY <1>2 DEF Users
  <2>2. /\ NewFrame(current, UserOf[h], 0, es) \in Frames
        /\ NewFrame(current, UserOf[h], 0, es).o = current
        /\ NewFrame(current, UserOf[h], 0, es).msg = 0
    BY <2>1, NewFrameType
  <2> QED BY <2>2
<1>5. CASE Recipients(es, f) = {}
  <2>1. UNCHANGED <<frame, pending, got>>
    BY <1>1, <1>3, <1>4, <1>5 DEF Broadcast
  <2> QED BY <1>1, <2>1, NothingChanged
<1>6. CASE Recipients(es, f) # {}
  <2>1. Send(h, f, <<>>) /\ <<>> \in Seq(Users)
    BY <1>1, <1>3, <1>4, <1>6 DEF Broadcast
  <2>2. "serving" \in Ends /\ pc' = [pc EXCEPT ![h] = "serving"]
    BY <1>1, <1>2 DEF Ends, SessionTypes
  <2>3. Shrinks /\ Recipients(sess'[f.o].entries, f) # {} /\ f.o \in 1..Len(sess)
    BY <1>1, <1>2, <1>3, <1>4, <1>6 DEF Shrinks
  <2>4. Elsewhere(h, "serving")
    BY <1>1 DEF Elsewhere, Released, Finished
  <2> QED BY <1>1, <1>4, <2>1, <2>2, <2>3, <2>4, TellKeeps
<1> QED BY <1>5, <1>6

\* A new operation is on its way to all the others from the moment it is applied.
LEMMA OperationKeeps ==
  ASSUME SessionInv, NEW h \in Handlers, HandleOperation(h), current # 0
  PROVE  SessionInv'
<1>1. /\ pc[h] = "serving" /\ frame[h] = None
      /\ sess' = [sess EXCEPT ![current].log = Append(@, h)]
      /\ Broadcast(h, sess[current].entries, Len(sess'[current].log))
      /\ UNCHANGED <<pc, base, current, alive, obj, upset>>
  BY DEF HandleOperation
<1>2. SessionTypes /\ sess \in Seq(SessionRows)
  BY DEF SessionInv, SessionTypes
<1>3. PICK c \in 1..Len(sess) : c = current
  BY DEF SessionInv, SessionTypes
<1>4. PICK es \in Entries : es = sess[c].entries
  BY <1>2, Rows
<1>5. PICK n \in Nat : n = Len(sess[c].log) + 1
  BY <1>2, Rows
<1>6. /\ sess' \in Seq(SessionRows) /\ Len(sess') = Len(sess) /\ sess'[c].entries = es
      /\ Len(sess'[c].log) = n /\ sess'[c].log[n] = h
      /\ \A r \in 1..Len(sess[c].log) : sess'[c].log[r] = sess[c].log[r]
      /\ \A p \in 1..Len(sess) : p # c => sess'[p] = sess[p]
  <2>1. PICK old \in Seq(Handlers) : old = sess[c].log
    BY <1>2, Rows
  <2>2. PICK log \in Seq(Handlers) : log = Append(old, h)
    <3>1. Append(old, h) \in Seq(Handlers)
      BY AppendProperties
    <3> QED BY <3>1
  <2>3. /\ Len(log) = Len(old) + 1 /\ log[Len(old) + 1] = h
        /\ \A r \in 1..Len(old) : log[r] = old[r]
    BY <2>2, AppendProperties
  <2>4. sess' = [sess EXCEPT ![c].log = log]
    BY <1>1, <1>3, <2>1, <2>2
  <2>5. /\ sess' \in Seq(SessionRows) /\ Len(sess') = Len(sess)
        /\ sess'[c].log = log /\ sess'[c].entries = sess[c].entries
        /\ \A p \in 1..Len(sess) : p # c => sess'[p] = sess[p]
    BY <1>2, <2>4, LogSet
  <2> QED BY <1>4, <1>5, <2>1, <2>3, <2>5
<1>7. \A o \in 1..Len(sess) :
        /\ sess'[o].entries = sess[o].entries
        /\ \A r \in 1..Len(sess[o].log) :
             r \in 1..Len(sess'[o].log) /\ sess'[o].log[r] = sess[o].log[r]
        /\ \A r \in 1..Len(sess'[o].log) : r \in 1..Len(sess[o].log) \/ (o = c /\ r = n)
  <2> TAKE o \in 1..Len(sess)
  <2>1. Len(sess[o].log) \in Nat
    BY <1>2, Rows
  <2>2. CASE o = c
    BY <1>4, <1>5, <1>6, <2>1, <2>2
  <2>3. CASE o # c
    BY <1>6, <2>1, <2>3
  <2> QED BY <2>2, <2>3
<1>8. PICK f \in Frames : /\ f = NewFrame(c, UserOf[h], n, es) /\ f.o = c
                          /\ f.excl = UserOf[h] /\ f.msg = n /\ f.pos = 0
  <2>1. c \in Nat /\ UserOf[h] \in Users \cup {None}
    BY <1>2 DEF Users
  <2>2. /\ NewFrame(c, UserOf[h], n, es) \in Frames
        /\ NewFrame(c, UserOf[h], n, es).o = c /\ NewFrame(c, UserOf[h], n, es).excl = UserOf[h]
        /\ NewFrame(c, UserOf[h], n, es).msg = n /\ NewFrame(c, UserOf[h], n, es).pos = 0
    BY <2>1, NewFrameType
  <2> QED BY <2>2
<1>9. IF Recipients(es, f) = {} THEN UNCHANGED <<frame, pending, got>> ELSE Send(h, f, <<>>)
  BY <1>1, <1>3, <1>4, <1>6, <1>8 DEF Broadcast
<1>10. /\ pending' \in [Handlers -> Seq(Users)]
       /\ frame' \in [Handlers -> Frames \cup {None}] /\ got' \in [Handlers -> SUBSET Nat]
       /\ frame'[h] # None =>
            frame'[h].o = c /\ frame'[h].msg = n /\ frame'[h].excl = UserOf[h]
       /\ \A g \in Handlers : g # h => frame'[g] = frame[g]
       /\ \A g \in Handlers : got[g] \subseteq got'[g]
       /\ \A i \in Recipients(es, f) :
              \/ n \in got'[es[i]] \/ es[i] \notin alive
              \/ frame'[h] # None /\ frame'[h].pos < i
  <2>1. CASE Recipients(es, f) = {}
    BY <1>1, <1>2, <1>9, <2>1 DEF SessionTypes
  <2>2. CASE Recipients(es, f) # {}
    <3>1. Send(h, f, <<>>) /\ <<>> \in Seq(Users)
      BY <1>9, <2>2
    <3>2. sess'[f.o].entries = es /\ f.msg # 0
      BY <1>2, <1>5, <1>6, <1>8, Rows
    <3>3. /\ pending' \in [Handlers -> Seq(Users)]
          /\ frame' \in [Handlers -> Frames \cup {None}] /\ got' \in [Handlers -> SUBSET Nat]
          /\ frame'[h] # None /\ frame'[h].o = f.o /\ frame'[h].msg = f.msg
          /\ frame'[h].excl = f.excl
          /\ \A g \in Handlers : g # h => frame'[g] = frame[g]
          /\ \A g \in Handlers : got[g] \subseteq got'[g]
          /\ \A i \in Recipients(es, f) :
                 \/ f.msg = 0 \/ f.msg \in got'[es[i]] \/ es[i] \notin alive
                 \/ frame'[h].pos < i
      <4>1. sess'[f.o].entries \in Entries /\ Recipients(sess'[f.o].entries, f) # {}
        BY <2>2, <3>2
      <4> QED BY <1>2, <3>1, <3>2, <4>1, SendEffect
    <3> QED BY <1>8, <3>2, <3>3
  <2> QED BY <2>1, <2>2
<1>11. SessionTypes'
  BY <1>1, <1>2, <1>6, <1>10 DEF SessionTypes
<1>12. CurrentIsNewest' /\ OwnObject' /\ Gone'
  <2>1. CurrentIsNewest' /\ Gone'
    BY <1>1, <1>3, <1>6, <1>7 DEF SessionInv, CurrentIsNewest, Gone
  <2>2. OwnObject'
    BY <1>1, <1>6, <1>7 DEF SessionInv, OwnObject
  <2> QED BY <2>1, <2>2
<1>13. FramesTrue'
  <2> SUFFICES ASSUME NEW g \in Handlers, frame'[g] # None
               PROVE  /\ pc[g] \in {"joining", "serving", "leaving"}
                      /\ frame'[g].o \in 1..Len(sess')
                      /\ frame'[g].msg # 0 =>
                           /\ frame'[g].msg \in 1..Len(sess'[frame'[g].o].log)
                           /\ frame'[g].excl = UserOf[sess'[frame'[g].o].log[frame'[g].msg]]
    BY <1>1 DEF FramesTrue
  <2>1. CASE g = h
    <3>1. n \in 1..n
      BY <1>2, <1>5, Rows
    <3> QED BY <1>1, <1>6, <1>10, <2>1, <3>1
  <2>2. CASE g # h
    <3>1. /\ pc[g] \in {"joining", "serving", "leaving"} /\ frame[g].o \in 1..Len(sess)
          /\ frame[g].msg # 0 =>
               /\ frame[g].msg \in 1..Len(sess[frame[g].o].log)
               /\ frame[g].excl = UserOf[sess[frame[g].o].log[frame[g].msg]]
      BY <1>10, <2>2 DEF SessionInv, FramesTrue
    <3> QED BY <1>6, <1>7, <1>10, <2>2, <3>1
  <2> QED BY <2>1, <2>2
<1>14. Informing'
  <2> SUFFICES ASSUME NEW o \in 1..Len(sess), NEW i \in Live(sess[o].entries),
                      NEW r \in 1..Len(sess'[o].log), Owed(o, sess[o].entries[i], r)'
               PROVE  r \in got'[sess[o].entries[i]] \/ Coming(o, i, r)' \/ <<o, r>> \in upset
    BY <1>1, <1>6, <1>7 DEF Informing
  <2>1. PICK g \in Handlers : g = sess[o].entries[i] /\ i \in Nat
    BY <1>2, Rows
  <2>2. /\ g \in alive /\ pc[g] = "serving" /\ base[g] < r
        /\ UserOf[sess'[o].log[r]] # UserOf[g]
    BY <1>1, <2>1 DEF Owed
  <2>3. CASE r \in 1..Len(sess[o].log)
    <3>1. Owed(o, g, r)
      BY <1>7, <2>2, <2>3 DEF Owed
    <3>2. r \in got[g] \/ Coming(o, i, r) \/ <<o, r>> \in upset
      BY <2>1, <2>3, <3>1 DEF SessionInv, Informing
    <3>3. ASSUME Coming(o, i, r) PROVE Coming(o, i, r)'
      <4>1. PICK b \in Handlers : /\ frame[b] # None /\ frame[b].o = o
                                  /\ frame[b].msg = r /\ frame[b].pos < i
        BY <3>3 DEF Coming
      <4>2. frame'[b] = frame[b]
        BY <1>1, <1>10, <4>1
      <4> QED BY <4>1, <4>2 DEF Coming
    <3> QED BY <1>10, <2>1, <3>2, <3>3
  <2>4. CASE o = c /\ r = n
    <3>1. UserOf[g] # UserOf[h] /\ i \in Live(es) /\ es[i] = g
      BY <1>4, <1>6, <2>1, <2>2, <2>4
    <3>2. i > 0
      BY <3>1, LiveEntries
    <3>3. i \in Recipients(es, f)
      BY <1>8, <2>1, <3>1, <3>2 DEF Recipients
    <3>4. n \in got'[g] \/ (frame'[h] # None /\ frame'[h].pos < i)
      BY <1>10, <2>2, <3>1, <3>3
    <3> QED BY <1>10, <2>1, <2>4, <3>4 DEF Coming
  <2> QED BY <1>7, <2>3, <2>4
<1> QED BY <1>11, <1>12, <1>13, <1>14 DEF SessionInv

LEMMA HandleOperationKeeps ==
  ASSUME SessionInv, NEW h \in Handlers, HandleOperation(h)
  PROVE  SessionInv'
<1>1. CASE current = 0
  <2>1. Leave(h) /\ frame[h] = None /\ UNCHANGED <<current, alive, obj, upset>>
    BY <1>1 DEF HandleOperation
  <2>2. Released(h)
    BY <2>1 DEF Finished, Released
  <2> QED BY <2>1, <2>2, LeaveKeeps
<1> QED BY <1>1, OperationKeeps

LEMMA AcceptFailsKeeps ==
  ASSUME SessionInv, NEW h \in Handlers, AcceptFails(h)
  PROVE  SessionInv'
<1>1. pc[h] = "accepting" /\ Leave(h) /\ UNCHANGED <<current, alive, obj, upset>>
  BY DEF AcceptFails
<1>2. Released(h)
  BY <1>1, NoFrame DEF Ends, Released
<1> QED BY <1>1, <1>2, LeaveKeeps

LEMMA NoticeKeeps ==
  ASSUME SessionInv, NEW h \in Handlers, Notice(h)
  PROVE  SessionInv'
<1>1. frame[h] = None /\ Leave(h) /\ UNCHANGED <<current, alive, obj, upset>>
  BY DEF Notice
<1>2. Released(h)
  BY <1>1 DEF Finished, Released
<1> QED BY <1>1, <1>2, LeaveKeeps

\* The RuntimeError: who has not been sent the operation may miss it.
LEMMA AbortBroadcastKeeps ==
  ASSUME SessionInv, NEW h \in Handlers, AbortBroadcast(h)
  PROVE  SessionInv'
<1>1. upset \subseteq upset' /\ Released(h) /\ UNCHANGED <<current, alive, obj>>
  <2>1. frame[h] # None /\ Upset({h}) /\ UNCHANGED <<current, alive, obj>>
    BY DEF AbortBroadcast
  <2>2. upset' = upset \cup {<<frame[g].o, frame[g].msg>> : g \in {g \in {h} : frame[g].msg # 0}}
    BY <2>1 DEF Upset
  <2> QED BY <2>1, <2>2 DEF Released
<1>2. CASE pc[h] = "leaving"
  <2>1. UNCHANGED sess /\ Return(h, "leaving")
    BY <1>2 DEF AbortBroadcast
  <2>2. Shrinks /\ "leaving" \in Ends /\ Elsewhere(h, "leaving")
    BY <1>1, <2>1 DEF Shrinks, Ends, Elsewhere, SessionInv, SessionTypes
  <2>3. current # 0 => \A i \in Live(sess'[current].entries) : sess'[current].entries[i] # h
    BY <1>2, <2>1 DEF SessionInv, Gone
  <2> QED BY <2>1, <2>2, <2>3, ReturnKeeps
<1>3. CASE pc[h] # "leaving"
  <2>1. Leave(h)
    BY <1>3 DEF AbortBroadcast
  <2> QED BY <1>1, <2>1, LeaveKeeps
<1> QED BY <1>2, <1>3

\* Those the broadcast could not reach are taken out, one after the other.
LEMMA EndBroadcastKeeps ==
  ASSUME SessionInv, NEW h \in Handlers, EndBroadcast(h)
  PROVE  SessionInv'
<1>1. /\ frame[h] # None /\ Recipients(sess[frame[h].o].entries, frame[h]) = {}
      /\ UNCHANGED <<current, idle, alive, obj, upset>>
  BY DEF EndBroadcast
<1>2. PICK at \in Ends : at = pc[h]
  BY <1>1 DEF SessionInv, FramesTrue, Ends
<1>3. Elsewhere(h, at) /\ \A u : Exits(h, u, at)
  BY <1>1, <1>2 DEF Elsewhere, Released, Finished, Exits
<1>4. PICK todo \in Seq(Users) : todo = frame[h].failed \o pending[h]
  <2>1. frame[h].failed \in Seq(Users) /\ pending[h] \in Seq(Users)
    BY <1>1 DEF SessionInv, SessionTypes, Frames
  <2>2. PICK a \in Seq(Users), b \in Seq(Users) : a = frame[h].failed /\ b = pending[h]
    BY <2>1
  <2>3. a \o b \in Seq(Users)
    OBVIOUS
  <2> QED BY <2>2, <2>3
<1>5. CASE todo = <<>>
  <2>1. UNCHANGED sess /\ Return(h, at)
    BY <1>2, <1>4, <1>5 DEF EndBroadcast
  <2>2. Shrinks
    BY <2>1 DEF Shrinks, SessionInv, SessionTypes
  <2>3. at = "leaving" /\ current # 0 =>
          \A i \in Live(sess'[current].entries) : sess'[current].entries[i] # h
    BY <1>2, <2>1 DEF SessionInv, Gone
  <2> QED BY <1>3, <2>1, <2>2, <2>3, ReturnKeeps
<1>6. CASE todo # <<>>
  <2>1. Head(todo) \in Users /\ Tail(todo) \in Seq(Users)
    BY <1>6
  <2>2. LeaveSession(h, Head(todo), Tail(todo), at)
    BY <1>2, <1>4, <1>6 DEF EndBroadcast
  <2> QED BY <1>3, <2>1, <2>2, LeaveSessionKeeps
<1> QED BY <1>5, <1>6

\* Without a session nobody is registered.
LEMMA CleanupKeeps ==
  ASSUME SessionInv, Cleanup
  PROVE  SessionInv'
<1>1. /\ current' = 0
      /\ UNCHANGED <<sess, idle, alive, pc, obj, frame, pending, base, got, upset>>
  BY DEF Cleanup
<1>2. SessionTypes' /\ CurrentIsNewest' /\ OwnObject' /\ Gone' /\ FramesTrue'
  <2>1. SessionTypes'
    BY <1>1 DEF SessionInv, SessionTypes
  <2>2. CurrentIsNewest' /\ Gone'
    BY <1>1 DEF CurrentIsNewest, Gone
  <2>3. OwnObject' /\ FramesTrue'
    BY <1>1 DEF SessionInv, OwnObject, FramesTrue
  <2> QED BY <2>1, <2>2, <2>3
<1>3. Informing'
  <2> SUFFICES ASSUME NEW o \in 1..Len(sess), NEW i \in Live(sess[o].entries),
                      NEW r \in 1..Len(sess[o].log), Owed(o, sess[o].entries[i], r)'
               PROVE  r \in got[sess[o].entries[i]] \/ Coming(o, i, r)' \/ <<o, r>> \in upset
    BY <1>1 DEF Informing
  <2>1. Owed(o, sess[o].entries[i], r)
    BY <1>1 DEF Owed
  <2> QED BY <1>1, <2>1 DEF SessionInv, Informing, Coming
<1> QED BY <1>2, <1>3 DEF SessionInv
-----------------------------------------------------------------------------
(* The theorems.                                                           *)

LEMMA SessionInit == Init => SessionInv
<1> SUFFICES ASSUME Init PROVE SessionInv
  OBVIOUS
<1>1. SessionTypes
  <2>1. "new" \in Places /\ <<>> \in Seq(Users) /\ <<>> \in Seq(SessionRows) /\ Len(<<>>) = 0
    BY DEF Places
  <2> QED BY <2>1 DEF Init, SessionTypes
<1>2. CurrentIsNewest /\ OwnObject /\ Gone /\ FramesTrue /\ Informing
  BY DEF Init, CurrentIsNewest, OwnObject, Gone, FramesTrue, Informing
<1> QED BY <1>1, <1>2 DEF SessionInv

LEMMA SessionNext ==
  ASSUME SessionInv, [Next]_vars
  PROVE  SessionInv'
<1>1. CASE UNCHANGED vars
  BY <1>1, NothingChanged DEF vars
<1>2. ASSUME NEW h \in Handlers, Connect(h) PROVE SessionInv'
  BY <1>2, ConnectKeeps
<1>3. ASSUME NEW h \in Handlers, Disconnect(h) PROVE SessionInv'
  BY <1>3, DisconnectKeeps
<1>4. ASSUME NEW h \in Handlers, HandleOperation(h) PROVE SessionInv'
  BY <1>4, HandleOperationKeeps
<1>5. ASSUME NEW h \in Handlers, UpdateCursor(h) PROVE SessionInv'
  BY <1>5, UpdateCursorKeeps
<1>6. ASSUME NEW h \in Handlers, Resume(h) PROVE SessionInv'
  BY <1>6, RegisterKeeps, AcceptFailsKeeps, NoticeKeeps, SendNextKeeps, AbortBroadcastKeeps,
     EndBroadcastKeeps DEF Resume
<1>7. ASSUME Age PROVE SessionInv'
  BY <1>7, NothingChanged DEF Age
<1> QED BY <1>1, <1>2, <1>3, <1>4, <1>5, <1>6, <1>7, CleanupKeeps DEF Next

LEMMA SessionAlways == Spec => []SessionInv
<1>1. Init => SessionInv
  BY SessionInit
<1>2. SessionInv /\ [Next]_vars => SessionInv'
  BY SessionNext
<1> QED BY <1>1, <1>2, PTL DEF Spec

\* A handler that has ended is in nobody's session, with any number of sockets of
\* any users, whatever is interrupted, evicted or deleted in between (join_session,
\* leave_session and the endpoint's finally clause).
THEOREM SessionsHaveNoGhosts == Spec => []NoGhost
<1>1. ASSUME SessionInv PROVE NoGhost
  BY <1>1 DEF SessionInv, SessionTypes, Gone, NoGhost, Registered
<1> QED BY <1>1, SessionAlways, PTL

\* Who is registered and served knows every operation of the others since its
\* session_state, or a broadcast of it is under way, was interrupted or had its table
\* made anew, whoever joins, reconnects or is evicted meanwhile, however large the
\* tables are (handle_operation and _broadcast_to_session).
THEOREM SessionsStayInformed == Spec => []StayedInformed
<1>1. ASSUME SessionInv PROVE StayedInformed
  <2> SUFFICES ASSUME NEW h \in Registered \cap alive, pc[h] = "serving",
                      NEW r \in Missing(h)
               PROVE  <<obj[h], r>> \in upset
    BY DEF StayedInformed
  <2>1. PICK i \in Live(sess[current].entries) : current # 0 /\ h = sess[current].entries[i]
    BY DEF Registered
  <2>2. current \in 1..Len(sess) /\ obj[h] = current
    BY <1>1, <2>1 DEF SessionInv, SessionTypes, OwnObject
  <2>3. /\ r \in (base[h] + 1)..Len(sess[current].log)
        /\ UserOf[sess[current].log[r]] # UserOf[h] /\ r \notin got[h]
        /\ \A g \in Handlers : frame[g] # None /\ frame[g].o = current => frame[g].msg # r
    BY <2>2 DEF Missing
  <2>4. base[h] \in Nat /\ Len(sess[current].log) \in Nat
    BY <1>1, <2>2, Rows DEF SessionInv, SessionTypes
  <2>5. r \in 1..Len(sess[current].log) /\ base[h] < r
    BY <2>3, <2>4
  <2>6. Owed(current, h, r)
    BY <2>3, <2>5 DEF Owed
  <2> QED BY <1>1, <2>1, <2>2, <2>3, <2>5, <2>6 DEF SessionInv, Informing, Coming
<1> QED BY <1>1, SessionAlways, PTL
=============================================================================
