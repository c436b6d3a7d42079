----------------------------- MODULE DataProofs -----------------------------
(***************************************************************************)
(* Proofs about the data: the cache and the row it is of, records and      *)
(* their audit rows, the audit trail made of events, and notifications, for *)
(* any processes, readers, calls, names, topics, events, sockets, channels *)
(* and bounds; and the types of all components.                            *)
(***************************************************************************)
EXTENDS RunsProofs

\* Whatever moves, each of these components takes a step of its own or none.
LEMMA DataSteps ==
  ASSUME [Next]_vars
  PROVE  /\ [CA!Next]_(CA!cvars) /\ [RE!Next]_(RE!rvars)
         /\ [AT!Next]_(AT!uvars) /\ [NO!Next]_(NO!nvars)
  BY DEF Next, Others, vars, cacheVars, recordsVars, auditVars, notificationVars,
         CA!cvars, RE!rvars, AT!uvars, NO!nvars

-----------------------------------------------------------------------------

Entries == [v : Int, late : BOOLEAN, ttl : BOOLEAN]
ReaderPlaces == {"idle", "asking", "hit", "miss", "storing"}
ReaderRows == [p : Processes, at : ReaderPlaces, v : Int]
TaskRows == [p : Processes, at : {"new", "deleting"}, for : Int]

CacheTypes ==
    /\ row \in [v : Nat, live : BOOLEAN]
    /\ DOMAIN writer = 1..MaxVersion
    /\ memory \in [Processes -> Entries]
    /\ shared \in Entries
    /\ reader \in [Readers -> ReaderRows]
    /\ tasks \subseteq TaskRows

\* Entry e is no older than the row, or was already when it was stored.
Explained(e) == e = CA!Nothing \/ e.late \/ row.v <= e.v

\* An entry of memory that is outdated without having been so when it was stored
\* waits for a task that has not begun, since a task empties the memory as soon as
\* it begins; or other processes wrote.
MemoryExplained(p) ==
    \/ Explained(memory[p])
    \/ \E t \in tasks : t.p = p /\ t.at = "new"
    \/ \A v \in memory[p].v + 1 .. row.v : writer[v] # p

SharedExplained == Explained(shared) \/ tasks # {} \/ missed

CacheInv == CacheTypes /\ SharedExplained /\ \A p \in Processes : MemoryExplained(p)

LEMMA NothingIsEntry == CA!Nothing \in Entries /\ Explained(CA!Nothing)
  BY DEF CA!Nothing, Entries, Explained

LEMMA CacheInit == CA!Init => CacheInv
<1> SUFFICES ASSUME CA!Init PROVE CacheInv
  OBVIOUS
<1>1. reader \in [Readers -> ReaderRows]
  BY DEF CA!Init, CA!Idle, ReaderRows, ReaderPlaces
<1>2. CacheTypes
  BY <1>1, NothingIsEntry DEF CA!Init, CacheTypes
<1> QED BY <1>2, NothingIsEntry DEF CA!Init, CacheInv, SharedExplained, MemoryExplained

\* An entry stored now is late exactly when it is older than the row.
LEMMA EntryExplained ==
  ASSUME CacheInv, NEW v \in Int, NEW ttl \in BOOLEAN
  PROVE  CA!Entry(v, ttl) \in Entries /\ Explained(CA!Entry(v, ttl))
<1>1. row.v \in Nat
  BY DEF CacheInv, CacheTypes
<1>2. CA!Entry(v, ttl) \in Entries
  BY DEF CA!Entry, Entries
<1>3. CA!Entry(v, ttl).v = v /\ (v # row.v => CA!Entry(v, ttl).late)
  BY DEF CA!Entry
<1>4. CASE v # row.v
  BY <1>2, <1>3, <1>4 DEF Explained
<1>5. CASE v = row.v
  <2>1. row.v <= CA!Entry(v, ttl).v
    BY <1>1, <1>3, <1>5
  <2> QED BY <1>2, <2>1 DEF Explained
<1> QED BY <1>4, <1>5

\* A reader goes to a place.
LEMMA GoTypes ==
  ASSUME CacheInv, NEW r \in Readers, NEW at \in ReaderPlaces, NEW v \in Int, CA!Go(r, at, v)
  PROVE  reader' \in [Readers -> ReaderRows]
  BY DEF CA!Go, CacheInv, CacheTypes, ReaderRows

LEMMA APlace ==
  /\ \A at \in {"idle", "asking", "hit", "miss", "storing"} : at \in ReaderPlaces
  /\ -1 \in Int
  BY DEF ReaderPlaces

\* What a reader does to the memory of its process.
LEMMA RememberKeeps ==
  ASSUME CacheInv, NEW r \in Readers, NEW v \in Int,
         CA!Remember(reader[r].p, v), CA!Go(r, "idle", -1) \/ CA!Go(r, "storing", v),
         UNCHANGED <<row, writer, shared, tasks, missed>>
  PROVE  CacheInv'
<1> DEFINE e == CA!Entry(v, FALSE)
<1>1. e \in Entries /\ Explained(e)
  BY EntryExplained
<1>2. reader[r].p \in Processes
  BY DEF CacheInv, CacheTypes, ReaderRows
<1>3. /\ memory' \in [Processes -> Entries]
      /\ \A p \in Processes : memory'[p] = memory[p] \/ memory'[p] = e
  BY <1>1, <1>2 DEF CA!Remember, CacheInv, CacheTypes
<1>4. reader' \in [Readers -> ReaderRows]
  BY GoTypes, APlace
<1> HIDE DEF e
<1>5. CacheTypes'
  BY <1>3, <1>4 DEF CacheInv, CacheTypes
<1>6. \A p \in Processes : MemoryExplained(p)'
  BY <1>1, <1>3 DEF CacheInv, MemoryExplained, Explained
<1> QED BY <1>5, <1>6 DEF CacheInv, SharedExplained, Explained

\* A reader goes on, and nothing else changes.
LEMMA ReaderKeeps ==
  ASSUME CacheInv, reader' \in [Readers -> ReaderRows],
         UNCHANGED <<row, writer, memory, shared, tasks, missed>>
  PROVE  CacheInv'
  BY DEF CacheInv, CacheTypes, SharedExplained, MemoryExplained, Explained

LEMMA ReadKeeps ==
  ASSUME CacheInv, NEW r \in Readers, CA!Read(r)
  PROVE  CacheInv'
<1>1. /\ reader[r].v \in Int /\ shared.v \in Int /\ row.v \in Int
      /\ reader \in [Readers -> ReaderRows]
  BY DEF CacheInv, CacheTypes, ReaderRows, Entries
<1>2. CASE CA!Get(r)
  <2>1. reader' \in [Readers -> ReaderRows]
    BY <1>1, <1>2, GoTypes, APlace DEF CA!Get
  <2> QED BY <1>2, <2>1, ReaderKeeps DEF CA!Get
<1>3. CASE CA!Answer(r)
  <2>1. reader' \in [Readers -> ReaderRows]
    BY <1>1, <1>3, GoTypes, APlace DEF CA!Answer
  <2> QED BY <1>3, <2>1, ReaderKeeps DEF CA!Answer
<1>4. CASE CA!Hit(r)
  BY <1>1, <1>4, RememberKeeps DEF CA!Hit
<1>5. CASE CA!Miss(r)
  <2>1. CASE row.live
    BY <1>1, <1>5, <2>1, RememberKeeps DEF CA!Miss
  <2>2. CASE ~row.live
    <3>1. reader' \in [Readers -> ReaderRows]
      BY <1>1, <1>5, <2>2, GoTypes, APlace DEF CA!Miss
    <3> QED BY <1>5, <2>2, <3>1, ReaderKeeps DEF CA!Miss
  <2> QED BY <2>1, <2>2
<1>6. CASE CA!Store(r)
  <2>1. reader' \in [Readers -> ReaderRows]
    BY <1>1, <1>6, GoTypes, APlace DEF CA!Store
  <2>2. shared' = shared \/ (shared' \in Entries /\ Explained(shared'))
    <3>1. CA!Entry(reader[r].v, TRUE) \in Entries /\ Explained(CA!Entry(reader[r].v, TRUE))
      BY <1>1, EntryExplained
    <3> QED BY <1>6, <3>1 DEF CA!Store, CA!Stored
  <2>3. UNCHANGED <<row, writer, memory, tasks, missed>>
    BY <1>6 DEF CA!Store
  <2>4. SharedExplained'
    BY <2>2, <2>3 DEF CacheInv, SharedExplained, Explained
  <2>5. \A p \in Processes : MemoryExplained(p)'
    BY <2>3 DEF CacheInv, MemoryExplained, Explained
  <2> QED BY <2>1, <2>2, <2>3, <2>4, <2>5 DEF CacheInv, CacheTypes
<1> QED BY <1>2, <1>3, <1>4, <1>5, <1>6 DEF CA!Read

\* A write: its own process has a task from now on, and every other process sees
\* a version that it did not write.
LEMMA WriteKeeps ==
  ASSUME CacheInv, NEW q \in Processes, CA!Write(q)
  PROVE  CacheInv'
<1> DEFINE n == row.v + 1
<1>1. /\ row.v < MaxVersion /\ tasks' = tasks \cup {CA!Task(q)}
      /\ \/ /\ \E alive \in BOOLEAN : row' = [v |-> n, live |-> alive]
            /\ writer' = [writer EXCEPT ![n] = q]
         \/ UNCHANGED <<row, writer>>
      /\ UNCHANGED <<memory, shared, reader, missed>>
  BY DEF CA!Write
<1>2. row.v \in Nat /\ n \in 1..MaxVersion /\ DOMAIN writer = 1..MaxVersion
  BY <1>1, ServicesAssumption DEF CacheInv, CacheTypes
<1>3. CA!Task(q) \in TaskRows /\ CA!Task(q).p = q /\ CA!Task(q).at = "new"
  BY <1>2 DEF CA!Task, TaskRows
<1>4. CacheTypes'
  BY <1>1, <1>2, <1>3 DEF CacheInv, CacheTypes
<1>5. SharedExplained'
  BY <1>1 DEF SharedExplained
<1>6. ASSUME NEW p \in Processes PROVE MemoryExplained(p)'
  <2>1. CASE p = q
    BY <1>1, <1>3, <2>1 DEF MemoryExplained
  <2>2. CASE p # q /\ UNCHANGED <<row, writer>>
    BY <1>1, <2>2 DEF CacheInv, MemoryExplained, Explained
  <2>3. CASE p # q /\ row'.v = n /\ writer' = [writer EXCEPT ![n] = q]
    <3>1. \A v \in 1..MaxVersion : writer'[v] = IF v = n THEN q ELSE writer[v]
      BY <1>2, <2>3
    <3>2. memory'[p] = memory[p] /\ memory[p].v \in Int
      BY <1>1 DEF CacheInv, CacheTypes, Entries
    <3>3. CASE \E t \in tasks : t.p = p /\ t.at = "new"
      BY <1>1, <3>3 DEF MemoryExplained
    <3>4. CASE memory[p] = CA!Nothing \/ memory[p].late
      BY <3>2, <3>4 DEF MemoryExplained, Explained
    <3>5. CASE row.v <= memory[p].v
      <4>1. \A v \in memory[p].v + 1 .. n : v = n
        BY <1>2, <3>2, <3>5
      <4>2. writer'[n] = q
        BY <1>2, <3>1
      <4> QED BY <2>3, <3>2, <4>1, <4>2 DEF MemoryExplained
    <3>6. CASE \A v \in memory[p].v + 1 .. row.v : writer[v] # p
      <4>1. ASSUME NEW v \in memory[p].v + 1 .. n PROVE writer'[v] # p
        <5>1. CASE v = n
          BY <1>2, <2>3, <3>1, <5>1
        <5>2. CASE v # n
          <6>1. v \in memory[p].v + 1 .. row.v
            BY <1>2, <3>2, <5>2
          <6>2. writer[v] # p
            BY <6>1, <3>6
          <6>3. writer'[v] = writer[v]
            BY <2>3, <5>2
          <6> QED BY <6>2, <6>3
        <5> QED BY <5>1, <5>2
      <4> QED BY <2>3, <3>2, <4>1 DEF MemoryExplained
    <3> QED BY <3>3, <3>4, <3>5, <3>6 DEF CacheInv, MemoryExplained, Explained
  <2>4. (row'.v = n /\ writer' = [writer EXCEPT ![n] = q]) \/ UNCHANGED <<row, writer>>
    BY <1>1
  <2> QED BY <2>1, <2>2, <2>3, <2>4
<1> QED BY <1>4, <1>5, <1>6 DEF CacheInv

LEMMA InvalidateKeeps ==
  ASSUME CacheInv, NEW t \in tasks, CA!Invalidate(t)
  PROVE  CacheInv'
<1> DEFINE u == [t EXCEPT !.at = "deleting"]
<1>1. /\ memory' = [memory EXCEPT ![t.p] = CA!Nothing] /\ tasks' = (tasks \ {t}) \cup {u}
      /\ UNCHANGED <<row, writer, shared, reader, missed>>
  BY DEF CA!Invalidate
<1>2. t \in TaskRows /\ t.p \in Processes /\ u \in TaskRows
  BY DEF CacheInv, CacheTypes, TaskRows
<1>3. /\ memory' \in [Processes -> Entries] /\ memory'[t.p] = CA!Nothing
      /\ \A p \in Processes : p # t.p => memory'[p] = memory[p]
  BY <1>1, <1>2, NothingIsEntry DEF CacheInv, CacheTypes
<1>4. CacheTypes'
  BY <1>1, <1>2, <1>3 DEF CacheInv, CacheTypes
<1>5. SharedExplained'
  BY <1>1 DEF SharedExplained
<1>6. ASSUME NEW p \in Processes PROVE MemoryExplained(p)'
  <2>1. CASE p = t.p
    BY <1>3, <2>1 DEF MemoryExplained, Explained
  <2>2. CASE p # t.p
    <3>1. \A o \in tasks : o.p = p => o \in tasks'
      BY <1>1, <2>2
    <3> QED BY <1>1, <1>3, <2>2, <3>1 DEF CacheInv, MemoryExplained, Explained
  <2> QED BY <2>1, <2>2
<1> QED BY <1>4, <1>5, <1>6 DEF CacheInv

LEMMA DropKeeps ==
  ASSUME CacheInv, NEW t \in tasks, CA!Drop(t)
  PROVE  CacheInv'
<1>1. /\ t.at = "deleting" /\ tasks' = tasks \ {t}
      /\ (shared' = CA!Nothing \/ (missed' = TRUE /\ shared' = shared))
      /\ UNCHANGED <<row, writer, memory, reader>>
  BY DEF CA!Drop
<1>2. CacheTypes'
  BY <1>1, NothingIsEntry DEF CacheInv, CacheTypes
<1>3. SharedExplained'
  BY <1>1 DEF SharedExplained, Explained
<1>4. \A o \in tasks : o.at = "new" => o \in tasks'
  BY <1>1
<1>5. \A p \in Processes : MemoryExplained(p)'
  BY <1>1, <1>4 DEF CacheInv, MemoryExplained, Explained
<1> QED BY <1>2, <1>3, <1>5 DEF CacheInv

LEMMA ExpireKeeps ==
  ASSUME CacheInv, CA!Expire
  PROVE  CacheInv'
<1>1. shared' = CA!Nothing /\ UNCHANGED <<row, writer, memory, reader, tasks, missed>>
  BY DEF CA!Expire
<1>2. CacheTypes'
  BY <1>1, NothingIsEntry DEF CacheInv, CacheTypes
<1> QED BY <1>1, <1>2 DEF CacheInv, SharedExplained, MemoryExplained, Explained

LEMMA CrashKeeps ==
  ASSUME CacheInv, NEW q \in Processes, CA!Crash(q)
  PROVE  CacheInv'
<1>1. /\ memory' = [memory EXCEPT ![q] = CA!Nothing]
      /\ reader' = [r \in Readers |-> IF reader[r].p = q THEN CA!Idle(q) ELSE reader[r]]
      /\ tasks' = {t \in tasks : t.p # q}
      /\ missed' = (missed \/ tasks' # tasks)
      /\ UNCHANGED <<row, writer, shared>>
  BY DEF CA!Crash
<1>2. /\ memory' \in [Processes -> Entries] /\ memory'[q] = CA!Nothing
      /\ \A p \in Processes : p # q => memory'[p] = memory[p]
  BY <1>1, NothingIsEntry DEF CacheInv, CacheTypes
<1>3. reader' \in [Readers -> ReaderRows]
  BY <1>1 DEF CA!Idle, ReaderRows, ReaderPlaces, CacheInv, CacheTypes
<1>4. CacheTypes'
  BY <1>1, <1>2, <1>3 DEF CacheInv, CacheTypes
<1>5. SharedExplained'
  <2>1. CASE tasks' = tasks
    BY <1>1, <2>1 DEF CacheInv, SharedExplained, Explained
  <2>2. CASE tasks' # tasks
    BY <1>1, <2>2 DEF SharedExplained
  <2> QED BY <2>1, <2>2
<1>6. ASSUME NEW p \in Processes PROVE MemoryExplained(p)'
  <2>1. CASE p = q
    BY <1>2, <2>1 DEF MemoryExplained, Explained
  <2>2. CASE p # q
    <3>1. \A o \in tasks : o.p = p => o \in tasks'
      BY <1>1, <2>2
    <3> QED BY <1>1, <1>2, <2>2, <3>1 DEF CacheInv, MemoryExplained, Explained
  <2> QED BY <2>1, <2>2
<1> QED BY <1>4, <1>5, <1>6 DEF CacheInv

\* The invariant is inductive.
LEMMA CacheNext ==
  ASSUME CacheInv, [CA!Next]_(CA!cvars)
  PROVE  CacheInv'
<1>1. CASE UNCHANGED CA!cvars
  BY <1>1 DEF CA!cvars, CacheInv, CacheTypes, SharedExplained, MemoryExplained, Explained
<1> QED BY <1>1, ReadKeeps, WriteKeeps, InvalidateKeeps, DropKeeps, ExpireKeeps, CrashKeeps
        DEF CA!Next, CA!Invalidating

\* An outdated entry, in memory or in Redis, has one of the known causes, with any
\* number of replicas, readers, writes and faults (cache/cache_manager.py).
THEOREM CacheCorrect == Spec => []StaleExplained
<1>1. Init => CacheInv
  BY CacheInit DEF Init
<1>2. CacheInv /\ [Next]_vars => CacheInv'
  BY DataSteps, CacheNext
<1>3. ASSUME CacheInv PROVE StaleExplained
  <2>1. row.v \in Int /\ shared.v \in Int /\ \A p \in Processes : memory[p].v \in Int
    BY <1>3 DEF CacheInv, CacheTypes, Entries
  <2>2. CA!Stale(shared) => ~Explained(shared) \/ shared.late
    BY <2>1 DEF CA!Stale, Explained
  <2>3. \A p \in Processes : CA!Stale(memory[p]) => ~Explained(memory[p]) \/ memory[p].late
    BY <2>1 DEF CA!Stale, Explained
  <2>4. \A p \in Processes : CA!Stale(memory[p]) =>
         \/ memory[p].late
         \/ \E t \in tasks : t.p = p
         \/ \A v \in memory[p].v + 1 .. row.v : writer[v] # p
    BY <1>3, <2>3 DEF CacheInv, MemoryExplained
  <2> QED BY <1>3, <2>2, <2>4 DEF CacheInv, SharedExplained, StaleExplained, CA!StaleExplained
<1> QED BY <1>1, <1>2, <1>3, PTL DEF Spec

-----------------------------------------------------------------------------
(* The recursive functions over exception classes say what they are meant  *)
(* to: there are finitely many classes, at most two steps below "Exception"*)
(* or a class that has a handler, so that a function that satisfies each   *)
(* recursion can be written down, and CHOOSE picks one that does.          *)

Up(c) == IF c = "Exception" THEN c ELSE RE!Base[c]

LEMMA UpIsAClass == \A c \in RE!Classes : Up(c) \in RE!Classes
  BY DEF RE!Classes, Up, RE!Base

LEMMA HandlerIsNear ==
  \A c \in RE!Classes : c \in RE!Handled \/ Up(c) \in RE!Handled \/ Up(Up(c)) \in RE!Handled
  BY DEF RE!Classes, RE!Handled, Up, RE!Base

LEMMA HandlerUnfolds ==
  RE!HandlerOf = [c \in RE!Classes |-> IF c \in RE!Handled THEN c ELSE RE!HandlerOf[RE!Base[c]]]
<1> DEFINE H == RE!Handled
           g == [c \in RE!Classes |->
                    IF c \in H THEN c ELSE IF Up(c) \in H THEN Up(c) ELSE Up(Up(c))]
<1>1. "Exception" \in H
  BY DEF RE!Handled
<1>2. \A c \in RE!Classes : c \notin H => RE!Base[c] = Up(c) /\ Up(c) \in RE!Classes
  BY <1>1, UpIsAClass DEF Up
<1>3. g = [c \in RE!Classes |-> IF c \in RE!Handled THEN c ELSE g[RE!Base[c]]]
  BY <1>2, HandlerIsNear
<1> HIDE DEF g
<1>4. \E f : f = [c \in RE!Classes |-> IF c \in RE!Handled THEN c ELSE f[RE!Base[c]]]
  BY <1>3
<1> QED BY <1>4 DEF RE!HandlerOf

LEMMA RootIsNear == \A c \in RE!Classes : Up(Up(Up(c))) = "Exception"
  BY DEF RE!Classes, Up, RE!Base

LEMMA MroUnfolds ==
  RE!Mro = [c \in RE!Classes |-> {c} \cup (IF c = "Exception" THEN {} ELSE RE!Mro[RE!Base[c]])]
<1> DEFINE g == [c \in RE!Classes |-> {c, Up(c), Up(Up(c)), Up(Up(Up(c)))}]
<1>1. \A c \in RE!Classes : c # "Exception" => RE!Base[c] = Up(c) /\ Up(c) \in RE!Classes
  BY UpIsAClass DEF Up
<1>2. Up("Exception") = "Exception"
  BY DEF Up
<1>3. ASSUME NEW c \in RE!Classes
      PROVE  g[c] = {c} \cup (IF c = "Exception" THEN {} ELSE g[RE!Base[c]])
  <2>1. CASE c = "Exception"
    BY <1>2, <2>1
  <2>2. CASE c # "Exception"
    <3>1. g[RE!Base[c]] = {Up(c), Up(Up(c)), Up(Up(Up(c))), Up(Up(Up(Up(c))))}
      BY <1>1, <2>2
    <3>2. Up(Up(Up(Up(c)))) = Up(Up(Up(c)))
      BY <1>2, RootIsNear
    <3> QED BY <2>2, <3>1, <3>2
  <2> QED BY <2>1, <2>2
<1>4. g = [c \in RE!Classes |-> {c} \cup (IF c = "Exception" THEN {} ELSE g[RE!Base[c]])]
  BY <1>3
<1> HIDE DEF g
<1>5. \E f : f = [c \in RE!Classes |-> {c} \cup (IF c = "Exception" THEN {} ELSE f[RE!Base[c]])]
  BY <1>4
<1> QED BY <1>5 DEF RE!Mro

\* What the database raises other than for a constraint is answered with 500.
LEMMA DatabaseErrorsAre500 ==
  ASSUME NEW c \in {"SQLAlchemyError", "OperationalError"}
  PROVE  RE!Status(c) = "s500"
<1>1. /\ "SQLAlchemyError" \in RE!Classes /\ "OperationalError" \in RE!Classes
      /\ "Exception" \in RE!Classes
      /\ RE!Base["SQLAlchemyError"] = "Exception"
      /\ RE!Base["OperationalError"] = "SQLAlchemyError"
  BY DEF RE!Classes, RE!Base
<1>2. "SQLAlchemyError" \in RE!Handled /\ "OperationalError" \notin RE!Handled
  BY DEF RE!Handled
<1>3. RE!HandlerOf[c] = "SQLAlchemyError"
  BY <1>1, <1>2, HandlerUnfolds
<1>4. "IntegrityError" \notin RE!Mro[c]
  BY <1>1, MroUnfolds
<1> QED BY <1>3, <1>4 DEF RE!Status

-----------------------------------------------------------------------------

OpPlaces == {"new", "found", "loaded", "written", "done", "lost"}
RowStates == {"absent", "active", "inactive"}
Ids == Names \cup Ops
OpKinds == {"create", "clone", "rename", "reveal", "change", "soft_delete", "delete"}
Raisings == {"nothing", "ValidationError", "ResourceAlreadyExistsError", "ScriptValidationError",
             "ResourceNotFoundError", "IntegrityError", "SQLAlchemyError", "OperationalError"}
OpRows == [at : OpPlaces, kind : OpKinds, name : DOMAIN Sanitized, id : Ids, raised : Raisings]
RecordRows == [state : RowStates, id : Ids]

RecordsTypes ==
    /\ record \in [Names -> RecordRows]
    /\ op \in [Ops -> OpRows]
    /\ service \in {"secrets", "scripts"}
    /\ \A o \in Ops : op[o].kind \in RE!Kinds[service]

Audited(o) == service = "secrets" /\ op[o].kind \in {"create", "reveal", "change"}

\* A call that has not committed has raised nothing and written nothing; one that
\* has and raises, raises what is answered with 500.
Told(o) ==
    /\ op[o].at \in {"new", "found", "loaded"} =>
         op[o].raised = "nothing" /\ o \notin written
    /\ op[o].at = "written" => op[o].raised = "nothing" /\ o \in written /\ Audited(o)
    /\ op[o].at = "done" =>
         IF op[o].raised = "nothing" THEN o \in written /\ (Audited(o) => o \in audit)
         ELSE o \in written => op[o].raised \in {"SQLAlchemyError", "OperationalError"}
    /\ op[o].at = "lost" => op[o].raised = "nothing"

\* A call that has checked its name and is not excused finds it free.
Checked(o) ==
    /\ op[o].at = "loaded" /\ op[o].kind \in {"create", "clone", "rename"} /\ o \notin excused =>
         record[RE!RowOf(o)].state = "absent"
    /\ op[o].raised = "IntegrityError" => o \in excused

RecordsInv ==
    /\ RecordsTypes
    /\ audit \subseteq written
    /\ \A o \in Ops : Told(o) /\ Checked(o)

LEMMA RowOfIsAName ==
  ASSUME RecordsTypes, NEW o \in Ops
  PROVE  RE!RowOf(o) \in Names
  BY ServicesAssumption DEF RecordsTypes, OpRows, RE!RowOf

LEMMA RecordsInit == RE!Init => RecordsInv
<1> SUFFICES ASSUME RE!Init PROVE RecordsInv
  OBVIOUS
<1>1. service \in {"secrets", "scripts"}
  BY DEF RE!Init, RE!Kinds
<1>2. RE!Kinds[service] \subseteq OpKinds
  BY <1>1 DEF RE!Kinds, OpKinds
<1>3. \A n \in DOMAIN Sanitized : n \in Ids
  BY ServicesAssumption DEF Ids
<1>4. op \in [Ops -> OpRows]
  <2>1. "new" \in OpPlaces /\ "nothing" \in Raisings
    BY DEF OpPlaces, Raisings
  <2>2. {[at |-> "new", kind |-> k, name |-> n, id |-> n, raised |-> "nothing"] :
            k \in RE!Kinds[service], n \in DOMAIN Sanitized} \subseteq OpRows
    BY <1>2, <1>3, <2>1 DEF OpRows
  <2> QED BY <2>2 DEF RE!Init
<1>5. \A o \in Ops : op[o].at = "new" /\ op[o].raised = "nothing"
  BY DEF RE!Init
<1>6. record \in [Names -> RecordRows] /\ \A o \in Ops : op[o].kind \in RE!Kinds[service]
  BY DEF RE!Init, RecordRows, RowStates, Ids
<1>7. \A o \in Ops : Told(o) /\ Checked(o)
  BY <1>5 DEF RE!Init, Told, Checked
<1> QED BY <1>1, <1>4, <1>6, <1>7 DEF RecordsInv, RecordsTypes, RE!Init

\* A step of call o: the others stay where they are, and their names stay free
\* unless they are excused for it.
LEMMA OneOpMoves ==
  ASSUME RecordsInv, NEW o \in Ops, service' = service,
         op' \in [Ops -> OpRows], \A q \in Ops : q # o => op'[q] = op[q],
         op'[o].kind = op[o].kind,
         record' \in [Names -> RecordRows],
         \A q \in Ops : q # o /\ RE!RowOf(q)' = RE!RowOf(q) =>
             (record[RE!RowOf(q)].state = "absent" /\ op[q].at = "loaded"
              /\ op[q].kind \in {"create", "clone", "rename"} /\ q \notin excused' =>
                  record'[RE!RowOf(q)].state = "absent"),
         written' = written \/ written' = written \cup {o},
         audit' = audit \/ audit' = audit \cup {o}, audit' \subseteq written',
         excused \subseteq excused',
         Told(o)', Checked(o)'
  PROVE  RecordsInv'
<1>1. RecordsTypes'
  BY DEF RecordsInv, RecordsTypes
<1>2. ASSUME NEW q \in Ops, q # o PROVE Told(q)' /\ Checked(q)'
  <2>1. /\ op'[q] = op[q] /\ (q \in written' <=> q \in written) /\ (q \in audit' <=> q \in audit)
        /\ RE!RowOf(q)' = RE!RowOf(q) /\ (q \in excused => q \in excused')
    BY <1>2 DEF RE!RowOf
  <2>2. Told(q) /\ Checked(q)
    BY DEF RecordsInv
  <2>3. Told(q)'
    BY <2>1, <2>2 DEF Told, Audited
  <2>4. Checked(q)'
    BY <1>2, <2>1, <2>2 DEF Checked
  <2> QED BY <2>3, <2>4
<1> QED BY <1>1, <1>2 DEF RecordsInv

\* Call o goes to a place, or ends by raising.
LEMMA GoOn ==
  ASSUME RecordsInv, NEW o \in Ops, NEW place \in OpPlaces, RE!Go(o, place)
  PROVE  /\ op' \in [Ops -> OpRows] /\ \A q \in Ops : q # o => op'[q] = op[q]
         /\ op'[o].at = place /\ op'[o].kind = op[o].kind /\ op'[o].name = op[o].name
         /\ op'[o].raised = op[o].raised
  BY DEF RE!Go, RecordsInv, RecordsTypes, OpRows

LEMMA RaiseAndEnd ==
  ASSUME RecordsInv, NEW o \in Ops, NEW e \in Raisings, RE!Raise(o, e)
  PROVE  /\ op' \in [Ops -> OpRows] /\ \A q \in Ops : q # o => op'[q] = op[q]
         /\ op'[o].at = "done" /\ op'[o].kind = op[o].kind /\ op'[o].name = op[o].name
         /\ op'[o].raised = e
<1>1. "done" \in OpPlaces
  BY DEF OpPlaces
<1> QED BY <1>1 DEF RE!Raise, RecordsInv, RecordsTypes, OpRows

LEMMA APlaceAndAnError ==
  /\ \A at \in {"new", "found", "loaded", "written", "done", "lost"} : at \in OpPlaces
  /\ \A e \in {"ValidationError", "ResourceAlreadyExistsError", "ScriptValidationError",
               "ResourceNotFoundError", "IntegrityError", "SQLAlchemyError", "OperationalError"} :
        e \in Raisings /\ e # "nothing"
  BY DEF OpPlaces, Raisings

\* Call o raises and changes nothing.
LEMMA RaiseKeeps ==
  ASSUME RecordsInv, NEW o \in Ops, NEW e \in Raisings, RE!Raise(o, e), e # "nothing",
         o \in written => e \in {"SQLAlchemyError", "OperationalError"},
         e = "IntegrityError" => o \in excused,
         excused \subseteq excused', UNCHANGED <<service, record, written, audit>>
  PROVE  RecordsInv'
<1>1. /\ op' \in [Ops -> OpRows] /\ \A q \in Ops : q # o => op'[q] = op[q]
      /\ op'[o].at = "done" /\ op'[o].kind = op[o].kind /\ op'[o].raised = e
  BY RaiseAndEnd
<1>2. Told(o)'
  BY <1>1 DEF Told
<1>3. Checked(o)'
  BY <1>1 DEF Checked
<1>4. audit' \subseteq written' /\ record' \in [Names -> RecordRows]
  BY DEF RecordsInv, RecordsTypes
<1> QED BY <1>1, <1>2, <1>3, <1>4, OneOpMoves

LEMMA ValidateKeeps ==
  ASSUME RecordsInv, NEW o \in Ops, RE!Validate(o)
  PROVE  RecordsInv'
<1>1. /\ op[o].at \in {"new", "found"} /\ UNCHANGED <<service, record, written, audit>>
      /\ excused \subseteq excused'
      /\ record[RE!RowOf(o)].state = "inactive" \/ RE!RowOf(o) # op[o].name => o \in excused'
  BY DEF RE!Validate, RE!At
<1>2. op[o].raised = "nothing" /\ o \notin written
  BY <1>1 DEF RecordsInv, Told
<1>3. CASE RE!NameRefused(o)
  <2>1. PICK e \in {"ValidationError", "ResourceAlreadyExistsError", "ScriptValidationError"} :
            RE!Raise(o, e)
    BY <1>3 DEF RE!NameRefused
  <2>2. e \in Raisings /\ e # "nothing" /\ e # "IntegrityError"
    BY APlaceAndAnError
  <2> QED BY <1>1, <1>2, <2>1, <2>2, RaiseKeeps
<1>4. CASE RE!NameAccepted(o)
  <2>1. RE!Go(o, "loaded") /\ record[op[o].name].state # "active"
    BY <1>4 DEF RE!NameAccepted, RE!Exists
  <2>2. /\ op' \in [Ops -> OpRows] /\ \A q \in Ops : q # o => op'[q] = op[q]
        /\ op'[o].at = "loaded" /\ op'[o].kind = op[o].kind /\ op'[o].name = op[o].name
        /\ op'[o].raised = op[o].raised
    BY <2>1, GoOn, APlaceAndAnError
  <2>3. Told(o)'
    BY <1>1, <1>2, <2>2 DEF Told
  <2>4. RE!RowOf(o)' = RE!RowOf(o)
    BY <1>1, <2>2 DEF RE!RowOf
  <2>5. record[RE!RowOf(o)].state \in RowStates
    BY RowOfIsAName DEF RecordsInv, RecordsTypes, RecordRows
  <2>6. o \notin excused' => record[RE!RowOf(o)].state = "absent"
    BY <1>1, <2>1, <2>5 DEF RowStates
  <2>7. Checked(o)'
    BY <1>1, <1>2, <2>2, <2>4, <2>6 DEF Checked
  <2>8. audit' \subseteq written' /\ record' \in [Names -> RecordRows]
    BY <1>1 DEF RecordsInv, RecordsTypes
  <2> QED BY <1>1, <2>2, <2>3, <2>7, <2>8, OneOpMoves
<1> QED BY <1>3, <1>4 DEF RE!Validate

LEMMA GetOr404Keeps ==
  ASSUME RecordsInv, NEW o \in Ops, RE!GetOr404(o)
  PROVE  RecordsInv'
<1> DEFINE n == IF op[o].kind \in {"rename", "clone"} THEN Source ELSE RE!RowOf(o)
           at == IF op[o].kind \in {"rename", "clone"} THEN "found" ELSE "loaded"
<1>1. /\ op[o].at = "new" /\ op[o].kind # "create"
      /\ UNCHANGED <<service, record, written, audit, excused>>
      /\ \/ RE!Raise(o, "ResourceNotFoundError")
         \/ op' = [op EXCEPT ![o].at = at, ![o].id = record[n].id]
  BY DEF RE!GetOr404, RE!At
<1>2. op[o].raised = "nothing" /\ o \notin written
  BY <1>1 DEF RecordsInv, Told
<1>3. CASE RE!Raise(o, "ResourceNotFoundError")
  BY <1>1, <1>2, <1>3, RaiseKeeps, APlaceAndAnError
<1>4. CASE op' = [op EXCEPT ![o].at = at, ![o].id = record[n].id]
  <2>1. n \in Names
    BY RowOfIsAName, ServicesAssumption DEF RecordsInv
  <2>2. at \in OpPlaces /\ record[n].id \in Ids
    BY <2>1, APlaceAndAnError DEF RecordsInv, RecordsTypes, RecordRows
  <2> HIDE DEF n
  <2>3. at \in {"found", "loaded"} /\ (at = "loaded" => op[o].kind \notin {"rename", "clone", "create"})
    BY <1>1
  <2> HIDE DEF at
  <2>4. /\ op' \in [Ops -> OpRows] /\ \A q \in Ops : q # o => op'[q] = op[q]
        /\ op'[o].at = at /\ op'[o].kind = op[o].kind /\ op'[o].raised = op[o].raised
    BY <1>4, <2>2 DEF RecordsInv, RecordsTypes, OpRows
  <2>5. Told(o)'
    BY <1>1, <1>2, <2>3, <2>4 DEF Told
  <2>6. Checked(o)'
    BY <1>2, <2>3, <2>4 DEF Checked
  <2>7. audit' \subseteq written' /\ record' \in [Names -> RecordRows]
    BY <1>1 DEF RecordsInv, RecordsTypes
  <2> QED BY <1>1, <2>4, <2>5, <2>6, <2>7, OneOpMoves
<1> QED BY <1>1, <1>3, <1>4

\* After its commit a call has an audit row to write, or is done.
LEMMA CommitKeeps ==
  ASSUME RecordsInv, NEW o \in Ops, op[o].at = "loaded",
         service' = service, audit' = audit, written' = written \cup {o},
         op' \in [Ops -> OpRows], \A q \in Ops : q # o => op'[q] = op[q],
         op'[o].at = (IF Audited(o) THEN "written" ELSE "done"),
         op'[o].kind = op[o].kind, op'[o].raised = op[o].raised,
         record' \in [Names -> RecordRows], excused \subseteq excused',
         \A q \in Ops : q # o =>
             (record[RE!RowOf(q)].state = "absent" /\ op[q].at = "loaded"
              /\ op[q].kind \in {"create", "clone", "rename"} /\ q \notin excused' =>
                  record'[RE!RowOf(q)].state = "absent")
  PROVE  RecordsInv'
<1>1. op[o].raised = "nothing"
  BY DEF RecordsInv, Told
<1>2. Audited(o)' <=> Audited(o)
  BY DEF Audited
<1>3. Told(o)'
  BY <1>1, <1>2 DEF Told
<1>4. Checked(o)'
  BY <1>1 DEF Checked
<1>5. audit' \subseteq written'
  BY DEF RecordsInv
<1> QED BY <1>3, <1>4, <1>5, OneOpMoves

LEMMA InsertKeeps ==
  ASSUME RecordsInv, NEW o \in Ops, RE!Insert(o)
  PROVE  RecordsInv'
<1> DEFINE n == RE!RowOf(o)
           at == IF service = "secrets" THEN "written" ELSE "done"
<1>1. op[o].at = "loaded" /\ op[o].kind \in {"create", "clone"} /\ UNCHANGED <<service, audit>>
  BY DEF RE!Insert, RE!At
<1>2. n \in Names
  BY RowOfIsAName DEF RecordsInv
<1>3. CASE record[n].state # "absent"
  <2>1. RE!Raise(o, "IntegrityError") /\ UNCHANGED <<record, written, excused>>
    BY <1>3 DEF RE!Insert, RE!Refused
  <2>2. o \in excused /\ o \notin written
    BY <1>1, <1>3 DEF RecordsInv, Checked, Told
  <2> QED BY <1>1, <2>1, <2>2, RaiseKeeps, APlaceAndAnError
<1>4. CASE record[n].state = "absent"
  <2>1. /\ record' = [record EXCEPT ![n] = [state |-> "active", id |-> o]]
        /\ written' = written \cup {o} /\ excused' = excused \cup RE!Overtaken(o)
        /\ op' = [op EXCEPT ![o].id = o, ![o].at = at]
    BY <1>4 DEF RE!Insert
  <2>2. record' \in [Names -> RecordRows] /\ \A m \in Names : m # n => record'[m] = record[m]
    <3>1. [state |-> "active", id |-> o] \in RecordRows
      BY DEF RecordRows, RowStates, Ids
    <3> QED BY <1>2, <2>1, <3>1 DEF RecordsInv, RecordsTypes
  <2>3. at \in OpPlaces /\ o \in Ids
    BY APlaceAndAnError DEF Ids
  <2>4. at = IF Audited(o) THEN "written" ELSE "done"
    BY <1>1 DEF Audited, RecordsInv, RecordsTypes, RE!Kinds
  <2>5. \A q \in Ops : q # o =>
             (record[RE!RowOf(q)].state = "absent" /\ op[q].at = "loaded"
              /\ op[q].kind \in {"create", "clone", "rename"} /\ q \notin excused' =>
                  record'[RE!RowOf(q)].state = "absent")
    <3> SUFFICES ASSUME NEW q \in Ops, q # o, record[RE!RowOf(q)].state = "absent",
                        op[q].at = "loaded", op[q].kind \in {"create", "clone", "rename"},
                        q \notin excused'
                 PROVE  record'[RE!RowOf(q)].state = "absent"
      OBVIOUS
    <3>1. RE!RowOf(q) # n
      BY <2>1 DEF RE!Overtaken, RE!At
    <3>2. RE!RowOf(q) \in Names
      BY RowOfIsAName DEF RecordsInv
    <3> QED BY <2>2, <3>1, <3>2
  <2> HIDE DEF n, at
  <2>6. /\ op' \in [Ops -> OpRows] /\ \A q \in Ops : q # o => op'[q] = op[q]
        /\ op'[o].at = at /\ op'[o].kind = op[o].kind /\ op'[o].raised = op[o].raised
    BY <2>1, <2>3 DEF RecordsInv, RecordsTypes, OpRows
  <2> QED BY <1>1, <2>1, <2>2, <2>4, <2>5, <2>6, CommitKeeps
<1> QED BY <1>3, <1>4

\* What AfterCommit does to the call.
LEMMA AfterCommitMoves ==
  ASSUME RecordsInv, NEW o \in Ops, RE!AfterCommit(o)
  PROVE  /\ op' \in [Ops -> OpRows] /\ \A q \in Ops : q # o => op'[q] = op[q]
         /\ op'[o].at = (IF Audited(o) THEN "written" ELSE "done")
         /\ op'[o].kind = op[o].kind /\ op'[o].raised = op[o].raised
<1>1. PICK place \in OpPlaces :
          RE!Go(o, place) /\ place = IF Audited(o) THEN "written" ELSE "done"
  BY APlaceAndAnError DEF RE!AfterCommit, Audited
<1> QED BY <1>1, GoOn

LEMMA RenameKeeps ==
  ASSUME RecordsInv, NEW o \in Ops, RE!Rename(o)
  PROVE  RecordsInv'
<1> DEFINE n == RE!RowOf(o)
<1>1. op[o].at = "loaded" /\ op[o].kind = "rename" /\ UNCHANGED <<service, audit>>
      /\ o \notin written
  BY DEF RE!Rename, RE!At, RecordsInv, Told
<1>2. CASE RE!Refused(o, "SQLAlchemyError")
  BY <1>1, <1>2, RaiseKeeps, APlaceAndAnError DEF RE!Refused
<1>3. CASE record[n].state # "absent" /\ RE!Refused(o, "IntegrityError")
  <2>1. o \in excused
    BY <1>1, <1>3 DEF RecordsInv, Checked
  <2> QED BY <1>1, <1>3, <2>1, RaiseKeeps, APlaceAndAnError DEF RE!Refused
<1>4. CASE /\ record' = [m \in Names |->
                    IF m = n THEN [state |-> "active", id |-> op[o].id]
                    ELSE IF m \in RE!Mine(o) THEN [state |-> "absent", id |-> m] ELSE record[m]]
           /\ written' = written \cup {o}
           /\ excused' = excused \cup RE!Overtaken(o)
           /\ RE!AfterCommit(o)
  <2>1. record' \in [Names -> RecordRows]
    <3>1. op[o].id \in Ids
      BY DEF RecordsInv, RecordsTypes, OpRows
    <3>2. [state |-> "active", id |-> op[o].id] \in RecordRows
      BY <3>1 DEF RecordRows, RowStates
    <3>3. \A m \in Names : [state |-> "absent", id |-> m] \in RecordRows /\ record[m] \in RecordRows
      BY DEF RecordRows, RowStates, Ids, RecordsInv, RecordsTypes
    <3> QED BY <1>4, <3>2, <3>3
  <2>2. \A q \in Ops : q # o =>
             (record[RE!RowOf(q)].state = "absent" /\ op[q].at = "loaded"
              /\ op[q].kind \in {"create", "clone", "rename"} /\ q \notin excused' =>
                  record'[RE!RowOf(q)].state = "absent")
    <3> SUFFICES ASSUME NEW q \in Ops, q # o, record[RE!RowOf(q)].state = "absent",
                        op[q].at = "loaded", op[q].kind \in {"create", "clone", "rename"},
                        q \notin excused'
                 PROVE  record'[RE!RowOf(q)].state = "absent"
      OBVIOUS
    <3>1. RE!RowOf(q) # n
      BY <1>4 DEF RE!Overtaken, RE!At
    <3>2. RE!RowOf(q) \in Names
      BY RowOfIsAName DEF RecordsInv
    <3> QED BY <1>4, <3>1, <3>2
  <2> QED BY <1>1, <1>4, <2>1, <2>2, AfterCommitMoves, CommitKeeps
<1> QED BY <1>2, <1>3, <1>4 DEF RE!Rename

\* The row of o changes, or none; names that were free stay free.
LEMMA RecordChangeKeeps ==
  ASSUME RecordsInv, NEW o \in Ops, op[o].at = "loaded", RE!AfterCommit(o),
         UNCHANGED <<service, audit, excused>>, written' = written \cup {o},
         NEW state \in RowStates,
         record' = record \/
         record' = [n \in Names |-> IF n \in RE!Mine(o) THEN [record[n] EXCEPT !.state = state]
                                    ELSE record[n]]
  PROVE  RecordsInv'
<1>1. record' \in [Names -> RecordRows]
  BY DEF RecordsInv, RecordsTypes, RecordRows
<1>2. \A n \in Names : record[n].state = "absent" => record'[n].state = "absent"
  BY DEF RE!Mine
<1>3. \A q \in Ops : RE!RowOf(q) \in Names
  BY RowOfIsAName DEF RecordsInv
<1> QED BY <1>1, <1>2, <1>3, AfterCommitMoves, CommitKeeps

LEMMA UpdateKeeps ==
  ASSUME RecordsInv, NEW o \in Ops, RE!Update(o)
  PROVE  RecordsInv'
<1>1. op[o].at = "loaded" /\ UNCHANGED <<service, audit>> /\ o \notin written
  BY DEF RE!Update, RE!At, RecordsInv, Told
<1>2. CASE RE!Refused(o, "SQLAlchemyError")
  BY <1>1, <1>2, RaiseKeeps, APlaceAndAnError DEF RE!Refused
<1>3. CASE RE!AfterCommit(o) /\ RE!Commit(o, "inactive")
  <2>1. "inactive" \in RowStates
    BY DEF RowStates
  <2> QED BY <1>1, <1>3, <2>1, RecordChangeKeeps DEF RE!Commit
<1>4. CASE RE!AfterCommit(o) /\ written' = written \cup {o} /\ UNCHANGED <<record, excused>>
  <2>1. "inactive" \in RowStates
    BY DEF RowStates
  <2> QED BY <1>1, <1>4, <2>1, RecordChangeKeeps
<1> QED BY <1>2, <1>3, <1>4 DEF RE!Update

LEMMA DeleteKeeps ==
  ASSUME RecordsInv, NEW o \in Ops, RE!Delete(o)
  PROVE  RecordsInv'
<1>1. op[o].at = "loaded" /\ UNCHANGED <<service, audit>> /\ RE!AfterCommit(o) /\ RE!Commit(o, "absent")
  BY DEF RE!Delete, RE!At
<1>2. "absent" \in RowStates
  BY DEF RowStates
<1> QED BY <1>1, <1>2, RecordChangeKeeps DEF RE!Commit

LEMMA LogAuditEventKeeps ==
  ASSUME RecordsInv, NEW o \in Ops, RE!LogAuditEvent(o)
  PROVE  RecordsInv'
<1>1. op[o].at = "written" /\ UNCHANGED <<service, record, written, excused>>
  BY DEF RE!LogAuditEvent, RE!At
<1>2. op[o].raised = "nothing" /\ o \in written
  BY <1>1 DEF RecordsInv, Told
<1>3. CASE RE!Raise(o, "SQLAlchemyError") /\ UNCHANGED audit
  BY <1>1, <1>3, RaiseKeeps, APlaceAndAnError
<1>4. CASE RE!Go(o, "done") /\ audit' = audit \cup {o}
  <2>1. /\ op' \in [Ops -> OpRows] /\ \A q \in Ops : q # o => op'[q] = op[q]
        /\ op'[o].at = "done" /\ op'[o].kind = op[o].kind /\ op'[o].raised = op[o].raised
    BY <1>4, GoOn, APlaceAndAnError
  <2>2. Told(o)'
    BY <1>1, <1>2, <1>4, <2>1 DEF Told
  <2>3. Checked(o)'
    BY <1>2, <2>1 DEF Checked
  <2>4. audit' \subseteq written' /\ record' \in [Names -> RecordRows]
    BY <1>1, <1>2, <1>4 DEF RecordsInv, RecordsTypes
  <2> QED BY <1>1, <1>4, <2>1, <2>2, <2>3, <2>4, OneOpMoves
<1> QED BY <1>3, <1>4 DEF RE!LogAuditEvent

LEMMA DatabaseFailsKeeps ==
  ASSUME RecordsInv, NEW o \in Ops, RE!DatabaseFails(o)
  PROVE  RecordsInv'
<1>1. RE!Raise(o, "OperationalError") /\ UNCHANGED <<service, record, written, audit, excused>>
  BY DEF RE!DatabaseFails, RE!Refused
<1> QED BY <1>1, RaiseKeeps, APlaceAndAnError

LEMMA ProcessDiesKeeps ==
  ASSUME RecordsInv, NEW o \in Ops, RE!ProcessDies(o)
  PROVE  RecordsInv'
<1>1. op[o].at \in {"found", "loaded", "written"} /\ RE!Go(o, "lost")
      /\ UNCHANGED <<service, record, written, audit, excused>>
  BY DEF RE!ProcessDies
<1>2. op[o].raised = "nothing"
  BY <1>1 DEF RecordsInv, Told
<1>3. /\ op' \in [Ops -> OpRows] /\ \A q \in Ops : q # o => op'[q] = op[q]
      /\ op'[o].at = "lost" /\ op'[o].kind = op[o].kind /\ op'[o].raised = op[o].raised
  BY <1>1, GoOn, APlaceAndAnError
<1>4. Told(o)'
  BY <1>2, <1>3 DEF Told
<1>5. Checked(o)'
  BY <1>2, <1>3 DEF Checked
<1>6. audit' \subseteq written' /\ record' \in [Names -> RecordRows]
  BY <1>1 DEF RecordsInv, RecordsTypes
<1> QED BY <1>1, <1>3, <1>4, <1>5, <1>6, OneOpMoves

\* The invariant is inductive.
LEMMA RecordsNext ==
  ASSUME RecordsInv, [RE!Next]_(RE!rvars)
  PROVE  RecordsInv'
<1>1. CASE UNCHANGED RE!rvars
  BY <1>1 DEF RE!rvars, RecordsInv, RecordsTypes, Told, Checked, Audited, RE!RowOf
<1> QED BY <1>1, ValidateKeeps, GetOr404Keeps, InsertKeeps, RenameKeeps, UpdateKeeps, DeleteKeeps,
           LogAuditEventKeeps, DatabaseFailsKeeps, ProcessDiesKeeps
        DEF RE!Next

LEMMA RecordsAlways == Spec => []RecordsInv
<1>1. Init => RecordsInv
  BY RecordsInit DEF Init
<1>2. RecordsInv /\ [Next]_vars => RecordsInv'
  BY DataSteps, RecordsNext
<1> QED BY <1>1, <1>2, PTL DEF Spec

\* The status of an answer is true of the tables: a success is written and, of a
\* secret, audited, a client error is not written; with any number of overlapping
\* calls, failing statements and deaths (secret_service.py, error_handlers.py).
THEOREM AnswersCorrect == Spec => []AnswersTruthful
<1>1. ASSUME RecordsInv PROVE AnswersTruthful
  <2>1. "s500" \notin RE!ClientErrors
    BY DEF RE!ClientErrors
  <2>2. \A o \in Ops : op[o].at = "done" /\ op[o].raised # "nothing" /\ o \in written =>
                         RE!Status(op[o].raised) = "s500"
    BY <1>1, DatabaseErrorsAre500 DEF RecordsInv, Told
  <2>3. \A o \in Ops : op[o].at = "done" /\ op[o].raised = "nothing" =>
                         o \in written /\ (Audited(o) => o \in audit)
    BY <1>1 DEF RecordsInv, Told
  <2> QED BY <1>1, <2>1, <2>2, <2>3
          DEF RecordsInv, Audited, AnswersTruthful, RE!AnswersTruthful, RE!At
<1> QED BY <1>1, RecordsAlways, PTL

\* A duplicate name gets past the check and as far as the unique column only for
\* the known reasons, however many calls overlap (base_service.py, exists).
THEOREM DuplicatesCorrect == Spec => []DuplicatesFoundByTheCheck
<1>1. RecordsInv => DuplicatesFoundByTheCheck
  BY DEF RecordsInv, Checked, DuplicatesFoundByTheCheck, RE!DuplicatesFoundByTheCheck
<1> QED BY <1>1, RecordsAlways, PTL

-----------------------------------------------------------------------------

Codes == {"core", "services"}
ConsumerPlaces == {"polling", "yielding", "ended"}
Offsets == Topics \X Nat
ConsumerRows == [code : Codes, at : ConsumerPlaces, batch : Seq(Offsets)]
TrailRows == [offset : Offsets, event : Events,
              category : {AT!Category(e) : e \in Events}, risk : {"high", "medium", "low"}]

TrailTypes ==
    /\ consumer \in ConsumerRows
    /\ topic \in [Topics -> Seq(Events)]
    /\ committed \in [Topics -> Nat]
    /\ position \in [Topics -> Nat]
    /\ rows \in Seq(TrailRows)
    /\ replays \in Nat

\* Kafka is told of no more than was yielded, and no more is yielded than there is.
Behind == \A t \in Topics : committed[t] <= position[t] /\ position[t] <= Len(topic[t])

\* The batch is what follows the position of one topic.
BatchFollows ==
    consumer.at = "yielding" =>
        /\ consumer.batch # <<>>
        /\ \E t \in Topics :
             /\ position[t] + Len(consumer.batch) <= Len(topic[t])
             /\ \A i \in 1..Len(consumer.batch) : consumer.batch[i] = <<t, position[t] + i>>

\* What was yielded has a row, or none could be made of it.
Covered ==
    \A t \in Topics : \A i \in 1..position[t] :
        <<t, i>> \in dropped \/ \E k \in 1..Len(rows) : rows[k].offset = <<t, i>>

\* A row tells what it is made of.
RowsTrue ==
    \A k \in 1..Len(rows) :
        LET t == rows[k].offset[1]
            i == rows[k].offset[2]
        IN  /\ i \in 1..Len(topic[t])
            /\ rows[k].event = topic[t][i]
            /\ rows[k].risk = AT!RiskLevel(consumer.code, topic[t][i])

\* While nothing was delivered again, rows lie behind the position and differ.
NoRepeat ==
    replays = 0 =>
        /\ \A k \in 1..Len(rows) : rows[k].offset[2] <= position[rows[k].offset[1]]
        /\ \A j, k \in 1..Len(rows) : j < k => rows[j].offset # rows[k].offset

TrailInv == TrailTypes /\ Behind /\ BatchFollows /\ Covered /\ RowsTrue /\ NoRepeat

LEMMA TrailInit == AT!Init => TrailInv
<1> SUFFICES ASSUME AT!Init PROVE TrailInv
  OBVIOUS
<1>1. /\ consumer \in ConsumerRows /\ consumer.at = "polling"
      /\ topic = [t \in Topics |-> <<>>] /\ rows = <<>> /\ replays = 0
      /\ committed = [t \in Topics |-> 0] /\ position = [t \in Topics |-> 0]
  <2>1. <<>> \in Seq(Offsets) /\ "polling" \in ConsumerPlaces /\ {"core", "services"} = Codes
    BY DEF ConsumerPlaces, Codes
  <2>2. consumer \in [code : Codes, at : {"polling"}, batch : {<<>>}]
    BY <2>1 DEF AT!Init
  <2>3. consumer \in ConsumerRows /\ consumer.at = "polling"
    BY <2>1, <2>2 DEF ConsumerRows
  <2> QED BY <2>3 DEF AT!Init, AT!Zero
<1>2. TrailTypes
  BY <1>1 DEF TrailTypes
<1> QED BY <1>1, <1>2 DEF TrailInv, Behind, BatchFollows, Covered, RowsTrue, NoRepeat

LEMMA TrailPublishKeeps ==
  ASSUME TrailInv, NEW t \in Topics, NEW e \in Events, AT!Publish(t, e)
  PROVE  TrailInv'
<1>1. /\ topic' = [topic EXCEPT ![t] = Append(@, e)]
      /\ UNCHANGED <<consumer, committed, position, rows, dropped, replays>>
  BY DEF AT!Publish
<1>2. topic[t] \in Seq(Events)
  BY DEF TrailInv, TrailTypes
<1>3. /\ Append(topic[t], e) \in Seq(Events) /\ Len(topic[t]) \in Nat
      /\ Len(Append(topic[t], e)) = Len(topic[t]) + 1
      /\ \A i \in 1..Len(topic[t]) : Append(topic[t], e)[i] = topic[t][i]
  BY <1>2, AppendProperties, LenProperties
<1>4. /\ topic' \in [Topics -> Seq(Events)]
      /\ \A u \in Topics : /\ Len(topic[u]) \in Nat /\ Len(topic'[u]) \in Nat
                           /\ Len(topic[u]) <= Len(topic'[u])
                           /\ \A i \in 1..Len(topic[u]) : topic'[u][i] = topic[u][i]
  <2>1. topic'[t] = Append(topic[t], e) /\ \A u \in Topics : u # t => topic'[u] = topic[u]
    BY <1>1 DEF TrailInv, TrailTypes
  <2>2. \A u \in Topics : Len(topic[u]) \in Nat
    BY DEF TrailInv, TrailTypes
  <2>3. topic' \in [Topics -> Seq(Events)]
    BY <1>1, <1>3 DEF TrailInv, TrailTypes
  <2>4. ASSUME NEW u \in Topics
        PROVE  /\ Len(topic'[u]) \in Nat /\ Len(topic[u]) <= Len(topic'[u])
               /\ \A i \in 1..Len(topic[u]) : topic'[u][i] = topic[u][i]
    <3>1. CASE u = t
      BY <1>3, <2>1, <3>1
    <3>2. CASE u # t
      <4>1. topic'[u] = topic[u]
        BY <2>1, <3>2
      <4> QED BY <2>2, <4>1
    <3> QED BY <3>1, <3>2
  <2> QED BY <2>2, <2>3, <2>4
<1>5. TrailTypes'
  BY <1>1, <1>4 DEF TrailInv, TrailTypes
<1>6. Behind'
  BY <1>1, <1>4 DEF TrailInv, TrailTypes, Behind
<1>7. BatchFollows'
  <2> SUFFICES ASSUME consumer.at = "yielding" PROVE BatchFollows'
    BY <1>1 DEF BatchFollows
  <2>1. Len(consumer.batch) \in Nat
    BY DEF TrailInv, TrailTypes, ConsumerRows
  <2>2. PICK u \in Topics :
          /\ position[u] + Len(consumer.batch) <= Len(topic[u])
          /\ \A i \in 1..Len(consumer.batch) : consumer.batch[i] = <<u, position[u] + i>>
    BY DEF TrailInv, BatchFollows
  <2>3. position[u] + Len(consumer.batch) <= Len(topic'[u])
    <3>1. position[u] \in Nat
      BY DEF TrailInv, TrailTypes
    <3> QED BY <1>4, <2>1, <2>2, <3>1
  <2>4. consumer.batch # <<>>
    BY DEF TrailInv, BatchFollows
  <2> QED BY <1>1, <2>2, <2>3, <2>4 DEF BatchFollows
<1>8. Covered' /\ NoRepeat'
  BY <1>1 DEF TrailInv, Covered, NoRepeat
<1>9. RowsTrue'
  <2> SUFFICES ASSUME NEW k \in 1..Len(rows)
               PROVE  /\ rows[k].offset[2] \in 1..Len(topic'[rows[k].offset[1]])
                      /\ rows[k].event = topic'[rows[k].offset[1]][rows[k].offset[2]]
                      /\ rows[k].risk = AT!RiskLevel(consumer.code,
                                            topic'[rows[k].offset[1]][rows[k].offset[2]])
    BY <1>1 DEF RowsTrue
  <2>1. rows[k].offset[1] \in Topics
    <3>1. rows[k] \in TrailRows
      BY DEF TrailInv, TrailTypes
    <3> QED BY <3>1 DEF TrailRows, Offsets
  <2>2. /\ rows[k].offset[2] \in 1..Len(topic[rows[k].offset[1]])
        /\ rows[k].event = topic[rows[k].offset[1]][rows[k].offset[2]]
        /\ rows[k].risk = AT!RiskLevel(consumer.code, topic[rows[k].offset[1]][rows[k].offset[2]])
    BY DEF TrailInv, RowsTrue
  <2>3. topic'[rows[k].offset[1]][rows[k].offset[2]] = topic[rows[k].offset[1]][rows[k].offset[2]]
        /\ rows[k].offset[2] \in 1..Len(topic'[rows[k].offset[1]])
    BY <1>4, <2>1, <2>2
  <2> QED BY <2>2, <2>3
<1> QED BY <1>5, <1>6, <1>7, <1>8, <1>9 DEF TrailInv

\* The consumer goes on, and Kafka is told or not.
LEMMA TrailPollKeeps ==
  ASSUME TrailInv, AT!Poll
  PROVE  TrailInv'
<1>1. /\ consumer.at = "polling" /\ UNCHANGED <<topic, position, rows, dropped, replays>>
  BY DEF AT!Poll
<1>2. PICK t \in Topics, n \in Int :
        /\ n \in 1..(Len(topic[t]) - position[t])
        /\ committed' \in {committed, position}
        /\ \/ consumer' = [consumer EXCEPT !.at = "ended"]
           \/ consumer' = [consumer EXCEPT !.at = "yielding",
                               !.batch = [i \in 1..n |-> <<t, position[t] + i>>]]
  <2>1. PICK t \in Topics : \E n \in 1..(Len(topic[t]) - position[t]) :
          /\ committed' \in {committed, position}
          /\ consumer' = IF \E i \in 1..n : ~topic[t][position[t] + i].json
                         THEN [consumer EXCEPT !.at = "ended"]
                         ELSE [consumer EXCEPT !.at = "yielding",
                                   !.batch = [i \in 1..n |-> <<t, position[t] + i>>]]
    BY DEF AT!Poll, AT!AutoCommit
  <2>2. PICK n \in 1..(Len(topic[t]) - position[t]) :
          /\ committed' \in {committed, position}
          /\ consumer' = IF \E i \in 1..n : ~topic[t][position[t] + i].json
                         THEN [consumer EXCEPT !.at = "ended"]
                         ELSE [consumer EXCEPT !.at = "yielding",
                                   !.batch = [i \in 1..n |-> <<t, position[t] + i>>]]
    BY <2>1
  <2>3. n \in Int
    OBVIOUS
  <2> QED BY <2>2, <2>3
<1> DEFINE b == [i \in 1..n |-> <<t, position[t] + i>>]
<1>3. position[t] \in Nat /\ Len(topic[t]) \in Nat /\ n \in Nat /\ n > 0
      /\ position[t] + n <= Len(topic[t])
  BY <1>2 DEF TrailInv, TrailTypes
<1>4. b \in Seq(Offsets) /\ Len(b) = n /\ b # <<>>
  <2>1. \A i \in 1..n : <<t, position[t] + i>> \in Offsets
    BY <1>3 DEF Offsets
  <2> QED BY <1>3, <2>1
<1>5. /\ consumer' \in ConsumerRows /\ consumer'.code = consumer.code
      /\ consumer'.at = "ended" \/ (consumer'.at = "yielding" /\ consumer'.batch = b)
  <2>1. "ended" \in ConsumerPlaces /\ "yielding" \in ConsumerPlaces
    BY DEF ConsumerPlaces
  <2> HIDE DEF b
  <2>2. consumer \in ConsumerRows
    BY DEF TrailInv, TrailTypes
  <2>3. CASE consumer' = [consumer EXCEPT !.at = "ended"]
    BY <2>1, <2>2, <2>3 DEF ConsumerRows
  <2>4. CASE consumer' = [consumer EXCEPT !.at = "yielding", !.batch = b]
    BY <1>4, <2>1, <2>2, <2>4 DEF ConsumerRows
  <2> QED BY <1>2, <2>3, <2>4 DEF b
<1>6. TrailTypes' /\ Behind'
  BY <1>1, <1>2, <1>5 DEF TrailInv, TrailTypes, Behind
<1>7. BatchFollows'
  BY <1>1, <1>3, <1>4, <1>5 DEF BatchFollows
<1> QED BY <1>1, <1>5, <1>6, <1>7 DEF TrailInv, Covered, RowsTrue, NoRepeat

\* What becomes of one event, without the row or with it.
LEMMA TrailProcessKeeps ==
  ASSUME TrailInv, AT!ProcessEvent
  PROVE  TrailInv'
<1>1. consumer.at = "yielding" /\ UNCHANGED <<topic, committed, replays>>
  BY DEF AT!ProcessEvent
<1>2. consumer.batch \in Seq(Offsets) /\ consumer.batch # <<>> /\ consumer.code \in Codes
  BY <1>1 DEF TrailInv, TrailTypes, ConsumerRows, BatchFollows
<1>3. PICK t \in Topics :
        /\ position[t] + Len(consumer.batch) <= Len(topic[t])
        /\ \A i \in 1..Len(consumer.batch) : consumer.batch[i] = <<t, position[t] + i>>
  BY <1>1 DEF TrailInv, BatchFollows
<1>4. PICK n \in Nat : n = position[t]
  BY DEF TrailInv, TrailTypes
<1>5. /\ Len(consumer.batch) \in Nat /\ Len(consumer.batch) >= 1
      /\ Head(consumer.batch) = <<t, n + 1>>
      /\ Tail(consumer.batch) \in Seq(Offsets)
      /\ Len(Tail(consumer.batch)) = Len(consumer.batch) - 1
      /\ \A i \in 1..Len(Tail(consumer.batch)) : Tail(consumer.batch)[i] = consumer.batch[i + 1]
  <2>1. Len(consumer.batch) \in Nat /\ Len(consumer.batch) >= 1
    BY <1>2
  <2>2. Head(consumer.batch) = consumer.batch[1]
    BY <1>2
  <2> QED BY <1>2, <1>3, <1>4, <2>1, <2>2, HeadTailProperties
<1>6. n + 1 <= Len(topic[t]) /\ Len(topic[t]) \in Nat /\ topic[t][n + 1] \in Events
  <2>1. topic[t] \in Seq(Events)
    BY DEF TrailInv, TrailTypes
  <2> QED BY <1>3, <1>4, <1>5, <2>1
<1> DEFINE offset == <<t, n + 1>>
           event == topic[t][n + 1]
           row1 == [offset |-> offset, event |-> event, category |-> AT!Category(event),
                    risk |-> AT!RiskLevel(consumer.code, event)]
<1>7. /\ position' = [position EXCEPT ![t] = n + 1]
      /\ \/ rows' = Append(rows, row1) /\ dropped' = dropped
         \/ rows' = rows /\ dropped' = dropped \cup {offset}
  <2>1. Head(consumer.batch) = offset /\ offset[1] = t /\ offset[2] = n + 1
    BY <1>5
  <2> HIDE DEF offset
  <2> QED BY <2>1 DEF AT!ProcessEvent
<1>8. row1 \in TrailRows
  <2>1. AT!RiskLevel(consumer.code, event) \in {"high", "medium", "low"}
    BY DEF AT!RiskLevel
  <2> QED BY <1>6, <2>1 DEF TrailRows, Offsets
<1>9. /\ row1.offset = offset /\ row1.event = event
      /\ row1.risk = AT!RiskLevel(consumer.code, event)
      /\ offset[1] = t /\ offset[2] = n + 1
  OBVIOUS
<1> HIDE DEF row1
<1>10. /\ position' \in [Topics -> Nat] /\ position'[t] = n + 1
       /\ \A u \in Topics : u # t => position'[u] = position[u]
  BY <1>7 DEF TrailInv, TrailTypes
<1>11. rows \in Seq(TrailRows) /\ Len(rows) \in Nat
  BY DEF TrailInv, TrailTypes
<1>12. /\ rows' \in Seq(TrailRows)
       /\ \/ rows' = rows /\ dropped' = dropped \cup {offset}
          \/ /\ dropped' = dropped /\ Len(rows') = Len(rows) + 1 /\ rows'[Len(rows) + 1] = row1
             /\ \A k \in 1..Len(rows) : rows'[k] = rows[k]
  <2>1. CASE rows' = rows /\ dropped' = dropped \cup {offset}
    BY <1>11, <2>1
  <2>2. CASE rows' = Append(rows, row1) /\ dropped' = dropped
    BY <1>8, <1>11, <2>2, AppendProperties
  <2> QED BY <1>7, <2>1, <2>2
<1>13. /\ consumer' \in ConsumerRows /\ consumer'.code = consumer.code
       /\ consumer'.at = "yielding" =>
            consumer'.batch = Tail(consumer.batch) /\ Tail(consumer.batch) # <<>>
  <2>1. consumer \in ConsumerRows /\ <<>> \in Seq(Offsets)
        /\ \A at \in {"ended", "polling", "yielding"} : at \in ConsumerPlaces
    BY DEF TrailInv, TrailTypes, ConsumerPlaces
  <2>2. CASE consumer.code = "core"
    <3>1. consumer' = [consumer EXCEPT !.at = "ended", !.batch = <<>>]
      BY <2>2 DEF AT!ProcessEvent
    <3> QED BY <2>1, <3>1 DEF ConsumerRows
  <2>3. CASE consumer.code # "core" /\ Tail(consumer.batch) = <<>>
    <3>1. consumer' = [consumer EXCEPT !.at = "polling", !.batch = Tail(consumer.batch)]
      BY <2>3 DEF AT!ProcessEvent
    <3> QED BY <1>5, <2>1, <3>1 DEF ConsumerRows
  <2>4. CASE consumer.code # "core" /\ Tail(consumer.batch) # <<>>
    <3>1. consumer' = [consumer EXCEPT !.at = "yielding", !.batch = Tail(consumer.batch)]
      BY <2>1, <2>4, <1>1 DEF AT!ProcessEvent, ConsumerRows
    <3> QED BY <1>5, <2>1, <2>4, <3>1 DEF ConsumerRows
  <2> QED BY <2>2, <2>3, <2>4
<1>14. TrailTypes'
  BY <1>1, <1>10, <1>12, <1>13 DEF TrailInv, TrailTypes
<1>15. Behind'
  <2> SUFFICES ASSUME NEW u \in Topics
               PROVE  committed[u] <= position'[u] /\ position'[u] <= Len(topic[u])
    BY <1>1 DEF Behind
  <2>1. /\ committed[u] <= position[u] /\ position[u] <= Len(topic[u])
        /\ committed[u] \in Nat /\ position[u] \in Nat
    BY DEF TrailInv, TrailTypes, Behind
  <2>2. CASE u = t
    BY <1>4, <1>6, <1>10, <2>1, <2>2
  <2>3. CASE u # t
    BY <1>10, <2>1, <2>3
  <2> QED BY <2>2, <2>3
<1>16. BatchFollows'
  <2> SUFFICES ASSUME consumer'.at = "yielding" PROVE BatchFollows'
    BY DEF BatchFollows
  <2>1. consumer'.batch = Tail(consumer.batch) /\ consumer'.batch # <<>>
    BY <1>13
  <2>2. position'[t] + Len(consumer'.batch) <= Len(topic'[t])
    BY <1>1, <1>3, <1>4, <1>5, <1>6, <1>10, <2>1
  <2>3. ASSUME NEW i \in 1..Len(consumer'.batch)
        PROVE  consumer'.batch[i] = <<t, position'[t] + i>>
    <3>1. i \in 1..Len(Tail(consumer.batch)) /\ i + 1 \in 1..Len(consumer.batch)
      BY <1>5, <2>1
    <3>2. consumer'.batch[i] = consumer.batch[i + 1]
      BY <1>5, <2>1, <3>1
    <3>3. consumer.batch[i + 1] = <<t, position[t] + (i + 1)>>
      BY <1>3, <3>1
    <3>4. position[t] + (i + 1) = position'[t] + i
      BY <1>4, <1>10
    <3> QED BY <3>2, <3>3, <3>4
  <2> QED BY <2>1, <2>2, <2>3 DEF BatchFollows
<1>17. Covered'
  <2> SUFFICES ASSUME NEW u \in Topics, NEW i \in 1..position'[u]
               PROVE  <<u, i>> \in dropped' \/ \E k \in 1..Len(rows') : rows'[k].offset = <<u, i>>
    BY DEF Covered
  <2>1. CASE u = t /\ i = n + 1
    <3>1. CASE dropped' = dropped \cup {offset}
      BY <2>1, <3>1
    <3>2. CASE Len(rows') = Len(rows) + 1 /\ rows'[Len(rows) + 1] = row1
      BY <1>9, <1>11, <2>1, <3>2
    <3> QED BY <1>12, <3>1, <3>2
  <2>2. CASE u # t \/ i # n + 1
    <3>1. i \in 1..position[u]
      BY <1>4, <1>10, <2>2
    <3>2. <<u, i>> \in dropped \/ \E k \in 1..Len(rows) : rows[k].offset = <<u, i>>
      BY <3>1 DEF TrailInv, Covered
    <3> QED BY <1>11, <1>12, <3>2
  <2> QED BY <2>1, <2>2
<1>18. RowsTrue'
  <2>1. \A k \in 1..Len(rows) :
          /\ rows[k].offset[2] \in 1..Len(topic[rows[k].offset[1]])
          /\ rows[k].event = topic[rows[k].offset[1]][rows[k].offset[2]]
          /\ rows[k].risk = AT!RiskLevel(consumer.code, topic[rows[k].offset[1]][rows[k].offset[2]])
    BY DEF TrailInv, RowsTrue
  <2>2. n + 1 \in 1..Len(topic[t])
    BY <1>6
  <2>3. ASSUME NEW k \in 1..Len(rows')
        PROVE  /\ rows'[k].offset[2] \in 1..Len(topic[rows'[k].offset[1]])
               /\ rows'[k].event = topic[rows'[k].offset[1]][rows'[k].offset[2]]
               /\ rows'[k].risk = AT!RiskLevel(consumer.code,
                                      topic[rows'[k].offset[1]][rows'[k].offset[2]])
    <3>1. CASE k \in 1..Len(rows) /\ rows'[k] = rows[k]
      BY <2>1, <3>1
    <3>2. CASE rows'[k] = row1
      BY <1>9, <2>2, <3>2
    <3> QED BY <1>11, <1>12, <3>1, <3>2
  <2> QED BY <1>1, <1>13, <2>3 DEF RowsTrue
<1>19. NoRepeat'
  <2> SUFFICES ASSUME replays = 0 PROVE NoRepeat'
    BY <1>1 DEF NoRepeat
  <2>1. \A k \in 1..Len(rows) : rows[k].offset[2] <= position[rows[k].offset[1]]
    BY DEF TrailInv, NoRepeat
  <2>2. \A j, k \in 1..Len(rows) : j < k => rows[j].offset # rows[k].offset
    BY DEF TrailInv, NoRepeat
  <2>3. \A k \in 1..Len(rows) : rows[k].offset[1] \in Topics /\ rows[k].offset[2] \in Nat
    <3> TAKE k \in 1..Len(rows)
    <3>1. rows[k] \in TrailRows
      BY <1>11
    <3> QED BY <3>1 DEF TrailRows, Offsets
  <2>4. \A k \in 1..Len(rows) : /\ rows[k].offset[2] <= position'[rows[k].offset[1]]
                                /\ rows[k].offset # offset
    <3> TAKE k \in 1..Len(rows)
    <3>1. CASE rows[k].offset[1] = t
      BY <1>4, <1>9, <1>10, <2>1, <2>3, <3>1
    <3>2. CASE rows[k].offset[1] # t
      BY <1>9, <1>10, <2>1, <2>3, <3>2
    <3> QED BY <3>1, <3>2
  <2>5. CASE rows' = rows
    BY <2>2, <2>4, <2>5 DEF NoRepeat
  <2>6. CASE /\ Len(rows') = Len(rows) + 1 /\ rows'[Len(rows) + 1] = row1
             /\ \A k \in 1..Len(rows) : rows'[k] = rows[k]
    <3>1. row1.offset[2] <= position'[row1.offset[1]]
      BY <1>9, <1>10
    <3>2. \A k \in 1..Len(rows') : rows'[k].offset[2] <= position'[rows'[k].offset[1]]
      BY <1>11, <2>4, <2>6, <3>1
    <3>3. \A j, k \in 1..Len(rows') : j < k => rows'[j].offset # rows'[k].offset
      BY <1>9, <1>11, <2>2, <2>4, <2>6
    <3> QED BY <3>2, <3>3 DEF NoRepeat
  <2> QED BY <1>12, <2>5, <2>6
<1> QED BY <1>14, <1>15, <1>16, <1>17, <1>18, <1>19 DEF TrailInv

\* Behind the offsets it starts from, the consumer has seen everything.
LEMMA TrailStartKeeps ==
  ASSUME TrailInv, AT!Start(position) \/ AT!Start(committed)
  PROVE  TrailInv'
<1>1. PICK offsets \in {position, committed} :
        /\ position' = offsets /\ committed' = offsets
        /\ consumer' = [consumer EXCEPT !.at = "polling", !.batch = <<>>]
        /\ replays' = replays + (IF offsets = position THEN 0 ELSE 1)
        /\ UNCHANGED <<topic, rows, dropped>>
  BY DEF AT!Start
<1>2. offsets \in [Topics -> Nat] /\ \A t \in Topics : offsets[t] <= position[t]
  BY DEF TrailInv, TrailTypes, Behind
<1>3. consumer' \in ConsumerRows /\ consumer'.code = consumer.code /\ consumer'.at = "polling"
  <2>1. "polling" \in ConsumerPlaces /\ <<>> \in Seq(Offsets)
    BY DEF ConsumerPlaces
  <2> QED BY <1>1, <2>1 DEF TrailInv, TrailTypes, ConsumerRows
<1>4. replays' \in Nat
  BY <1>1 DEF TrailInv, TrailTypes
<1>5. TrailTypes'
  BY <1>1, <1>2, <1>3, <1>4 DEF TrailInv, TrailTypes
<1>6. Behind' /\ BatchFollows'
  BY <1>1, <1>2, <1>3 DEF TrailInv, TrailTypes, Behind, BatchFollows
<1>7. Covered'
  <2>1. \A t \in Topics : \A i \in 1..offsets[t] : i \in 1..position[t]
    BY <1>2 DEF TrailInv, TrailTypes
  <2> QED BY <1>1, <2>1 DEF TrailInv, Covered
<1>8. RowsTrue'
  BY <1>1, <1>3 DEF TrailInv, RowsTrue
<1>9. NoRepeat'
  <2>1. CASE offsets = position
    BY <1>1, <2>1 DEF TrailInv, TrailTypes, NoRepeat
  <2>2. CASE offsets # position
    BY <1>1, <2>2 DEF TrailInv, TrailTypes, NoRepeat
  <2> QED BY <2>1, <2>2
<1> QED BY <1>5, <1>6, <1>7, <1>8, <1>9 DEF TrailInv

\* The invariant is inductive.
LEMMA TrailNext ==
  ASSUME TrailInv, [AT!Next]_(AT!uvars)
  PROVE  TrailInv'
<1>1. CASE UNCHANGED AT!uvars
  BY <1>1 DEF AT!uvars, TrailInv, TrailTypes, Behind, BatchFollows, Covered, RowsTrue, NoRepeat
<1>2. ASSUME AT!Restart PROVE TrailInv'
  BY <1>2, TrailStartKeeps DEF AT!Restart
<1> QED BY <1>1, <1>2, TrailPublishKeeps, TrailPollKeeps, TrailProcessKeeps DEF AT!Next

\* Offsets that each have a row in I are no more than I.
LEMMA CountedByRows ==
  ASSUME TrailInv, NEW T, NEW I \in SUBSET (1..Len(rows)),
         \A o \in T : \E k \in I : rows[k].offset = o
  PROVE  Cardinality(T) <= Cardinality(I)
<1> DEFINE f == [k \in I |-> rows[k].offset]
           image == {f[k] : k \in I}
<1>1. Len(rows) \in Nat
  BY DEF TrailInv, TrailTypes
<1>2. IsFiniteSet(I)
  <2>1. 1 \in Int /\ Len(rows) \in Int
    BY <1>1
  <2>2. IsFiniteSet(1..Len(rows))
    BY <2>1, FS_Interval
  <2> QED BY <2>2, FS_Subset
<1>3. f \in Surjection(I, image)
  BY DEF Surjection
<1>4. IsFiniteSet(image) /\ Cardinality(image) <= Cardinality(I)
  BY <1>2, <1>3, FS_Surjection
<1>5. T \subseteq image
  OBVIOUS
<1>6. IsFiniteSet(T) /\ Cardinality(T) <= Cardinality(image)
  BY <1>4, <1>5, FS_Subset
<1>7. Cardinality(T) \in Nat /\ Cardinality(image) \in Nat /\ Cardinality(I) \in Nat
  BY <1>2, <1>4, <1>6, FS_CardinalityType
<1> QED BY <1>4, <1>6, <1>7

\* Every event Kafka will not deliver again has its row, unless none could be made
\* of it, and the reports count each of them, whatever dies in between, with any
\* number of topics, events and mishaps (audit_consumer.py).
THEOREM TrailCorrect == Spec => []TrailComplete
<1>1. Init => TrailInv
  BY TrailInit DEF Init
<1>2. TrailInv /\ [Next]_vars => TrailInv'
  BY DataSteps, TrailNext
<1>3. ASSUME TrailInv PROVE TrailComplete
  <2>1. ASSUME NEW o \in AT!Passed \ dropped
        PROVE  \E k \in 1..Len(rows) :
                 /\ rows[k].offset = o /\ rows[k].event = topic[o[1]][o[2]]
                 /\ rows[k].risk = AT!RiskLevel(consumer.code, topic[o[1]][o[2]])
    <3>1. PICK t \in Topics, i \in 1..MaxEvents : o = <<t, i>> /\ i <= committed[t]
      BY DEF AT!Passed
    <3>2. i \in 1..position[t]
      BY <1>3, <3>1 DEF TrailInv, TrailTypes, Behind
    <3>3. <<t, i>> \notin dropped
      BY <3>1
    <3>4. PICK k \in 1..Len(rows) : rows[k].offset = <<t, i>>
      BY <1>3, <3>2, <3>3 DEF TrailInv, Covered
    <3> QED BY <1>3, <3>1, <3>4 DEF TrailInv, RowsTrue
  <2>2. Cardinality({o \in AT!Passed \ dropped :
                         topic[o[1]][o[2]].type = <<"user", "role_changed">>}) <= AT!RoleChanges
    <3> DEFINE T == {o \in AT!Passed \ dropped : topic[o[1]][o[2]].type = <<"user", "role_changed">>}
               I == {k \in 1..Len(rows) : rows[k].event.type = <<"user", "role_changed">>}
    <3>1. \A o \in T : \E k \in I : rows[k].offset = o
      BY <2>1
    <3>2. DOMAIN rows = 1..Len(rows)
      BY <1>3 DEF TrailInv, TrailTypes
    <3>3. AT!RoleChanges = Cardinality(I)
      BY <3>2, SameCardinality DEF AT!RoleChanges
    <3>4. Cardinality(T) <= Cardinality(I)
      BY <1>3, <3>1, CountedByRows
    <3> QED BY <3>3, <3>4
  <2>3. Cardinality({o \in AT!Passed \ dropped :
                         AT!RiskLevel(consumer.code, topic[o[1]][o[2]]) = "high"}) <= AT!HighRisk
    <3> DEFINE T == {o \in AT!Passed \ dropped :
                         AT!RiskLevel(consumer.code, topic[o[1]][o[2]]) = "high"}
               I == {k \in 1..Len(rows) : rows[k].risk = "high"}
    <3>1. \A o \in T : \E k \in I : rows[k].offset = o
      BY <2>1
    <3>2. DOMAIN rows = 1..Len(rows)
      BY <1>3 DEF TrailInv, TrailTypes
    <3>3. AT!HighRisk = Cardinality(I)
      BY <3>2, SameCardinality DEF AT!HighRisk
    <3>4. Cardinality(T) <= Cardinality(I)
      BY <1>3, <3>1, CountedByRows
    <3> QED BY <3>3, <3>4
  <2>4. \A i, j \in 1..Len(rows) : i < j /\ rows[i].offset = rows[j].offset => replays > 0
    BY <1>3 DEF TrailInv, TrailTypes, NoRepeat
  <2>5. AT!TrailComplete
    BY <2>1, <2>2, <2>3, <2>4, SameCardinality DEF AT!TrailComplete, AT!Told
  <2> QED BY <2>5 DEF TrailComplete
<1> QED BY <1>1, <1>2, <1>3, PTL DEF Spec

-----------------------------------------------------------------------------
(* Notifications.                                                          *)

Messages == [channel : Channels, payload : Payloads]

Listeners == [at : {"listening", "sending", "dead"}, channel : Channels \cup {NO!Resting.channel},
              start : SUBSET Sockets, visited : SUBSET Sockets, to : SUBSET Sockets, dropped : BOOLEAN]

\* The messages on the channel of s that were taken after the first `from`, and the
\* numbers of those sent to s.
Due(s, from) == {i \in 1..Len(taken) : i > from /\ taken[i].channel = NO!ChannelOf(s)}
Received(s) == NO!ToSet(heard[s])
Listens(s) == endpoint[s].at = "receiving" /\ s \notin gone

NotificationTypes ==
    /\ endpoint \in [Sockets -> [at : {"new", "accepting", "receiving", "closed"}, channel : Channels]]
    /\ gone \subseteq Sockets
    /\ connections \in [Channels -> SUBSET Sockets]
    /\ \A s \in Sockets : s \in connections[NO!ChannelOf(s)] <=> endpoint[s].at = "receiving"
    /\ \A c \in Channels : \A s \in connections[c] : NO!ChannelOf(s) = c
    /\ queue \in Seq(Messages) /\ taken \in Seq(Messages)
    /\ heard \in [Sockets -> Seq(1..Len(taken))] /\ since \in [Sockets -> 0..Len(taken)]
    /\ listener \in Listeners
    /\ spare \in [Channels -> Nat] /\ shuffled \subseteq 1..Len(taken)

\* The message being sent is the last one taken; the members from the start, those
\* visited and the one it is sent to have registered on its channel, and who registered
\* before is one of them.  Unless the set got a new table, nobody is sent it twice.
Broadcast ==
    listener.at = "sending" =>
        /\ taken # <<>> /\ taken[Len(taken)].channel = listener.channel
        /\ listener.channel \in Channels /\ (\A s, t \in listener.to : s = t)
        /\ \A s \in listener.start \cup listener.visited \cup listener.to :
               endpoint[s].at \in {"receiving", "closed"} /\ NO!ChannelOf(s) = listener.channel
        /\ \A s \in connections[listener.channel] : since[s] < Len(taken) => s \in listener.start
        /\ Len(taken) \notin shuffled =>
               /\ listener.to \subseteq listener.visited
               /\ \A s \in Sockets : s \notin listener.visited \/ s \in listener.to => Len(taken) \notin Received(s)

\* Numbers in the order taken, and none twice but where the set got a new table.
Rising(h) ==
    \A i, j \in DOMAIN h : i < j => h[i] < h[j] \/ (h[i] = h[j] /\ h[i] \in shuffled)

\* What s was sent is rising and no more than it is due; it is all it is due, but for
\* the broadcast under way and those in which the set got a new table.
Heard(s) ==
    /\ Rising(heard[s])
    /\ endpoint[s].at \in {"new", "accepting"} => heard[s] = <<>>
    /\ Received(s) \subseteq Due(s, since[s] - 1)
    /\ listener.at = "listening" /\ Listens(s) => Due(s, since[s]) \ shuffled \subseteq Received(s)
    /\ listener.at = "sending" /\ Listens(s) =>
          \A i \in Due(s, since[s]) : i = Len(taken) \/ i \in shuffled \/ i \in Received(s)
    /\ listener.at = "sending" /\ Len(taken) \notin shuffled =>
          (s \in listener.visited \ listener.to /\ Listens(s) => Len(taken) \in Received(s))

NotificationInv == NotificationTypes /\ Broadcast /\ \A s \in Sockets : Heard(s)

LEMMA NotificationInit == NO!Init => NotificationInv
<1> SUFFICES ASSUME NO!Init PROVE NotificationInv
  OBVIOUS
<1>1. /\ endpoint \in [Sockets -> [at : {"new"}, channel : Channels]] /\ gone = {}
      /\ connections = [c \in Channels |-> {}] /\ queue = <<>> /\ taken = <<>>
      /\ listener.at = "listening"
      /\ heard = [s \in Sockets |-> <<>>] /\ since = [s \in Sockets |-> 0]
      /\ spare = [c \in Channels |-> 0] /\ shuffled = {}
  BY DEF NO!Init, NO!Resting
<1>2. NotificationTypes
  <2>1. /\ endpoint \in [Sockets -> [at : {"new", "accepting", "receiving", "closed"}, channel : Channels]]
        /\ \A s \in Sockets : endpoint[s].at = "new" /\ NO!ChannelOf(s) \in Channels
    BY <1>1 DEF NO!ChannelOf
  <2>2. \A s \in Sockets : s \notin connections[NO!ChannelOf(s)]
    BY <1>1, <2>1
  <2>3. queue \in Seq(Messages) /\ taken \in Seq(Messages) /\ Len(taken) = 0
    BY <1>1
  <2>4. heard \in [Sockets -> Seq(1..Len(taken))] /\ since \in [Sockets -> 0..Len(taken)]
    BY <1>1, <2>3
  <2>5. \A c \in Channels : connections[c] = {}
    BY <1>1
  <2>6. connections \in [Channels -> SUBSET Sockets] /\ gone \subseteq Sockets
    BY <1>1
  <2>7. listener \in Listeners
    BY DEF NO!Init, NO!Resting, Listeners
  <2>8. spare \in [Channels -> Nat] /\ shuffled \subseteq 1..Len(taken)
    BY <1>1
  <2> QED BY <2>1, <2>2, <2>3, <2>4, <2>5, <2>6, <2>7, <2>8 DEF NotificationTypes
<1>3. ASSUME NEW s \in Sockets PROVE Heard(s)
  <2>1. heard[s] = <<>> /\ Received(s) = {}
    BY <1>1 DEF Received, NO!ToSet
  <2>2. Rising(heard[s])
    BY <2>1 DEF Rising
  <2> QED BY <1>1, <2>1, <2>2 DEF Heard, Listens
<1>4. Broadcast
  BY <1>1 DEF Broadcast
<1> QED BY <1>2, <1>3, <1>4 DEF NotificationInv

\* The numbers a socket was sent are of messages taken.
LEMMA ToldRange ==
  ASSUME NotificationTypes, NEW s \in Sockets
  PROVE  Len(taken) \in Nat /\ Received(s) \subseteq 1..Len(taken) /\ since[s] \in 0..Len(taken)
BY DEF NotificationTypes, Received, NO!ToSet

\* A step that takes and sends no message and registers nobody: clients come and leave.
Quiet ==
    /\ taken' = taken /\ heard' = heard /\ since' = since /\ shuffled' = shuffled
    /\ listener'.at = listener.at /\ listener'.channel = listener.channel
    /\ listener'.start = listener.start /\ listener'.visited = listener.visited
    /\ listener'.to = listener.to
    /\ \A c \in Channels : connections'[c] \subseteq connections[c]
    /\ \A s \in Sockets :
           /\ NO!ChannelOf(s)' = NO!ChannelOf(s) /\ (Listens(s)' => Listens(s))
           /\ endpoint'[s].at \in {"new", "accepting"} => endpoint[s].at \in {"new", "accepting"}
           /\ endpoint[s].at \in {"receiving", "closed"} => endpoint'[s].at \in {"receiving", "closed"}

LEMMA QuietKeeps ==
  ASSUME NotificationInv, NotificationTypes', Quiet
  PROVE  NotificationInv'
<1>1. \A s \in Sockets : Received(s)' = Received(s)
  BY DEF Quiet, Received
<1>2. \A s \in Sockets : /\ Due(s, since[s])' = Due(s, since[s])
                         /\ Due(s, since[s] - 1)' = Due(s, since[s] - 1)
  BY DEF Quiet, Due
<1>3. Broadcast'
  <2> SUFFICES ASSUME listener'.at = "sending"
      PROVE  /\ taken' # <<>> /\ taken'[Len(taken')].channel = listener'.channel
             /\ listener'.channel \in Channels /\ (\A s, t \in listener'.to : s = t)
             /\ \A s \in listener'.start \cup listener'.visited \cup listener'.to :
                    endpoint'[s].at \in {"receiving", "closed"} /\ NO!ChannelOf(s)' = listener'.channel
             /\ \A s \in connections'[listener'.channel] : since'[s] < Len(taken') => s \in listener'.start
             /\ Len(taken') \notin shuffled' =>
                   /\ listener'.to \subseteq listener'.visited
                   /\ \A s \in Sockets : s \notin listener'.visited \/ s \in listener'.to =>
                                               Len(taken') \notin Received(s)'
    BY DEF Broadcast
  <2>1. /\ listener.at = "sending" /\ listener.start \subseteq Sockets /\ listener.visited \subseteq Sockets
        /\ listener.to \subseteq Sockets
    BY DEF Quiet, NotificationInv, NotificationTypes, Listeners
  <2>2. /\ taken' # <<>> /\ taken'[Len(taken')].channel = listener'.channel
        /\ listener'.channel \in Channels /\ (\A s, t \in listener'.to : s = t)
    BY <2>1 DEF Quiet, NotificationInv, Broadcast
  <2>3. \A s \in listener'.start \cup listener'.visited \cup listener'.to :
            endpoint'[s].at \in {"receiving", "closed"} /\ NO!ChannelOf(s)' = listener'.channel
    BY <2>1 DEF Quiet, NotificationInv, Broadcast
  <2>4. \A s \in connections'[listener'.channel] : since'[s] < Len(taken') => s \in listener'.start
    BY <2>1, <2>2 DEF Quiet, NotificationInv, Broadcast
  <2>5. Len(taken') \notin shuffled' =>
           /\ listener'.to \subseteq listener'.visited
           /\ \A s \in Sockets : s \notin listener'.visited \/ s \in listener'.to => Len(taken') \notin Received(s)'
    BY <1>1, <2>1 DEF Quiet, NotificationInv, Broadcast
  <2> QED BY <2>2, <2>3, <2>4, <2>5
<1>4. ASSUME NEW s \in Sockets PROVE Heard(s)'
  <2>1. Heard(s)
    BY DEF NotificationInv
  <2>2. /\ heard'[s] = heard[s] /\ Len(taken') = Len(taken) /\ since'[s] = since[s] /\ shuffled' = shuffled
        /\ listener'.at = listener.at /\ listener'.visited = listener.visited /\ listener'.to = listener.to
        /\ (Listens(s)' => Listens(s))
        /\ (endpoint'[s].at \in {"new", "accepting"} => endpoint[s].at \in {"new", "accepting"})
    BY DEF Quiet
  <2>3. Received(s)' = Received(s) /\ Due(s, since[s])' = Due(s, since[s]) /\ Due(s, since[s] - 1)' = Due(s, since[s] - 1)
    BY <1>1, <1>2
  <2>4. Rising(heard[s])' <=> Rising(heard[s])
    BY <2>2 DEF Rising
  <2> QED BY <2>1, <2>2, <2>3, <2>4 DEF Heard
<1> QED BY <1>3, <1>4 DEF NotificationInv

\* The endpoint of s moves to another place.
LEMMA GoesOn ==
  ASSUME NotificationInv, NEW s \in Sockets, NEW place \in {"new", "accepting", "receiving", "closed"},
         NO!Go(s, place)
  PROVE  /\ endpoint' \in [Sockets -> [at : {"new", "accepting", "receiving", "closed"}, channel : Channels]]
         /\ \A t \in Sockets : NO!ChannelOf(t)' = NO!ChannelOf(t) /\ (t # s => endpoint'[t].at = endpoint[t].at)
         /\ endpoint'[s].at = place
<1>1. endpoint \in [Sockets -> [at : {"new", "accepting", "receiving", "closed"}, channel : Channels]]
      /\ endpoint' = [endpoint EXCEPT ![s].at = place]
  BY DEF NotificationInv, NotificationTypes, NO!Go
<1> QED BY <1>1 DEF NO!ChannelOf

LEMMA AcceptKeeps ==
  ASSUME NotificationInv, NEW s \in Sockets, NO!Accept(s)
  PROVE  NotificationInv'
<1>1. endpoint[s].at = "new" /\ NO!Go(s, "accepting")
      /\ UNCHANGED <<gone, connections, queue, taken, listener, spare, shuffled, heard, since>>
  BY DEF NO!Accept
<1>2. /\ endpoint' \in [Sockets -> [at : {"new", "accepting", "receiving", "closed"}, channel : Channels]]
      /\ \A t \in Sockets : NO!ChannelOf(t)' = NO!ChannelOf(t) /\ (t # s => endpoint'[t].at = endpoint[t].at)
      /\ endpoint'[s].at = "accepting"
  BY <1>1, GoesOn
<1>3. \A t \in Sockets : endpoint'[t].at = "receiving" <=> endpoint[t].at = "receiving"
  BY <1>1, <1>2
<1>4. NotificationTypes'
  <2>1. \A t \in Sockets : t \in connections'[NO!ChannelOf(t)'] <=> endpoint'[t].at = "receiving"
    BY <1>1, <1>2, <1>3 DEF NotificationInv, NotificationTypes
  <2>2. \A c \in Channels : \A t \in connections'[c] : NO!ChannelOf(t)' = c
    BY <1>1, <1>2 DEF NotificationInv, NotificationTypes
  <2> QED BY <1>1, <1>2, <2>1, <2>2 DEF NotificationInv, NotificationTypes
<1>5. Quiet
  BY <1>1, <1>2, <1>3 DEF Quiet, Listens, NotificationInv, NotificationTypes
<1> QED BY <1>4, <1>5, QuietKeeps

LEMMA LeaveKeeps ==
  ASSUME NotificationInv, NEW s \in Sockets, NO!Leave(s)
  PROVE  NotificationInv'
<1>1. gone' = gone \cup {s} /\ UNCHANGED <<endpoint, connections, queue, taken, listener, spare, shuffled, heard, since>>
  BY DEF NO!Leave
<1>2. NotificationTypes'
  BY <1>1 DEF NotificationInv, NotificationTypes, NO!ChannelOf
<1>3. Quiet
  BY <1>1 DEF Quiet, Listens, NO!ChannelOf
<1> QED BY <1>2, <1>3, QuietKeeps

LEMMA DisconnectKeeps ==
  ASSUME NotificationInv, NEW s \in Sockets, NO!Disconnect(s)
  PROVE  NotificationInv'
<1>1. /\ endpoint[s].at = "receiving" /\ s \in gone /\ NO!Go(s, "closed")
      /\ connections' = [connections EXCEPT ![NO!ChannelOf(s)] = @ \ {s}]
      /\ \E b \in BOOLEAN : listener' = [listener EXCEPT !.dropped = b]
      /\ UNCHANGED <<gone, queue, taken, spare, shuffled, heard, since>>
  BY DEF NO!Disconnect, NotificationInv, NotificationTypes, Listeners
<1>2. /\ endpoint' \in [Sockets -> [at : {"new", "accepting", "receiving", "closed"}, channel : Channels]]
      /\ \A t \in Sockets : NO!ChannelOf(t)' = NO!ChannelOf(t) /\ (t # s => endpoint'[t].at = endpoint[t].at)
      /\ endpoint'[s].at = "closed"
  BY <1>1, GoesOn
<1>3. /\ connections \in [Channels -> SUBSET Sockets] /\ NO!ChannelOf(s) \in Channels
      /\ \A t \in Sockets : NO!ChannelOf(t) \in Channels
      /\ \A c \in Channels : \A t \in connections[c] : NO!ChannelOf(t) = c
      /\ \A t \in Sockets : t \in connections[NO!ChannelOf(t)] <=> endpoint[t].at = "receiving"
  BY DEF NotificationInv, NotificationTypes, NO!ChannelOf
<1>4. /\ connections' \in [Channels -> SUBSET Sockets]
      /\ \A c \in Channels : connections'[c] = connections[c] \ {s}
  <2>1. \A c \in Channels : c # NO!ChannelOf(s) => s \notin connections[c]
    BY <1>3
  <2> QED BY <1>1, <1>3, <2>1
<1>5. /\ listener' \in Listeners /\ listener'.at = listener.at /\ listener'.channel = listener.channel
      /\ listener'.start = listener.start /\ listener'.visited = listener.visited
      /\ listener'.to = listener.to
  <2>1. PICK b \in BOOLEAN : listener' = [listener EXCEPT !.dropped = b]
    BY <1>1
  <2> QED BY <2>1 DEF NotificationInv, NotificationTypes, Listeners
<1>6. NotificationTypes'
  <2>1. \A t \in Sockets : t \in connections'[NO!ChannelOf(t)'] <=> endpoint'[t].at = "receiving"
    BY <1>2, <1>3, <1>4
  <2>2. \A c \in Channels : \A t \in connections'[c] : NO!ChannelOf(t)' = c
    BY <1>2, <1>3, <1>4
  <2> QED BY <1>1, <1>2, <1>4, <1>5, <2>1, <2>2 DEF NotificationInv, NotificationTypes
<1>7. Quiet
  BY <1>1, <1>2, <1>4, <1>5 DEF Quiet, Listens
<1> QED BY <1>6, <1>7, QuietKeeps

LEMMA PublishKeeps ==
  ASSUME NotificationInv, NEW c \in Channels, NEW p \in Payloads, NO!Publish(c, p)
  PROVE  NotificationInv'
<1>1. queue' = Append(queue, [channel |-> c, payload |-> p])
      /\ UNCHANGED <<endpoint, gone, connections, taken, listener, spare, shuffled, heard, since>>
  BY DEF NO!Publish
<1>2. queue' \in Seq(Messages)
  <2>1. [channel |-> c, payload |-> p] \in Messages /\ queue \in Seq(Messages)
    BY DEF Messages, NotificationInv, NotificationTypes
  <2> QED BY <1>1, <2>1
<1>3. NotificationTypes'
  BY <1>1, <1>2 DEF NotificationInv, NotificationTypes, NO!ChannelOf
<1>4. Quiet
  BY <1>1 DEF Quiet, Listens, NO!ChannelOf
<1> QED BY <1>3, <1>4, QuietKeeps

LEMMA ConnectKeeps ==
  ASSUME NotificationInv, NEW s \in Sockets, NO!Connect(s)
  PROVE  NotificationInv'
<1>1. /\ endpoint[s].at = "accepting" /\ NO!Go(s, "receiving")
      /\ connections' = [connections EXCEPT ![NO!ChannelOf(s)] = @ \cup {s}]
      /\ since' = [since EXCEPT ![s] = Len(taken)]
      /\ NO!Room(NO!ChannelOf(s))
      /\ UNCHANGED <<gone, queue, taken, heard>>
  BY DEF NO!Connect
<1>2. /\ endpoint' \in [Sockets -> [at : {"new", "accepting", "receiving", "closed"}, channel : Channels]]
      /\ \A t \in Sockets : NO!ChannelOf(t)' = NO!ChannelOf(t) /\ (t # s => endpoint'[t].at = endpoint[t].at)
      /\ endpoint'[s].at = "receiving"
  BY <1>1, GoesOn
<1>3. /\ connections \in [Channels -> SUBSET Sockets]
      /\ \A t \in Sockets : NO!ChannelOf(t) \in Channels
      /\ \A c \in Channels : \A t \in connections[c] : NO!ChannelOf(t) = c
      /\ \A t \in Sockets : t \in connections[NO!ChannelOf(t)] <=> endpoint[t].at = "receiving"
      /\ since \in [Sockets -> 0..Len(taken)] /\ taken \in Seq(Messages)
  BY DEF NotificationInv, NotificationTypes, NO!ChannelOf
<1>4. /\ connections' \in [Channels -> SUBSET Sockets]
      /\ \A c \in Channels : connections'[c] = IF c = NO!ChannelOf(s) THEN connections[c] \cup {s} ELSE connections[c]
  BY <1>1, <1>3
<1>5. PICK n \in Nat : n = Len(taken)
  BY <1>3
<1>6. /\ since' \in [Sockets -> 0..n] /\ since'[s] = n
      /\ \A t \in Sockets : t # s => since'[t] = since[t]
  <2>1. n \in 0..n
    OBVIOUS
  <2> QED BY <1>1, <1>3, <1>5, <2>1
<1>7. ASSUME NEW t \in Sockets
      PROVE  /\ Received(t)' = Received(t) /\ heard'[t] = heard[t]
             /\ t # s => Due(t, since[t])' = Due(t, since[t]) /\ Due(t, since[t] - 1)' = Due(t, since[t] - 1)
  <2>1. Received(t)' = Received(t) /\ heard'[t] = heard[t]
    BY <1>1 DEF Received
  <2>2. t # s => Due(t, since[t])' = Due(t, since[t]) /\ Due(t, since[t] - 1)' = Due(t, since[t] - 1)
    BY <1>1, <1>2, <1>6 DEF Due
  <2> QED BY <2>1, <2>2
<1>8. /\ listener'.at = listener.at /\ listener'.channel = listener.channel
      /\ listener'.start = listener.start /\ listener'.to = listener.to /\ listener' \in Listeners
      /\ \/ listener'.visited = listener.visited /\ shuffled' = shuffled
         \/ /\ listener.at = "sending" /\ listener'.visited \subseteq connections'[listener.channel]
            /\ shuffled' = shuffled \cup {n}
  <2>1. listener \in Listeners
    BY DEF NotificationInv, NotificationTypes
  <2>2. CASE listener' = listener /\ shuffled' = shuffled
    BY <2>1, <2>2
  <2>3. CASE /\ listener.at = "sending" /\ listener.channel = NO!ChannelOf(s)
             /\ \E passed \in SUBSET connections'[NO!ChannelOf(s)] : listener' = [listener EXCEPT !.visited = passed]
             /\ shuffled' = shuffled \cup {Len(taken)}
    <3>1. PICK passed \in SUBSET connections'[NO!ChannelOf(s)] : listener' = [listener EXCEPT !.visited = passed]
      BY <2>3
    <3>2. passed \subseteq Sockets
      BY <1>3, <1>4
    <3> QED BY <1>5, <2>1, <2>3, <3>1, <3>2 DEF Listeners
  <2> QED BY <1>1, <2>2, <2>3 DEF NO!Room
<1>9. spare' \in [Channels -> Nat] /\ shuffled' \subseteq 1..n /\ shuffled \subseteq shuffled'
  <2>1. spare \in [Channels -> Nat] /\ shuffled \subseteq 1..n /\ Spares \subseteq Nat
    BY <1>5, ServicesAssumption DEF NotificationInv, NotificationTypes
  <2>2. spare' \in [Channels -> Nat]
    <3>1. \/ \E k \in Spares : spare' = [spare EXCEPT ![NO!ChannelOf(s)] = k]
          \/ spare[NO!ChannelOf(s)] # 0 /\ spare' = [spare EXCEPT ![NO!ChannelOf(s)] = @ - 1]
      BY <1>1 DEF NO!Room
    <3>2. \A k \in Nat : k # 0 => k - 1 \in Nat
      OBVIOUS
    <3>3. spare[NO!ChannelOf(s)] \in Nat /\ NO!ChannelOf(s) \in Channels
      BY <1>3, <2>1
    <3>4. CASE \E k \in Spares : spare' = [spare EXCEPT ![NO!ChannelOf(s)] = k]
      BY <2>1, <3>3, <3>4
    <3>5. CASE spare[NO!ChannelOf(s)] # 0 /\ spare' = [spare EXCEPT ![NO!ChannelOf(s)] = @ - 1]
      BY <2>1, <3>2, <3>3, <3>5
    <3> QED BY <3>1, <3>4, <3>5
  <2>3. listener.at = "sending" => n \in 1..n
    <3>1. listener.at = "sending" => Len(taken) # 0
      BY <1>3 DEF NotificationInv, Broadcast
    <3> QED BY <1>5, <3>1
  <2> QED BY <1>8, <2>1, <2>2, <2>3
<1>10. NotificationTypes'
  <2>1. \A t \in Sockets : t \in connections'[NO!ChannelOf(t)'] <=> endpoint'[t].at = "receiving"
    <3>1. s \in connections'[NO!ChannelOf(s)']
      BY <1>2, <1>3, <1>4
    <3>2. ASSUME NEW t \in Sockets, t # s PROVE t \in connections'[NO!ChannelOf(t)'] <=> t \in connections[NO!ChannelOf(t)]
      BY <1>2, <1>3, <1>4, <3>2
    <3> QED BY <1>2, <1>3, <3>1, <3>2
  <2>2. \A c \in Channels : \A t \in connections'[c] : NO!ChannelOf(t)' = c
    BY <1>2, <1>3, <1>4
  <2> QED BY <1>1, <1>2, <1>4, <1>5, <1>6, <1>8, <1>9, <2>1, <2>2 DEF NotificationInv, NotificationTypes
<1>11. Broadcast'
  <2> SUFFICES ASSUME listener.at = "sending"
      PROVE  /\ taken # <<>> /\ taken[Len(taken)].channel = listener.channel
             /\ listener.channel \in Channels /\ (\A t, u \in listener.to : t = u)
             /\ \A t \in listener.start \cup listener'.visited \cup listener.to :
                    endpoint'[t].at \in {"receiving", "closed"} /\ NO!ChannelOf(t)' = listener.channel
             /\ \A t \in connections'[listener.channel] : since'[t] < Len(taken) => t \in listener.start
             /\ Len(taken) \notin shuffled' =>
                   /\ listener.to \subseteq listener'.visited
                   /\ \A t \in Sockets : t \notin listener'.visited \/ t \in listener.to => Len(taken) \notin Received(t)'
    BY <1>1, <1>8 DEF Broadcast
  <2>1. /\ taken # <<>> /\ taken[Len(taken)].channel = listener.channel
        /\ listener.channel \in Channels /\ (\A t, u \in listener.to : t = u)
        /\ \A t \in listener.start \cup listener.visited \cup listener.to :
               endpoint[t].at \in {"receiving", "closed"} /\ NO!ChannelOf(t) = listener.channel
        /\ \A t \in connections[listener.channel] : since[t] < Len(taken) => t \in listener.start
        /\ listener.start \subseteq Sockets /\ listener.visited \subseteq Sockets /\ listener.to \subseteq Sockets
    BY DEF NotificationInv, Broadcast, NotificationTypes, Listeners
  <2>2. \A t \in listener.start \cup listener'.visited \cup listener.to :
            endpoint'[t].at \in {"receiving", "closed"} /\ NO!ChannelOf(t)' = listener.channel
    <3>1. \A t \in listener.start \cup listener.visited \cup listener.to :
              endpoint'[t].at \in {"receiving", "closed"} /\ NO!ChannelOf(t)' = listener.channel
      BY <1>1, <1>2, <2>1
    <3>2. ASSUME NEW t \in connections'[listener.channel]
          PROVE  endpoint'[t].at \in {"receiving", "closed"} /\ NO!ChannelOf(t)' = listener.channel
      <4>1. t \in Sockets /\ NO!ChannelOf(t)' = listener.channel
        BY <1>4, <1>10, <2>1 DEF NotificationTypes
      <4> QED BY <1>10, <4>1 DEF NotificationTypes
    <3> QED BY <1>8, <3>1, <3>2
  <2>3. \A t \in connections'[listener.channel] : since'[t] < Len(taken) => t \in listener.start
    <3> SUFFICES ASSUME NEW t \in connections'[listener.channel], since'[t] < n PROVE t \in listener.start
      BY <1>5
    <3>1. t # s
      BY <1>6
    <3>2. t \in connections[listener.channel] /\ t \in Sockets
      BY <1>3, <1>4, <2>1, <3>1
    <3> QED BY <1>5, <1>6, <2>1, <3>1, <3>2
  <2>4. ASSUME Len(taken) \notin shuffled'
        PROVE  /\ listener.to \subseteq listener'.visited
               /\ \A t \in Sockets : t \notin listener'.visited \/ t \in listener.to => Len(taken) \notin Received(t)'
    <3>1. listener'.visited = listener.visited /\ Len(taken) \notin shuffled
      BY <1>5, <1>8, <2>4
    <3> QED BY <1>7, <3>1 DEF NotificationInv, Broadcast
  <2> QED BY <2>1, <2>2, <2>3, <2>4
<1>12. Heard(s)'
  <2>1. heard[s] = <<>> /\ Received(s)' = {}
    <3>1. heard[s] = <<>>
      BY <1>1 DEF NotificationInv, Heard
    <3> QED BY <1>7, <3>1 DEF Received, NO!ToSet
  <2>2. Due(s, since[s])' = {}
    BY <1>1, <1>5, <1>6 DEF Due
  <2>3. Rising(heard[s])'
    BY <1>1, <2>1 DEF Rising
  <2>4. listener'.at = "sending" /\ Len(taken') \notin shuffled' => s \notin listener'.visited
    <3>1. listener.at = "sending" => s \notin listener.visited
      BY <1>1 DEF NotificationInv, Broadcast
    <3> QED BY <1>1, <1>5, <1>8, <3>1
  <2> QED BY <1>2, <2>1, <2>2, <2>3, <2>4 DEF Heard
<1>13. ASSUME NEW t \in Sockets, t # s PROVE Heard(t)'
  <2>1. Heard(t)
    BY DEF NotificationInv
  <2>2. endpoint'[t].at = endpoint[t].at /\ Listens(t)' = Listens(t)
    BY <1>1, <1>2, <1>13 DEF Listens
  <2>3. Rising(heard[t])'
    BY <1>7, <1>9, <2>1 DEF Heard, Rising
  <2>4. Len(taken') = n /\ Len(taken) = n
    BY <1>1, <1>5
  <2>5. n \notin shuffled' => listener'.visited = listener.visited
    BY <1>8
  <2>6. /\ endpoint'[t].at \in {"new", "accepting"} => heard'[t] = <<>>
        /\ Received(t)' \subseteq Due(t, since[t] - 1)'
    BY <1>7, <1>13, <2>1, <2>2 DEF Heard
  <2>7. listener'.at = "listening" /\ Listens(t)' => Due(t, since[t])' \ shuffled' \subseteq Received(t)'
    BY <1>7, <1>8, <1>9, <1>13, <2>1, <2>2 DEF Heard
  <2>8. listener'.at = "sending" /\ Listens(t)' =>
          \A i \in Due(t, since[t])' : i = n \/ i \in shuffled' \/ i \in Received(t)'
    BY <1>7, <1>8, <1>9, <1>13, <2>1, <2>2, <2>4 DEF Heard
  <2>9. listener'.at = "sending" /\ n \notin shuffled' =>
          (t \in listener'.visited \ listener'.to /\ Listens(t)' => n \in Received(t)')
    BY <1>7, <1>8, <1>9, <1>13, <2>1, <2>2, <2>4, <2>5 DEF Heard
  <2> QED BY <2>3, <2>4, <2>6, <2>7, <2>8, <2>9 DEF Heard
<1> QED BY <1>10, <1>11, <1>12, <1>13 DEF NotificationInv

LEMMA TakeKeeps ==
  ASSUME NotificationInv, NO!Take
  PROVE  NotificationInv'
<1> DEFINE m == Head(queue)
           c == m.channel
<1>1. /\ listener.at = "listening" /\ queue # <<>>
      /\ queue' = Tail(queue) /\ taken' = Append(taken, m)
      /\ \/ listener' = [NO!Resting EXCEPT !.at = "dead"]
         \/ connections[c] = {} /\ listener' = NO!Resting
         \/ \E s \in connections[c] :
               listener' = [at |-> "sending", channel |-> c, start |-> connections[c],
                            visited |-> {s}, to |-> {s}, dropped |-> FALSE]
      /\ UNCHANGED <<endpoint, gone, connections, spare, shuffled, heard, since>>
  BY DEF NO!Take
<1>2. /\ connections \in [Channels -> SUBSET Sockets] /\ queue \in Seq(Messages) /\ taken \in Seq(Messages)
      /\ \A t \in Sockets : NO!ChannelOf(t) \in Channels
      /\ \A d \in Channels : \A t \in connections[d] : NO!ChannelOf(t) = d
      /\ \A t \in Sockets : t \in connections[NO!ChannelOf(t)] <=> endpoint[t].at = "receiving"
      /\ heard \in [Sockets -> Seq(1..Len(taken))] /\ since \in [Sockets -> 0..Len(taken)]
      /\ spare \in [Channels -> Nat] /\ shuffled \subseteq 1..Len(taken)
  BY DEF NotificationInv, NotificationTypes, NO!ChannelOf
<1>3. m \in Messages /\ c \in Channels /\ Tail(queue) \in Seq(Messages)
  <2>1. m \in Messages /\ Tail(queue) \in Seq(Messages)
    BY <1>1, <1>2
  <2> QED BY <2>1 DEF Messages
<1> HIDE DEF m
<1>4. PICK n \in Nat : n = Len(taken)
  BY <1>2
<1>5. /\ taken' \in Seq(Messages) /\ Len(taken') = n + 1 /\ taken'[n + 1] = m /\ taken' # <<>>
      /\ \A i \in 1..n : taken'[i] = taken[i]
  <2>1. /\ Append(taken, m) \in Seq(Messages) /\ Len(Append(taken, m)) = Len(taken) + 1
        /\ \A i \in 1..Len(taken) : Append(taken, m)[i] = taken[i]
        /\ Append(taken, m)[Len(taken) + 1] = m
    BY <1>2, <1>3, AppendProperties
  <2> QED BY <1>1, <1>4, <2>1
<1>6. ASSUME NEW t \in Sockets
      PROVE  /\ Received(t)' = Received(t) /\ Received(t) \subseteq 1..n /\ n + 1 \notin Received(t)
             /\ since[t] \in 0..n /\ heard[t] \in Seq(1..n)
  BY <1>1, <1>2, <1>4 DEF Received, NO!ToSet
<1>7. ASSUME NEW t \in Sockets, NEW from \in Int, from <= n
      PROVE  {i \in 1..Len(taken') : i > from /\ taken'[i].channel = NO!ChannelOf(t)} =
                IF NO!ChannelOf(t) = c THEN Due(t, from) \cup {n + 1} ELSE Due(t, from)
  <2>1. \A i \in 1..(n + 1) : i \in 1..n \/ i = n + 1
    OBVIOUS
  <2>2. n + 1 \in 1..(n + 1) /\ n + 1 > from /\ \A i \in 1..n : i \in 1..(n + 1)
    BY <1>7
  <2> QED BY <1>4, <1>5, <2>1, <2>2 DEF Due
<1>8. ASSUME NEW t \in Sockets
      PROVE  /\ Due(t, since[t])' = IF NO!ChannelOf(t) = c THEN Due(t, since[t]) \cup {n + 1} ELSE Due(t, since[t])
             /\ Due(t, since[t] - 1)' = IF NO!ChannelOf(t) = c THEN Due(t, since[t] - 1) \cup {n + 1}
                                        ELSE Due(t, since[t] - 1)
  <2>1. since[t] \in Int /\ since[t] <= n /\ since[t] - 1 \in Int /\ since[t] - 1 <= n
    BY <1>6
  <2>2. NO!ChannelOf(t)' = NO!ChannelOf(t) /\ since'[t] = since[t]
    BY <1>1 DEF NO!ChannelOf
  <2>3. /\ Due(t, since[t])' = {i \in 1..Len(taken') : i > since[t] /\ taken'[i].channel = NO!ChannelOf(t)}
        /\ Due(t, since[t] - 1)' = {i \in 1..Len(taken') : i > since[t] - 1 /\ taken'[i].channel = NO!ChannelOf(t)}
    BY <2>2 DEF Due
  <2> QED BY <1>7, <2>1, <2>3
<1>9. heard' \in [Sockets -> Seq(1..Len(taken'))] /\ since' \in [Sockets -> 0..Len(taken')]
  <2>1. \A i \in 0..n : i \in 0..(n + 1)
    OBVIOUS
  <2>2. \A i \in 1..n : i \in 1..(n + 1)
    OBVIOUS
  <2>3. ASSUME NEW t \in Sockets PROVE heard[t] \in Seq(1..(n + 1))
    <3>1. heard[t] \in Seq(1..n)
      BY <1>6
    <3> QED BY <2>2, <3>1
  <2> QED BY <1>1, <1>2, <1>4, <1>5, <2>1, <2>3
<1>10. listener' \in Listeners
  <2>1. NO!Resting \in Listeners
    BY DEF NO!Resting, Listeners
  <2>2. [NO!Resting EXCEPT !.at = "dead"] \in Listeners
    BY <2>1 DEF Listeners
  <2>3. ASSUME NEW s \in connections[c]
        PROVE  [at |-> "sending", channel |-> c, start |-> connections[c],
                visited |-> {s}, to |-> {s}, dropped |-> FALSE] \in Listeners
    <3>1. s \in Sockets /\ connections[c] \subseteq Sockets
      BY <1>2, <1>3
    <3> QED BY <1>3, <3>1 DEF Listeners
  <2> QED BY <1>1, <2>1, <2>2, <2>3
<1>11. NotificationTypes'
  <2>1. UNCHANGED <<endpoint, gone, connections, spare>> /\ queue' \in Seq(Messages)
    BY <1>1, <1>3
  <2>2. shuffled' \subseteq 1..Len(taken')
    BY <1>1, <1>2, <1>4, <1>5
  <2> QED BY <1>5, <1>9, <1>10, <2>1, <2>2 DEF NotificationInv, NotificationTypes, NO!ChannelOf
<1>12. ASSUME NEW t \in Sockets
       PROVE  /\ Listens(t)' = Listens(t) /\ NO!ChannelOf(t)' = NO!ChannelOf(t)
              /\ endpoint'[t] = endpoint[t] /\ Rising(heard[t])'
              /\ endpoint'[t].at \in {"new", "accepting"} => heard'[t] = <<>>
              /\ Received(t)' \subseteq Due(t, since[t] - 1)'
  <2>1. Listens(t)' = Listens(t) /\ NO!ChannelOf(t)' = NO!ChannelOf(t) /\ endpoint'[t] = endpoint[t]
    BY <1>1 DEF Listens, NO!ChannelOf
  <2>2. Heard(t)
    BY DEF NotificationInv
  <2>3. Rising(heard[t])'
    BY <1>1, <2>2 DEF Heard, Rising
  <2>4. Received(t)' \subseteq Due(t, since[t] - 1)'
    BY <1>6, <1>8, <2>2 DEF Heard
  <2> QED BY <1>1, <2>1, <2>2, <2>3, <2>4 DEF Heard
<1>13. \A t \in Sockets : Listens(t) => Due(t, since[t]) \ shuffled \subseteq Received(t)
  BY <1>1 DEF NotificationInv, Heard
<1>14. CASE listener' = [NO!Resting EXCEPT !.at = "dead"]
  <2>1. listener'.at = "dead"
    BY <1>14 DEF NO!Resting
  <2> QED BY <1>11, <1>12, <2>1 DEF NotificationInv, Broadcast, Heard
<1>15. CASE connections[c] = {} /\ listener' = NO!Resting
  <2>1. listener'.at = "listening"
    BY <1>15 DEF NO!Resting
  <2>2. ASSUME NEW t \in Sockets, Listens(t) PROVE Due(t, since[t])' \ shuffled' \subseteq Received(t)'
    <3>1. NO!ChannelOf(t) # c
      BY <1>2, <1>15, <2>2 DEF Listens
    <3>2. Due(t, since[t])' = Due(t, since[t])
      BY <1>8, <3>1
    <3> QED BY <1>1, <1>6, <1>13, <2>2, <3>2
  <2> QED BY <1>11, <1>12, <2>1, <2>2 DEF NotificationInv, Broadcast, Heard
<1>16. ASSUME NEW s \in connections[c],
              listener' = [at |-> "sending", channel |-> c, start |-> connections[c],
                           visited |-> {s}, to |-> {s}, dropped |-> FALSE]
       PROVE  NotificationInv'
  <2>1. /\ listener'.at = "sending" /\ listener'.channel = c /\ listener'.start = connections[c]
        /\ listener'.visited = {s} /\ listener'.to = {s}
    BY <1>16
  <2>2. s \in Sockets /\ \A t \in connections[c] : t \in Sockets /\ endpoint[t].at = "receiving" /\ NO!ChannelOf(t) = c
    BY <1>2, <1>3, <1>16
  <2>3. Broadcast'
    <3>1. \A t \in listener'.start \cup listener'.visited \cup listener'.to :
              endpoint'[t].at \in {"receiving", "closed"} /\ NO!ChannelOf(t)' = c
      BY <1>12, <1>16, <2>1, <2>2
    <3>2. \A t \in connections'[c] : t \in listener'.start
      BY <1>1, <2>1
    <3>3. \A t \in Sockets : Len(taken') \notin Received(t)'
      BY <1>5, <1>6
    <3>4. taken'[Len(taken')].channel = c
      BY <1>5
    <3> HIDE DEF c
    <3> QED BY <1>3, <1>5, <2>1, <3>1, <3>2, <3>3, <3>4 DEF Broadcast
  <2>4. ASSUME NEW t \in Sockets PROVE Heard(t)'
    <3>1. Listens(t)' => \A i \in Due(t, since[t])' : i = Len(taken') \/ i \in shuffled' \/ i \in Received(t)'
      <4>1. \A i \in Due(t, since[t])' : i = n + 1 \/ i \in Due(t, since[t])
        BY <1>8
      <4> QED BY <1>1, <1>5, <1>6, <1>12, <1>13, <4>1
    <3>2. listener'.visited \ listener'.to = {}
      BY <2>1
    <3> QED BY <1>12, <2>1, <3>1, <3>2 DEF Heard
  <2> QED BY <1>11, <2>3, <2>4 DEF NotificationInv
<1> QED BY <1>1, <1>14, <1>15, <1>16

\* What s was sent stays rising with the number of the message being sent.
LEMMA LastHeard ==
  ASSUME NEW n \in Nat, NEW h \in Seq(1..n), n > 0, n \notin NO!ToSet(h) \/ n \in shuffled, Rising(h)
  PROVE  LET k == Append(h, n) IN
         k \in Seq(1..n) /\ NO!ToSet(k) = NO!ToSet(h) \cup {n} /\ Rising(k)
<1>1. /\ Append(h, n) \in Seq(1..n) /\ DOMAIN Append(h, n) = 1..(Len(h) + 1)
      /\ \A i \in 1..Len(h) : Append(h, n)[i] = h[i]
      /\ Append(h, n)[Len(h) + 1] = n
  <2>1. n \in 1..n
    OBVIOUS
  <2> QED BY <2>1, AppendProperties
<1>2. PICK m \in Nat : m = Len(h) /\ DOMAIN h = 1..m
  OBVIOUS
<1>3. \A i \in 1..(m + 1) : i \in 1..m \/ i = m + 1
  OBVIOUS
<1>4. NO!ToSet(Append(h, n)) = NO!ToSet(h) \cup {n}
  <2>1. m + 1 \in 1..(m + 1) /\ \A i \in 1..m : i \in 1..(m + 1)
    OBVIOUS
  <2> QED BY <1>1, <1>2, <1>3, <2>1 DEF NO!ToSet
<1>5. \A i \in 1..m : h[i] \in 1..n /\ (h[i] < n \/ (h[i] = n /\ n \in shuffled))
  <2>1. \A i \in 1..m : h[i] \in 1..n /\ (h[i] # n \/ n \in shuffled)
    BY <1>2 DEF NO!ToSet
  <2> QED BY <2>1
<1>6. ASSUME NEW i \in 1..(m + 1), NEW j \in 1..(m + 1), i < j
      PROVE  \/ Append(h, n)[i] < Append(h, n)[j]
             \/ Append(h, n)[i] = Append(h, n)[j] /\ Append(h, n)[i] \in shuffled
  <2>1. i \in 1..m
    BY <1>6
  <2>2. CASE j = m + 1
    BY <1>1, <1>2, <1>5, <2>1, <2>2
  <2>3. CASE j \in 1..m
    BY <1>1, <1>2, <1>6, <2>1, <2>3 DEF Rising
  <2> QED BY <1>3, <2>2, <2>3
<1>7. Rising(Append(h, n))
  BY <1>1, <1>2, <1>6 DEF Rising
<1> QED BY <1>1, <1>4, <1>7

LEMMA SentKeeps ==
  ASSUME NotificationInv, NO!Sent
  PROVE  NotificationInv'
<1>1. listener.at = "sending" /\ UNCHANGED <<endpoint, gone, connections, queue, taken, spare, shuffled, since>>
  BY DEF NO!Sent
<1>2. PICK x \in listener.to :
        /\ heard' = IF x \in gone THEN heard ELSE [heard EXCEPT ![x] = Append(@, Len(taken))]
        /\ NO!NextMember(listener)
  BY DEF NO!Sent, NO!Continue
<1> DEFINE c == listener.channel
<1>3. /\ taken # <<>> /\ taken[Len(taken)].channel = c /\ c \in Channels
      /\ listener.to = {x}
      /\ \A s \in listener.start \cup listener.visited \cup listener.to :
             endpoint[s].at \in {"receiving", "closed"} /\ NO!ChannelOf(s) = c
      /\ \A s \in connections[c] : since[s] < Len(taken) => s \in listener.start
      /\ Len(taken) \notin shuffled =>
            /\ x \in listener.visited
            /\ \A s \in Sockets : s \notin listener.visited \/ s = x => Len(taken) \notin Received(s)
  BY <1>1, <1>2 DEF NotificationInv, Broadcast
<1>4. /\ connections \in [Channels -> SUBSET Sockets] /\ taken \in Seq(Messages)
      /\ \A t \in Sockets : NO!ChannelOf(t) \in Channels
      /\ \A d \in Channels : \A t \in connections[d] : NO!ChannelOf(t) = d
      /\ \A t \in Sockets : t \in connections[NO!ChannelOf(t)] <=> endpoint[t].at = "receiving"
      /\ heard \in [Sockets -> Seq(1..Len(taken))] /\ since \in [Sockets -> 0..Len(taken)]
      /\ listener \in Listeners /\ x \in Sockets
  BY <1>2 DEF NotificationInv, NotificationTypes, NO!ChannelOf, Listeners
<1>5. PICK n \in Nat : n = Len(taken) /\ n > 0
  BY <1>3, <1>4
<1>6. /\ heard' \in [Sockets -> Seq(1..n)] /\ Rising(heard[x])'
      /\ Received(x)' = IF x \in gone THEN Received(x) ELSE Received(x) \cup {n}
      /\ \A t \in Sockets : t # x => heard'[t] = heard[t] /\ Received(t)' = Received(t)
  <2>1. Rising(heard[x])
    BY <1>4 DEF NotificationInv, Heard
  <2>2. CASE x \in gone
    <3>1. heard' = heard
      BY <1>2, <2>2
    <3> QED BY <1>1, <1>4, <1>5, <2>1, <2>2, <3>1 DEF Received, Rising
  <2>3. CASE x \notin gone
    <3>1. heard' = [heard EXCEPT ![x] = Append(heard[x], n)]
      BY <1>2, <1>5, <2>3
    <3>2. heard[x] \in Seq(1..n) /\ (n \notin NO!ToSet(heard[x]) \/ n \in shuffled)
      BY <1>3, <1>4, <1>5 DEF Received
    <3>3. /\ Append(heard[x], n) \in Seq(1..n)
          /\ NO!ToSet(Append(heard[x], n)) = NO!ToSet(heard[x]) \cup {n}
          /\ Rising(Append(heard[x], n))
      BY <1>5, <2>1, <3>2, LastHeard
    <3>4. heard'[x] = Append(heard[x], n) /\ \A t \in Sockets : t # x => heard'[t] = heard[t]
      BY <1>4, <3>1
    <3>5. heard' \in [Sockets -> Seq(1..n)]
      BY <1>4, <1>5, <3>1, <3>3
    <3>6. Rising(heard[x])'
      BY <1>1, <3>3, <3>4 DEF Rising
    <3> QED BY <2>3, <3>3, <3>4, <3>5, <3>6 DEF Received
  <2> QED BY <2>2, <2>3
<1>7. /\ taken' = taken /\ Len(taken') = n /\ shuffled' = shuffled
      /\ \A t \in Sockets : /\ Listens(t)' = Listens(t) /\ NO!ChannelOf(t)' = NO!ChannelOf(t)
                            /\ endpoint'[t] = endpoint[t] /\ since'[t] = since[t]
                            /\ Due(t, since[t])' = Due(t, since[t])
                            /\ Due(t, since[t] - 1)' = Due(t, since[t] - 1)
  BY <1>1, <1>5 DEF Listens, NO!ChannelOf, Due
<1>8. ASSUME NEW t \in Sockets
      PROVE  /\ Rising(heard[t])'
             /\ endpoint'[t].at \in {"new", "accepting"} => heard'[t] = <<>>
             /\ Received(t)' \subseteq Due(t, since[t] - 1)
             /\ Listens(t) => \A i \in Due(t, since[t]) : i = n \/ i \in shuffled \/ i \in Received(t)'
             /\ Listens(t) /\ t \in listener.visited /\ n \notin shuffled => n \in Received(t)'
  <2>1. Heard(t)
    BY DEF NotificationInv
  <2>2. t = x => endpoint[t].at \in {"receiving", "closed"} /\ NO!ChannelOf(t) = c
    BY <1>3
  <2>3. Received(t) \subseteq Received(t)' /\ Received(t)' \subseteq Received(t) \cup (IF t = x THEN {n} ELSE {})
    BY <1>6
  <2>4. Rising(heard[t])'
    <3>1. CASE t = x
      BY <1>6, <3>1 DEF Rising
    <3>2. CASE t # x
      <4>1. heard'[t] = heard[t] /\ shuffled' = shuffled
        BY <1>6, <1>7, <3>2
      <4>2. Rising(heard[t])
        BY <2>1 DEF Heard
      <4> QED BY <4>1, <4>2 DEF Rising
    <3> QED BY <3>1, <3>2
  <2>5. endpoint'[t].at \in {"new", "accepting"} => heard'[t] = <<>>
    BY <1>6, <1>7, <2>1, <2>2 DEF Heard
  <2>6. Received(t)' \subseteq Due(t, since[t] - 1)
    <3>1. t = x => n \in Due(t, since[t] - 1)
      <4>1. since[t] \in 0..n /\ n \in 1..Len(taken) /\ taken[n].channel = c
        BY <1>3, <1>4, <1>5
      <4> QED BY <2>2, <4>1 DEF Due
    <3> QED BY <2>1, <2>3, <3>1 DEF Heard
  <2>7. Listens(t) => \A i \in Due(t, since[t]) : i = n \/ i \in shuffled \/ i \in Received(t)'
    BY <1>1, <1>5, <2>1, <2>3 DEF Heard
  <2>8. ASSUME Listens(t), t \in listener.visited, n \notin shuffled PROVE n \in Received(t)'
    <3>1. t = x => n \in Received(t)'
      BY <1>6, <2>8 DEF Listens
    <3>2. t # x => n \in Received(t)
      BY <1>1, <1>3, <1>5, <2>1, <2>8 DEF Heard
    <3> QED BY <2>3, <3>1, <3>2
  <2> QED BY <2>4, <2>5, <2>6, <2>7, <2>8
<1>9. \/ listener' = [NO!Resting EXCEPT !.at = "dead"]
      \/ \E s \in connections[c] \ listener.visited :
             listener' = [listener EXCEPT !.to = {s}, !.visited = @ \cup {s}]
      \/ (connections[c] \cap listener.start) \subseteq listener.visited /\ listener' = NO!Resting
  BY <1>2 DEF NO!NextMember
<1>10. ASSUME listener' \in Listeners PROVE NotificationTypes'
  <2>1. UNCHANGED <<endpoint, gone, connections, queue, taken, spare, shuffled, since>>
    BY <1>1
  <2> QED BY <1>5, <1>6, <1>7, <1>10, <2>1 DEF NotificationInv, NotificationTypes, NO!ChannelOf
<1>11. NO!Resting \in Listeners
  BY DEF NO!Resting, Listeners
<1> HIDE DEF c
<1>12. CASE listener' = [NO!Resting EXCEPT !.at = "dead"]
  <2>1. listener'.at = "dead" /\ listener' \in Listeners
    BY <1>11, <1>12 DEF Listeners
  <2>2. Broadcast'
    BY <2>1 DEF Broadcast
  <2>3. ASSUME NEW t \in Sockets PROVE Heard(t)'
    BY <1>7, <1>8, <2>1 DEF Heard
  <2> QED BY <1>10, <2>1, <2>2, <2>3 DEF NotificationInv
<1>13. ASSUME NEW s \in connections[c] \ listener.visited,
              listener' = [listener EXCEPT !.to = {s}, !.visited = @ \cup {s}]
       PROVE  NotificationInv'
  <2>1. s \in Sockets /\ NO!ChannelOf(s) = c /\ endpoint[s].at = "receiving"
    BY <1>3, <1>4
  <2>2. /\ listener' \in Listeners /\ listener'.at = "sending" /\ listener'.channel = c
        /\ listener'.start = listener.start /\ listener'.visited = listener.visited \cup {s}
        /\ listener'.to = {s}
    BY <1>1, <1>4, <1>13, <2>1 DEF Listeners, c
  <2>3. Broadcast'
    <3>1. \A t \in listener'.start \cup listener'.visited \cup listener'.to :
              endpoint'[t].at \in {"receiving", "closed"} /\ NO!ChannelOf(t)' = c
      <4>1. listener.start \subseteq Sockets /\ listener.visited \subseteq Sockets
        BY <1>4 DEF Listeners
      <4> QED BY <1>3, <1>7, <2>1, <2>2, <4>1
    <3>2. \A t \in connections'[c] : since'[t] < Len(taken') => t \in listener'.start
      BY <1>1, <1>3, <2>2
    <3>3. ASSUME Len(taken') \notin shuffled'
          PROVE  \A t \in Sockets : t \notin listener'.visited \/ t \in listener'.to => Len(taken') \notin Received(t)'
      <4>1. \A t \in Sockets : t \notin listener'.visited \/ t \in listener'.to => t # x /\ t \notin listener.visited
        BY <1>3, <1>5, <1>7, <2>2, <3>3
      <4> QED BY <1>3, <1>5, <1>6, <1>7, <3>3, <4>1
    <3>4. taken' # <<>> /\ taken'[Len(taken')].channel = c
      BY <1>3, <1>7
    <3> QED BY <1>3, <2>2, <3>1, <3>2, <3>3, <3>4 DEF Broadcast
  <2>4. ASSUME NEW t \in Sockets PROVE Heard(t)'
    <3>1. t \in listener'.visited \ listener'.to => t \in listener.visited
      BY <2>2
    <3> QED BY <1>7, <1>8, <2>2, <3>1 DEF Heard
  <2> QED BY <1>10, <2>2, <2>3, <2>4 DEF NotificationInv
<1>14. CASE (connections[c] \cap listener.start) \subseteq listener.visited /\ listener' = NO!Resting
  <2>1. listener'.at = "listening" /\ listener' \in Listeners
    BY <1>11, <1>14 DEF NO!Resting
  <2>2. Broadcast'
    BY <2>1 DEF Broadcast
  <2>3. ASSUME NEW t \in Sockets PROVE Heard(t)'
    <3>1. ASSUME Listens(t) PROVE Due(t, since[t]) \ shuffled \subseteq Received(t)'
      <4>1. SUFFICES ASSUME n \in Due(t, since[t]), n \notin shuffled PROVE n \in Received(t)'
        BY <1>8, <3>1
      <4>2. NO!ChannelOf(t) = c /\ since[t] < n
        BY <1>3, <1>5, <4>1 DEF Due
      <4>3. t \in connections[c]
        BY <1>4, <3>1, <4>2 DEF Listens
      <4>4. t \in listener.visited
        BY <1>3, <1>5, <1>14, <4>2, <4>3
      <4> QED BY <1>8, <3>1, <4>1, <4>4
    <3> QED BY <1>7, <1>8, <2>1, <3>1 DEF Heard
  <2> QED BY <1>10, <2>1, <2>2, <2>3 DEF NotificationInv
<1> QED BY <1>9, <1>12, <1>13, <1>14 DEF c

LEMMA NotificationNext ==
  ASSUME NotificationInv, [NO!Next]_(NO!nvars)
  PROVE  NotificationInv'
<1>1. CASE UNCHANGED NO!nvars
  BY <1>1 DEF NO!nvars, NotificationInv, NotificationTypes, Broadcast, Heard, Rising, Received, Due, Listens, NO!ChannelOf
<1>2. ASSUME NEW s \in Sockets, NO!Accept(s) \/ NO!Connect(s) \/ NO!Leave(s) \/ NO!Disconnect(s)
      PROVE  NotificationInv'
  BY <1>2, AcceptKeeps, ConnectKeeps, LeaveKeeps, DisconnectKeeps
<1>3. ASSUME NEW c \in Channels, NEW p \in Payloads, NO!Publish(c, p) PROVE NotificationInv'
  BY <1>3, PublishKeeps
<1> QED BY <1>1, <1>2, <1>3, TakeKeeps, SentKeeps DEF NO!Next

\* Whoever is connected hears every message of its channel, in order and once, but for
\* messages in whose broadcast the set of members got a new table: for any sockets,
\* channels, payloads, sizes of tables and number of messages (ConnectionManager.broadcast).
THEOREM NotificationsCorrect == Spec => []HeardAllSince
<1>1. Init => NotificationInv
  BY NotificationInit DEF Init
<1>2. NotificationInv /\ [Next]_vars => NotificationInv'
  BY DataSteps, NotificationNext
<1>3. ASSUME NotificationInv PROVE HeardAllSince
  <2> SUFFICES ASSUME NEW s \in Sockets, listener.at = "listening", Listens(s)
      PROVE  /\ Due(s, since[s]) \ shuffled \subseteq Received(s)
             /\ Received(s) \subseteq Due(s, since[s] - 1)
             /\ Rising(heard[s])
    BY DEF HeardAllSince, NO!HeardAllSince, Received, Due, Listens, Rising
  <2> QED BY <1>3 DEF NotificationInv, Heard
<1> QED BY <1>1, <1>2, <1>3, PTL DEF Spec

-----------------------------------------------------------------------------
(* The types of the four components, with what their handlers count, and of *)
(* all eleven.                                                             *)

\* No entry and no reader holds a version that was never written, and only a process
\* whose memory has room keeps one.
CacheFits ==
    /\ row.v <= MaxVersion
    /\ roomy \subseteq Processes
    /\ \A p \in Processes : memory[p] = CA!Nothing \/ (p \in roomy /\ memory[p].v \in 0..row.v)
    /\ shared = CA!Nothing \/ shared.v \in 0..row.v
    /\ \A r \in Readers : reader[r].at \in {"hit", "storing"} => reader[r].v \in 0..row.v
    /\ faults \in 0..MaxFaults /\ missed \in BOOLEAN

LEMMA FitsStay ==
  ASSUME CacheInv, CacheFits, roomy' = roomy, row'.v \in Nat, row.v <= row'.v, row'.v <= MaxVersion,
         \A p \in Processes : \/ memory'[p] = memory[p] \/ memory'[p] = CA!Nothing
                              \/ p \in roomy /\ memory'[p].v \in 0..row.v,
         shared' = shared \/ shared' = CA!Nothing \/ shared'.v \in 0..row.v,
         \A r \in Readers : \/ reader'[r] = reader[r] \/ reader'[r].at \notin {"hit", "storing"}
                            \/ reader'[r].v \in 0..row.v,
         faults' \in 0..MaxFaults, missed' \in BOOLEAN
  PROVE  CacheFits'
<1>1. row.v \in Nat
  BY DEF CacheInv, CacheTypes
<1>2. \A n \in 0..row.v : n \in 0..row'.v
  BY <1>1
<1>3. CA!Nothing' = CA!Nothing
  BY DEF CA!Nothing
<1>4. \A p \in Processes : memory'[p] = CA!Nothing \/ (p \in roomy' /\ memory'[p].v \in 0..row'.v)
  BY <1>2 DEF CacheFits
<1>5. shared' = CA!Nothing \/ shared'.v \in 0..row'.v
  BY <1>2 DEF CacheFits
<1>6. \A r \in Readers : reader'[r].at \in {"hit", "storing"} => reader'[r].v \in 0..row'.v
  BY <1>2 DEF CacheFits
<1> QED BY <1>3, <1>4, <1>5, <1>6 DEF CacheFits

LEMMA FaultCounts ==
  ASSUME CacheFits, CA!Fault \/ faults' = faults
  PROVE  faults' \in 0..MaxFaults
<1>1. MaxFaults \in Nat
  BY ServicesAssumption
<1> QED BY <1>1 DEF CacheFits, CA!Fault

\* Reader r goes to a place, with a version that was written.
LEMMA GoFits ==
  ASSUME CacheInv, NEW r \in Readers, NEW at, NEW v, CA!Go(r, at, v),
         at \notin {"hit", "storing"} \/ v \in 0..row.v
  PROVE  \A q \in Readers : \/ reader'[q] = reader[q] \/ reader'[q].at \notin {"hit", "storing"}
                            \/ reader'[q].v \in 0..row.v
  BY DEF CA!Go, CacheInv, CacheTypes, ReaderRows

LEMMA ReadFits ==
  ASSUME CacheInv, CacheFits, NEW r \in Readers, CA!Read(r)
  PROVE  CacheFits'
<1>1. row.v \in Nat /\ row.v <= row.v /\ row.v \in 0..row.v /\ MaxVersion \in Nat /\ row.v <= MaxVersion
  BY ServicesAssumption DEF CacheInv, CacheTypes, CacheFits
<1>2. row' = row /\ roomy' = roomy /\ missed' = missed /\ missed \in BOOLEAN
  BY DEF CA!Read, CA!Get, CA!Answer, CA!Hit, CA!Miss, CA!Store, CacheFits
<1>3. faults' \in 0..MaxFaults
  BY FaultCounts DEF CA!Read, CA!Get, CA!Answer, CA!Hit, CA!Miss, CA!Store
<1>4. ASSUME NEW v \in 0..row.v, NEW p, CA!Remember(p, v)
      PROVE  \A q \in Processes : \/ memory'[q] = memory[q]
                                  \/ q \in roomy /\ memory'[q].v \in 0..row.v
  BY <1>4 DEF CA!Remember, CA!Entry, CacheInv, CacheTypes
<1>5. CASE CA!Get(r)
  <2>1. CA!Go(r, "asking", -1) /\ UNCHANGED <<memory, shared>>
    BY <1>5 DEF CA!Get
  <2> QED BY <1>1, <1>2, <1>3, <2>1, GoFits, FitsStay
<1>6. CASE CA!Answer(r)
  <2>1. /\ UNCHANGED <<memory, shared>>
        /\ CA!Go(r, "miss", -1) \/ (shared # CA!Nothing /\ CA!Go(r, "hit", shared.v))
    BY <1>6 DEF CA!Answer
  <2>2. shared # CA!Nothing => shared.v \in 0..row.v
    BY DEF CacheFits
  <2> QED BY <1>1, <1>2, <1>3, <2>1, <2>2, GoFits, FitsStay
<1>7. CASE CA!Hit(r)
  <2>1. /\ reader[r].at = "hit" /\ CA!Remember(reader[r].p, reader[r].v)
        /\ CA!Go(r, "idle", -1) /\ shared' = shared
    BY <1>7 DEF CA!Hit
  <2>2. reader[r].v \in 0..row.v
    BY <2>1 DEF CacheFits
  <2> QED BY <1>1, <1>2, <1>3, <1>4, <2>1, <2>2, GoFits, FitsStay
<1>8. CASE CA!Miss(r)
  <2>1. /\ shared' = shared
        /\ \/ CA!Remember(reader[r].p, row.v) /\ CA!Go(r, "storing", row.v)
           \/ memory' = memory /\ CA!Go(r, "idle", -1)
    BY <1>8 DEF CA!Miss
  <2> QED BY <1>1, <1>2, <1>3, <1>4, <2>1, GoFits, FitsStay
<1>9. CASE CA!Store(r)
  <2>1. /\ reader[r].at = "storing" /\ CA!Go(r, "idle", -1) /\ memory' = memory
        /\ shared' = CA!Entry(reader[r].v, TRUE) \/ shared' = shared
    BY <1>9 DEF CA!Store, CA!Stored
  <2>2. CA!Entry(reader[r].v, TRUE).v \in 0..row.v
    BY <2>1 DEF CacheFits, CA!Entry
  <2> QED BY <1>1, <1>2, <1>3, <2>1, <2>2, GoFits, FitsStay
<1> QED BY <1>5, <1>6, <1>7, <1>8, <1>9 DEF CA!Read

LEMMA CacheFitsNext ==
  ASSUME CacheInv, CacheFits, [CA!Next]_(CA!cvars)
  PROVE  CacheFits'
<1>1. row.v \in Nat /\ row.v <= row.v /\ MaxVersion \in Nat /\ row.v <= MaxVersion /\ missed \in BOOLEAN
  BY ServicesAssumption DEF CacheInv, CacheTypes, CacheFits
<1>2. ASSUME NEW p \in Processes, CA!Write(p) PROVE CacheFits'
  <2>1. /\ row.v < MaxVersion /\ UNCHANGED <<roomy, memory, shared, reader, missed>>
        /\ row'.v = row.v + 1 \/ row' = row
        /\ CA!Fault \/ faults' = faults
    BY <1>2 DEF CA!Write
  <2>2. row'.v \in Nat /\ row.v <= row'.v /\ row'.v <= MaxVersion
    BY <1>1, <2>1
  <2> QED BY <1>1, <2>1, <2>2, FaultCounts, FitsStay
<1>3. ASSUME NEW p \in Processes, CA!Crash(p) PROVE CacheFits'
  <2>1. /\ UNCHANGED <<row, roomy, shared>> /\ CA!Fault /\ missed' = (missed \/ tasks' # tasks)
        /\ memory' = [memory EXCEPT ![p] = CA!Nothing]
        /\ reader' = [r \in Readers |-> IF reader[r].p = p THEN CA!Idle(p) ELSE reader[r]]
    BY <1>3 DEF CA!Crash
  <2>2. missed' \in BOOLEAN
    BY <2>1
  <2>3. \A q \in Processes : memory'[q] = memory[q] \/ memory'[q] = CA!Nothing
    BY <2>1 DEF CacheInv, CacheTypes
  <2>4. \A r \in Readers : reader'[r] = reader[r] \/ reader'[r].at \notin {"hit", "storing"}
    BY <2>1 DEF CA!Idle
  <2> QED BY <1>1, <2>1, <2>2, <2>3, <2>4, FaultCounts, FitsStay
<1>4. ASSUME NEW t \in tasks, CA!Invalidate(t) \/ CA!Drop(t) PROVE CacheFits'
  <2>1. /\ UNCHANGED <<row, roomy, reader>>
        /\ CA!Fault \/ faults' = faults
        /\ shared' = shared \/ shared' = CA!Nothing
        /\ missed' = missed \/ missed' = TRUE
        /\ memory' = memory \/ memory' = [memory EXCEPT ![t.p] = CA!Nothing]
    BY <1>4 DEF CA!Invalidate, CA!Drop
  <2>2. \A q \in Processes : memory'[q] = memory[q] \/ memory'[q] = CA!Nothing
    BY <2>1 DEF CacheInv, CacheTypes
  <2>3. missed' \in BOOLEAN
    BY <1>1, <2>1
  <2> QED BY <1>1, <2>1, <2>2, <2>3, FaultCounts, FitsStay
<1>5. CASE CA!Expire
  <2>1. /\ UNCHANGED <<row, roomy, memory, reader, missed, faults>> /\ shared' = CA!Nothing
    BY <1>5 DEF CA!Expire
  <2> QED BY <1>1, <2>1, FaultCounts, FitsStay
<1>6. CASE UNCHANGED CA!cvars
  BY <1>6 DEF CA!cvars, CacheFits, CA!Nothing
<1> QED BY <1>2, <1>3, <1>4, <1>5, <1>6, ReadFits DEF CA!Next, CA!Invalidating

\* Entries, readers and tasks are of their types (the two-level cache).
LEMMA CacheTyped == Spec => [](focus = "cache" => CA!TypeOK)
<1> DEFINE Typed == CacheInv /\ CacheFits
<1>1. Init => Typed
  <2> SUFFICES ASSUME Init PROVE Typed
    OBVIOUS
  <2>1. CA!Init /\ MaxVersion \in Nat /\ MaxFaults \in Nat
    BY ServicesAssumption DEF Init
  <2>2. row.v = 0 /\ roomy \subseteq Processes /\ shared = CA!Nothing /\ faults = 0 /\ missed = FALSE
        /\ memory = [p \in Processes |-> CA!Nothing]
    BY <2>1 DEF CA!Init
  <2>3. \A r \in Readers : reader[r].at = "idle"
    BY <2>1 DEF CA!Init, CA!Idle
  <2>4. row.v <= MaxVersion /\ faults \in 0..MaxFaults
    BY <2>1, <2>2
  <2>5. missed \in BOOLEAN
    BY <2>2
  <2>6. CacheFits
    BY <2>2, <2>3, <2>4, <2>5 DEF CacheFits
  <2> QED BY <2>1, <2>6, CacheInit
<1>2. Typed /\ [Next]_vars => Typed'
  BY DataSteps, CacheNext, CacheFitsNext
<1>3. Typed => CA!TypeOK
  <2> SUFFICES ASSUME Typed PROVE CA!TypeOK
    OBVIOUS
  <2>1. row \in [v : 0..MaxVersion, live : BOOLEAN]
    BY DEF CacheInv, CacheTypes, CacheFits
  <2>2. \A t \in tasks : t.p \in Processes /\ t.at \in {"new", "deleting"}
    BY DEF CacheInv, CacheTypes, TaskRows
  <2>3. \A r \in Readers : reader[r].at \in {"idle", "asking", "hit", "miss", "storing"}
    BY DEF CacheInv, CacheTypes, ReaderRows, ReaderPlaces
  <2> QED BY <2>1, <2>2, <2>3 DEF CacheFits, CA!TypeOK
<1> QED BY <1>1, <1>2, <1>3, PTL DEF Spec

\* Sockets are registered exactly while they receive (notification-service).
LEMMA NotificationTyped == Spec => [](focus = "notification" => NO!TypeOK)
<1>1. Init => NotificationInv
  BY NotificationInit DEF Init
<1>2. NotificationInv /\ [Next]_vars => NotificationInv'
  BY DataSteps, NotificationNext
<1>3. NotificationInv => NO!TypeOK
  BY DEF NotificationInv, NotificationTypes, NO!TypeOK, Listeners
<1> QED BY <1>1, <1>2, <1>3, PTL DEF Spec

\* Where a call has inserted its row, if it has.
Past == {"written", "done", "lost"}
There(n) == record[n].state # "absent"

\* No two rows have one id, and an id that is a call's is of a row the call inserted.
IdsDiffer ==
    /\ \A m, n \in Names : There(m) /\ There(n) /\ record[m].id = record[n].id => m = n
    /\ \A n \in Names : There(n) /\ record[n].id \in Ops => op[record[n].id].at \in Past
    /\ written \subseteq Ops /\ excused \subseteq Ops

\* A step that inserts no row and renames none.
LEMMA IdsStay ==
  ASSUME IdsDiffer,
         \A n \in Names : There(n)' => There(n) /\ record'[n].id = record[n].id,
         \A q \in Ops : op[q].at \in Past => op'[q].at \in Past,
         written' \subseteq Ops, excused' \subseteq Ops
  PROVE  IdsDiffer'
<1>1. \A m, n \in Names : There(m)' /\ There(n)' /\ record'[m].id = record'[n].id => m = n
  BY DEF IdsDiffer
<1>2. \A n \in Names : There(n)' /\ record'[n].id \in Ops => op'[record'[n].id].at \in Past
  BY DEF IdsDiffer
<1> QED BY <1>1, <1>2 DEF IdsDiffer

\* A call goes on, or ends; the rows stay.
LEMMA CallGoesOn ==
  ASSUME RecordsInv, IdsDiffer, NEW o \in Ops, op[o].at \notin Past \/ op'[o].at \in Past,
         \A q \in Ops : q # o => op'[q] = op[q], record' = record,
         written' \subseteq Ops, excused' \subseteq Ops
  PROVE  IdsDiffer'
<1>1. \A q \in Ops : op[q].at \in Past => op'[q].at \in Past
  OBVIOUS
<1>2. \A n \in Names : There(n)' => There(n) /\ record'[n].id = record[n].id
  BY DEF There
<1> QED BY <1>1, <1>2, IdsStay

LEMMA OthersKept ==
  ASSUME RecordsInv, NEW o \in Ops
  PROVE  /\ \A place : RE!Go(o, place) => \A q \in Ops : q # o => op'[q] = op[q]
         /\ \A e : RE!Raise(o, e) => op'[o].at = "done" /\ \A q \in Ops : q # o => op'[q] = op[q]
         /\ RE!AfterCommit(o) => \A q \in Ops : q # o => op'[q] = op[q]
  BY DEF RE!Go, RE!Raise, RE!AfterCommit, RecordsInv, RecordsTypes, OpRows

LEMMA InsertIds ==
  ASSUME RecordsInv, IdsDiffer, NEW o \in Ops, RE!Insert(o)
  PROVE  IdsDiffer'
<1> DEFINE n == RE!RowOf(o)
           at == IF service = "secrets" THEN "written" ELSE "done"
<1>1. op[o].at = "loaded" /\ op[o].at \notin Past
  BY DEF RE!Insert, RE!At, Past
<1>2. n \in Names
  BY RowOfIsAName DEF RecordsInv
<1>3. CASE record[n].state # "absent"
  <2>1. RE!Raise(o, "IntegrityError") /\ UNCHANGED <<record, written, excused>>
    BY <1>3 DEF RE!Insert, RE!Refused
  <2>2. written' \subseteq Ops /\ excused' \subseteq Ops
    BY <2>1 DEF IdsDiffer
  <2> QED BY <1>1, <2>1, <2>2, OthersKept, CallGoesOn
<1>4. CASE record[n].state = "absent"
  <2>1. /\ record' = [record EXCEPT ![n] = [state |-> "active", id |-> o]]
        /\ written' = written \cup {o} /\ excused' = excused \cup RE!Overtaken(o)
        /\ op' = [op EXCEPT ![o].id = o, ![o].at = at]
    BY <1>4 DEF RE!Insert
  <2>2. record'[n].id = o /\ \A m \in Names : m # n => record'[m] = record[m]
    BY <1>2, <2>1 DEF RecordsInv, RecordsTypes
  <2>3. /\ op'[o].at \in Past /\ \A q \in Ops : q # o => op'[q] = op[q]
    BY <2>1 DEF RecordsInv, RecordsTypes, OpRows, Past
  <2>4. \A m \in Names : There(m) => record[m].id # o
    BY <1>1 DEF IdsDiffer
  <2>5. \A l, m \in Names : There(l)' /\ There(m)' /\ record'[l].id = record'[m].id => l = m
    <3> HIDE DEF n
    <3>1. \A m \in Names : m # n /\ There(m)' => There(m) /\ record'[m].id = record[m].id
      BY <2>2 DEF There
    <3> QED BY <2>2, <2>4, <3>1 DEF IdsDiffer
  <2>6. \A m \in Names : There(m)' /\ record'[m].id \in Ops => op'[record'[m].id].at \in Past
    <3> HIDE DEF n, at
    <3>1. \A m \in Names : m # n /\ There(m)' => There(m) /\ record'[m].id = record[m].id
      BY <2>2 DEF There
    <3>2. \A q \in Ops : op[q].at \in Past => op'[q].at \in Past
      BY <2>3
    <3> QED BY <2>2, <2>3, <3>1, <3>2 DEF IdsDiffer
  <2>7. written' \subseteq Ops /\ excused' \subseteq Ops
    BY <2>1 DEF IdsDiffer, RE!Overtaken
  <2> QED BY <2>5, <2>6, <2>7 DEF IdsDiffer
<1> QED BY <1>3, <1>4

LEMMA RenameIds ==
  ASSUME RecordsInv, IdsDiffer, NEW o \in Ops, RE!Rename(o)
  PROVE  IdsDiffer'
<1> DEFINE n == RE!RowOf(o)
<1>1. op[o].at \notin Past
  BY DEF RE!Rename, RE!At, Past
<1>2. n \in Names
  BY RowOfIsAName DEF RecordsInv
<1>3. CASE RE!Refused(o, "SQLAlchemyError") \/ RE!Refused(o, "IntegrityError")
  <2>1. /\ RE!Raise(o, "SQLAlchemyError") \/ RE!Raise(o, "IntegrityError")
        /\ UNCHANGED <<record, written, excused>>
    BY <1>3 DEF RE!Refused
  <2>2. written' \subseteq Ops /\ excused' \subseteq Ops
    BY <2>1 DEF IdsDiffer
  <2> QED BY <1>1, <2>1, <2>2, OthersKept, CallGoesOn
<1>4. CASE /\ RE!Mine(o) # {}
           /\ record[n].state = "absent" \/ n \in RE!Mine(o)
           /\ record' = [m \in Names |->
                    IF m = n THEN [state |-> "active", id |-> op[o].id]
                    ELSE IF m \in RE!Mine(o) THEN [state |-> "absent", id |-> m] ELSE record[m]]
           /\ written' = written \cup {o}
           /\ excused' = excused \cup RE!Overtaken(o)
           /\ RE!AfterCommit(o)
  <2>1. \A q \in Ops : op[q].at \in Past => op'[q].at \in Past
    BY <1>1, <1>4, OthersKept
  <2>2. PICK l \in Names : There(l) /\ record[l].id = op[o].id
    BY <1>4 DEF RE!Mine, There
  <2> HIDE DEF n
  <2>3. \A m \in Names : m # n /\ There(m)' =>
            There(m) /\ record'[m].id = record[m].id /\ record[m].id # op[o].id
    BY <1>4 DEF There, RE!Mine
  <2>4. record'[n].id = op[o].id
    BY <1>2, <1>4
  <2>5. \A k, m \in Names : There(k)' /\ There(m)' /\ record'[k].id = record'[m].id => k = m
    BY <2>3, <2>4 DEF IdsDiffer
  <2>6. \A m \in Names : There(m)' /\ record'[m].id \in Ops => op'[record'[m].id].at \in Past
    BY <2>1, <2>2, <2>3, <2>4 DEF IdsDiffer
  <2>7. written' \subseteq Ops /\ excused' \subseteq Ops
    BY <1>4 DEF IdsDiffer, RE!Overtaken
  <2> QED BY <2>5, <2>6, <2>7 DEF IdsDiffer
<1> QED BY <1>3, <1>4 DEF RE!Rename

LEMMA RecordIdsNext ==
  ASSUME RecordsInv, IdsDiffer, [RE!Next]_(RE!rvars)
  PROVE  IdsDiffer'
<1>1. written \subseteq Ops /\ excused \subseteq Ops
  BY DEF IdsDiffer
<1>2. ASSUME NEW o \in Ops, RE!Validate(o) PROVE IdsDiffer'
  <2>1. op[o].at \in {"new", "found"} /\ UNCHANGED <<record, written>> /\ excused' \subseteq Ops
    BY <1>1, <1>2 DEF RE!Validate, RE!At
  <2>2. \A q \in Ops : q # o => op'[q] = op[q]
    BY <1>2, OthersKept DEF RE!Validate, RE!NameRefused, RE!NameAccepted
  <2> QED BY <1>1, <2>1, <2>2, CallGoesOn DEF Past
<1>3. ASSUME NEW o \in Ops, RE!GetOr404(o) PROVE IdsDiffer'
  <2>1. op[o].at = "new" /\ UNCHANGED <<record, written, excused>>
    BY <1>3 DEF RE!GetOr404, RE!At
  <2>2. \A q \in Ops : q # o => op'[q] = op[q]
    BY <1>3 DEF RE!GetOr404, RE!Raise, RecordsInv, RecordsTypes, OpRows
  <2> QED BY <1>1, <2>1, <2>2, CallGoesOn DEF Past
<1>4. ASSUME NEW o \in Ops, RE!Update(o) \/ RE!Delete(o) PROVE IdsDiffer'
  <2>1. op[o].at = "loaded" /\ \A q \in Ops : q # o => op'[q] = op[q]
    BY <1>4, OthersKept DEF RE!Update, RE!Delete, RE!At, RE!Refused
  <2>2. written' \subseteq Ops /\ excused' \subseteq Ops
    BY <1>1, <1>4 DEF RE!Update, RE!Delete, RE!Refused, RE!Commit
  <2>3. record' = record \/ \E state \in RowStates : record' =
            [n \in Names |-> IF n \in RE!Mine(o) THEN [record[n] EXCEPT !.state = state] ELSE record[n]]
    BY <1>4 DEF RE!Update, RE!Delete, RE!Refused, RE!Commit, RowStates
  <2>4. \A n \in Names : There(n)' => There(n) /\ record'[n].id = record[n].id
    BY <2>3 DEF There, RE!Mine, RecordsInv, RecordsTypes, RecordRows
  <2>5. \A q \in Ops : op[q].at \in Past => op'[q].at \in Past
    BY <2>1 DEF Past
  <2> QED BY <2>2, <2>4, <2>5, IdsStay
<1>5. ASSUME NEW o \in Ops, RE!LogAuditEvent(o) \/ RE!DatabaseFails(o) \/ RE!ProcessDies(o)
      PROVE  IdsDiffer'
  <2>1. UNCHANGED <<record, written, excused>> /\ \A q \in Ops : q # o => op'[q] = op[q]
    BY <1>5, OthersKept DEF RE!LogAuditEvent, RE!DatabaseFails, RE!ProcessDies, RE!Refused
  <2>2. op'[o].at \in Past
    BY <1>5 DEF RE!LogAuditEvent, RE!DatabaseFails, RE!ProcessDies, RE!Refused, RE!Go, RE!Raise, Past,
                RecordsInv, RecordsTypes, OpRows
  <2> QED BY <1>1, <2>1, <2>2, CallGoesOn
<1>6. CASE UNCHANGED RE!rvars
  BY <1>6 DEF RE!rvars, IdsDiffer, There
<1> QED BY <1>2, <1>3, <1>4, <1>5, <1>6, InsertIds, RenameIds DEF RE!Next

\* Rows and calls are of their types, and a call has one row at most.
LEMMA RecordsTyped == Spec => [](focus = "records" => RE!TypeOK)
<1> DEFINE Typed == RecordsInv /\ IdsDiffer
<1>1. Init => Typed
  <2> SUFFICES ASSUME RE!Init PROVE IdsDiffer
    BY RecordsInit DEF Init
  <2>1. \A n \in Names : record[n].id = n
    BY DEF RE!Init
  <2>2. written = {} /\ excused = {}
    BY DEF RE!Init
  <2>3. Names \cap Ops = {}
    BY ServicesAssumption
  <2> QED BY <2>1, <2>2, <2>3 DEF IdsDiffer
<1>2. Typed /\ [Next]_vars => Typed'
  BY DataSteps, RecordsNext, RecordIdsNext
<1>3. Typed => RE!TypeOK
  <2> SUFFICES ASSUME Typed PROVE RE!TypeOK
    OBVIOUS
  <2>1. ASSUME NEW o \in Ops
        PROVE  RE!Cardinality(RE!Mine(o)) <= 1 /\ op[o].raised \in RE!Classes \cup {"nothing"}
    <3>1. \A m, n \in RE!Mine(o) : m = n
      BY DEF IdsDiffer, There, RE!Mine
    <3>4. op[o].raised \in Raisings
      BY DEF RecordsInv, RecordsTypes, OpRows
    <3>5. Raisings \subseteq RE!Classes \cup {"nothing"}
      BY DEF Raisings, RE!Classes, RE!Base
    <3>6. RE!Cardinality(RE!Mine(o)) <= 1
      <4>1. RE!Mine(o) = {} \/ \E n : RE!Mine(o) = {n}
        BY <3>1
      <4>2. Cardinality(RE!Mine(o)) \in {0, 1}
        BY <4>1, FS_EmptySet, FS_Singleton
      <4>3. RE!Cardinality(RE!Mine(o)) \in {0, 1}
        BY <4>2, SameCardinality
      <4> QED BY <4>3
    <3> QED BY <3>4, <3>5, <3>6
  <2>2. service \in DOMAIN RE!Kinds
    BY DEF RecordsInv, RecordsTypes, RE!Kinds
  <2>3. record \in [Names -> [state : {"absent", "active", "inactive"}, id : Names \cup Ops]]
    BY DEF RecordsInv, RecordsTypes, RecordRows, RowStates, Ids
  <2>4. \A o \in Ops : op[o].at \in {"new", "found", "loaded", "written", "done", "lost"}
    BY DEF RecordsInv, RecordsTypes, OpRows, OpPlaces
  <2>5. written \cup audit \cup excused \subseteq Ops
    BY DEF RecordsInv, IdsDiffer
  <2> QED BY <2>1, <2>2, <2>3, <2>4, <2>5 DEF RE!TypeOK
<1> QED BY <1>1, <1>2, <1>3, PTL DEF Spec

Categories == {"auth", "script", "execution", "secret", "approval", "system"}

\* Only a loop that yields has a batch, and a row has the category of a typed event.
TrailFits ==
    /\ consumer.at # "yielding" => consumer.batch = <<>>
    /\ \A k \in 1..Len(rows) : rows[k].category \in Categories
    /\ mishaps \in 0..MaxMishaps

LEMMA TypedCategory ==
  ASSUME NEW e, e.type # <<>>
  PROVE  AT!Category(e) \in Categories
  BY DEF AT!Category, Categories

LEMMA TrailFitsNext ==
  ASSUME TrailInv, TrailFits, [AT!Next]_(AT!uvars)
  PROVE  TrailFits'
<1>1. /\ consumer \in ConsumerRows /\ rows \in Seq(TrailRows) /\ MaxMishaps \in Nat
      /\ mishaps \in 0..MaxMishaps
  BY ServicesAssumption DEF TrailInv, TrailTypes, TrailFits
<1>2. AT!Mishap \/ mishaps' = mishaps => mishaps' \in 0..MaxMishaps
  BY <1>1 DEF AT!Mishap
<1>3. ASSUME NEW t \in Topics, NEW e \in Events, AT!Publish(t, e) PROVE TrailFits'
  BY <1>3 DEF AT!Publish, TrailFits
<1>4. CASE AT!Poll
  <2>1. consumer.at = "polling" /\ UNCHANGED <<rows, mishaps>>
    BY <1>4 DEF AT!Poll
  <2>2. \/ consumer' = [consumer EXCEPT !.at = "ended"]
        \/ \E b : consumer' = [consumer EXCEPT !.at = "yielding", !.batch = b]
    BY <1>4 DEF AT!Poll
  <2>3. consumer'.at # "yielding" => consumer'.batch = <<>>
    BY <1>1, <2>1, <2>2 DEF TrailFits, ConsumerRows
  <2> QED BY <2>1, <2>3 DEF TrailFits
<1>5. CASE AT!ProcessEvent
  <2> DEFINE offset == Head(consumer.batch)
             event == topic[offset[1]][offset[2]]
             rest == Tail(consumer.batch)
             entry == [offset |-> offset, event |-> event, category |-> AT!Category(event),
                       risk |-> AT!RiskLevel(consumer.code, event)]
  <2>1. /\ consumer.at = "yielding"
        /\ consumer' = [consumer EXCEPT
               !.at = IF consumer.code = "core" THEN "ended" ELSE IF rest = <<>> THEN "polling" ELSE @,
               !.batch = IF consumer.code = "core" THEN <<>> ELSE rest]
        /\ AT!Mishap \/ mishaps' = mishaps
        /\ rows' = rows \/ (event.type # <<>> /\ rows' = Append(rows, entry))
    BY <1>5 DEF AT!ProcessEvent
  <2>2. consumer'.at # "yielding" => consumer'.batch = <<>>
    <3> HIDE DEF rest
    <3>1. consumer'.batch = (IF consumer.code = "core" THEN <<>> ELSE rest)
      BY <1>1, <2>1 DEF ConsumerRows
    <3>2. consumer'.at = (IF consumer.code = "core" THEN "ended"
                          ELSE IF rest = <<>> THEN "polling" ELSE consumer.at)
      BY <1>1, <2>1 DEF ConsumerRows
    <3> QED BY <2>1, <3>1, <3>2
  <2>3. \A k \in 1..Len(rows') : rows'[k].category \in Categories
    <3>1. CASE rows' = rows
      BY <3>1 DEF TrailFits
    <3>2. CASE event.type # <<>> /\ rows' = Append(rows, entry)
      <4>1. AT!Category(event) \in Categories
        <5> HIDE DEF event
        <5> QED BY <3>2, TypedCategory
      <4>2. entry.category = AT!Category(event)
        <5> HIDE DEF event
        <5> QED OBVIOUS
      <4> HIDE DEF entry
      <4>3. /\ Len(rows) \in Nat /\ Len(rows') = Len(rows) + 1 /\ rows'[Len(rows) + 1] = entry
            /\ \A k \in 1..Len(rows) : rows'[k] = rows[k]
        BY <1>1, <3>2
      <4>4. \A k \in 1..Len(rows') : k \in 1..Len(rows) \/ k = Len(rows) + 1
        BY <4>3
      <4>5. entry.category \in Categories
        BY <4>1, <4>2
      <4> QED BY <4>3, <4>4, <4>5 DEF TrailFits
    <3> QED BY <2>1, <3>1, <3>2
  <2> QED BY <1>2, <2>1, <2>2, <2>3 DEF TrailFits
<1>6. CASE AT!Restart
  <2>1. /\ consumer' = [consumer EXCEPT !.at = "polling", !.batch = <<>>]
        /\ AT!Mishap /\ rows' = rows
    BY <1>6 DEF AT!Restart, AT!Start
  <2>2. consumer'.batch = <<>>
    BY <1>1, <2>1 DEF ConsumerRows
  <2> QED BY <1>2, <2>1, <2>2 DEF TrailFits
<1>7. CASE UNCHANGED AT!uvars
  BY <1>7 DEF AT!uvars, TrailFits
<1> QED BY <1>3, <1>4, <1>5, <1>6, <1>7 DEF AT!Next

\* Rows, batches and offsets are of their types (audit-service).
LEMMA AuditTyped == Spec => [](focus = "audit" => AT!TypeOK)
<1> DEFINE Typed == TrailInv /\ TrailFits
<1>1. Init => Typed
  <2> SUFFICES ASSUME AT!Init PROVE TrailFits
    BY TrailInit DEF Init
  <2>1. consumer.batch = <<>> /\ rows = <<>> /\ mishaps = 0
    BY DEF AT!Init
  <2>2. 0 \in 0..MaxMishaps
    BY ServicesAssumption
  <2> QED BY <2>1, <2>2 DEF TrailFits
<1>2. Typed /\ [Next]_vars => Typed'
  BY DataSteps, TrailNext, TrailFitsNext
<1>3. Typed => AT!TypeOK
  <2> SUFFICES ASSUME Typed PROVE AT!TypeOK
    OBVIOUS
  <2>1. PICK n \in Nat : n = Len(rows) /\ DOMAIN rows = 1..n
    BY DEF TrailInv, TrailTypes
  <2>2. AT!FailedActions <= n
    <3> DEFINE failed == {i \in DOMAIN rows : rows[i].event.status = "failure"}
    <3>1. IsFiniteSet(1..n) /\ Cardinality(1..n) = n
      <4>1. 1 \in Int /\ n \in Int
        OBVIOUS
      <4>2. IsFiniteSet(1..n) /\ Cardinality(1..n) = IF 1 > n THEN 0 ELSE n - 1 + 1
        BY <4>1, FS_Interval
      <4> QED BY <4>2
    <3>2. failed \subseteq 1..n
      BY <2>1
    <3> HIDE DEF failed
    <3>3. Cardinality(failed) <= n
      BY <3>1, <3>2, FS_Subset
    <3>4. AT!FailedActions = Cardinality(failed)
      BY SameCardinality DEF AT!FailedActions, failed
    <3> QED BY <3>3, <3>4
  <2>3. DOMAIN AT!EventsByCategory \subseteq Categories
    BY <2>1 DEF AT!EventsByCategory, TrailFits
  <2>4. consumer.at \in {"polling", "yielding", "ended"}
    BY DEF TrailInv, TrailTypes, ConsumerRows, ConsumerPlaces
  <2>5. consumer.at # "yielding" <=> consumer.batch = <<>>
    BY DEF TrailInv, BatchFollows, TrailFits
  <2> QED BY <2>1, <2>2, <2>3, <2>4, <2>5 DEF TrailInv, Behind, TrailFits, Categories, AT!TypeOK
<1> QED BY <1>1, <1>2, <1>3, PTL DEF Spec

\* The state of every service has its type, and what its handlers count agrees with what
\* they keep: permits with running suites, offsets with each other, tokens with the tabs
\* that know them, rows with their ids; for any value of the constants.
THEOREM TypesCorrect == Spec => []TypesOK
<1>1. /\ focus = "cache" => CA!TypeOK
      /\ focus = "tests" => TF!TypeOK
      /\ focus = "notification" => NO!TypeOK
      /\ focus = "container" => CR!TypeOK
      /\ focus = "scheduler" => SC!TypeOK
      /\ focus = "records" => RE!TypeOK
      /\ focus = "analysis" => SA!TypeOK
      /\ focus = "audit" => AT!TypeOK
      /\ focus = "approval" => AP!TypeOK
      /\ focus = "accounts" => AC!TypeOK
      /\ focus = "browser" => BR!TypeOK
      => TypesOK
  BY DEF TypesOK
<1> QED BY <1>1, CacheTyped, TestsTyped, NotificationTyped, ContainerTyped, SchedulerTyped, RecordsTyped,
           AnalysisTyped, AuditTyped, ApprovalTyped, AccountsTyped, BrowserTyped, PTL
=============================================================================
