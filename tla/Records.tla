------------------------------- MODULE Records -------------------------------
(***************************************************************************)
(* The records of a service built on BaseService and AuditedService:       *)
(* SecretService, which follows each creation, reading and change with a   *)
(* row in an audit table, committed on its own, and ScriptService, which   *)
(* also renames and clones.  A service runs in several replicas over one   *)
(* database with a unique column; an action is one statement or commit     *)
(* there.  A row is known by its id: the call that inserted it, or the     *)
(* name it had at first.                                                   *)
(***************************************************************************)
EXTENDS Integers, FiniteSets, Errors

CONSTANTS
    Ops,         \* calls of the service
    Names,       \* what may stand in the unique column
    Sanitized,      \* Sanitized[n]: what sanitize_html makes of a requested name n
    Source,      \* the script that is renamed and cloned
    MaxDbFaults  \* bound: calls that meet a database error or the end of their process

VARIABLES
    service,   \* "secrets" or "scripts"
    record,    \* record[n]: the row with n in its name column, and its id
    op,        \* op[o]: place, kind, the name asked for, the id loaded, what it raised
    written,   \* calls whose change of the row is committed
    audit,     \* calls that have a row in the audit table
    excused,   \* calls no check of names could have refused (ghost)
    dbfaults

rvars == <<service, record, op, written, audit, excused, dbfaults>>

Kinds == [secrets |-> {"create", "reveal", "change", "soft_delete", "delete"},
          scripts |-> {"create", "clone", "rename", "change", "delete"}]

Init ==
    /\ service \in DOMAIN Kinds
    /\ record \in {[n \in Names |-> [state |-> IF n \in there THEN "active" ELSE "absent", id |-> n]] :
                   there \in SUBSET {Source, Sanitized[Source]}}
    /\ op \in [Ops -> {[at |-> "new", kind |-> k, name |-> n, id |-> n, raised |-> "nothing"] :
                      k \in Kinds[service], n \in DOMAIN Sanitized}]
    /\ \A o \in Ops : op[o].kind = "rename" => op[o].name # Source
    /\ written = {} /\ audit = {} /\ excused = {} /\ dbfaults = 0

\* The name a call stores or looks for, and the row it has loaded, wherever it is.
RowOf(o) == IF service = "scripts" THEN op[o].name ELSE Sanitized[op[o].name]
Mine(o) == {n \in Names : record[n].state # "absent" /\ record[n].id = op[o].id}
At(o, place) == op[o].at = place
Go(o, place) == op' = [op EXCEPT ![o].at = place]
Raise(o, exception) == op' = [op EXCEPT ![o].at = "done", ![o].raised = exception]
Fault == dbfaults < MaxDbFaults /\ dbfaults' = dbfaults + 1
-----------------------------------------------------------------------------

\* A mutant of Exists: inactive rows are asked for instead of active ones.
ExistsInactive(o) == record[op[o].name].state = "inactive"

\* exists(name=name, is_active=True), for the name as it was asked for; a script has
\* no is_active, and is active here as long as it is there.
Exists(o) == record[op[o].name].state = "active"

\* What the check of a name says.  A script's name may not hold what sanitize_html
\* changes; its content is checked after its name.
NameRefused(o) ==
    CASE service = "secrets" -> Exists(o) /\ Raise(o, "ValidationError")
      [] OTHER -> IF Sanitized[op[o].name] # op[o].name THEN Raise(o, "ValidationError")
                  ELSE IF Exists(o) THEN Raise(o, "ResourceAlreadyExistsError")
                  ELSE op[o].kind # "rename" /\ Raise(o, "ScriptValidationError")

NameAccepted(o) ==
    /\ ~Exists(o)
    /\ service = "scripts" => Sanitized[op[o].name] = op[o].name
    /\ Go(o, "loaded")

\* _validate_create and, of a rename, _validate_update.  SecretService sanitizes the
\* name after the check.
Validate(o) ==
    /\ \/ At(o, "new") /\ op[o].kind = "create"
       \/ At(o, "found")
    /\ NameRefused(o) \/ NameAccepted(o)
    /\ excused' = IF record[RowOf(o)].state = "inactive" \/ RowOf(o) # op[o].name
                  THEN excused \cup {o} ELSE excused
    /\ UNCHANGED <<service, record, written, audit, dbfaults>>

\* get_or_404: inactive rows are found too.
GetOr404(o) ==
    LET target == record[IF op[o].kind \in {"rename", "clone"} THEN Source ELSE RowOf(o)] IN
    /\ At(o, "new") /\ op[o].kind # "create"
    /\ IF target.state = "absent"
       THEN Raise(o, "ResourceNotFoundError")
       ELSE op' = [op EXCEPT ![o].at = IF op[o].kind \in {"rename", "clone"} THEN "found" ELSE "loaded",
                             ![o].id = target.id]
    /\ UNCHANGED <<service, record, written, audit, excused, dbfaults>>

\* The row of o, if it is still there, gets another state.
Commit(o, state) ==
    /\ record' = [n \in Names |-> IF n \in Mine(o) THEN [record[n] EXCEPT !.state = state] ELSE record[n]]
    /\ written' = written \cup {o}
    /\ UNCHANGED excused

\* Only SecretService writes an audit row, and not after a deletion, which is logged.
AfterCommit(o) ==
    Go(o, IF service = "secrets" /\ op[o].kind \in {"create", "reveal", "change"} THEN "written" ELSE "done")
Refused(o, exception) == Raise(o, exception) /\ UNCHANGED <<record, written, excused>>

\* Calls whose check of the name o takes now is behind them.
Overtaken(o) == {q \in Ops \ {o} : At(q, "loaded") /\ RowOf(q) = RowOf(o)
                                   /\ op[q].kind \in {"create", "clone", "rename"}}

\* The INSERT and its commit; the unique column refuses a name that is there.
Insert(o) ==
    /\ At(o, "loaded") /\ op[o].kind \in {"create", "clone"}
    /\ IF record[RowOf(o)].state # "absent" THEN Refused(o, "IntegrityError")
       ELSE /\ record' = [record EXCEPT ![RowOf(o)] = [state |-> "active", id |-> o]]
            /\ written' = written \cup {o}
            /\ excused' = excused \cup Overtaken(o)
            /\ op' = [op EXCEPT ![o].id = o,
                               ![o].at = IF service = "secrets" THEN "written" ELSE "done"]
    /\ UNCHANGED <<service, audit, dbfaults>>

\* The UPDATE of the name and its commit.
Rename(o) ==
    /\ At(o, "loaded") /\ op[o].kind = "rename"
    /\ IF Mine(o) = {} THEN Refused(o, "SQLAlchemyError")
       ELSE IF record[RowOf(o)].state # "absent" /\ RowOf(o) \notin Mine(o)
       THEN Refused(o, "IntegrityError")
       ELSE /\ record' = [n \in Names |->
                    IF n = RowOf(o) THEN [state |-> "active", id |-> op[o].id]
                    ELSE IF n \in Mine(o) THEN [state |-> "absent", id |-> n] ELSE record[n]]
            /\ written' = written \cup {o}
            /\ excused' = excused \cup Overtaken(o)
            /\ AfterCommit(o)
    /\ UNCHANGED <<service, audit, dbfaults>>

\* The UPDATE and its commit; one of a row that is gone raises.
Update(o) ==
    /\ At(o, "loaded") /\ op[o].kind \in {"reveal", "change", "soft_delete"}
    /\ IF Mine(o) = {} THEN Refused(o, "SQLAlchemyError")
       ELSE /\ AfterCommit(o)
            /\ IF op[o].kind = "soft_delete" THEN Commit(o, "inactive")
               ELSE written' = written \cup {o} /\ UNCHANGED <<record, excused>>
    /\ UNCHANGED <<service, audit, dbfaults>>

\* The DELETE and its commit; one of a row that is gone is a warning only.
Delete(o) ==
    /\ At(o, "loaded") /\ op[o].kind = "delete"
    /\ AfterCommit(o) /\ Commit(o, "absent")
    /\ UNCHANGED <<service, audit, dbfaults>>

\* _log_audit_event adds the audit row and commits it; create_secret reads the id
\* of its row again for it.
LogAuditEvent(o) ==
    /\ At(o, "written")
    /\ IF op[o].kind = "create" /\ Mine(o) = {}
       THEN Raise(o, "SQLAlchemyError") /\ UNCHANGED audit
       ELSE Go(o, "done") /\ audit' = audit \cup {o}
    /\ UNCHANGED <<service, record, written, excused, dbfaults>>

\* A statement or commit fails, is rolled back and raises.
DatabaseFails(o) ==
    /\ op[o].at \in {"new", "found", "loaded", "written"} /\ Fault
    /\ Refused(o, "OperationalError")
    /\ UNCHANGED <<service, audit>>

\* The process dies: the service gives no answer.
ProcessDies(o) ==
    /\ op[o].at \in {"found", "loaded", "written"} /\ Fault
    /\ Go(o, "lost")
    /\ UNCHANGED <<service, record, written, audit, excused>>

Next == \E o \in Ops :
    \/ Validate(o) \/ GetOr404(o) \/ Insert(o) \/ Rename(o) \/ Update(o) \/ Delete(o)
    \/ LogAuditEvent(o) \/ DatabaseFails(o) \/ ProcessDies(o)

Spec == Init /\ [][Next]_rvars
-----------------------------------------------------------------------------

TypeOK ==
    /\ service \in DOMAIN Kinds
    /\ record \in [Names -> [state : {"absent", "active", "inactive"}, id : Names \cup Ops]]
    /\ \A o \in Ops : Cardinality(Mine(o)) <= 1 /\ op[o].raised \in Classes \cup {"nothing"}
    /\ \A o \in Ops : op[o].at \in {"new", "found", "loaded", "written", "done", "lost"}
    /\ written \cup audit \cup excused \subseteq Ops

\* What a caller concludes from the status of the answer is true of the tables,
\* with two replicas, failing statements and audit rows committed separately:
\* after a success the change and its audit row are there, after a 4xx neither is
\* (a 500 says nothing), and no audit row tells of a change that was not made.
AnswersTruthful ==
    /\ audit \subseteq written
    /\ \A o \in Ops : At(o, "done") =>
        IF op[o].raised = "nothing"
        THEN /\ o \in written
             /\ service = "secrets" /\ op[o].kind \in {"create", "reveal", "change"} => o \in audit
        ELSE Status(op[o].raised) \in ClientErrors => o \notin written

\* A duplicate name is refused by the check of creations, clones and renames, whose
\* error says so.  It gets as far as the unique column only when two such calls
\* overlap, when a secret's row is soft-deleted, or when sanitize_html changes the
\* secret's name after the check.
DuplicatesFoundByTheCheck ==
    \A o \in Ops : op[o].raised = "IntegrityError" => o \in excused
=============================================================================
