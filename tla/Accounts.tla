------------------------------ MODULE Accounts ------------------------------
(***************************************************************************)
(* auth-service: registration, where the first user becomes the admin,     *)
(* and login.  Three replicas share the database, so an action is one      *)
(* statement or commit of a handler; username and email are unique there.  *)
(* Publishing an event logs its own failures (app/core/events.py).         *)
(***************************************************************************)
EXTENDS Integers, FiniteSets

CONSTANTS
    Registrations,  \* calls of POST /register
    Usernames, Emails,
    Logins,         \* calls of POST /login
    MaxFailures     \* bound: statements that fail and processes that die

VARIABLES
    users,     \* the committed rows
    register,  \* register[r]: place, what it asks for, the role and id it got
    overlap,   \* overlap[r]: ids of the users that were there when r began (ghost)
    login,     \* login[l]: place, username
    told,      \* events published: type, and the user's id and role
    failures

avars == <<users, register, overlap, login, told, failures>>

Init ==
    /\ users = {}
    /\ register \in [Registrations -> [at : {"new"}, name : Usernames, email : Emails,
                                       role : {"VIEWER"}, id : {0}]]
    /\ overlap = [r \in Registrations |-> {}]
    /\ login \in [Logins -> [at : {"new"}, name : Usernames]]
    /\ told = {} /\ failures = 0

Goes(r, place) == register' = [register EXCEPT ![r].at = place]
Ids == {u.id : u \in users}
Failure == failures < MaxFailures /\ failures' = failures + 1
-----------------------------------------------------------------------------

\* get_user_by_username and the answer 400.
CheckUsername(r) ==
    /\ register[r].at = "new"
    /\ Goes(r, IF \E u \in users : u.name = register[r].name THEN "refused" ELSE "email")
    /\ overlap' = [overlap EXCEPT ![r] = Ids]
    /\ UNCHANGED <<users, login, told, failures>>

\* get_user_by_email and the answer 400.
CheckEmail(r) ==
    /\ register[r].at = "email"
    /\ Goes(r, IF \E u \in users : u.email = register[r].email THEN "refused" ELSE "count")
    /\ UNCHANGED <<users, overlap, login, told, failures>>

\* A mutant of IsFirstUser: the count comes after the row was added.
IsFirstUserAfterAdd == Cardinality(users) + 1 = 0

IsFirstUser == Cardinality(users) = 0

CountUsers(r) ==
    /\ register[r].at = "count"
    /\ register' = [register EXCEPT ![r].at = "insert",
                                    ![r].role = IF IsFirstUser THEN "ADMIN" ELSE "VIEWER"]
    /\ UNCHANGED <<users, overlap, login, told, failures>>

\* The INSERT and its commit; a taken name or address raises.
Insert(r) ==
    LET new == [id |-> Cardinality(users) + 1, name |-> register[r].name,
                email |-> register[r].email, role |-> register[r].role]
    IN  /\ register[r].at = "insert"
        /\ IF \E u \in users : u.name = new.name \/ u.email = new.email
           THEN Goes(r, "failed") /\ UNCHANGED users
           ELSE /\ users' = users \cup {new}
                /\ register' = [register EXCEPT ![r].at = "publish", ![r].id = new.id]
        /\ UNCHANGED <<overlap, login, told, failures>>

\* publish: a broker that is away or refuses is logged.
PublishCreated(r) ==
    /\ register[r].at = "publish" /\ Goes(r, "done")
    /\ \/ /\ UNCHANGED failures
          /\ told' = told \cup {[type |-> "user.created", id |-> register[r].id, role |-> register[r].role]}
       \/ Failure /\ UNCHANGED told
    /\ UNCHANGED <<users, overlap, login>>

\* A statement fails, or the process dies.
RegisterFails(r) ==
    /\ register[r].at \in {"new", "email", "count", "insert", "publish"} /\ Failure
    /\ Goes(r, "failed")
    /\ UNCHANGED <<users, overlap, login, told>>

\* authenticate_user with the right password, last_login and its commit.
Login(l) ==
    /\ login[l].at = "new"
    /\ login' = [login EXCEPT ![l].at = IF \E u \in users : u.name = login[l].name
                                        THEN "publish" ELSE "refused"]
    /\ UNCHANGED <<users, register, overlap, told, failures>>

\* create_tokens, and the event.
PublishLoggedIn(l) ==
    /\ login[l].at = "publish" /\ login' = [login EXCEPT ![l].at = "done"]
    /\ \/ UNCHANGED failures /\ \E u \in users : u.name = login[l].name
             /\ told' = told \cup {[type |-> "user.logged_in", id |-> u.id, role |-> u.role]}
       \/ Failure /\ UNCHANGED told
    /\ UNCHANGED <<users, register, overlap>>

Next ==
    \/ \E r \in Registrations :
        \/ CheckUsername(r) \/ CheckEmail(r) \/ CountUsers(r) \/ Insert(r)
        \/ PublishCreated(r) \/ RegisterFails(r)
    \/ \E l \in Logins : Login(l) \/ PublishLoggedIn(l)

Spec == Init /\ [][Next]_avars
-----------------------------------------------------------------------------

TypeOK ==
    /\ \A u \in users : u.id \in 1..Cardinality(users) /\ u.role \in {"ADMIN", "VIEWER"}
    /\ \A u, v \in users : u.id = v.id \/ u.name = v.name \/ u.email = v.email => u = v
    /\ \A e \in told : e.id \in Ids
    /\ failures \in 0..MaxFailures

\* "First user is admin, others are viewers" (auth_service.py:27): whoever is
\* first in the end, an admin is there as soon as anybody is; and there is a
\* second one only where two registrations overlapped, with as many as like to
\* racing between the count and the insert.
FirstUserIsAdmin ==
    /\ users # {} => \E u \in users : u.role = "ADMIN"
    /\ \A r, s \in Registrations : r # s /\ register[r].id # 0 /\ register[s].id # 0
         /\ register[r].role = "ADMIN" /\ register[s].role = "ADMIN"
         => register[s].id \notin overlap[r] /\ register[r].id \notin overlap[s]
=============================================================================
