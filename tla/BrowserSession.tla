--------------------------- MODULE BrowserSession ---------------------------
(***************************************************************************)
(* A user's session in the front end: the tokens in localStorage, which    *)
(* the tabs of a browser share, the store of each tab, and the requests    *)
(* that lib/api.ts sends and whose 401 it answers by refreshing.           *)
(*                                                                         *)
(* An action is what the browser runs from one awaited answer to the next. *)
(* Both tokens are always written and removed together, so localStorage is *)
(* the number of the login they are of, 0 for none.  The refresh never     *)
(* succeeds: it sends the token in the body, and the route of auth-service *)
(* takes it from the query and answers 422.                                *)
(***************************************************************************)
EXTENDS Integers, FiniteSets

CONSTANTS
    Tabs,      \* tabs of one browser
    Requests,  \* requests in flight together
    MaxLogins  \* bound: successful logins

VARIABLES
    storage,   \* localStorage: the login whose tokens it holds
    tab,       \* tab[t]: isAuthenticated, and whether it is on its way to /login
    request,   \* request[r]: its tab, kind, place, and the login of its token
    logins,    \* successful logins so far
    expired,   \* logins whose access token has expired
    ended      \* the last removal of tokens: who did it, and with which cause (ghost)

bvars == <<storage, tab, request, logins, expired, ended>>

Idle == [tab |-> CHOOSE t \in Tabs : TRUE, kind |-> "call", at |-> "idle", token |-> 0]

\* isAuthenticated: !!localStorage.getItem('access_token')
Loaded == [isAuthenticated |-> storage # 0, leaving |-> FALSE]

Init ==
    /\ storage = 0 /\ logins = 0 /\ expired = {} /\ ended = [tab |-> CHOOSE t \in Tabs : TRUE, cause |-> "none"]
    /\ tab = [t \in Tabs |-> Loaded]
    /\ request = [r \in Requests |-> Idle]

Over(r) == request' = [request EXCEPT ![r] = Idle]
RequestsOf(t) == {r \in Requests : request[r].at # "idle" /\ request[r].tab = t}
Sent(t, kind) == [tab |-> t, kind |-> kind, at |-> "sent", token |-> storage]

\* removeItem of both tokens, for the given cause.
RemoveTokens(t, cause) ==
    /\ storage' = 0
    /\ ended' = IF storage = 0 THEN ended ELSE [tab |-> t, cause |-> cause]
-----------------------------------------------------------------------------

\* A protected page sends a request with the token of this moment.
Send(r, t) ==
    /\ request[r].at = "idle" /\ tab[t].isAuthenticated
    /\ request' = [request EXCEPT ![r] = Sent(t, "call")]
    /\ UNCHANGED <<storage, tab, logins, expired, ended>>

\* login: the form, whose button is off while a login is under way.
Submit(r, t) ==
    /\ request[r].at = "idle" /\ ~tab[t].isAuthenticated
    /\ \A q \in RequestsOf(t) : request[q].kind = "call"
    /\ request' = [request EXCEPT ![r] = Sent(t, "login")]
    /\ UNCHANGED <<storage, tab, logins, expired, ended>>

\* The tokens of a login that succeeded are kept, and the user is asked for.
LoggedIn(r) ==
    /\ request[r].at = "sent" /\ request[r].kind = "login" /\ logins < MaxLogins
    /\ logins' = logins + 1 /\ storage' = logins + 1
    /\ request' = [request EXCEPT ![r].kind = "me", ![r].token = logins + 1]
    /\ UNCHANGED <<tab, expired, ended>>

\* get_current_user lets a token in until it expires.
Accepted(r) == request[r].kind # "login" /\ request[r].token \notin expired \cup {0}

\* The answer to a request that is let in; a login is complete with its user.
Answered(r) ==
    /\ request[r].at = "sent" /\ Accepted(r)
    /\ Over(r)
    /\ tab' = IF request[r].kind = "me"
              THEN [tab EXCEPT ![request[r].tab].isAuthenticated = TRUE] ELSE tab
    /\ UNCHANGED <<storage, logins, expired, ended>>

\* What a request may be refused with.  401 is for a wrong password or an expired
\* token; HTTPBearer answers 403 when there is no token.
Errors(r) ==
    IF request[r].kind = "login" THEN {401, 500}
    ELSE {500} \cup (IF request[r].token \in expired THEN {401} ELSE {})
               \cup (IF request[r].token = 0 THEN {403} ELSE {})

\* A mutant of Unauthorized: every error of the server is taken for a 401.
AnyError(status) == status >= 400

Unauthorized(status) == status = 401

\* The interceptor: with a refresh token it refreshes, otherwise it rejects.
Refused(r) ==
    /\ request[r].at = "sent"
    /\ \E status \in Errors(r) :
           IF Unauthorized(status) /\ storage # 0
           THEN request' = [request EXCEPT ![r].at = "refreshing"] ELSE Over(r)
    /\ UNCHANGED <<storage, tab, logins, expired, ended>>

\* catch: the tokens that are there by now are removed, and the tab goes to /login.
RefreshFails(r) ==
    LET t == request[r].tab
        cause == IF request[r].kind = "login" THEN "wrong password"
                 ELSE IF request[r].token # storage THEN "sent before the login"
                 ELSE IF storage \in expired THEN "expired" ELSE "refused though good"
    IN
    /\ request[r].at = "refreshing" /\ Over(r)
    /\ RemoveTokens(t, cause)
    /\ tab' = [tab EXCEPT ![t].leaving = TRUE]
    /\ UNCHANGED <<logins, expired>>

\* The page is loaded, because it was left or by the user: what was in flight is
\* dropped and the store begins anew.
Load(t) ==
    /\ tab' = [tab EXCEPT ![t] = Loaded]
    /\ request' = [r \in Requests |-> IF request[r].tab = t THEN Idle ELSE request[r]]
    /\ UNCHANGED <<storage, logins, expired, ended>>

\* logout loads no page: what is in flight stays.
Logout(t) ==
    /\ tab[t].isAuthenticated
    /\ RemoveTokens(t, "logout")
    /\ tab' = [tab EXCEPT ![t].isAuthenticated = FALSE]
    /\ UNCHANGED <<request, logins, expired>>

Expire(n) ==
    /\ n \in 1..logins /\ n \notin expired
    /\ expired' = expired \cup {n}
    /\ UNCHANGED <<storage, tab, request, logins, ended>>

Next ==
    \/ \E r \in Requests : LoggedIn(r) \/ Answered(r) \/ Refused(r) \/ RefreshFails(r)
    \/ \E t \in Tabs : Load(t) \/ Logout(t) \/ \E r \in Requests : Send(r, t) \/ Submit(r, t)
    \/ \E n \in 1..MaxLogins : Expire(n)

Spec == Init /\ [][Next]_bvars
-----------------------------------------------------------------------------

TypeOK ==
    /\ storage \in 0..logins /\ logins \in 0..MaxLogins /\ expired \subseteq 1..logins
    /\ tab \in [Tabs -> [isAuthenticated : BOOLEAN, leaving : BOOLEAN]]
    /\ request \in [Requests -> [tab : Tabs, kind : {"login", "me", "call"},
                                 at : {"idle", "sent", "refreshing"}, token : 0..logins]]

\* Tokens are removed only by a logout, once the access token has expired, by a
\* request that was sent before they were there, or by a wrong password in a login
\* form, never because a request with them failed otherwise; and a tab that still
\* shows protected pages without tokens lost them to another tab, with several
\* requests refused at once and pages loaded at any time (the 401 interceptor).
SessionLostForAReason ==
    /\ ended.cause # "refused though good"
    /\ \A t \in Tabs : tab[t].isAuthenticated /\ storage = 0 /\ ~tab[t].leaving => ended.tab # t
=============================================================================
