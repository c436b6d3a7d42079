----------------------------- MODULE MCServices -----------------------------
(***************************************************************************)
(* Values for the constants of Services.                                   *)
(***************************************************************************)
EXTENDS Services

\* The scripts submitted for tests and the lists of types asked for.
MCContents ==
    {[kind |-> "python", check |-> "valid", shebang |-> TRUE, main |-> FALSE, handling |-> TRUE,
      risks |-> {"low"}, long |-> FALSE, nested |-> FALSE],
     [kind |-> "python", check |-> "crash", shebang |-> TRUE, main |-> TRUE, handling |-> TRUE,
      risks |-> {"high"}, long |-> FALSE, nested |-> TRUE],
     [kind |-> "bash", check |-> "timeout", shebang |-> TRUE, main |-> TRUE, handling |-> TRUE,
      risks |-> {}, long |-> FALSE, nested |-> FALSE],
     [kind |-> "other", check |-> "valid", shebang |-> FALSE, main |-> TRUE, handling |-> TRUE,
      risks |-> {}, long |-> TRUE, nested |-> FALSE]}
MCTypeLists ==
    {<<"unit", "integration", "security", "performance", "syntax">>,
     <<"syntax", "unit", "security", "performance">>,
     <<"unit", "security">>, <<"security", "syntax">>, <<"integration", "syntax", "unit">>}

\* sanitize_html escapes one of the names that are asked for.
MCSanitized == [plain |-> "plain", other |-> "other", raw |-> "escaped"]

\* Contents for ai-service that differ in what the patterns find in them.
Plain == [rm_root |-> 0, fork_bomb |-> 0, dd_device |-> 0, eval |-> 0, exec |-> 0, shell_true |-> 0,
          chmod_777 |-> 0, password |-> 0, api_key |-> 0, curl_bash |-> 0, wget_sh |-> 0, os_system |-> 0]
Lines == [total |-> 60, blank |-> 2, comment |-> 3, long |-> 1]
MCSubmissions ==
    {[matches |-> m, texts |-> {"set -e"}, lines |-> Lines] :
        m \in {Plain, [Plain EXCEPT !.fork_bomb = 1],
               [Plain EXCEPT !.chmod_777 = 2], [Plain EXCEPT !.eval = 4],
               [Plain EXCEPT !.chmod_777 = 2, !.eval = 4]}}
    \cup {[matches |-> Plain, texts |-> {"print", "nested_for"}, lines |-> [Lines EXCEPT !.long = 21]]}

\* An event of each kind the consumer treats differently.
Event(type, action, status) == [type |-> type, action |-> action, status |-> status, json |-> TRUE]
MCEvents ==
    {Event(<<"user", "role_changed">>, "unknown", "success"),
     Event(<<"secret", "read">>, "read", "failure"), Event(<<>>, "unknown", "success"),
     [Event(<<>>, "unknown", "success") EXCEPT !.json = FALSE]}

MCRoleOf == [ann |-> "admin", bob |-> "operator", cid |-> "viewer"]
MCRules == {[count |-> 2, roles |-> {"operator", "admin"}], [count |-> 1, roles |-> {}], [count |-> 0, roles |-> {"admin"}]}
MCActions == {"execute", "other"}
=============================================================================
