SPECIFICATION Spec
CONSTANTS
    Processes = {p1, p2}
    Readers = {r1}
    MaxVersion = 2
    MaxFaults = 1
    Suites = {t1, t2}
    Scripts = {1}
    MaxConcurrent = 1
    TypeLists <- MCTypeLists
    Contents <- MCContents
    Sockets = {s1, s2, s3}
    Channels = {"alerts"}
    Payloads = {"json", "other"}
    MaxMessages = 2
    Spares = {1, 2}
    Calls = {k1, k2}
    Images = {"bash", "python"}
    ScriptExit = {0, 1}
    MaxTrouble = 2
    Schedules = {1}
    Runs = {n1, n2}
    MaxPosts = 3
    MaxRestarts = 1
    Ops = {o1, o2}
    Names = {"plain", "other", "raw", "escaped"}
    Source = "plain"
    Sanitized <- MCSanitized
    MaxDbFaults = 1
    ScriptTypes = {"bash", "python"}
    ModelCacheSize = 2
    Submissions <- MCSubmissions
    Topics = {"user-events", "secret-events"}
    MaxEvents = 3
    Events <- MCEvents
    MaxMishaps = 1
    Approvals = {a1, a2}
    Users = {"ann", "bob", "cid"}
    MaxLost = 1
    Actions <- MCActions
    Rules <- MCRules
    RoleOf <- MCRoleOf
    Registrations = {g1, g2}
    Usernames = {"ann", "bob"}
    Emails = {"a@", "b@"}
    Logins = {l1}
    MaxFailures = 1
    Tabs = {b1, b2}
    Requests = {q1, q2}
    MaxLogins = 2
INVARIANTS
    TypesOK
    StaleExplained
    ResultsAreOfTheirTypes
    HeardAllSince
    LeavesNothing
    RunCountTrue
    JobsMatchSchedules
    AnswersTruthful
    DuplicatesFoundByTheCheck
    DangerNeverPays
    TrailComplete
    ApprovedRunsOnce
    FirstUserIsAdmin
    SessionLostForAReason
PROPERTIES
    SharedGetsFresh
CHECK_DEADLOCK FALSE
