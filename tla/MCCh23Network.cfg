CONSTANTS
    demo = demo
    full = full
    all = all
    alice = alice
    nobody = nobody
    NoConn = NoConn
    Conns = {demo, full, all}
    Script <- MCScript
    Logins <- MCLogins
    DemoReads = 2
    Names = {alice, nobody}
    Users = {alice}
    Password <- MCPassword
    FileCount = 1
    CHALLENGE_LEN = 1
    MAX_PASS_LEN = 2
    MAX_AUTH_RETRIES = 3
    Requests <- MCRequests
    Window = 1
    Backlog = 1
SPECIFICATION NetSpec
INVARIANTS NoProtocolError
PROPERTIES VerdictIsTruth EveryClientEnds
CHECK_DEADLOCK FALSE
