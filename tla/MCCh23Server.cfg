CONSTANTS
    c1 = c1
    c2 = c2
    alice = alice
    nobody = nobody
    NoConn = NoConn
    Conns = {c1, c2}
    Names = {alice, nobody}
    Users = {alice}
    Password <- MCPassword
    FileCount = 1
    CHALLENGE_LEN = 1
    MAX_PASS_LEN = 2
    MAX_AUTH_RETRIES = 2
    Requests <- MCRequests
    Window = 2
    Backlog = 1
SPECIFICATION FairSpec
INVARIANTS TypeOK DataOnlyAfterProof RetryLimit InStep
PROPERTIES ImplementsGate LostClientReleased
CHECK_DEADLOCK FALSE
