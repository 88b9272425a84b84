CONSTANTS
    ann = ann
    void = void
    eve = eve
    NoConn = NoConn
    Conns = {ann, void, eve}
    Clients = {ann, void}
    Byte = {0, 1}
    Masked <- MCMasked
    NameLen = 2
    NUM_RESOURCES = 1
    NoResource = 2
    PINGS = 1
    Username <- MCUsername
    MaxTime = 1
    SessionIdAt <- MCSessionIdAt
    Requests <- MCRequests
    Window = 2
    Backlog = 1
SPECIFICATION NetSpec
INVARIANTS DataFromOwnSession OldIdRefused InStep SuccessIsComplete
PROPERTIES EveryClientEnds
CHECK_DEADLOCK FALSE
