CONSTANTS
    cli = cli
    eve = eve
    mal = mal
    admin = admin
    good = good
    bad = bad
    zero = zero
    tok = tok
    arg = arg
    NoConn = NoConn
    Conns = {cli, eve, mal}
    Clients = {cli}
    ClientHash = good
    Users = {admin}
    Hashes = {good, bad}
    VALID_USER = admin
    VALID_HASH = good
    Tokens = {zero, tok}
    Cleared = zero
    Generated = tok
    Args = {arg}
    Requests <- MCRequests
    Window = 2
    Backlog = 1
SPECIFICATION NetSpec
INVARIANTS CommandsAfterOwnAuth InStep ServedInFull
PROPERTIES ClientsEnd
CHECK_DEADLOCK FALSE
