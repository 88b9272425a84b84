------------------------------- MODULE MCCh20 -------------------------------
(***************************************************************************)
(* Instance of Ch20Network for TLC: the client among two strangers, one of *)
(* which knows the password and one only the token.                        *)
(***************************************************************************)
EXTENDS Ch20Network, TLC

CONSTANTS cli, eve, mal, admin, good, bad, zero, tok, arg

MCRequests ==
    (cli :> {AuthReq(admin, good), Ping, Disconnect}
            \cup {CmdReq(tok, cmd) : cmd \in Commands})
    @@ (eve :> {AuthReq(admin, good), AuthReq(admin, bad), Short("AUTH_REQ"),
                CmdReq(tok, "READ_FILE"), CmdReq(zero, "OTHER"), CmdReq(tok, "OTHER"),
                EchoReq(tok, arg), Short("CMD_REQ"), UnknownType, BadFrame})
    @@ (mal :> {CmdReq(tok, "LIST_FILES")})
=============================================================================
