---------------------------- MODULE MCCh23Network ----------------------------
(***************************************************************************)
(* Instance of Ch23Network for TLC: one client of each script, a good      *)
(* account, a wrong password and an unknown name.                          *)
(***************************************************************************)
EXTENDS Ch23Network, TLC

CONSTANTS demo, full, all, alice, nobody

MCSecret == (0 :> 1 @@ 1 :> 0)
MCPassword == [u \in {alice} |-> MCSecret]

MCScript == (demo :> "demo") @@ (full :> "full") @@ (all :> "testall")

Good == [name |-> alice, password |-> MCSecret]

MCLogins ==
    (demo :> <<Good>>)
    @@ (full :> <<[name |-> nobody, password |-> MCSecret]>>)
    @@ (all :> <<Good, [name |-> alice, password |-> (0 :> 0 @@ 1 :> 1)]>>)

\* What the scripts can send, under either challenge.
MCRequests ==
    [c \in Conns |->
        {HelloReq(TRUE), QuitReq}
        \cup {AuthReq(n, s) : n \in {alice, nobody},
                              s \in {MCSecret, (0 :> 0 @@ 1 :> 1)}}
        \cup {CmdReq(cmd, <<>>) : cmd \in {"PING", "INFO", "LIST"}}
        \cup {CmdReq("READ", <<i>>) : i \in 0..1}]
=============================================================================
