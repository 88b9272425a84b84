---------------------------- MODULE MCCh23Server ----------------------------
(***************************************************************************)
(* Instance of Ch23Server for TLC: one user, a one-byte challenge, and a   *)
(* two-byte password, so that the XOR wraps around the challenge as the    *)
(* code's passwords of up to 11 bytes do around its 8.                     *)
(***************************************************************************)
EXTENDS Ch23Server, TLC

CONSTANTS c1, c2, alice, nobody

MCPassword == [u \in {alice} |-> (0 :> 1 @@ 1 :> 0)]

\* alice's password under either challenge, another secret, another name.
AllRequests ==
    {HelloReq(TRUE), HelloReq(FALSE),
     AuthReq(alice, (0 :> 1 @@ 1 :> 0)), AuthReq(alice, (0 :> 0 @@ 1 :> 1)),
     AuthReq(nobody, (0 :> 1 @@ 1 :> 0)), MalformedAuth,
     CmdReq("READ", <<0>>), CmdReq("READ", <<1>>),
     CmdReq("OTHER", <<>>), EmptyCmd, QuitReq, UnknownType, BadMagic, TooLarge}

\* c1 sends anything; c2 comes after it, or waits behind it, with a command.
MCRequests ==
    (c1 :> AllRequests) @@ (c2 :> {CmdReq("READ", <<0>>)})
=============================================================================
