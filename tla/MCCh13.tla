------------------------------- MODULE MCCh13 -------------------------------
(***************************************************************************)
(* Instance of Ch13Network for TLC: a client with a name, one without, and *)
(* a stranger.  Identifiers have two bits, so that a connection may be     *)
(* granted two of them and identifiers come again.                         *)
(***************************************************************************)
EXTENDS Ch13Network, Bitwise, TLC

CONSTANTS ann, void, eve

\* XOR with a key of one bit, and with one of two bits.
MCMasked == [b \in {0, 1} |-> b ^^ 1]
MCSessionIdAt == [t \in 0..MaxTime |-> (t ^^ 2) % 4]

User == <<1>>
MCUsername == (ann :> User) @@ (void :> <<>>)

\* What the client can send, with any identifier.
ClientRequests(name) ==
    {AuthReq(name, EncodeToken(name)), Goodbye}
    \cup {Ping(seq) : seq \in 1..PINGS}
    \cup {DataReq(sid, r) : sid \in 0..3, r \in 0..NoResource}

\* A good and a bad token; data under the identifier of the first second and
\* under the 0 that no AUTH_OK carries; an unknown resource.
AllRequests ==
    {AuthReq(User, EncodeToken(User)), AuthReq(User, <<1, 0>>), Ping(7),
     DataReq(0, 0), DataReq(2, 0), DataReq(2, 1), Goodbye, UnknownType, BadFrame}
    \cup {Short(type) : type \in {"AUTH_REQ", "DATA_REQ"}}

MCRequests ==
    (ann :> ClientRequests(User)) @@ (void :> ClientRequests(<<>>)) @@ (eve :> AllRequests)
=============================================================================
