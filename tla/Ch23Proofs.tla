----------------------------- MODULE Ch23Proofs -----------------------------
(***************************************************************************)
(* Theorems about the chapter 23 server, for every set of connections,     *)
(* every user_db, every request set and every length, and about the server *)
(* together with its clients, for every set of clients, each with any      *)
(* script and any list of accounts.                                        *)
(***************************************************************************)
EXTENDS Ch23Network, TcpServiceProofs

(***************************************************************************)
(* The inductive invariant.                                                *)
(***************************************************************************)

\* The session counts the refusals of its own connection, from zero.
Count ==
    /\ served # NoConn => auth_retries = refused[served]
    /\ served # NoConn => auth_retries < MAX_AUTH_RETRIES
    /\ \A i \in DOMAIN backlog : refused[backlog[i]] = 0
    /\ \A c \in Conns : refused[c] <= MAX_AUTH_RETRIES

\* The challenge AUTH is checked against is one the peer was sent.
Greeted ==
    served # NoConn /\ peer[served] = "open" /\ state = "HELLO_DONE"
        => challenge \in welcomed[served]

IInv == TypeOK /\ Queue /\ Count /\ Greeted /\ DataOnlyAfterProof

-----------------------------------------------------------------------------
(***************************************************************************)
(* The XOR.                                                                *)
(***************************************************************************)

\* An index of a password has its byte of the challenge (server.c:237-243).
LEMMA ChallengeByte ==
    ASSUME NEW ch \in Challenges, NEW i \in Nat
    PROVE  ch[i % CHALLENGE_LEN] \in Byte
<1>1. i % CHALLENGE_LEN \in 0..CHALLENGE_LEN - 1
    BY ProtocolAssumption
<1> QED BY <1>1 DEF Challenges

\* Covering keeps a password a password: its length does not change.
LEMMA XorType ==
    ASSUME NEW s \in Secrets, NEW ch \in Challenges
    PROVE  XorWithChallenge(s, ch) \in Secrets
<1>1. PICK n \in 0..MAX_PASS_LEN : s \in [0..n - 1 -> Byte]
    BY DEF Secrets
<1>2. XorWithChallenge(s, ch) \in [0..n - 1 -> Byte]
    BY <1>1 DEF XorWithChallenge, Byte
<1> QED BY <1>2 DEF Secrets

\* The same XOR covers and uncovers: xor_with_challenge is its own inverse.
LEMMA XorInvolution ==
    ASSUME NEW s \in Secrets, NEW ch \in Challenges
    PROVE  XorWithChallenge(XorWithChallenge(s, ch), ch) = s
<1>1. PICK n \in 0..MAX_PASS_LEN : s \in [0..n - 1 -> Byte]
    BY DEF Secrets
<1>2. ASSUME NEW i \in 0..n - 1
      PROVE  XorWithChallenge(XorWithChallenge(s, ch), ch)[i] = s[i]
  <2>1. i \in Nat /\ s[i] \in Byte
      BY <1>1, ProtocolAssumption
  <2>2. ch[i % CHALLENGE_LEN] \in Byte
      BY <2>1, ChallengeByte
  <2> QED BY <1>1, <2>1, <2>2 DEF XorWithChallenge, Byte
<1>3. DOMAIN XorWithChallenge(XorWithChallenge(s, ch), ch) = 0..n - 1
    BY <1>1 DEF XorWithChallenge
<1> QED BY <1>1, <1>2, <1>3 DEF XorWithChallenge

-----------------------------------------------------------------------------
(***************************************************************************)
(* Requests and replies.                                                   *)
(***************************************************************************)

\* What a handler may send is a reply.
LEMMA Replies ==
    /\ \A code \in ErrorCodes : Error(code) \in Reply
    /\ \A ch \in Challenges : Welcome(ch) \in Reply
    /\ \A status \in {"OK", "FAIL"} : AuthResp(status) \in Reply
    /\ CmdFail \in Reply /\ Bye \in Reply
BY DEF Reply, Error, Welcome, AuthResp, CmdFail, Bye

\* A command that handle_command dispatches, and its answer.
LEMMA CommandReplyType ==
    ASSUME NEW req \in Request, req.type = "CMD_REQ", req.ok
    PROVE  CommandReply(req) \in Reply
<1>1. req \in CmdReqs
  <2>1. req # EmptyCmd
      BY DEF EmptyCmd
  <2>2. req \notin AuthReqs
      BY DEF AuthReqs
  <2>3. req \notin {BadMagic, TooLarge, UnknownType, QuitReq, HelloReq(TRUE),
                    HelloReq(FALSE), MalformedAuth}
      BY DEF BadMagic, TooLarge, UnknownType, QuitReq, HelloReq, MalformedAuth
  <2> QED BY <2>1, <2>2, <2>3 DEF Request
<1>2. ASSUME req.cmd = "READ" => Readable(req)
      PROVE  CmdOk(req) \in Reply
  <2>1. CASE req.cmd = "READ"
    <3>1. req.args \in Seq(0..255) /\ req.args # <<>>
        BY <1>1, <1>2, <2>1 DEF CmdReqs, Readable
    <3>2. req.args[1] \in 0..255
        BY <3>1, FirstElement
    <3>3. SubSeq(req.args, 1, 1) \in Seq(0..255)
        BY <3>2, SubSeqProperties
    <3>4. Carried(req) \in Contents
        BY <1>1, <2>1, <3>3 DEF Carried, Contents, CmdReqs
    <3> QED BY <3>4 DEF CmdOk, Reply
  <2>2. CASE req.cmd # "READ"
    <3>1. <<>> \in Seq(0..255)
        OBVIOUS
    <3>2. Carried(req) \in Contents
        BY <1>1, <2>2, <3>1 DEF Carried, Contents, CmdReqs
    <3> QED BY <3>2 DEF CmdOk, Reply
  <2> QED BY <2>1, <2>2
<1> QED BY <1>2, Replies DEF CommandReply

\* An AUTH request that reaches the search of user_db is well formed.
LEMMA WellFormedAuth ==
    ASSUME NEW req \in Request, req.type = "AUTH_REQ", req.ok
    PROVE  req \in AuthReqs
<1>1. req # MalformedAuth
    BY DEF MalformedAuth
<1>2. req \notin CmdReqs
    BY DEF CmdReqs
<1>3. req \notin {BadMagic, TooLarge, UnknownType, QuitReq, HelloReq(TRUE),
                  HelloReq(FALSE), EmptyCmd}
    BY DEF BadMagic, TooLarge, UnknownType, QuitReq, HelloReq, EmptyCmd
<1> QED BY <1>1, <1>2, <1>3 DEF Request

LEMMA Received ==
    ASSUME TypeOK, NEW c \in Conns, NEW type, Receives(c, type)
    PROVE  /\ c = served /\ inbox[c] # <<>> /\ served # NoConn
           /\ Head(inbox[c]) \in Request /\ Head(inbox[c]).type = type
BY ReceivesFacts DEF TypeOK

-----------------------------------------------------------------------------
(***************************************************************************)
(* Every step keeps the types.                                             *)
(***************************************************************************)
LEMMA TypeInit == Init => TypeOK
<1> SUFFICES ASSUME Init PROVE TypeOK
    OBVIOUS
<1>1. ZeroChallenge \in Challenges
    BY DEF ZeroChallenge, Challenges, Byte
<1>2. TcpTypes(Request, Reply)
  <2>1. <<>> \in Seq(Conns) /\ <<>> \in Seq(Request) /\ <<>> \in Seq(Reply)
      OBVIOUS
  <2> QED BY <2>1 DEF Init, TcpInit, TcpTypes
<1>3. 0 \in 0..MAX_AUTH_RETRIES
    BY ProtocolAssumption
<1> QED BY <1>1, <1>2, <1>3 DEF Init, TypeOK, States

LEMMA TypePeer ==
    ASSUME TypeOK, NEW c \in Conns, PeerStep(c)
    PROVE  TypeOK'
<1>1. TcpTypes(Request, Reply)'
  <2>1. \/ TcpConnect(c) \/ TcpTakeReply(c) \/ TcpHangup(c)
        \/ \E req \in Request : TcpSubmit(c, req)
      BY RequestsAssumption DEF PeerStep, Connect, TakeReply, Hangup, Submit
  <2> QED BY <2>1, FrameTypes DEF TypeOK
<1>2. UNCHANGED session
    BY DEF PeerStep, Connect, TakeReply, Hangup, Submit
<1>3. /\ presented' \in [Conns -> SUBSET AuthReqs]
      /\ welcomed' \in [Conns -> SUBSET Challenges]
      /\ refused' \in [Conns -> Nat]
    BY DEF PeerStep, Connect, TakeReply, Hangup, Submit, TypeOK, history
<1> QED BY <1>1, <1>2, <1>3 DEF TypeOK, session

\* A handler that leaves the session and the history well typed leaves
\* everything well typed.
LEMMA HandlerType ==
    ASSUME TypeOK, NEW c \in Conns, NEW type, Receives(c, type),
           NEW replies \in Seq(Reply), Emit(c, replies),
           NEW outcome, NEW leave, Conclude(c, outcome, leave),
           UNCHANGED <<peer, asked>>,
           state' \in States, challenge' \in Challenges,
           auth_retries' \in 0..MAX_AUTH_RETRIES,
           presented' \in [Conns -> SUBSET AuthReqs],
           welcomed' \in [Conns -> SUBSET Challenges],
           refused' \in [Conns -> Nat]
    PROVE  TypeOK'
<1>1. TcpTypes(Request, Reply)'
    BY HandlerTcp DEF TypeOK
<1> QED BY <1>1 DEF TypeOK

LEMMA TypeServer ==
    ASSUME TypeOK, Count, NEW c \in Conns, ServerStep(c)
    PROVE  TypeOK'
<1>1. CASE Accept(c)
  <2>1. TcpTypes(Request, Reply)'
      BY <1>1, FrameTypes DEF Accept, TypeOK
  <2>2. ZeroChallenge \in Challenges
      BY DEF ZeroChallenge, Challenges, Byte
  <2>3. 0 \in 0..MAX_AUTH_RETRIES
      BY ProtocolAssumption
  <2> QED BY <1>1, <2>1, <2>2, <2>3 DEF Accept, FreshSession, TypeOK, States, history
<1>2. CASE ConnectionLost(c)
  <2>1. TcpTypes(Request, Reply)'
      BY <1>2, FrameTypes DEF ConnectionLost, TypeOK
  <2> QED BY <1>2, <2>1 DEF ConnectionLost, TypeOK, session, history
<1>3. \A r \in Reply : <<r>> \in Seq(Reply)
    OBVIOUS
<1>4. \A code \in {"BAD_MAGIC", "PAYLOAD_TOO_LARGE", "WRONG_STATE", "BAD_TYPE",
                   "AUTH_FAIL", "BAD_CMD"} : <<Error(code)>> \in Seq(Reply)
    BY <1>3, Replies DEF ErrorCodes
<1>5. CASE RefuseFrame(c)
    BY <1>4, <1>5, HandlerType DEF RefuseFrame, TypeOK, session, history
<1>6. CASE RefuseState(c)
    BY <1>4, <1>6, HandlerType DEF RefuseState, TypeOK, session, history
<1>7. CASE HandleHello(c)
  <2>1. CASE ~Head(inbox[c]).ok
      BY <1>4, <1>7, <2>1, HandlerType DEF HandleHello, TypeOK, session
  <2>2. CASE Head(inbox[c]).ok
    <3>1. PICK outcome \in Outcomes(c), ch \in Challenges :
            /\ challenge' = ch
            /\ Emit(c, <<Welcome(ch)>>)
            /\ welcomed' = [welcomed EXCEPT ![c] =
                              IF peer[c] = "open" THEN @ \cup {ch} ELSE @]
            /\ state' = IF outcome = "sent" THEN "HELLO_DONE" ELSE state
            /\ Conclude(c, outcome, outcome = "failed")
        BY <1>7, <2>2 DEF HandleHello
    <3>2. <<Welcome(ch)>> \in Seq(Reply)
        BY <1>3, Replies
    <3>3. welcomed' \in [Conns -> SUBSET Challenges]
        BY <3>1 DEF TypeOK
    <3>4. auth_retries' = auth_retries /\ UNCHANGED <<peer, asked, presented, refused>>
          /\ Receives(c, "HELLO_REQ")
        BY <1>7, <2>2 DEF HandleHello
    <3>5. state' \in States
        BY <3>1 DEF States, TypeOK
    <3> QED BY <3>1, <3>2, <3>3, <3>4, <3>5, HandlerType DEF TypeOK
  <2> QED BY <2>1, <2>2
<1>8. CASE RejectMalformedAuth(c)
    BY <1>4, <1>8, HandlerType DEF RejectMalformedAuth, TypeOK, session, history
<1>9. CASE HandleAuth(c)
  <2>1. Receives(c, "AUTH_REQ") /\ UNCHANGED <<challenge, peer, asked, welcomed>>
      BY <1>9 DEF HandleAuth
  <2>2. presented' \in [Conns -> SUBSET AuthReqs]
    <3>1. Head(inbox[c]) \in AuthReqs
        BY <1>9, Received, WellFormedAuth DEF HandleAuth
    <3> QED BY <1>9, <3>1 DEF HandleAuth, TypeOK
  <2>3. PICK outcome \in Outcomes(c) :
        \/ /\ Matches(Head(inbox[c]))
           /\ state' = "AUTHENTICATED"
           /\ Emit(c, <<AuthResp("OK")>>)
           /\ Conclude(c, outcome, outcome = "failed")
           /\ UNCHANGED <<auth_retries, refused>>
        \/ /\ ~Matches(Head(inbox[c]))
           /\ auth_retries' = auth_retries + 1
           /\ refused' = [refused EXCEPT ![c] = @ + 1]
           /\ IF LastTry(auth_retries')
              THEN /\ Emit(c, <<AuthResp("FAIL"), Error("AUTH_FAIL")>>)
                   /\ Conclude(c, outcome, TRUE)
              ELSE /\ Emit(c, <<AuthResp("FAIL")>>)
                   /\ Conclude(c, outcome, outcome = "failed")
           /\ UNCHANGED state
      BY <1>9 DEF HandleAuth
  <2>4. <<AuthResp("OK")>> \in Seq(Reply) /\ <<AuthResp("FAIL")>> \in Seq(Reply)
        /\ <<AuthResp("FAIL"), Error("AUTH_FAIL")>> \in Seq(Reply)
      BY Replies DEF ErrorCodes
  <2>5. CASE Matches(Head(inbox[c]))
      BY <2>1, <2>2, <2>3, <2>4, <2>5, HandlerType DEF TypeOK, States
  <2>6. CASE ~Matches(Head(inbox[c]))
    <3>1. auth_retries' \in 0..MAX_AUTH_RETRIES
      <4>1. auth_retries < MAX_AUTH_RETRIES /\ auth_retries' = auth_retries + 1
          BY <2>1, <2>3, <2>6, Received DEF Count
      <4> QED BY <4>1, ProtocolAssumption DEF TypeOK
    <3>2. refused' \in [Conns -> Nat]
      <4>1. refused' = [refused EXCEPT ![c] = @ + 1]
          BY <2>3, <2>6
      <4> QED BY <4>1 DEF TypeOK
    <3>3. state' \in States
        BY <2>3, <2>6 DEF TypeOK
    <3>4. \E replies \in Seq(Reply) : \E leave :
              Emit(c, replies) /\ Conclude(c, outcome, leave)
        BY <2>3, <2>4, <2>6
    <3> QED BY <2>1, <2>2, <3>1, <3>2, <3>3, <3>4, HandlerType DEF TypeOK
  <2> QED BY <2>5, <2>6
<1>10. CASE RejectEmptyCommand(c)
    BY <1>4, <1>10, HandlerType DEF RejectEmptyCommand, TypeOK, session, history
<1>11. CASE HandleCommand(c)
  <2>1. <<CommandReply(Head(inbox[c]))>> \in Seq(Reply)
      BY <1>3, <1>11, Received, CommandReplyType DEF HandleCommand
  <2> QED BY <1>4, <1>11, <2>1, HandlerType
          DEF HandleCommand, TypeOK, session, history
<1>12. CASE HandleQuit(c)
  <2>1. <<Bye>> \in Seq(Reply)
      BY <1>3, Replies
  <2> QED BY <1>12, <2>1, HandlerType DEF HandleQuit, TypeOK, States, history
<1>13. CASE HandleUnknown(c)
    BY <1>4, <1>13, HandlerType
    DEF HandleUnknown, UnknownReplies, TypeOK, session, history
<1> QED BY <1>1, <1>2, <1>5, <1>6, <1>7, <1>8, <1>9, <1>10, <1>11, <1>12, <1>13
        DEF ServerStep

LEMMA TypeNext ==
    ASSUME TypeOK, Count, [Next]_vars
    PROVE  TypeOK'
<1>1. ASSUME NEW c \in Conns, ServerStep(c)
      PROVE  TypeOK'
    BY <1>1, TypeServer
<1>2. ASSUME NEW c \in Conns, PeerStep(c)
      PROVE  TypeOK'
    BY <1>2, TypePeer
<1>3. CASE StopServer
  <2>1. CASE Conns = {}
    <3>1. <<>> \in Seq(Conns)
        OBVIOUS
    <3> QED BY <1>3, <2>1, <3>1
            DEF StopServer, TcpStop, Die, TypeOK, TcpTypes, session, history
  <2>2. ASSUME NEW c \in Conns
        PROVE  TypeOK'
    <3>1. TcpTypes(Request, Reply)'
        BY <1>3, <2>2, FrameTypes DEF StopServer, TypeOK
    <3> QED BY <1>3, <3>1 DEF StopServer, TypeOK, session, history
  <2> QED BY <2>1, <2>2
<1>4. CASE UNCHANGED vars
    BY <1>4 DEF TypeOK, TcpTypes, vars, tcp, session, history
<1> QED BY <1>1, <1>2, <1>3, <1>4 DEF Next

-----------------------------------------------------------------------------
(***************************************************************************)
(* The queue and the counter of refusals.                                  *)
(***************************************************************************)

\* Only accept() brings a connection to handle_client.
LEMMA HandlerFrame ==
    ASSUME TypeOK, NEW c \in Conns, ServerStep(c), ~Accept(c)
    PROVE  /\ c = served
           /\ served' \in {served, NoConn}
           /\ backlog' \in {backlog, <<>>}
           /\ UNCHANGED <<peer, asked>>
<1>1. ASSUME NEW type, Receives(c, type), NEW outcome, NEW leave,
             Conclude(c, outcome, leave)
      PROVE  c = served /\ served' \in {served, NoConn} /\ backlog' \in {backlog, <<>>}
    BY <1>1, Received, ConcludeFacts DEF TypeOK
<1>2. CASE ConnectionLost(c)
    BY <1>2 DEF ConnectionLost, TcpLost, CloseClient
<1>3. CASE RefuseFrame(c)
    BY <1>1, <1>3 DEF RefuseFrame
<1>4. CASE RefuseState(c)
    BY <1>1, <1>4 DEF RefuseState
<1>5. CASE HandleHello(c)
    BY <1>1, <1>5 DEF HandleHello
<1>6. CASE RejectMalformedAuth(c)
    BY <1>1, <1>6 DEF RejectMalformedAuth
<1>7. CASE HandleAuth(c)
    BY <1>1, <1>7 DEF HandleAuth
<1>8. CASE RejectEmptyCommand(c)
    BY <1>1, <1>8 DEF RejectEmptyCommand
<1>9. CASE HandleCommand(c)
    BY <1>1, <1>9 DEF HandleCommand
<1>10. CASE HandleQuit(c)
    BY <1>1, <1>10 DEF HandleQuit
<1>11. CASE HandleUnknown(c)
    BY <1>1, <1>11 DEF HandleUnknown
<1> QED BY <1>2, <1>3, <1>4, <1>5, <1>6, <1>7, <1>8, <1>9, <1>10, <1>11
        DEF ServerStep

LEMMA QueueNext ==
    ASSUME TypeOK, Queue, [Next]_vars
    PROVE  Queue'
<1> USE DEF TypeOK
<1>1. ASSUME NEW c \in Conns, Accept(c)
      PROVE  Queue'
    BY <1>1, QueueAccept DEF Accept
<1>2. ASSUME NEW c \in Conns, ServerStep(c), ~Accept(c)
      PROVE  Queue'
    BY <1>2, HandlerFrame, QueueKept
<1>3. ASSUME NEW c \in Conns, Connect(c)
      PROVE  Queue'
    BY <1>3, QueueConnect DEF Connect
<1>4. ASSUME NEW c \in Conns, PeerStep(c), ~Connect(c)
      PROVE  Queue'
    BY <1>4
    DEF PeerStep, TakeReply, Hangup, Submit, TcpTakeReply, TcpHangup, TcpSubmit, Queue
<1>5. CASE StopServer
    BY <1>5, QueueKept DEF StopServer, TcpStop, Die
<1>6. CASE UNCHANGED vars
    BY <1>6 DEF Queue, vars, tcp
<1> QED BY <1>1, <1>2, <1>3, <1>4, <1>5, <1>6 DEF Next

\* A step that lets go of connections, and refuses nobody.
LEMMA CountKept ==
    ASSUME TypeOK, Count, served' \in {served, NoConn}, backlog' \in {backlog, <<>>},
           UNCHANGED <<auth_retries, refused>>
    PROVE  Count'
<1>1. DOMAIN <<>> = {}
    OBVIOUS
<1> QED BY <1>1 DEF Count

LEMMA CountAuth ==
    ASSUME TypeOK, Queue, Count, NEW c \in Conns, HandleAuth(c)
    PROVE  Count'
<1>1. c = served /\ served # NoConn /\ inbox[c] # <<>>
    BY Received DEF HandleAuth
<1>2. served' \in {served, NoConn} /\ backlog' \in {backlog, <<>>}
  <2>1. ServerStep(c) /\ ~Accept(c)
      BY <1>1 DEF ServerStep, Accept, TcpAccept
  <2> QED BY <2>1, HandlerFrame
<1>3. CASE UNCHANGED <<auth_retries, refused>>
    BY <1>2, <1>3, CountKept
<1>4. CASE /\ auth_retries' = auth_retries + 1
           /\ refused' = [refused EXCEPT ![c] = @ + 1]
           /\ LastTry(auth_retries') => served' = NoConn
  <2>1. auth_retries = refused[c] /\ auth_retries < MAX_AUTH_RETRIES
      BY <1>1 DEF Count
  <2>2. refused'[c] = auth_retries' /\ auth_retries' <= MAX_AUTH_RETRIES
      BY <1>4, <2>1, ProtocolAssumption DEF TypeOK
  <2>3. \A d \in Conns : d # c => refused'[d] = refused[d]
      BY <1>4 DEF TypeOK
  <2>4. \A d \in Conns : refused'[d] <= MAX_AUTH_RETRIES
      BY <2>2, <2>3 DEF Count
  <2>5. \A i \in DOMAIN backlog' : refused'[backlog'[i]] = 0
    <3>1. \A i \in DOMAIN backlog : backlog[i] \in Conns /\ backlog[i] # c
        BY <1>1 DEF Queue, TypeOK, TcpTypes
    <3>2. \A i \in DOMAIN backlog : refused'[backlog[i]] = 0
        BY <2>3, <3>1 DEF Count
    <3> QED BY <1>2, <3>2
  <2>6. served' # NoConn => served' = c /\ auth_retries' < MAX_AUTH_RETRIES
      BY <1>1, <1>2, <1>4, <2>2, ProtocolAssumption DEF LastTry, TypeOK
  <2> QED BY <2>2, <2>4, <2>5, <2>6 DEF Count
<1>5. LastTry(auth_retries') =>
        \A outcome : Conclude(c, outcome, TRUE) => served' = NoConn
    BY <1>1, ConcludeFacts DEF TypeOK
<1> QED BY <1>3, <1>4, <1>5 DEF HandleAuth

LEMMA CountNext ==
    ASSUME TypeOK, Queue, Count, [Next]_vars
    PROVE  Count'
<1>1. ASSUME NEW c \in Conns, Accept(c)
      PROVE  Count'
  <2>1. backlog # <<>> /\ c = backlog[1] /\ 1 \in DOMAIN backlog
      BY <1>1, AcceptQueue DEF Accept, TypeOK
  <2>2. auth_retries' = 0 /\ refused' = refused /\ served' = c
      BY <1>1 DEF Accept, TcpAccept, FreshSession, history
  <2>3. refused[c] = 0 /\ 0 < MAX_AUTH_RETRIES
      BY <2>1, ProtocolAssumption DEF Count
  <2>4. \A i \in DOMAIN backlog' : refused[backlog'[i]] = 0
      BY <1>1, AcceptQueue DEF Accept, TypeOK, Count
  <2> QED BY <2>2, <2>3, <2>4 DEF Count
<1>2. ASSUME NEW c \in Conns, HandleAuth(c)
      PROVE  Count'
    BY <1>2, CountAuth
<1>3. ASSUME NEW c \in Conns, ServerStep(c), ~Accept(c), ~HandleAuth(c)
      PROVE  Count'
  <2>1. UNCHANGED <<auth_retries, refused>>
      BY <1>3
      DEF ServerStep, ConnectionLost, RefuseFrame, RefuseState, HandleHello,
          RejectMalformedAuth, RejectEmptyCommand, HandleCommand, HandleQuit,
          HandleUnknown, session, history
  <2> QED BY <1>3, <2>1, HandlerFrame, CountKept
<1>4. ASSUME NEW c \in Conns, Connect(c)
      PROVE  Count'
  <2>1. refused' = [refused EXCEPT ![c] = 0] /\ auth_retries' = auth_retries
      BY <1>4 DEF Connect, session
  <2>2. \A d \in Conns : refused'[d] = IF d = c THEN 0 ELSE refused[d]
      BY <2>1 DEF TypeOK
  <2>3. \A i \in DOMAIN backlog : backlog[i] \in Conns
      BY DEF TypeOK, TcpTypes
  <2>4. /\ c # served /\ served' = served
        /\ \A i \in DOMAIN backlog : backlog[i] # c
        /\ \A i \in DOMAIN backlog' :
              \/ i \in DOMAIN backlog /\ backlog'[i] = backlog[i]
              \/ backlog'[i] = c
      BY <1>4, ConnectQueue DEF Connect, TypeOK
  <2>5. served # NoConn => served \in Conns
      BY DEF TypeOK, TcpTypes
  <2>6. \A d \in Conns : refused'[d] <= MAX_AUTH_RETRIES
      BY <2>2, ProtocolAssumption DEF Count
  <2> QED BY <2>1, <2>2, <2>3, <2>4, <2>5, <2>6 DEF Count
<1>5. ASSUME NEW c \in Conns, PeerStep(c), ~Connect(c)
      PROVE  Count'
    BY <1>5
    DEF PeerStep, TakeReply, Hangup, Submit, TcpTakeReply, TcpHangup, TcpSubmit,
        Count, session, history
<1>6. CASE StopServer
    BY <1>6, CountKept DEF StopServer, TcpStop, Die, session, history
<1>7. CASE UNCHANGED vars
    BY <1>7 DEF Count, vars, tcp, session, history
<1> QED BY <1>1, <1>2, <1>3, <1>4, <1>5, <1>6, <1>7 DEF Next

-----------------------------------------------------------------------------
(***************************************************************************)
(* The challenge of a greeted session.                                     *)
(***************************************************************************)
LEMMA GreetedNext ==
    ASSUME TypeOK, Queue, Greeted, [Next]_vars
    PROVE  Greeted'
<1>1. ASSUME NEW c \in Conns, Accept(c)
      PROVE  Greeted'
    BY <1>1 DEF Accept, FreshSession, Greeted
<1>2. ASSUME NEW c \in Conns, HandleHello(c)
      PROVE  Greeted'
  <2>1. c = served /\ inbox[c] # <<>> /\ state = "CONNECTED" /\ peer' = peer
      BY <1>2, Received DEF HandleHello, StateFor
  <2>2. CASE UNCHANGED <<session, welcomed>>
    <3>1. served' \in {served, NoConn}
      <4>1. ServerStep(c) /\ ~Accept(c)
          BY <1>2, <2>1, Received DEF ServerStep, Accept, TcpAccept, HandleHello
      <4> QED BY <4>1, HandlerFrame
    <3> QED BY <2>1, <2>2, <3>1 DEF Greeted, session
  <2>3. ASSUME NEW outcome \in Outcomes(c), NEW ch \in Challenges,
               challenge' = ch,
               welcomed' = [welcomed EXCEPT ![c] =
                              IF peer[c] = "open" THEN @ \cup {ch} ELSE @],
               state' = IF outcome = "sent" THEN "HELLO_DONE" ELSE state,
               Conclude(c, outcome, outcome = "failed")
        PROVE  Greeted'
    <3>1. served' \in {c, NoConn}
        BY <2>1, <2>3, ConcludeFacts DEF TypeOK
    <3>2. peer[c] = "open" => ch \in welcomed'[c]
        BY <2>3 DEF TypeOK
    <3> QED BY <2>1, <2>3, <3>1, <3>2 DEF Greeted
  <2> QED BY <1>2, <2>2, <2>3 DEF HandleHello
<1>3. ASSUME NEW c \in Conns, ServerStep(c), ~Accept(c), ~HandleHello(c)
      PROVE  Greeted'
  <2>1. challenge' = challenge /\ welcomed' = welcomed
        /\ state' \in {state, "AUTHENTICATED", "DISCONNECTED"}
      BY <1>3
      DEF ServerStep, ConnectionLost, RefuseFrame, RefuseState, HandleAuth,
          RejectMalformedAuth, RejectEmptyCommand, HandleCommand, HandleQuit,
          HandleUnknown, session, history
  <2> QED BY <1>3, <2>1, HandlerFrame DEF Greeted
<1>4. ASSUME NEW c \in Conns, PeerStep(c)
      PROVE  Greeted'
  <2>1. UNCHANGED session
      BY <1>4 DEF PeerStep, Connect, TakeReply, Hangup, Submit
  <2>2. CASE Connect(c)
    <3>1. c # served /\ served' = served
        BY <2>2, ConnectQueue DEF Connect, TypeOK
    <3>2. \A d \in Conns : d # c => peer'[d] = peer[d] /\ welcomed'[d] = welcomed[d]
        BY <2>2 DEF Connect, TcpConnect, TypeOK, TcpTypes
    <3> QED BY <2>1, <3>1, <3>2 DEF Greeted, session, TypeOK, TcpTypes
  <2>3. CASE Hangup(c)
    <3>1. \A d \in Conns : peer'[d] = "open" =>
            peer[d] = "open" /\ welcomed'[d] = welcomed[d]
        BY <2>3 DEF Hangup, TcpHangup, history, TypeOK, TcpTypes
    <3>2. served' = served
        BY <2>3 DEF Hangup, TcpHangup
    <3> QED BY <2>1, <3>1, <3>2 DEF Greeted, session, TypeOK, TcpTypes
  <2>4. CASE TakeReply(c) \/ \E req \in Requests[c] : Submit(c, req)
      BY <2>4 DEF TakeReply, Submit, TcpTakeReply, TcpSubmit, Greeted, session, history
  <2> QED BY <1>4, <2>2, <2>3, <2>4 DEF PeerStep
<1>5. CASE StopServer
    BY <1>5 DEF StopServer, TcpStop, Die, Greeted
<1>6. CASE UNCHANGED vars
    BY <1>6 DEF Greeted, vars, tcp, session, history
<1> QED BY <1>1, <1>2, <1>3, <1>4, <1>5, <1>6 DEF Next

-----------------------------------------------------------------------------
(***************************************************************************)
(* Data after proof.                                                       *)
(***************************************************************************)

\* A handler that sends a CMD_RESP only to a trusted connection, and trusts a
\* connection only after its proof.
LEMMA DataKept ==
    ASSUME TypeOK, DataOnlyAfterProof, NEW c \in Conns, c = served,
           NEW replies \in Seq(Reply), Emit(c, replies),
           peer' = peer, served' \in {served, NoConn},
           \A d \in Conns : peer[d] = "open" =>
               presented[d] \subseteq presented'[d] /\ welcomed[d] \subseteq welcomed'[d],
           \A k \in DOMAIN replies :
               replies[k].type = "CMD_RESP" => state = "AUTHENTICATED",
           state' = "AUTHENTICATED" /\ served' = c /\ peer[c] = "open"
               => state = "AUTHENTICATED" \/ Proven(c)'
    PROVE  DataOnlyAfterProof'
<1>1. ASSUME NEW d \in Conns, peer[d] = "open", Proven(d)
      PROVE  Proven(d)'
    BY <1>1 DEF Proven
<1>2. ASSUME NEW d \in Conns, peer[d] = "open", d = served', state' = "AUTHENTICATED"
      PROVE  Proven(d)'
  <2>1. d = c
      BY <1>2, ServiceAssumption
  <2> QED BY <1>1, <1>2, <2>1 DEF DataOnlyAfterProof
<1>3. ASSUME NEW d \in Conns, peer[d] = "open", NEW i \in DOMAIN outbox'[d],
             outbox'[d][i].type = "CMD_RESP"
      PROVE  Proven(d)'
  <2>1. CASE i \in DOMAIN outbox[d] /\ outbox'[d][i] = outbox[d][i]
      BY <1>1, <1>3, <2>1 DEF DataOnlyAfterProof
  <2>2. CASE d = c /\ \E k \in DOMAIN replies : outbox'[d][i] = replies[k]
      BY <1>1, <1>3, <2>2 DEF DataOnlyAfterProof
  <2> QED BY <1>3, <2>1, <2>2, EmitReplies DEF TypeOK
<1> QED BY <1>2, <1>3 DEF DataOnlyAfterProof

\* The AUTH request that matches is a proof: the XOR is undone with the
\* challenge this connection was sent.
LEMMA MatchProves ==
    ASSUME TypeOK, Greeted, NEW c \in Conns, c = served, peer[c] = "open",
           state = "HELLO_DONE", NEW req \in AuthReqs, Matches(req),
           req \in presented'[c], welcomed' = welcomed
    PROVE  Proven(c)'
<1>1. challenge \in Challenges /\ challenge \in welcomed[c]
    BY ServiceAssumption DEF Greeted, TypeOK, TcpTypes
<1>2. PICK u \in Users :
        req.name = u /\ XorWithChallenge(req.secret, challenge) = Password[u]
    BY DEF Matches
<1>3. req.secret = XorWithChallenge(Password[u], challenge)
  <2>1. req.secret \in Secrets
      BY DEF AuthReqs
  <2> QED BY <1>1, <1>2, <2>1, XorInvolution
<1> QED BY <1>1, <1>2, <1>3 DEF Proven

LEMMA DataServer ==
    ASSUME TypeOK, Queue, Greeted, DataOnlyAfterProof, NEW c \in Conns, ServerStep(c)
    PROVE  DataOnlyAfterProof'
<1> DEFINE NoData(replies) == \A k \in DOMAIN replies : replies[k].type # "CMD_RESP"
<1>1. CASE Accept(c)
    BY <1>1 DEF Accept, TcpAccept, FreshSession, DataOnlyAfterProof, Proven, history
<1>2. CASE ConnectionLost(c)
  <2>1. UNCHANGED <<peer, outbox, state, presented, welcomed>> /\ served' = NoConn
      BY <1>2 DEF ConnectionLost, TcpLost, CloseClient, session, history
  <2> QED BY <2>1, ServiceAssumption DEF DataOnlyAfterProof, Proven
<1>3. /\ \A code \in ErrorCodes : <<Error(code)>> \in Seq(Reply) /\ NoData(<<Error(code)>>)
      /\ \A ch \in Challenges : <<Welcome(ch)>> \in Seq(Reply) /\ NoData(<<Welcome(ch)>>)
      /\ \A st \in {"OK", "FAIL"} : <<AuthResp(st)>> \in Seq(Reply) /\ NoData(<<AuthResp(st)>>)
      /\ <<Bye>> \in Seq(Reply) /\ NoData(<<Bye>>)
    BY Replies DEF Error, Welcome, AuthResp, Bye
<1>4. <<AuthResp("FAIL"), Error("AUTH_FAIL")>> \in Seq(Reply)
      /\ NoData(<<AuthResp("FAIL"), Error("AUTH_FAIL")>>)
    BY Replies DEF Error, AuthResp, ErrorCodes
<1> HIDE DEF NoData
<1>5. ASSUME ~Accept(c), ~ConnectionLost(c)
      PROVE  \E replies \in Seq(Reply) :
                /\ Emit(c, replies)
                /\ NoData(replies) \/ state = "AUTHENTICATED"
  <2>1. {"BAD_MAGIC", "PAYLOAD_TOO_LARGE", "WRONG_STATE", "BAD_TYPE",
         "AUTH_FAIL", "BAD_CMD"} \subseteq ErrorCodes
      BY DEF ErrorCodes
  <2>2. CASE RefuseFrame(c) \/ RefuseState(c) \/ RejectMalformedAuth(c) \/ HandleUnknown(c)
             \/ RejectEmptyCommand(c)
      BY <1>3, <2>1, <2>2
      DEF RefuseFrame, RefuseState, RejectMalformedAuth, HandleUnknown,
          RejectEmptyCommand, UnknownReplies
  <2>3. CASE HandleHello(c) \/ HandleQuit(c)
      BY <1>3, <2>1, <2>3 DEF HandleHello, HandleQuit
  <2>4. CASE HandleAuth(c)
      BY <1>3, <1>4, <2>4 DEF HandleAuth
  <2>5. CASE HandleCommand(c)
    <3>1. <<CommandReply(Head(inbox[c]))>> \in Seq(Reply)
      <4>1. CommandReply(Head(inbox[c])) \in Reply
          BY <2>5, Received, CommandReplyType DEF HandleCommand
      <4> QED BY <4>1
    <3> QED BY <1>3, <2>1, <2>5, <3>1 DEF HandleCommand, StateFor
  <2> QED BY <1>5, <2>2, <2>3, <2>4, <2>5 DEF ServerStep
<1>6. CASE HandleAuth(c)
  <2>1. c = served /\ Head(inbox[c]) \in AuthReqs /\ state = "HELLO_DONE"
      BY <1>6, Received, WellFormedAuth DEF HandleAuth, StateFor
  <2>2. served' \in {served, NoConn} /\ peer' = peer /\ ~Accept(c) /\ ~ConnectionLost(c)
      BY <1>6, <2>1, HandlerFrame, Received
      DEF HandleAuth, ServerStep, Accept, TcpAccept, ConnectionLost, TcpLost, EndOfStream
  <2>3. welcomed' = welcomed
        /\ presented' = [presented EXCEPT ![c] =
                            IF peer[c] = "open" THEN @ \cup {Head(inbox[c])} ELSE @]
      BY <1>6 DEF HandleAuth
  <2>4. \A d \in Conns : presented[d] \subseteq presented'[d]
        /\ (d = c /\ peer[c] = "open" => Head(inbox[c]) \in presented'[d])
      BY <2>3 DEF TypeOK
  <2>5. state' = "AUTHENTICATED" => Matches(Head(inbox[c]))
      BY <1>6, <2>1 DEF HandleAuth
  <2>6. state' = "AUTHENTICATED" /\ peer[c] = "open" => Proven(c)'
      BY <2>1, <2>3, <2>4, <2>5, MatchProves
  <2>7. PICK replies \in Seq(Reply) :
            Emit(c, replies) /\ (NoData(replies) \/ state = "AUTHENTICATED")
      BY <1>5, <2>2
  <2>8. \A k \in DOMAIN replies :
            replies[k].type = "CMD_RESP" => state = "AUTHENTICATED"
      BY <2>7 DEF NoData
  <2> QED BY <2>1, <2>2, <2>3, <2>4, <2>6, <2>7, <2>8, DataKept
<1>7. ASSUME ~Accept(c), ~ConnectionLost(c), ~HandleAuth(c)
      PROVE  DataOnlyAfterProof'
  <2>1. c = served /\ served' \in {served, NoConn} /\ peer' = peer
      BY <1>7, HandlerFrame
  <2>2. presented' = presented /\ (state' = "AUTHENTICATED" => state = "AUTHENTICATED")
      BY <1>7
      DEF ServerStep, RefuseFrame, RefuseState, HandleHello, RejectMalformedAuth,
          RejectEmptyCommand, HandleCommand, HandleQuit, HandleUnknown, session, history
  <2>3. \A d \in Conns : welcomed[d] \subseteq welcomed'[d]
    <3>1. CASE welcomed' = welcomed
        BY <3>1
    <3>2. CASE HandleHello(c)
      <4>1. ASSUME NEW ch,
                   welcomed' = [welcomed EXCEPT ![c] =
                                  IF peer[c] = "open" THEN @ \cup {ch} ELSE @]
            PROVE  \A d \in Conns : welcomed[d] \subseteq welcomed'[d]
          BY <4>1 DEF TypeOK
      <4> QED BY <3>1, <3>2, <4>1 DEF HandleHello
    <3> QED BY <1>7, <3>1, <3>2
            DEF ServerStep, RefuseFrame, RefuseState, RejectMalformedAuth,
                RejectEmptyCommand, HandleCommand, HandleQuit, HandleUnknown, history
  <2>4. PICK replies \in Seq(Reply) :
            Emit(c, replies) /\ (NoData(replies) \/ state = "AUTHENTICATED")
      BY <1>5, <1>7
  <2>5. \A k \in DOMAIN replies :
            replies[k].type = "CMD_RESP" => state = "AUTHENTICATED"
      BY <2>4 DEF NoData
  <2> QED BY <2>1, <2>2, <2>3, <2>4, <2>5, DataKept
<1> QED BY <1>1, <1>2, <1>6, <1>7

LEMMA DataPeer ==
    ASSUME TypeOK, DataOnlyAfterProof, NEW c \in Conns, PeerStep(c)
    PROVE  DataOnlyAfterProof'
<1>1. UNCHANGED session
    BY DEF PeerStep, Connect, TakeReply, Hangup, Submit
<1>2. CASE Connect(c)
  <2>1. c # served /\ served' = served
      BY <1>2, ConnectQueue DEF Connect, TypeOK
  <2>2. outbox'[c] = <<>> /\ DOMAIN <<>> = {}
      BY <1>2 DEF Connect, TcpConnect, TypeOK, TcpTypes
  <2>3. \A d \in Conns : d # c =>
            /\ peer'[d] = peer[d] /\ outbox'[d] = outbox[d]
            /\ presented'[d] = presented[d] /\ welcomed'[d] = welcomed[d]
      BY <1>2 DEF Connect, TcpConnect, TypeOK, TcpTypes
  <2> QED BY <1>1, <2>1, <2>2, <2>3 DEF DataOnlyAfterProof, Proven, session
<1>3. CASE TakeReply(c)
  <2>1. UNCHANGED <<peer, served, presented, welcomed>>
      BY <1>3 DEF TakeReply, TcpTakeReply, history
  <2>2. \A d \in Conns : Proven(d)' = Proven(d)
      BY <2>1 DEF Proven
  <2>3. ASSUME NEW d \in Conns, peer[d] = "open", NEW i \in DOMAIN outbox'[d],
               outbox'[d][i].type = "CMD_RESP"
        PROVE  Proven(d)
    <3>1. \E j \in DOMAIN outbox[d] : outbox'[d][i] = outbox[d][j]
        BY <1>3, <2>3, TakeReplies DEF TakeReply, TypeOK
    <3> QED BY <2>3, <3>1 DEF DataOnlyAfterProof
  <2>4. ASSUME NEW d \in Conns, peer[d] = "open", d = served, state = "AUTHENTICATED"
        PROVE  Proven(d)
      BY <2>4 DEF DataOnlyAfterProof
  <2> QED BY <1>1, <2>1, <2>2, <2>3, <2>4 DEF DataOnlyAfterProof, session
<1>4. CASE Hangup(c)
  <2>1. served' = served /\ peer'[c] = "closed"
        /\ \A d \in Conns : d # c =>
            /\ peer'[d] = peer[d] /\ outbox'[d] = outbox[d]
            /\ presented'[d] = presented[d] /\ welcomed'[d] = welcomed[d]
      BY <1>4 DEF Hangup, TcpHangup, history, TypeOK, TcpTypes
  <2> QED BY <1>1, <2>1 DEF DataOnlyAfterProof, Proven, session
<1>5. CASE \E req \in Requests[c] : Submit(c, req)
    BY <1>1, <1>5 DEF Submit, TcpSubmit, DataOnlyAfterProof, Proven, session, history
<1> QED BY <1>2, <1>3, <1>4, <1>5 DEF PeerStep

-----------------------------------------------------------------------------
(***************************************************************************)
(* The theorems.                                                           *)
(***************************************************************************)
LEMMA Initial == Init => IInv
<1> SUFFICES ASSUME Init PROVE IInv
    OBVIOUS
<1>1. TypeOK
    BY TypeInit
<1>2. DOMAIN <<>> = {}
    OBVIOUS
<1>3. Queue /\ Count
    BY <1>2, ProtocolAssumption DEF Init, TcpInit, Queue, Count
<1>4. Greeted /\ DataOnlyAfterProof
    BY <1>2 DEF Init, TcpInit, Greeted, DataOnlyAfterProof
<1> QED BY <1>1, <1>3, <1>4 DEF IInv

LEMMA Inductive == IInv /\ [Next]_vars => IInv'
<1> SUFFICES ASSUME IInv, [Next]_vars PROVE IInv'
    OBVIOUS
<1>1. TypeOK' /\ Queue' /\ Count' /\ Greeted'
    BY TypeNext, QueueNext, CountNext, GreetedNext DEF IInv
<1>2. DataOnlyAfterProof'
  <2>1. ASSUME NEW c \in Conns, ServerStep(c)
        PROVE  DataOnlyAfterProof'
      BY <2>1, DataServer DEF IInv
  <2>2. ASSUME NEW c \in Conns, PeerStep(c)
        PROVE  DataOnlyAfterProof'
      BY <2>2, DataPeer DEF IInv
  <2>3. CASE StopServer
      BY <2>3, ServiceAssumption
      DEF StopServer, TcpStop, Die, IInv, DataOnlyAfterProof, Proven, session, history
  <2>4. CASE UNCHANGED vars
      BY <2>4 DEF IInv, DataOnlyAfterProof, Proven, vars, tcp, session, history
  <2> QED BY <2>1, <2>2, <2>3, <2>4 DEF Next
<1> QED BY <1>1, <1>2 DEF IInv

\* The strengthened invariant holds in every reachable state of server.c and
\* any peers: the typing of every socket and session variable, one place per
\* connection, a counter that counts, a challenge that was sent.
THEOREM Invariant == Spec => []IInv
BY Initial, Inductive, PTL DEF Spec

\* Every variable of the server and its sockets keeps its type; in particular
\* the session's counter of refusals never passes MAX_AUTH_RETRIES, and every
\* reply is one the protocol has.
THEOREM TypeCorrect == Spec => []TypeOK
<1>1. IInv => TypeOK
    BY DEF IInv
<1> QED BY <1>1, Invariant, PTL

\* The result of a command only ever reaches a connection that has itself
\* proven a password of user_db, whatever its peers send and in what order.
THEOREM Authenticated == Spec => []DataOnlyAfterProof
<1>1. IInv => DataOnlyAfterProof
    BY DEF IInv
<1> QED BY <1>1, Invariant, PTL

\* A session ends with its MAX_AUTH_RETRIES-th refusal, and the counter of the
\* session is never that of another connection.
THEOREM Retries == Spec => []RetryLimit
<1>1. ASSUME IInv
      PROVE  RetryLimit
  <2>1. TypeOK /\ Queue /\ Count
      BY <1>1 DEF IInv
  <2>2. ASSUME NEW c \in Conns, Held(c)
        PROVE  refused[c] < MAX_AUTH_RETRIES
    <3>1. CASE c = served
        BY <2>1, <3>1, ServiceAssumption DEF Count
    <3>2. CASE \E i \in DOMAIN backlog : backlog[i] = c
        BY <2>1, <3>2, ProtocolAssumption DEF Count
    <3> QED BY <2>2, <3>1, <3>2 DEF Held
  <2>3. \A c \in Conns : c = served => auth_retries = refused[c]
      BY <2>1, ServiceAssumption DEF Count
  <2>4. \A c \in Conns : refused[c] = MAX_AUTH_RETRIES => ~Held(c)
      BY <2>1, <2>2, ProtocolAssumption DEF TypeOK
  <2> QED BY <2>1, <2>3, <2>4 DEF RetryLimit, Count
<1> QED BY <1>1, Invariant, PTL
-----------------------------------------------------------------------------
(***************************************************************************)
(* Requests and replies in step.  The frame's Flow does not hold of this   *)
(* server: after the last refusal a peer may have one reply more than      *)
(* requests.                                                               *)
(***************************************************************************)

\* A reply at a place where there is a request answers it.
Paired(o, q) == \A i \in 1..Len(o) : i <= Len(q) => Answers(o[i], q[i])

\* The ERROR that follows the last refusal, on a connection that is closed.
Surplus(c) ==
    /\ ~Held(c)
    /\ Len(outbox[c]) = Len(asked[c]) + 1
    /\ outbox[c][Len(outbox[c])] = Error("AUTH_FAIL")
    /\ refused[c] = MAX_AUTH_RETRIES

Places(c) ==
    /\ Paired(outbox[c], asked[c])
    /\ Held(c) => Owed(c)
    /\ Len(outbox[c]) <= Len(asked[c]) \/ Surplus(c)

AllPlaces == \A c \in Conns : peer[c] = "open" => Places(c)

LEMMA ErrorAnswers == ASSUME NEW code, NEW req PROVE Answers(Error(code), req)
BY DEF Answers, Error

\* A command that handle_command dispatches is answered.
LEMMA CommandAnswers ==
    ASSUME NEW req, req.type = "CMD_REQ"
    PROVE  Answers(CommandReply(req), req)
<1>1. "CMD_REQ" \in DOMAIN ResponseType /\ ResponseType["CMD_REQ"] = "CMD_RESP"
    BY DEF ResponseType
<1>2. CmdFail.type = "CMD_RESP" /\ "content" \notin DOMAIN CmdFail
    BY DEF CmdFail
<1>3. CmdOk(req).type = "CMD_RESP" /\ CmdOk(req).content = Carried(req)
    BY DEF CmdOk
<1> QED BY <1>1, <1>2, <1>3 DEF Answers, CommandReply

LEMMA OtherAnswers ==
    /\ \A ch, req : req.type = "HELLO_REQ" => Answers(Welcome(ch), req)
    /\ \A st, req : req.type = "AUTH_REQ" => Answers(AuthResp(st), req)
    /\ \A req : req.type = "QUIT_REQ" => Answers(Bye, req)
<1>1. /\ {"HELLO_REQ", "AUTH_REQ", "QUIT_REQ"} \subseteq DOMAIN ResponseType
      /\ ResponseType["HELLO_REQ"] = "HELLO_RESP" /\ ResponseType["AUTH_REQ"] = "AUTH_RESP"
      /\ ResponseType["QUIT_REQ"] = "QUIT_RESP"
    BY DEF ResponseType
<1>2. /\ \A ch : Welcome(ch).type = "HELLO_RESP" /\ "content" \notin DOMAIN Welcome(ch)
      /\ \A st : AuthResp(st).type = "AUTH_RESP" /\ "content" \notin DOMAIN AuthResp(st)
      /\ Bye.type = "QUIT_RESP" /\ "content" \notin DOMAIN Bye
    BY DEF Welcome, AuthResp, Bye
<1> QED BY <1>1, <1>2 DEF Answers

\* One reply to a request it answers, or the two that end a session.
Single(c, r) ==
    /\ r \in Reply
    /\ Emit(c, <<r>>)
    /\ Answers(r, Head(inbox[c]))

Double(c) ==
    /\ Emit(c, <<AuthResp("FAIL"), Error("AUTH_FAIL")>>)
    /\ Answers(AuthResp("FAIL"), Head(inbox[c]))
    /\ refused'[c] = MAX_AUTH_RETRIES
    /\ served' = NoConn

LEMMA HandlerReplies ==
    ASSUME IInv, IInv', NEW c \in Conns, ServerStep(c), ~Accept(c), ~ConnectionLost(c)
    PROVE  /\ inbox[c] # <<>>
           /\ \E outcome, leave : Conclude(c, outcome, leave)
           /\ (\E r \in Reply : Single(c, r)) \/ Double(c)
           /\ \A d \in Conns : refused'[d] = refused[d] \/ d = c
<1> DEFINE req == Head(inbox[c])
<1>1. \A type : Receives(c, type) =>
          /\ inbox[c] # <<>> /\ served = c /\ served # NoConn
          /\ req \in Request /\ req.type = type
    BY Received DEF IInv
<1>2. ASSUME NEW code \in ErrorCodes, Emit(c, <<Error(code)>>)
      PROVE  \E r \in Reply : Single(c, r)
    BY <1>2, Replies, ErrorAnswers DEF Single
<1>3. CASE RefuseFrame(c) \/ RefuseState(c) \/ RejectMalformedAuth(c) \/ HandleUnknown(c)
           \/ RejectEmptyCommand(c)
  <2>1. {"BAD_MAGIC", "PAYLOAD_TOO_LARGE", "WRONG_STATE", "BAD_TYPE",
         "AUTH_FAIL", "BAD_CMD"} \subseteq ErrorCodes
      BY DEF ErrorCodes
  <2>2. /\ \E type : Receives(c, type)
        /\ \E outcome, leave : Conclude(c, outcome, leave)
        /\ refused' = refused
        /\ \E code \in ErrorCodes : Emit(c, <<Error(code)>>)
      BY <1>3, <2>1
      DEF RefuseFrame, RefuseState, RejectMalformedAuth, HandleUnknown,
          RejectEmptyCommand, UnknownReplies, history
  <2> QED BY <1>1, <1>2, <2>2
<1>4. CASE HandleHello(c)
  <2>1. /\ Receives(c, "HELLO_REQ") /\ refused' = refused
        /\ \E outcome, leave : Conclude(c, outcome, leave)
        /\ \/ Emit(c, <<Error("BAD_TYPE")>>)
           \/ \E ch \in Challenges : Emit(c, <<Welcome(ch)>>)
      BY <1>4 DEF HandleHello
  <2>2. ASSUME NEW ch \in Challenges, Emit(c, <<Welcome(ch)>>)
        PROVE  Single(c, Welcome(ch)) /\ Welcome(ch) \in Reply
      BY <1>1, <2>1, <2>2, Replies, OtherAnswers DEF Single
  <2>3. "BAD_TYPE" \in ErrorCodes
      BY DEF ErrorCodes
  <2> QED BY <1>1, <1>2, <2>1, <2>2, <2>3
<1>5. CASE HandleAuth(c)
  <2>1. Receives(c, "AUTH_REQ")
      BY <1>5 DEF HandleAuth
  <2>2. Answers(AuthResp("OK"), req) /\ Answers(AuthResp("FAIL"), req)
      BY <1>1, <2>1, OtherAnswers
  <2>3. AuthResp("OK") \in Reply /\ AuthResp("FAIL") \in Reply
      BY Replies
  <2>4. \A d \in Conns : refused'[d] = refused[d] \/ d = c
      BY <1>5 DEF HandleAuth, IInv, TypeOK
  <2>5. \/ Emit(c, <<AuthResp("OK")>>) \/ Emit(c, <<AuthResp("FAIL")>>)
        \/ /\ Emit(c, <<AuthResp("FAIL"), Error("AUTH_FAIL")>>)
           /\ LastTry(auth_retries') /\ auth_retries' = auth_retries + 1
           /\ refused' = [refused EXCEPT ![c] = @ + 1]
           /\ \E outcome : Conclude(c, outcome, TRUE)
      BY <1>5 DEF HandleAuth
  <2>6. ASSUME Emit(c, <<AuthResp("FAIL"), Error("AUTH_FAIL")>>),
               LastTry(auth_retries'), auth_retries' = auth_retries + 1,
               refused' = [refused EXCEPT ![c] = @ + 1],
               NEW outcome, Conclude(c, outcome, TRUE)
        PROVE  Double(c)
    <3>1. served' = NoConn
        BY <1>1, <2>1, <2>6, ConcludeFacts DEF IInv, TypeOK
    <3>2. auth_retries = refused[c] /\ auth_retries < MAX_AUTH_RETRIES
        BY <1>1, <2>1 DEF IInv, Count
    <3>3. refused'[c] = auth_retries + 1 /\ auth_retries + 1 >= MAX_AUTH_RETRIES
        BY <2>6, <3>2 DEF LastTry, IInv, TypeOK
    <3>4. refused'[c] = MAX_AUTH_RETRIES
        BY <3>2, <3>3, ProtocolAssumption DEF IInv, TypeOK
    <3> QED BY <2>2, <2>6, <3>1, <3>4 DEF Double
  <2>7. \E outcome, leave : Conclude(c, outcome, leave)
      BY <1>5 DEF HandleAuth
  <2> QED BY <1>1, <2>1, <2>2, <2>3, <2>4, <2>5, <2>6, <2>7 DEF Single
<1>6. CASE HandleCommand(c)
  <2>1. /\ Receives(c, "CMD_REQ") /\ req.ok /\ refused' = refused
        /\ \E outcome, leave : Conclude(c, outcome, leave)
        /\ Emit(c, <<Error("BAD_CMD")>>) \/ Emit(c, <<CommandReply(req)>>)
      BY <1>6 DEF HandleCommand, history
  <2>2. CommandReply(req) \in Reply /\ Answers(CommandReply(req), req)
      BY <1>1, <2>1, CommandReplyType, CommandAnswers
  <2>3. "BAD_CMD" \in ErrorCodes
      BY DEF ErrorCodes
  <2> QED BY <1>1, <1>2, <2>1, <2>2, <2>3 DEF Single
<1>7. CASE HandleQuit(c)
  <2>1. /\ Receives(c, "QUIT_REQ") /\ Emit(c, <<Bye>>) /\ refused' = refused
        /\ \E outcome, leave : Conclude(c, outcome, leave)
      BY <1>7 DEF HandleQuit, history
  <2> QED BY <1>1, <2>1, Replies, OtherAnswers DEF Single
<1> QED BY <1>3, <1>4, <1>5, <1>6, <1>7 DEF ServerStep

\* A connection whose sockets the step leaves alone.
LEMMA PlacesKept ==
    ASSUME NEW d, Places(d), Held(d)' => Held(d) /\ inbox'[d] = inbox[d],
           outbox'[d] = outbox[d], asked'[d] = asked[d], refused'[d] = refused[d]
    PROVE  Places(d)'
<1>1. Held(d)' => Owed(d)'
    BY DEF Places, Owed
<1>2. Surplus(d) => Surplus(d)'
    BY DEF Surplus
<1> QED BY <1>1, <1>2 DEF Places

\* A reply at the place of the request the server has read.
LEMMA PairedAppend ==
    ASSUME NEW Req, NEW Rep, NEW q \in Seq(Req), NEW o \in Seq(Rep), NEW r \in Rep,
           Paired(o, q), Len(o) + 1 <= Len(q) => Answers(r, q[Len(o) + 1])
    PROVE  Paired(Append(o, r), q)
<1> DEFINE o1 == Append(o, r)
<1>1. /\ Len(o) \in Nat /\ Len(q) \in Nat /\ Len(o1) = Len(o) + 1 /\ o1[Len(o) + 1] = r
      /\ \A i \in 1..Len(o) : o1[i] = o[i]
    BY AppendFacts, LenProperties
<1> HIDE DEF o1
<1>2. ASSUME NEW i \in 1..Len(o1), i <= Len(q)
      PROVE  Answers(o1[i], q[i])
  <2>1. CASE i = Len(o) + 1
      BY <1>1, <1>2, <2>1
  <2>2. CASE i # Len(o) + 1
    <3>1. i \in 1..Len(o)
        BY <1>1, <2>2
    <3> QED BY <1>1, <1>2, <3>1 DEF Paired
  <2> QED BY <2>1, <2>2
<1> QED BY <1>2 DEF Paired, o1

LEMMA PairedTake ==
    ASSUME NEW Req, NEW Rep, NEW q \in Seq(Req), NEW o \in Seq(Rep), q # <<>>, o # <<>>,
           Paired(o, q)
    PROVE  Paired(Tail(o), Tail(q))
<1> DEFINE o1 == Tail(o)
           q1 == Tail(q)
<1>1. /\ Len(o) \in Nat \ {0} /\ Len(o1) = Len(o) - 1
      /\ \A i \in 1..Len(o) - 1 : o1[i] = o[i + 1]
    BY TailFacts
<1>2. /\ Len(q) \in Nat \ {0} /\ Len(q1) = Len(q) - 1
      /\ \A i \in 1..Len(q) - 1 : q1[i] = q[i + 1]
    BY TailFacts
<1> HIDE DEF o1, q1
<1>3. ASSUME NEW i \in 1..Len(o1), i <= Len(q1)
      PROVE  Answers(o1[i], q1[i])
  <2>1. i + 1 \in 1..Len(o) /\ i + 1 <= Len(q) /\ o1[i] = o[i + 1] /\ q1[i] = q[i + 1]
      BY <1>1, <1>2, <1>3
  <2> QED BY <2>1 DEF Paired
<1> QED BY <1>3 DEF Paired, o1, q1

\* Two replies in one.
LEMMA AppendTwo ==
    ASSUME NEW S, NEW o \in Seq(S), NEW a \in S, NEW b \in S
    PROVE  o \o <<a, b>> = Append(Append(o, a), b)
<1>1. <<a, b>> = Append(<<a>>, b)
    OBVIOUS
<1>2. o \o Append(<<a>>, b) = Append(o \o <<a>>, b)
    OBVIOUS
<1>3. o \o <<a>> = Append(o, a)
    OBVIOUS
<1> QED BY <1>1, <1>2, <1>3

LEMMA PlacesHandler ==
    ASSUME IInv, IInv', AllPlaces, NEW c \in Conns, ServerStep(c),
           ~Accept(c), ~ConnectionLost(c)
    PROVE  AllPlaces'
<1>1. /\ inbox[c] # <<>>
      /\ \E outcome, leave : Conclude(c, outcome, leave)
      /\ (\E r \in Reply : Single(c, r)) \/ Double(c)
      /\ \A d \in Conns : refused'[d] = refused[d] \/ d = c
    BY HandlerReplies
<1>2. c = served /\ c # NoConn /\ UNCHANGED <<peer, asked>> /\ Held(c)
      /\ served' \in {served, NoConn} /\ backlog' \in {backlog, <<>>}
    BY HandlerFrame, ServiceAssumption DEF IInv, Held
<1>3. \A d \in Conns : Held(d)' =>
        /\ Held(d)
        /\ inbox'[d] = IF d = c THEN Tail(inbox[c]) ELSE inbox[d]
  <2>1. CASE Die
      BY <2>1, ServiceAssumption DEF Die, Held
  <2>2. CASE CloseClient(c)
      BY <1>2, <2>2, ServiceAssumption DEF CloseClient, Held, IInv, Queue, TypeOK, TcpTypes
  <2>3. CASE /\ inbox' = [inbox EXCEPT ![c] = Tail(@)]
             /\ UNCHANGED <<running, served, backlog>>
      BY <2>3 DEF Held, IInv, TypeOK, TcpTypes
  <2> QED BY <1>1, <2>1, <2>2, <2>3 DEF Conclude
<1>4. ASSUME NEW d \in Conns, d # c, peer[d] = "open"
      PROVE  Places(d)'
  <2>1. outbox'[d] = outbox[d]
      BY <1>1, <1>4 DEF Single, Double, Emit, IInv, TypeOK, TcpTypes
  <2>2. refused'[d] = refused[d]
      BY <1>1, <1>4
  <2> QED BY <1>2, <1>3, <1>4, <2>1, <2>2, PlacesKept DEF AllPlaces
<1>5. ASSUME peer[c] = "open"
      PROVE  Places(c)'
  <2>1. /\ asked[c] \in Seq(Request) /\ outbox[c] \in Seq(Reply) /\ inbox[c] \in Seq(Request)
        /\ outbox \in [Conns -> Seq(Reply)]
      BY DEF IInv, TypeOK, TcpTypes
  <2>2. /\ Paired(outbox[c], asked[c])
        /\ Aligned(asked[c], outbox[c], inbox[c])
      BY <1>2, <1>5 DEF AllPlaces, Places, Owed
  <2>3. ASSUME NEW r \in Reply, Answers(r, Head(inbox[c]))
        PROVE  /\ Append(outbox[c], r) \in Seq(Reply)
               /\ Paired(Append(outbox[c], r), asked[c])
               /\ Aligned(asked[c], Append(outbox[c], r), Tail(inbox[c]))
               /\ Len(Append(outbox[c], r)) <= Len(asked[c])
    <3>1. /\ Aligned(asked[c], Append(outbox[c], r), Tail(inbox[c]))
          /\ Len(Append(outbox[c], r)) <= Len(asked[c])
          /\ asked[c][Len(outbox[c]) + 1] = Head(inbox[c])
        BY <1>1, <2>1, <2>2, AlignedHandle
    <3>2. Answers(r, asked[c][Len(outbox[c]) + 1])
        BY <2>3, <3>1
    <3>3. Append(outbox[c], r) \in Seq(Reply)
        BY <2>1, AppendFacts
    <3> QED BY <2>1, <2>2, <3>1, <3>2, <3>3, PairedAppend
  <2>4. CASE \E r \in Reply : Single(c, r)
    <3>1. PICK r \in Reply : Single(c, r)
        BY <2>4
    <3>2. outbox'[c] = Append(outbox[c], r)
      <4>1. outbox[c] \o <<r>> = Append(outbox[c], r)
          BY <2>1
      <4> QED BY <1>5, <2>1, <3>1, <4>1 DEF Single, Emit
    <3>3. Held(c)' => Owed(c)'
        BY <1>2, <1>3, <2>3, <3>1, <3>2 DEF Single, Owed
    <3> QED BY <1>2, <2>3, <3>1, <3>2, <3>3 DEF Single, Places
  <2>5. CASE Double(c)
    <3> DEFINE fail == AuthResp("FAIL")
               err == Error("AUTH_FAIL")
               o1 == Append(outbox[c], fail)
    <3>1. fail \in Reply /\ err \in Reply
        BY Replies DEF ErrorCodes
    <3>2. ~Held(c)'
        BY <1>2, <2>5 DEF Double, Held, IInv, Queue
    <3>3. /\ o1 \in Seq(Reply) /\ Paired(o1, asked[c]) /\ Len(o1) <= Len(asked[c])
        BY <2>3, <2>5, <3>1 DEF Double
    <3>4. \A req : Answers(err, req)
        BY ErrorAnswers
    <3>5. outbox'[c] = Append(o1, err)
      <4> HIDE DEF fail, err
      <4>1. outbox'[c] = outbox[c] \o <<fail, err>>
          BY <1>5, <2>1, <2>5 DEF Double, Emit, fail, err
      <4> QED BY <2>1, <3>1, <4>1, AppendTwo
    <3> HIDE DEF fail, err, o1
    <3>6. Paired(outbox'[c], asked[c])
        BY <2>1, <3>1, <3>3, <3>4, <3>5, PairedAppend
    <3>7. /\ Len(outbox'[c]) = Len(o1) + 1 /\ outbox'[c][Len(o1) + 1] = err
          /\ Len(o1) \in Nat /\ Len(asked[c]) \in Nat
        BY <2>1, <3>1, <3>3, <3>5, AppendFacts
    <3>8. Len(outbox'[c]) <= Len(asked[c]) \/ Len(outbox'[c]) = Len(asked[c]) + 1
        BY <3>3, <3>7
    <3>9. Len(outbox'[c]) = Len(asked[c]) + 1 => Surplus(c)'
        BY <1>2, <2>5, <3>2, <3>7 DEF Surplus, Double, err
    <3> QED BY <1>2, <3>2, <3>6, <3>8, <3>9 DEF Places
  <2> QED BY <1>1, <2>4, <2>5
<1> QED BY <1>2, <1>4, <1>5 DEF AllPlaces

LEMMA PlacesPeer ==
    ASSUME IInv, AllPlaces, NEW c \in Conns, PeerStep(c)
    PROVE  AllPlaces'
<1>1. CASE Connect(c)
  <2>1. TcpConnect(c) /\ refused' = [refused EXCEPT ![c] = 0]
      BY <1>1 DEF Connect
  <2>2. /\ inbox'[c] = <<>> /\ outbox'[c] = <<>> /\ asked'[c] = <<>> /\ Len(<<>>) = 0
        /\ \A d \in Conns : d # c =>
              /\ peer'[d] = peer[d] /\ inbox'[d] = inbox[d] /\ refused'[d] = refused[d]
              /\ outbox'[d] = outbox[d] /\ asked'[d] = asked[d]
      BY <2>1 DEF TcpConnect, IInv, TypeOK, TcpTypes
  <2>3. \A d \in Conns : d # c /\ Held(d)' => Held(d)
      BY <2>1, HeldBefore DEF IInv, TypeOK
  <2>4. Places(c)'
      BY <2>2 DEF Places, Paired, Owed, Aligned
  <2> QED BY <2>2, <2>3, <2>4, PlacesKept DEF AllPlaces
<1>2. ASSUME NEW req \in Requests[c], Submit(c, req)
      PROVE  AllPlaces'
  <2>1. /\ req \in Request /\ peer[c] = "open" /\ Held(c)
        /\ UNCHANGED <<served, backlog, peer, outbox, refused>>
        /\ inbox'[c] = Append(inbox[c], req) /\ asked'[c] = Append(asked[c], req)
        /\ \A d \in Conns : d # c => inbox'[d] = inbox[d] /\ asked'[d] = asked[d]
      BY <1>2, RequestsAssumption DEF Submit, TcpSubmit, history, IInv, TypeOK, TcpTypes
  <2>2. \A d \in Conns : Held(d)' = Held(d)
      BY <2>1 DEF Held
  <2>3. /\ asked[c] \in Seq(Request) /\ outbox[c] \in Seq(Reply) /\ inbox[c] \in Seq(Request)
      BY DEF IInv, TypeOK, TcpTypes
  <2>4. /\ Paired(outbox[c], asked[c]) /\ Aligned(asked[c], outbox[c], inbox[c])
        /\ Len(outbox[c]) <= Len(asked[c])
      BY <2>1 DEF AllPlaces, Places, Surplus, Owed
  <2>5. /\ Len(asked'[c]) = Len(asked[c]) + 1
        /\ \A i \in 1..Len(asked[c]) : asked'[c][i] = asked[c][i]
        /\ Len(outbox[c]) \in Nat /\ Len(asked[c]) \in Nat
      BY <2>1, <2>3, AppendFacts, LenProperties
  <2>6. Paired(outbox[c], asked'[c]) /\ Len(outbox[c]) <= Len(asked'[c])
      BY <2>4, <2>5 DEF Paired
  <2>7. Aligned(asked'[c], outbox[c], inbox'[c])
      BY <2>1, <2>3, <2>4, AlignedSubmit
  <2>8. Places(c)'
      BY <2>1, <2>6, <2>7 DEF Places, Owed
  <2> QED BY <2>1, <2>2, <2>8, PlacesKept DEF AllPlaces
<1>3. CASE TakeReply(c)
  <2>1. /\ TcpTakeReply(c) /\ UNCHANGED <<served, backlog, peer, inbox, refused>>
        /\ peer[c] = "open" /\ outbox[c] # <<>> /\ outbox'[c] = Tail(outbox[c])
        /\ asked'[c] = IF asked[c] = <<>> THEN asked[c] ELSE Tail(asked[c])
        /\ \A d \in Conns : d # c => outbox'[d] = outbox[d] /\ asked'[d] = asked[d]
      BY <1>3 DEF TakeReply, TcpTakeReply, history, IInv, TypeOK, TcpTypes
  <2>2. \A d \in Conns : Held(d)' = Held(d)
      BY <2>1 DEF Held
  <2>3. /\ asked[c] \in Seq(Request) /\ outbox[c] \in Seq(Reply) /\ inbox[c] \in Seq(Request)
        /\ Len(asked[c]) \in Nat /\ Places(c)
      BY <2>1, LenProperties DEF AllPlaces, IInv, TypeOK, TcpTypes
  <2>4. /\ Len(outbox[c]) \in Nat \ {0} /\ Len(outbox'[c]) = Len(outbox[c]) - 1
        /\ \A i \in 1..Len(outbox[c]) - 1 : outbox'[c][i] = outbox[c][i + 1]
      BY <2>1, <2>3, TailFacts
  <2>5. CASE asked[c] = <<>>
    <3>1. Len(asked[c]) = 0 /\ Len(asked'[c]) = 0
        BY <2>1, <2>5
    <3>2. ~Held(c) /\ Len(outbox'[c]) = 0
        BY <2>3, <2>4, <3>1 DEF Places, Surplus
    <3>3. Paired(outbox'[c], asked'[c])
        BY <3>2 DEF Paired
    <3>4. Places(c)'
        BY <2>2, <3>1, <3>2, <3>3 DEF Places
    <3> QED BY <2>1, <2>2, <3>4, PlacesKept DEF AllPlaces
  <2>6. CASE asked[c] # <<>>
    <3>1. asked'[c] = Tail(asked[c]) /\ Len(asked'[c]) = Len(asked[c]) - 1
        BY <2>1, <2>3, <2>6, TailFacts
    <3>2. Paired(outbox'[c], asked'[c])
        BY <2>1, <2>3, <2>6, <3>1, PairedTake DEF Places
    <3>3. Held(c)' => Owed(c)'
      <4>1. ASSUME Aligned(asked[c], outbox[c], inbox[c])
            PROVE  Aligned(Tail(asked[c]), Tail(outbox[c]), inbox[c])
          BY <2>1, <2>3, <2>6, <4>1, AlignedTake
      <4> QED BY <2>1, <2>2, <2>3, <3>1, <4>1 DEF Places, Owed
    <3>4. Len(outbox'[c]) <= Len(asked'[c]) \/ Surplus(c)'
      <4>1. CASE Len(outbox[c]) <= Len(asked[c])
          BY <2>3, <2>4, <3>1, <4>1
      <4>2. CASE Surplus(c)
        <5>1. Len(outbox[c]) - 1 \in 1..Len(outbox[c]) - 1
            BY <2>3, <2>4, <2>6, <4>2, EmptySeq DEF Surplus
        <5>2. outbox'[c][Len(outbox'[c])] = outbox[c][Len(outbox[c])]
            BY <2>4, <5>1
        <5>3. ~Held(c)' /\ Len(outbox'[c]) = Len(asked'[c]) + 1
            BY <2>2, <2>3, <2>4, <3>1, <4>2 DEF Surplus
        <5> QED BY <2>1, <4>2, <5>2, <5>3 DEF Surplus
      <4> QED BY <2>3, <4>1, <4>2 DEF Places
    <3>5. Places(c)'
        BY <3>2, <3>3, <3>4 DEF Places
    <3> QED BY <2>1, <2>2, <3>5, PlacesKept DEF AllPlaces
  <2> QED BY <2>5, <2>6
<1>4. CASE Hangup(c)
  <2>1. /\ peer'[c] = "closed" /\ UNCHANGED <<served, backlog, inbox, refused>>
        /\ \A d \in Conns : d # c =>
              peer'[d] = peer[d] /\ outbox'[d] = outbox[d] /\ asked'[d] = asked[d]
      BY <1>4 DEF Hangup, TcpHangup, IInv, TypeOK, TcpTypes
  <2>2. \A d \in Conns : Held(d)' = Held(d)
      BY <2>1 DEF Held
  <2> QED BY <2>1, <2>2, PlacesKept DEF AllPlaces
<1> QED BY <1>1, <1>2, <1>3, <1>4 DEF PeerStep

LEMMA PlacesNext ==
    ASSUME IInv, IInv', AllPlaces, [Next]_vars
    PROVE  AllPlaces'
<1>1. ASSUME NEW c \in Conns, Accept(c)
      PROVE  AllPlaces'
  <2>1. TcpAccept(c) /\ UNCHANGED <<peer, inbox, outbox, asked, refused>>
      BY <1>1 DEF Accept, TcpAccept, history
  <2>2. \A d \in Conns : Held(d)' => Held(d)
      BY <2>1, HeldBefore DEF IInv, TypeOK
  <2> QED BY <2>1, <2>2, PlacesKept DEF AllPlaces
<1>2. ASSUME NEW c \in Conns, ConnectionLost(c)
      PROVE  AllPlaces'
  <2>1. c = served /\ CloseClient(c) /\ UNCHANGED <<peer, outbox, asked, refused>>
      BY <1>2 DEF ConnectionLost, TcpLost, history
  <2>2. \A d \in Conns : Held(d)' => Held(d) /\ inbox'[d] = inbox[d]
      BY <2>1, ServiceAssumption DEF CloseClient, Held, IInv, Queue, TypeOK, TcpTypes
  <2> QED BY <2>1, <2>2, PlacesKept DEF AllPlaces
<1>3. CASE StopServer
  <2>1. TcpStop /\ UNCHANGED <<peer, outbox, asked, refused>>
      BY <1>3 DEF StopServer, TcpStop, history
  <2>2. \A d \in Conns : ~Held(d)'
      BY <2>1, ServiceAssumption DEF TcpStop, Die, Held
  <2> QED BY <2>1, <2>2, PlacesKept DEF AllPlaces
<1>4. CASE UNCHANGED vars
  <2>1. UNCHANGED <<served, backlog, peer, inbox, outbox, asked, refused>>
      BY <1>4 DEF vars, tcp, history
  <2>2. \A d \in Conns : Held(d)' = Held(d)
      BY <2>1 DEF Held
  <2> QED BY <2>1, <2>2, PlacesKept DEF AllPlaces
<1> QED BY <1>1, <1>2, <1>3, <1>4, PlacesHandler, PlacesPeer DEF Next

LEMMA PlacesImply == ASSUME TypeOK, AllPlaces PROVE InStep
<1> SUFFICES ASSUME NEW c \in Conns, peer[c] = "open"
             PROVE  LET n == Len(outbox[c])
                        m == Len(asked[c])
                    IN  /\ \A i \in 1..n : i <= m => Answers(outbox[c][i], asked[c][i])
                        /\ Held(c) => n <= m /\ inbox[c] = SubSeq(asked[c], n + 1, m)
                        /\ n > m => /\ n = m + 1 /\ ~Held(c)
                                    /\ outbox[c][n] = Error("AUTH_FAIL")
                                    /\ refused[c] = MAX_AUTH_RETRIES
    BY DEF InStep
<1>1. /\ asked[c] \in Seq(Request) /\ outbox[c] \in Seq(Reply) /\ inbox[c] \in Seq(Request)
      /\ Len(outbox[c]) \in Nat /\ Len(asked[c]) \in Nat
    BY LenProperties DEF TypeOK, TcpTypes
<1>2. Places(c)
    BY DEF AllPlaces
<1>3. Held(c) => /\ Len(outbox[c]) <= Len(asked[c])
                 /\ inbox[c] = SubSeq(asked[c], Len(outbox[c]) + 1, Len(asked[c]))
  <2>1. Aligned(asked[c], outbox[c], inbox[c]) => inbox[c] = Rest(asked[c], Len(outbox[c]))
      BY <1>1, AlignedRest
  <2>2. Held(c) => Aligned(asked[c], outbox[c], inbox[c])
      BY <1>2 DEF Places, Owed
  <2>3. Held(c) => Len(outbox[c]) <= Len(asked[c])
      BY <1>2 DEF Places, Surplus
  <2> QED BY <2>1, <2>2, <2>3 DEF Rest
<1>4. Len(outbox[c]) > Len(asked[c]) => Surplus(c)
    BY <1>1, <1>2 DEF Places
<1> QED BY <1>2, <1>3, <1>4 DEF Places, Paired, Surplus

(***************************************************************************)
(* However deep a peer pipelines, the n-th reply it reads answers the n-th *)
(* request it sent; the ERROR after the last refusal is the only reply     *)
(* without a request, and the connection is closed (server.c:354-364).     *)
(***************************************************************************)
THEOREM Pipelined == Spec => []InStep
<1>1. Init => AllPlaces
  <2>1. Init => \A c \in Conns : peer[c] # "open"
      BY DEF Init, TcpInit
  <2> QED BY <2>1 DEF AllPlaces
<1>2. IInv /\ IInv' /\ AllPlaces /\ [Next]_vars => AllPlaces'
    BY PlacesNext
<1>3. IInv /\ AllPlaces => InStep
    BY PlacesImply DEF IInv
<1> QED BY <1>1, <1>2, <1>3, Invariant, PTL DEF Spec

-----------------------------------------------------------------------------
(***************************************************************************)
(* The gate.  A step of the server or of a peer moves at most one visitor, *)
(* unless the process ends; so each action is matched, by the place of its *)
(* connection before and after, to an action of Ch23Gate.                  *)
(***************************************************************************)

\* A session that has seen QUIT is not served any more (server.c:496-505, 561).
Alive == served # NoConn => state # "DISCONNECTED"

\* What a handler leaves of the connection it works on.
Ended == Die
Closed(c) == CloseClient(c)
Stays == UNCHANGED <<served, backlog>>

\* A handler's refusal is one of a greeted session.
Refuses(c) == state = "HELLO_DONE" /\ refused' = [refused EXCEPT ![c] = @ + 1]

LEMMA ConcludeCases ==
    ASSUME NEW c, NEW outcome, NEW leave, Conclude(c, outcome, leave)
    PROVE  Ended \/ Closed(c) \/ (Stays /\ ~leave)
BY DEF Conclude, Ended, Closed, Stays

\* Every handler: how the connection, the state and the counts go on.
LEMMA HandlerSummary ==
    ASSUME TypeOK, Count, Count', NEW c \in Conns, ServerStep(c), ~Accept(c)
    PROVE  /\ Ended \/ Closed(c) \/ Stays
           /\ refused' = refused \/ Refuses(c)
           /\ Stays =>
                \/ state' = state /\ refused' = refused
                \/ state' = state /\ Refuses(c) /\ refused'[c] < MAX_AUTH_RETRIES
                \/ state = "CONNECTED" /\ state' = "HELLO_DONE" /\ refused' = refused
                \/ state = "HELLO_DONE" /\ state' = "AUTHENTICATED" /\ refused' = refused
                \/ state' = "DISCONNECTED"
           /\ state' = "DISCONNECTED" => state = "DISCONNECTED" \/ served' = NoConn
<1>1. c = served /\ served # NoConn /\ served' \in {served, NoConn}
    BY HandlerFrame, ServiceAssumption
<1>2. CASE HandleHello(c)
  <2>1. /\ Ended \/ Closed(c) \/ Stays
        /\ refused' = refused
        /\ state = "CONNECTED" /\ state' \in {state, "HELLO_DONE"}
      BY <1>2, ConcludeCases DEF HandleHello, StateFor, session
  <2> QED BY <2>1
<1>3. CASE HandleAuth(c)
  <2>1. Ended \/ Closed(c) \/ Stays
      BY <1>3, ConcludeCases DEF HandleAuth
  <2>2. state = "HELLO_DONE"
        /\ \/ state' = "AUTHENTICATED" /\ refused' = refused
           \/ state' = state /\ Refuses(c)
      BY <1>3 DEF HandleAuth, StateFor, Refuses
  <2>3. Stays => refused'[c] < MAX_AUTH_RETRIES
      BY <1>1 DEF Stays, Count
  <2> QED BY <2>1, <2>2, <2>3
<1>4. CASE HandleQuit(c)
  <2>1. \E outcome : Conclude(c, outcome, TRUE)
      BY <1>4 DEF HandleQuit
  <2>2. served' = NoConn /\ (Ended \/ Closed(c) \/ Stays)
      BY <2>1, ConcludeCases DEF Ended, Closed, Die, CloseClient
  <2> QED BY <1>4, <2>2 DEF HandleQuit, history
<1>5. CASE ~HandleHello(c) /\ ~HandleAuth(c) /\ ~HandleQuit(c)
  <2>1. state' = state /\ refused' = refused
      BY <1>5
      DEF ServerStep, ConnectionLost, RefuseFrame, RefuseState, RejectMalformedAuth,
          RejectEmptyCommand, HandleCommand, HandleUnknown, session, history
  <2>2. Ended \/ Closed(c) \/ Stays
    <3>1. CASE ConnectionLost(c)
        BY <3>1 DEF ConnectionLost, TcpLost, Closed
    <3>2. CASE RefuseFrame(c) \/ RefuseState(c) \/ RejectMalformedAuth(c)
               \/ RejectEmptyCommand(c)
        BY <3>2, ConcludeCases
           DEF RefuseFrame, RefuseState, RejectMalformedAuth, RejectEmptyCommand
    <3>3. CASE HandleCommand(c) \/ HandleUnknown(c)
        BY <3>3, ConcludeCases DEF HandleCommand, HandleUnknown
    <3> QED BY <1>5, <3>1, <3>2, <3>3 DEF ServerStep
  <2> QED BY <2>1, <2>2
<1> QED BY <1>2, <1>3, <1>4, <1>5

LEMMA AliveNext ==
    ASSUME IInv, IInv', Alive, [Next]_vars
    PROVE  Alive'
<1>1. ASSUME NEW c \in Conns, Accept(c)
      PROVE  Alive'
    BY <1>1 DEF Accept, FreshSession, Alive
<1>2. ASSUME NEW c \in Conns, ServerStep(c), ~Accept(c)
      PROVE  Alive'
    BY <1>2, HandlerFrame, HandlerSummary, ServiceAssumption DEF Alive, IInv
<1>3. ASSUME NEW c \in Conns, PeerStep(c)
      PROVE  Alive'
    BY <1>3
    DEF PeerStep, Connect, TakeReply, Hangup, Submit, TcpConnect, TcpTakeReply,
        TcpHangup, TcpSubmit, session, Alive
<1>4. CASE StopServer \/ UNCHANGED vars
    BY <1>4 DEF StopServer, TcpStop, Die, vars, tcp, session, Alive
<1> QED BY <1>1, <1>2, <1>3, <1>4 DEF Next

\* Where a connection stands, case by case.
LEMMA PhaseCases ==
    ASSUME NEW c \in Conns
    PROVE  /\ c = served /\ state = "CONNECTED" => Phase(c) = "admitted"
           /\ c = served /\ state = "HELLO_DONE" => Phase(c) = "greeted"
           /\ c = served /\ state = "AUTHENTICATED" => Phase(c) = "trusted"
           /\ c # served /\ Held(c) => Phase(c) = "waiting"
           /\ ~Held(c) /\ peer[c] = "open" => Phase(c) = "parted"
           /\ ~Held(c) /\ peer[c] # "open" => Phase(c) = "away"
<1>1. c = served => Held(c)
    BY DEF Held
<1> QED BY <1>1 DEF Phase
\* One connection moves, and the others stand where they stood.
Others(c) == \A d \in Conns : d # c => Phase(d)' = Phase(d)

LEMMA GateMove ==
    ASSUME NEW c \in Conns, NEW from, NEW to, Phase(c) = from, Phase(c)' = to, Others(c)
    PROVE  Gate!Move(c, from, to)
BY DEF Gate!Move, Others

LEMMA GateStays ==
    ASSUME \A c \in Conns : Phase(c)' = Phase(c)
    PROVE  UNCHANGED [c \in Conns |-> Phase(c)]
OBVIOUS

\* What the phase of a connection is told by.
LEMMA SamePhase ==
    ASSUME NEW d \in Conns, Held(d)' = Held(d), peer'[d] = peer[d],
           d = served' <=> d = served, d = served => state' = state
    PROVE  Phase(d)' = Phase(d)
BY DEF Phase

\* connect() and close() of the peers.
LEMMA GatePeer ==
    ASSUME IInv, Alive, NEW c \in Conns, PeerStep(c)
    PROVE  [Gate!Next]_Gate!gateVars
<1>1. UNCHANGED <<state, running, served>>
    BY DEF PeerStep, Connect, TakeReply, Hangup, Submit, TcpConnect, TcpTakeReply,
           TcpHangup, TcpSubmit, session
<1>2. CASE Connect(c)
  <2>1. /\ TcpConnect(c) /\ peer[c] # "open" /\ ~Held(c)
        /\ refused' = [refused EXCEPT ![c] = 0]
      BY <1>2 DEF Connect, TcpConnect
  <2>2. /\ c # served /\ \A i \in DOMAIN backlog : backlog[i] # c
        /\ \A i \in DOMAIN backlog : i \in DOMAIN backlog' /\ backlog'[i] = backlog[i]
        /\ Len(backlog) + 1 \in DOMAIN backlog' /\ backlog'[Len(backlog) + 1] = c
        /\ \A i \in DOMAIN backlog' :
              \/ i \in DOMAIN backlog /\ backlog'[i] = backlog[i]
              \/ backlog'[i] = c
    <3>1. backlog \in Seq(Conns) /\ backlog' = Append(backlog, c)
        BY <2>1 DEF TcpConnect, IInv, TypeOK, TcpTypes
    <3>2. /\ DOMAIN backlog = 1..Len(backlog) /\ Len(backlog) \in Nat
          /\ DOMAIN backlog' = 1..Len(backlog) + 1
          /\ \A i \in 1..Len(backlog) : backlog'[i] = backlog[i]
          /\ backlog'[Len(backlog) + 1] = c
        BY <3>1, AppendFacts
    <3>3. c # served /\ \A i \in DOMAIN backlog : backlog[i] # c
        BY <2>1 DEF Held
    <3> QED BY <3>2, <3>3
  <2>3. Phase(c) = "away" /\ Phase(c)' = "waiting"
    <3>1. Held(c)' /\ c # served'
        BY <1>1, <2>2 DEF Held
    <3> QED BY <2>1, <3>1, PhaseCases DEF Phase
  <2>4. Others(c)
    <3>1. ASSUME NEW d \in Conns, d # c
          PROVE  Phase(d)' = Phase(d)
      <4>1. Held(d)' = Held(d)
          BY <1>1, <2>2, <3>1 DEF Held
      <4>2. peer'[d] = peer[d]
          BY <2>1, <3>1 DEF TcpConnect, IInv, TypeOK, TcpTypes
      <4> QED BY <1>1, <4>1, <4>2, SamePhase
    <3> QED BY <3>1 DEF Others
  <2>5. Gate!Arrive(c)
      BY <2>1, <2>3, <2>4, GateMove DEF Gate!Arrive
  <2> QED BY <2>5 DEF Gate!Next
<1>3. CASE TakeReply(c) \/ \E req \in Requests[c] : Submit(c, req)
  <2>1. UNCHANGED <<peer, backlog, refused>>
      BY <1>3 DEF TakeReply, Submit, TcpTakeReply, TcpSubmit, history
  <2>2. \A d \in Conns : Phase(d)' = Phase(d)
      BY <1>1, <2>1 DEF Phase, Held
  <2> QED BY <2>1, <2>2, GateStays DEF Gate!gateVars
<1>4. CASE Hangup(c)
  <2>1. /\ peer[c] = "open" /\ peer'[c] = "closed" /\ UNCHANGED <<backlog, refused>>
        /\ \A d \in Conns : d # c => peer'[d] = peer[d]
      BY <1>4 DEF Hangup, TcpHangup, IInv, TypeOK, TcpTypes
  <2>2. \A d \in Conns : Held(d)' = Held(d)
      BY <1>1, <2>1 DEF Held
  <2>3. Others(c)
      BY <1>1, <2>1, <2>2, SamePhase DEF Others
  <2>4. CASE Held(c)
    <3>1. Phase(c)' = Phase(c)
        BY <1>1, <2>2, <2>4 DEF Phase
    <3> QED BY <2>1, <2>3, <3>1, GateStays DEF Gate!gateVars, Others
  <2>5. CASE ~Held(c)
    <3>1. Phase(c) = "parted"
        BY <2>1, <2>5, PhaseCases
    <3>2. Phase(c)' = "away"
      <4>1. ~Held(c)' /\ peer'[c] # "open" /\ c # served'
          BY <1>1, <2>1, <2>2, <2>5 DEF Held
      <4> QED BY <4>1 DEF Phase
    <3>3. Gate!Leave(c)
        BY <2>1, <2>3, <3>1, <3>2, GateMove DEF Gate!Leave
    <3> QED BY <3>3 DEF Gate!Next
  <2> QED BY <2>4, <2>5
<1> QED BY <1>2, <1>3, <1>4 DEF PeerStep

\* accept().
LEMMA GateAccept ==
    ASSUME IInv, NEW c \in Conns, Accept(c)
    PROVE  Gate!Admit(c)
<1>1. /\ TcpAccept(c) /\ state' = "CONNECTED" /\ refused' = refused
      /\ served = NoConn /\ served' = c /\ peer' = peer
    BY DEF Accept, TcpAccept, FreshSession, history
<1>2. /\ 1 \in DOMAIN backlog /\ c = backlog[1]
      /\ \A i \in DOMAIN backlog' :
           i + 1 \in DOMAIN backlog /\ backlog'[i] = backlog[i + 1]
      /\ \A i \in DOMAIN backlog : i # 1 =>
           i - 1 \in DOMAIN backlog' /\ backlog'[i - 1] = backlog[i]
  <2>1. backlog \in Seq(Conns) /\ backlog # <<>> /\ backlog' = Tail(backlog)
      BY <1>1 DEF TcpAccept, IInv, TypeOK, TcpTypes
  <2>2. /\ Len(backlog) \in Nat \ {0} /\ DOMAIN backlog = 1..Len(backlog)
        /\ DOMAIN backlog' = 1..Len(backlog) - 1
        /\ \A i \in 1..Len(backlog) - 1 : backlog'[i] = backlog[i + 1]
      BY <2>1, TailFacts
  <2>3. c = backlog[1]
      BY <1>1, AcceptQueue DEF IInv, TypeOK
  <2> QED BY <2>2, <2>3
<1>3. \A d \in Conns : Phase(d) \notin Gate!Inside
  <2>1. \A d \in Conns : d # served
      BY <1>1, ServiceAssumption
  <2> QED BY <2>1 DEF Phase, Gate!Inside
<1>4. Phase(c) = "waiting" /\ Phase(c)' = "admitted"
  <2>1. Held(c) /\ c # served
      BY <1>1, <1>2, ServiceAssumption DEF Held
  <2>2. Phase(c) = "waiting"
      BY <2>1, PhaseCases
  <2>3. Phase(c)' = "admitted"
      BY <1>1 DEF Phase, Held
  <2> QED BY <2>2, <2>3
<1>5. Others(c)
  <2>1. ASSUME NEW d \in Conns, d # c
        PROVE  Phase(d)' = Phase(d)
    <3>1. Held(d)' = Held(d)
        BY <1>1, <1>2, <2>1, ServiceAssumption DEF Held
    <3> QED BY <1>1, <2>1, <3>1, ServiceAssumption, SamePhase
  <2> QED BY <2>1 DEF Others
<1> QED BY <1>1, <1>3, <1>4, <1>5, GateMove DEF Gate!Admit

\* A connection of the server when the process ends, or when it is closed.
LEMMA GateDie ==
    ASSUME IInv, Alive, Die, peer' = peer,
           refused' = refused \/ \E c \in Conns : c = served /\ Refuses(c)
    PROVE  Gate!Collapse
<1>1. \A d \in Conns : ~Held(d)' /\ d # served'
    BY ServiceAssumption DEF Die, Held
<1>2. \A d \in Conns : Phase(d)' \in {"away", "parted"}
    BY <1>1 DEF Phase
<1>3. ASSUME NEW d \in Conns, Phase(d) \in {"away", "parted"}
      PROVE  Phase(d)' = Phase(d)
  <2>1. ~Held(d) /\ d # served
    <3>1. ASSUME d = served
          PROVE  FALSE
      <4>1. state \in {"CONNECTED", "HELLO_DONE", "AUTHENTICATED"}
          BY <3>1, ServiceAssumption DEF Alive, IInv, TypeOK, States
      <4> QED BY <1>3, <3>1, <4>1, PhaseCases
    <3>2. ASSUME d # served, Held(d)
          PROVE  FALSE
        BY <1>3, <3>2, PhaseCases
    <3> QED BY <3>1, <3>2
  <2> QED BY <1>1, <2>1 DEF Phase
<1>4. \/ refused' = refused
      \/ \E c \in Conns : Phase(c) = "greeted" /\ refused' = [refused EXCEPT ![c] = @ + 1]
    BY PhaseCases DEF Refuses
<1>5. [c \in Conns |-> Phase(c)]' \in [Conns -> {"away", "parted"}]
    BY <1>2
<1> QED BY <1>3, <1>4, <1>5 DEF Gate!Collapse

LEMMA GateHandler ==
    ASSUME IInv, IInv', Alive, NEW c \in Conns, ServerStep(c), ~Accept(c)
    PROVE  [Gate!Next]_Gate!gateVars
<1>1. c = served /\ c # NoConn /\ UNCHANGED peer
    BY HandlerFrame, ServiceAssumption DEF IInv
<1>2. /\ Ended \/ Closed(c) \/ Stays
      /\ refused' = refused \/ Refuses(c)
      /\ Stays =>
           \/ state' = state /\ refused' = refused
           \/ state' = state /\ Refuses(c) /\ refused'[c] < MAX_AUTH_RETRIES
           \/ state = "CONNECTED" /\ state' = "HELLO_DONE" /\ refused' = refused
           \/ state = "HELLO_DONE" /\ state' = "AUTHENTICATED" /\ refused' = refused
           \/ state' = "DISCONNECTED"
      /\ state' = "DISCONNECTED" => state = "DISCONNECTED" \/ served' = NoConn
    BY HandlerSummary DEF IInv
<1>3. state \in {"CONNECTED", "HELLO_DONE", "AUTHENTICATED"}
    BY <1>1 DEF Alive, IInv, TypeOK, States
<1>4. CASE Ended
  <2>1. Gate!Collapse
      BY <1>1, <1>2, <1>4, GateDie DEF Ended
  <2> QED BY <2>1 DEF Gate!Next
<1>5. CASE Closed(c)
  <2>1. served' = NoConn /\ backlog' = backlog
      BY <1>5 DEF Closed, CloseClient
  <2>2. ~Held(c)' /\ c # served'
      BY <1>1, <2>1 DEF Held, IInv, Queue
  <2>3. Phase(c)' \in {"parted", "away"}
      BY <2>2 DEF Phase
  <2>4. Others(c)
    <3>1. ASSUME NEW d \in Conns, d # c
          PROVE  Phase(d)' = Phase(d)
      <4>1. d # served' /\ d # served /\ Held(d)' = Held(d)
          BY <1>1, <2>1, <3>1, ServiceAssumption DEF Held
      <4> QED BY <1>1, <4>1, SamePhase
    <3> QED BY <3>1 DEF Others
  <2>5. CASE refused' = refused
    <3>1. Phase(c) \in Gate!Inside
        BY <1>1, <1>3, PhaseCases DEF Gate!Inside
    <3>2. Gate!Part(c)
        BY <2>3, <2>4, <2>5, <3>1, GateMove DEF Gate!Part
    <3> QED BY <3>2 DEF Gate!Next
  <2>6. CASE Refuses(c)
    <3>1. Phase(c) = "greeted"
        BY <1>1, <2>6, PhaseCases DEF Refuses
    <3>2. \E to \in {"parted", "away"} : Gate!Move(c, "greeted", to)
        BY <2>3, <2>4, <3>1, GateMove
    <3>3. Gate!Refuse(c)
        BY <2>6, <3>1, <3>2 DEF Gate!Refuse, Refuses
    <3> QED BY <3>3 DEF Gate!Next
  <2> QED BY <1>2, <2>5, <2>6
<1>6. CASE Stays
  <2>1. served' = c /\ \A d \in Conns : Held(d)' = Held(d)
      BY <1>1, <1>6 DEF Stays, Held
  <2>2. Others(c)
      BY <1>1, <2>1, SamePhase DEF Others
  <2>3. CASE state' = state
    <3>1. \A d \in Conns : Phase(d)' = Phase(d)
        BY <1>1, <2>1, <2>3, SamePhase
    <3>2. CASE refused' = refused
        BY <3>1, <3>2, GateStays DEF Gate!gateVars
    <3>3. CASE Refuses(c) /\ refused'[c] < MAX_AUTH_RETRIES
      <4>1. Phase(c) = "greeted"
          BY <1>1, <3>3, PhaseCases DEF Refuses
      <4>2. Gate!Refuse(c)
          BY <3>1, <3>3, <4>1, GateStays DEF Gate!Refuse, Refuses
      <4> QED BY <4>2 DEF Gate!Next
    <3> QED BY <1>1, <1>2, <1>3, <1>6, <2>1, <2>3, <3>2, <3>3
  <2>4. CASE state = "CONNECTED" /\ state' = "HELLO_DONE" /\ refused' = refused
    <3>1. Phase(c) = "admitted" /\ Phase(c)' = "greeted"
        BY <1>1, <2>1, <2>4, PhaseCases DEF Phase
    <3>2. Gate!Greet(c)
        BY <2>2, <2>4, <3>1, GateMove DEF Gate!Greet
    <3> QED BY <3>2 DEF Gate!Next
  <2>5. CASE state = "HELLO_DONE" /\ state' = "AUTHENTICATED" /\ refused' = refused
    <3>1. Phase(c) = "greeted" /\ Phase(c)' = "trusted"
        BY <1>1, <2>1, <2>5, PhaseCases DEF Phase
    <3>2. Gate!Grant(c)
        BY <2>2, <2>5, <3>1, GateMove DEF Gate!Grant
    <3> QED BY <3>2 DEF Gate!Next
  <2>6. ~(state' = "DISCONNECTED")
      BY <1>1, <1>2, <1>3, <2>1
  <2> QED BY <1>2, <1>6, <2>3, <2>4, <2>5, <2>6
<1> QED BY <1>2, <1>4, <1>5, <1>6

LEMMA GateInit == Init => Gate!Init
<1> SUFFICES ASSUME Init PROVE Gate!Init
    OBVIOUS
<1>1. ASSUME NEW c \in Conns
      PROVE  Phase(c) = "away"
  <2>1. ~Held(c) /\ peer[c] # "open" /\ DOMAIN <<>> = {}
      BY ServiceAssumption DEF Init, TcpInit, Held
  <2> QED BY <2>1, PhaseCases
<1>2. refused = [c \in Conns |-> 0]
    BY DEF Init
<1> QED BY <1>1, <1>2 DEF Gate!Init

LEMMA GateNext ==
    ASSUME IInv, IInv', Alive, [Next]_vars
    PROVE  [Gate!Next]_Gate!gateVars
<1>1. ASSUME NEW c \in Conns, Accept(c)
      PROVE  [Gate!Next]_Gate!gateVars
    BY <1>1, GateAccept DEF Gate!Next
<1>2. CASE StopServer
  <2>1. Gate!Collapse
      BY <1>2, GateDie DEF StopServer, TcpStop, history
  <2> QED BY <2>1 DEF Gate!Next
<1>3. CASE UNCHANGED vars
  <2>1. UNCHANGED <<served, backlog, peer, state, refused>>
      BY <1>3 DEF vars, tcp, session, history
  <2>2. \A c \in Conns : Phase(c)' = Phase(c)
      BY <2>1 DEF Phase, Held
  <2> QED BY <2>1, <2>2, GateStays DEF Gate!gateVars
<1> QED BY <1>1, <1>2, <1>3, GateHandler, GatePeer DEF Next

(***************************************************************************)
(* Every behaviour of the server and its peers is a behaviour of the gate: *)
(* one visitor at a time is inside, it is trusted only after a greeting    *)
(* and fewer than MAX_AUTH_RETRIES refusals, and the one that has met them *)
(* all is outside (server.c:354-364, 464-571).                             *)
(***************************************************************************)
THEOREM Refinement == Spec => ImplementsGate
<1>1. Init => Alive
    BY DEF Init, TcpInit, Alive
<1>2. IInv /\ IInv' /\ Alive /\ [Next]_vars => Alive'
    BY AliveNext
<1>3. IInv /\ IInv' /\ Alive /\ [Next]_vars => [Gate!Next]_Gate!gateVars
    BY GateNext
<1> QED BY <1>1, <1>2, <1>3, GateInit, Invariant, PTL DEF Spec, ImplementsGate, Gate!Spec
-----------------------------------------------------------------------------
(***************************************************************************)
(* The server with its clients.                                            *)
(***************************************************************************)

(***************************************************************************)
(* The inductive invariant: where a client program stands tells what is in *)
(* its two sockets, and what the server holds of its session.              *)
(***************************************************************************)
NetType ==
    /\ cpc \in [Conns -> {"start", "send", "recv", "close", "done"}]
    /\ step \in [Conns -> Nat]
    /\ \A c \in Conns : step[c] \in 1..Len(Steps(c))
    /\ turn \in [Conns -> Nat]
    /\ \A c \in Conns : turn[c] \in DOMAIN Logins[c]
    /\ key \in [Conns -> Challenges]
    /\ verdict \in [Conns -> BOOLEAN]

Login(c) == Logins[c][turn[c]]

\* The state of a session whose client is at step n.
StateAt(n) ==
    CASE n = 1 -> "CONNECTED"
      [] n = 2 -> "HELLO_DONE"
      [] OTHER -> "AUTHENTICATED"

\* r is the server's answer to the step c is at.
Expected(c, r) ==
    CASE Doing(c) = "HELLO" -> \E ch \in Challenges : r = Welcome(ch)
      [] Doing(c) = "AUTH" -> r = AuthResp(IF ValidLogin(Login(c)) THEN "OK" ELSE "FAIL")
      [] Doing(c) = "QUIT" -> r = Bye
      [] OTHER -> r.type = "CMD_RESP" /\ (Doing(c) = "PING" => r # CmdFail)

\* The reply is there and the client has not read it.
Answered(c) == cpc[c] = "recv" /\ outbox[c] # <<>>

\* The step the server's session is at.
Reached(c) == IF Answered(c) THEN step[c] + 1 ELSE step[c]

\* A request is on its way only while its reply is waited for, and there is
\* never more than that one reply.
Sockets(c) ==
    /\ peer[c] = "open" <=> cpc[c] \in {"send", "recv", "close"}
    /\ cpc[c] # "recv" => outbox[c] = <<>>
    /\ Len(outbox[c]) <= 1
    /\ outbox[c] # <<>> => Expected(c, outbox[c][1])
    /\ Held(c) => inbox[c] = IF cpc[c] = "recv" /\ outbox[c] = <<>>
                             THEN <<RequestOf(c)>> ELSE <<>>

\* A client in the accept queue has had no answer.
Waiting(c) ==
    Waits(c) => cpc[c] \in {"send", "recv"} /\ step[c] = 1 /\ outbox[c] = <<>>

\* Client and server agree on the step, and on the challenge when the client
\* is about to use it, as long as the password has not been refused.
Agree(c) ==
    c = served /\ cpc[c] \in {"send", "recv"}
    /\ ~(Answered(c) /\ outbox[c][1] = AuthResp("FAIL")) =>
        /\ state = StateAt(Reached(c))
        /\ Reached(c) <= 2 => refused[c] = 0
        /\ Reached(c) = 2 => challenge = IF Answered(c) THEN outbox[c][1].challenge ELSE key[c]
        /\ Reached(c) <= Len(Steps(c))

\* While it runs, the server closes on none of these clients before its QUIT.
Lasting(c) ==
    running /\ cpc[c] \in {"send", "recv"} /\ ~Held(c) => Answered(c) /\ Doing(c) = "QUIT"

\* The first n accounts of c are all good.
Good(c, n) == \A t \in 1..n : ValidLogin(Logins[c][t])

\* What the verdict says in the course of a session, and at its end.
Judged(c) ==
    running =>
        /\ cpc[c] \in {"start", "send", "recv"} => (verdict[c] <=> Good(c, turn[c] - 1))
        /\ cpc[c] \in {"send", "recv"} /\ step[c] > 2 => ValidLogin(Login(c))
        /\ cpc[c] = "close" => (verdict[c] <=> Good(c, turn[c]))
        /\ cpc[c] = "done" => turn[c] = Len(Logins[c]) /\ (verdict[c] <=> Good(c, turn[c]))

Client(c) == Sockets(c) /\ Waiting(c) /\ Agree(c) /\ Lasting(c) /\ Judged(c)

NetInv == IInv /\ NetType /\ \A c \in Conns : Client(c)

-----------------------------------------------------------------------------
(***************************************************************************)
(* The scripts.                                                            *)
(***************************************************************************)
\* The two sessions that read files.
LEMMA LongScript ==
    ASSUME NEW n \in Nat
    PROVE  LET s == ReadingSession(n)
           IN  /\ Len(s) = n + 6
               /\ s[1] = "HELLO" /\ s[2] = "AUTH"
               /\ s[3] = "PING" /\ s[4] = "INFO" /\ s[5] = "LIST"
               /\ \A i \in 6..n + 5 : s[i] = "READ"
               /\ s[n + 6] = "QUIT"
<1>1. PICK W : W = {"HELLO", "AUTH", "PING", "INFO", "LIST", "READ", "QUIT"}
    OBVIOUS
<1> DEFINE s == ReadingSession(n)
           a == <<"HELLO", "AUTH", "PING", "INFO", "LIST">>
           r == Reads(n)
           q == <<"QUIT">>
<1>2. a \in Seq(W) /\ Len(a) = 5 /\ q \in Seq(W) /\ Len(q) = 1 /\ q[1] = "QUIT"
      /\ a[1] = "HELLO" /\ a[2] = "AUTH" /\ a[3] = "PING" /\ a[4] = "INFO" /\ a[5] = "LIST"
    BY <1>1
<1>3. r \in Seq(W) /\ Len(r) = n /\ \A i \in 1..n : r[i] = "READ"
    BY <1>1 DEF Reads
<1>4. s = a \o r \o q
    BY DEF ReadingSession
<1> HIDE DEF s, a, r, q
<1>5. PICK b : b = a \o r
    OBVIOUS
<1>6. /\ b \in Seq(W) /\ Len(b) = Len(a) + Len(r)
      /\ \A i \in 1..Len(a) : b[i] = a[i]
      /\ \A i \in Len(a) + 1..Len(a) + Len(r) : b[i] = r[i - Len(a)]
  <2>1. a \in Seq(W) /\ r \in Seq(W)
      BY <1>2, <1>3
  <2> QED BY <2>1, <1>5, ConcatFacts
<1>7. /\ Len(s) = Len(b) + Len(q)
      /\ \A i \in 1..Len(b) : s[i] = b[i]
      /\ \A i \in Len(b) + 1..Len(b) + Len(q) : s[i] = q[i - Len(b)]
  <2>1. b \in Seq(W) /\ q \in Seq(W) /\ s = b \o q
      BY <1>2, <1>4, <1>5, <1>6
  <2> QED BY <2>1, ConcatFacts
<1>8. Len(b) = n + 5 /\ Len(s) = n + 6
    BY <1>2, <1>3, <1>6, <1>7
<1>9. \A i \in 1..5 : s[i] = a[i]
    BY <1>2, <1>3, <1>6, <1>7, <1>8
<1>10. \A i \in 6..n + 5 : s[i] = r[i - 5] /\ i - 5 \in 1..n
    BY <1>2, <1>3, <1>6, <1>7, <1>8
<1>11. s[n + 6] = q[1]
    BY <1>2, <1>7, <1>8
<1> QED BY <1>2, <1>3, <1>8, <1>9, <1>10, <1>11 DEF s

\* Every script begins with HELLO and AUTH, ends with its only QUIT, and asks
\* for the files it has counted.
LEMMA ScriptFacts ==
    ASSUME NEW c \in Conns
    PROVE  /\ Len(Steps(c)) \in Nat /\ Len(Steps(c)) >= 4
           /\ Steps(c)[1] = "HELLO" /\ Steps(c)[2] = "AUTH"
           /\ \A i \in 3..Len(Steps(c)) - 1 : Steps(c)[i] \in {"PING", "INFO", "LIST", "READ"}
           /\ \A i \in 3..Len(Steps(c)) - 1 :
                  Steps(c)[i] = "READ" => i - 6 \in 0..FilesRead(c) - 1
           /\ Steps(c)[Len(Steps(c))] = "QUIT"
<1>1. Script[c] \in {"demo", "full", "testall"} /\ DemoReads \in Nat /\ FileCount \in Nat
    BY NetworkAssumption, ProtocolAssumption
<1>2. CASE Script[c] = "testall"
  <2>1. Steps(c) = <<"HELLO", "AUTH", "PING", "QUIT">>
      BY <1>2 DEF Steps
  <2>2. Len(Steps(c)) = 4 /\ Steps(c)[1] = "HELLO" /\ Steps(c)[2] = "AUTH"
        /\ Steps(c)[3] = "PING" /\ Steps(c)[4] = "QUIT"
      BY <2>1
  <2>3. 3..4 - 1 = {3}
      OBVIOUS
  <2> QED BY <2>2, <2>3
<1>3. CASE Script[c] # "testall"
  <2>1. FilesRead(c) \in Nat /\ Steps(c) = ReadingSession(FilesRead(c))
      BY <1>1, <1>3 DEF Steps, FilesRead
  <2>n. PICK n \in Nat : n = FilesRead(c)
      BY <2>1
  <2>2. PICK s : n = FilesRead(c) /\ s = Steps(c)
      BY <2>n
  <2>3. /\ Len(s) = n + 6
        /\ s[1] = "HELLO" /\ s[2] = "AUTH" /\ s[3] = "PING" /\ s[4] = "INFO" /\ s[5] = "LIST"
        /\ \A i \in 6..n + 5 : s[i] = "READ"
        /\ s[n + 6] = "QUIT"
    <3>1. s = ReadingSession(n)
        BY <2>1, <2>2
    <3> QED BY <3>1, LongScript
  <2>4. \A i \in 3..n + 5 : i = 3 \/ i = 4 \/ i = 5 \/ (i \in 6..n + 5 /\ i - 6 \in 0..n - 1)
      OBVIOUS
  <2>5. Len(s) - 1 = n + 5
      BY <2>3
  <2>6. /\ \A i \in 3..Len(s) - 1 : s[i] \in {"PING", "INFO", "LIST", "READ"}
        /\ \A i \in 3..Len(s) - 1 : s[i] = "READ" => i - 6 \in 0..n - 1
      BY <2>3, <2>4, <2>5
  <2> QED BY <2>2, <2>3, <2>6
<1> QED BY <1>2, <1>3

\* What the step a client is at tells of its place in the script.
LEMMA DoingFacts ==
    ASSUME NetType, NEW c \in Conns
    PROVE  /\ Doing(c) \in {"HELLO", "AUTH", "PING", "INFO", "LIST", "READ", "QUIT"}
           /\ Doing(c) = "HELLO" <=> step[c] = 1
           /\ Doing(c) = "AUTH" <=> step[c] = 2
           /\ Doing(c) = "QUIT" <=> step[c] = Len(Steps(c))
           /\ Doing(c) = "READ" => step[c] - 6 \in 0..FilesRead(c) - 1
           /\ Len(Steps(c)) \in Nat /\ Len(Steps(c)) >= 4
           /\ step[c] \in 1..Len(Steps(c))
<1> DEFINE s == Steps(c)
           i == step[c]
           k == Len(s)
<1>1. i \in 1..k
    BY DEF NetType
<1>2. Len(Steps(c)) \in Nat /\ Len(Steps(c)) >= 4
    BY ScriptFacts
<1>3. \/ step[c] = 1 \/ step[c] = 2 \/ step[c] = Len(Steps(c))
      \/ step[c] \in 3..Len(Steps(c)) - 1
    BY <1>1, <1>2
<1>4. CASE step[c] = 1
    BY <1>1, <1>2, <1>4, ScriptFacts DEF Doing
<1>5. CASE step[c] = 2
    BY <1>1, <1>2, <1>5, ScriptFacts DEF Doing
<1>6. CASE step[c] = Len(Steps(c))
    BY <1>1, <1>2, <1>6, ScriptFacts DEF Doing
<1>7. CASE step[c] \in 3..Len(Steps(c)) - 1
    BY <1>1, <1>2, <1>7, ScriptFacts DEF Doing
<1> QED BY <1>3, <1>4, <1>5, <1>6, <1>7

\* The request of each step.
LEMMA RequestFacts ==
    ASSUME NEW c \in Conns
    PROVE  /\ Doing(c) = "HELLO" => RequestOf(c) = HelloReq(TRUE)
           /\ Doing(c) = "AUTH" =>
                RequestOf(c) = AuthReq(Login(c).name, XorWithChallenge(Login(c).password, key[c]))
           /\ Doing(c) = "QUIT" => RequestOf(c) = QuitReq
           /\ Doing(c) = "READ" => RequestOf(c) = CmdReq("READ", <<step[c] - 6>>)
           /\ Doing(c) \in {"PING", "INFO", "LIST"} => RequestOf(c) = CmdReq(Doing(c), <<>>)
BY DEF RequestOf, Login

\* A client sends nothing but what its peer of the server module may send.
LEMMA RequestSendable ==
    ASSUME NetType, NEW c \in Conns
    PROVE  RequestOf(c) \in Requests[c]
<1>1. turn[c] \in DOMAIN Logins[c] /\ key[c] \in Challenges
    BY DEF NetType
<1>2. CASE Doing(c) = "HELLO"
    BY <1>2, RequestFacts, ScriptAssumption
<1>3. CASE Doing(c) = "AUTH"
    BY <1>1, <1>3, RequestFacts, ScriptAssumption DEF Login
<1>4. CASE Doing(c) = "QUIT"
    BY <1>4, RequestFacts, ScriptAssumption
<1>5. CASE Doing(c) = "READ"
    BY <1>5, RequestFacts, DoingFacts, ScriptAssumption
<1>6. CASE Doing(c) \in {"PING", "INFO", "LIST"}
    BY <1>6, RequestFacts, ScriptAssumption
<1> QED BY <1>2, <1>3, <1>4, <1>5, <1>6, DoingFacts

-----------------------------------------------------------------------------
(***************************************************************************)
(* A connection the step is not about.                                     *)
(***************************************************************************)
LEMMA ClientKept ==
    ASSUME NEW d \in Conns, Client(d),
           cpc'[d] = cpc[d], step'[d] = step[d], turn'[d] = turn[d],
           key'[d] = key[d], verdict'[d] = verdict[d],
           peer'[d] = peer[d], outbox'[d] = outbox[d], refused'[d] = refused[d],
           Held(d)' => Held(d) /\ inbox'[d] = inbox[d],
           Waits(d)' => Waits(d),
           d = served' => d = served /\ state' = state /\ challenge' = challenge,
           running' => running /\ (Held(d) => Held(d)')
    PROVE  Client(d)'
<1>1. Doing(d)' = Doing(d) /\ Login(d)' = Login(d) /\ Answered(d)' = Answered(d)
    BY DEF Doing, Login, Answered
<1>2. RequestOf(d)' = RequestOf(d) /\ Reached(d)' = Reached(d)
    BY <1>1 DEF RequestOf, Reached
<1>3. Sockets(d)'
    BY <1>1, <1>2 DEF Client, Sockets, Expected
<1>4. Waiting(d)'
    BY DEF Client, Waiting
<1>5. Agree(d)'
    BY <1>1, <1>2 DEF Client, Agree
<1>6. Lasting(d)'
    BY <1>1 DEF Client, Lasting
<1>7. Judged(d)'
    BY <1>1 DEF Client, Judged
<1> QED BY <1>3, <1>4, <1>5, <1>6, <1>7 DEF Client

-----------------------------------------------------------------------------
(***************************************************************************)
(* The server's answers to the requests of the scripts.                    *)
(***************************************************************************)

\* A request that is in order reaches its handler and no other.
LEMMA HandlerOf ==
    ASSUME NEW c \in Conns, ServerStep(c), ~Accept(c), ~ConnectionLost(c),
           NEW req, req = Head(inbox[c])
    PROVE  /\ running /\ c = served /\ inbox[c] # <<>>
           /\ req.type = "QUIT_REQ" => HandleQuit(c)
           /\ req.type = "HELLO_REQ" /\ state = "CONNECTED" => HandleHello(c)
           /\ req.type = "AUTH_REQ" /\ state = "HELLO_DONE" /\ req.ok => HandleAuth(c)
           /\ req.type = "CMD_REQ" /\ state = "AUTHENTICATED" /\ req.ok => HandleCommand(c)
<1>1. DOMAIN StateFor = {"HELLO_REQ", "AUTH_REQ", "CMD_REQ"}
      /\ StateFor["HELLO_REQ"] = "CONNECTED" /\ StateFor["AUTH_REQ"] = "HELLO_DONE"
      /\ StateFor["CMD_REQ"] = "AUTHENTICATED"
    BY DEF StateFor
<1>2. running /\ c = served /\ inbox[c] # <<>>
    BY DEF ServerStep, RefuseFrame, RefuseState, HandleHello, RejectMalformedAuth, HandleAuth,
           RejectEmptyCommand, HandleCommand, HandleQuit, HandleUnknown, Receives
<1>3. ASSUME req.type \in {"HELLO_REQ", "AUTH_REQ", "CMD_REQ", "QUIT_REQ"}
      PROVE  /\ ~RefuseFrame(c) /\ ~HandleUnknown(c)
             /\ req.type # "QUIT_REQ" => ~HandleQuit(c)
             /\ req.type # "HELLO_REQ" => ~HandleHello(c)
             /\ req.type # "AUTH_REQ" => ~HandleAuth(c) /\ ~RejectMalformedAuth(c)
             /\ req.type # "CMD_REQ" => ~HandleCommand(c) /\ ~RejectEmptyCommand(c)
             /\ RefuseState(c) => req.type # "QUIT_REQ" /\ state # StateFor[req.type]
    BY <1>1, <1>3 DEF RefuseFrame, RefuseState, HandleHello, RejectMalformedAuth, HandleAuth,
           RejectEmptyCommand, HandleCommand, HandleQuit, HandleUnknown, Receives
<1>4. /\ RejectMalformedAuth(c) => ~req.ok
      /\ RejectEmptyCommand(c) => ~req.ok
    BY DEF RejectMalformedAuth, RejectEmptyCommand
<1> QED BY <1>1, <1>2, <1>3, <1>4 DEF ServerStep

\* The step c is at when its request is handled, and the request.
Asks(c) ==
    /\ c = served /\ peer[c] = "open" /\ served # NoConn
    /\ cpc[c] = "recv" /\ outbox[c] = <<>>
    /\ inbox[c] = <<RequestOf(c)>> /\ Head(inbox[c]) = RequestOf(c)
    /\ state = StateAt(step[c])
    /\ step[c] <= 2 => refused[c] = 0 /\ auth_retries = 0
    /\ step[c] = 2 => challenge = key[c]

LEMMA AsksWhenHandled ==
    ASSUME IInv, NetType, NEW c \in Conns, Client(c), c = served, inbox[c] # <<>>
    PROVE  Asks(c)
<1>1. Held(c) /\ served # NoConn
    BY ServiceAssumption DEF Held
<1>2. cpc[c] = "recv" /\ outbox[c] = <<>> /\ inbox[c] = <<RequestOf(c)>> /\ peer[c] = "open"
    BY <1>1 DEF Client, Sockets
<1>3. ~Answered(c) /\ Reached(c) = step[c]
    BY <1>2 DEF Answered, Reached
<1>4. auth_retries = refused[c]
    BY <1>1 DEF IInv, Count
<1>5. \A r : Head(<<r>>) = r
    OBVIOUS
<1> QED BY <1>1, <1>2, <1>3, <1>4, <1>5 DEF Client, Agree, Asks

\* How the session goes on with the reply r.
Answer(c, r) ==
    /\ Replied(c, r) /\ Expected(c, r)
    /\ IF Doing(c) = "QUIT" THEN CloseClient(c) ELSE GoesOn(c)
    /\ Doing(c) # "QUIT" /\ r # AuthResp("FAIL") => state' = StateAt(step[c] + 1)
    /\ step[c] = 1 => r.challenge = challenge' /\ refused'[c] = 0

LEMMA AnswerHello ==
    ASSUME IInv, NetType, NEW c \in Conns, Asks(c), Doing(c) = "HELLO",
           ServerStep(c), ~Accept(c), ~ConnectionLost(c)
    PROVE  \E r : Answer(c, r)
<1>1. step[c] = 1
    BY DoingFacts
<1>2. Head(inbox[c]) = HelloReq(TRUE) /\ state = "CONNECTED"
      /\ HelloReq(TRUE).type = "HELLO_REQ" /\ HelloReq(TRUE).ok
  <2>1. HelloReq(TRUE).type = "HELLO_REQ" /\ HelloReq(TRUE).ok
      BY DEF HelloReq
  <2>2. Head(inbox[c]) = HelloReq(TRUE)
      BY RequestFacts DEF Asks
  <2>3. state = "CONNECTED"
      BY <1>1 DEF Asks, StateAt
  <2> QED BY <2>1, <2>2, <2>3
<1>3. HandleHello(c)
    BY <1>2, HandlerOf
<1>4. PICK outcome \in Outcomes(c), ch \in Challenges :
         /\ challenge' = ch
         /\ Emit(c, <<Welcome(ch)>>)
         /\ state' = IF outcome = "sent" THEN "HELLO_DONE" ELSE state
         /\ Conclude(c, outcome, outcome = "failed")
    BY <1>2, <1>3 DEF HandleHello
<1>5. outcome = "sent" /\ Replied(c, Welcome(ch)) /\ GoesOn(c)
    BY <1>4, SentOutcome DEF Asks
<1>6. refused'[c] = 0
    BY <1>1, <1>3 DEF HandleHello, Asks
<1>7. Answer(c, Welcome(ch))
    BY <1>1, <1>4, <1>5, <1>6 DEF Answer, Expected, Welcome, StateAt
<1> QED BY <1>7

\* The password the client covered with the challenge it was sent is the one
\* the server uncovers with the challenge it holds.
LEMMA MatchesIsValid ==
    ASSUME NetType, NEW c \in Conns, challenge = key[c],
           NEW req, req = AuthReq(Login(c).name, XorWithChallenge(Login(c).password, key[c]))
    PROVE  Matches(req) <=> ValidLogin(Login(c))
<1>1. Login(c) \in [name : Names, password : Secrets]
  <2>1. turn[c] \in DOMAIN Logins[c]
      BY DEF NetType
  <2>2. Logins[c] \in Seq([name : Names, password : Secrets])
      BY NetworkAssumption
  <2>3. \A i \in DOMAIN Logins[c] : Logins[c][i] \in [name : Names, password : Secrets]
      BY <2>2, LenProperties, ElementOfSeq
  <2> QED BY <2>1, <2>3 DEF Login
<1>2. key[c] \in Challenges
    BY DEF NetType
<1>3. XorWithChallenge(XorWithChallenge(Login(c).password, key[c]), key[c]) = Login(c).password
    BY <1>1, <1>2, XorInvolution
<1>4. /\ req.name = Login(c).name
      /\ req.secret = XorWithChallenge(Login(c).password, key[c])
    BY DEF AuthReq
<1> QED BY <1>3, <1>4 DEF Matches, ValidLogin

LEMMA AnswerAuth ==
    ASSUME IInv, NetType, NEW c \in Conns, Asks(c), Doing(c) = "AUTH",
           ServerStep(c), ~Accept(c), ~ConnectionLost(c)
    PROVE  \E r : Answer(c, r)
<1>1. step[c] = 2
    BY DoingFacts
<1> DEFINE req == AuthReq(Login(c).name, XorWithChallenge(Login(c).password, key[c]))
<1>2. Head(inbox[c]) = req /\ state = "HELLO_DONE" /\ req.type = "AUTH_REQ" /\ req.ok
  <2>1. req.type = "AUTH_REQ" /\ req.ok
      BY DEF AuthReq
  <2> HIDE DEF req
  <2>2. RequestOf(c) = req
      BY RequestFacts DEF req
  <2>3. Head(inbox[c]) = req /\ state = "HELLO_DONE"
      BY <1>1, <2>2 DEF Asks, StateAt
  <2> QED BY <2>1, <2>3
<1>3. Matches(req) <=> ValidLogin(Login(c))
    BY <1>1, MatchesIsValid DEF Asks
<1> HIDE DEF req
<1>4. HandleAuth(c)
    BY <1>2, HandlerOf
<1>5. CASE Matches(req)
  <2>1. PICK outcome \in Outcomes(c) :
           /\ state' = "AUTHENTICATED"
           /\ Emit(c, <<AuthResp("OK")>>)
           /\ Conclude(c, outcome, outcome = "failed")
      BY <1>2, <1>4, <1>5 DEF HandleAuth
  <2>2. Replied(c, AuthResp("OK")) /\ GoesOn(c)
      BY <2>1, SentOutcome DEF Asks
  <2>3. Answer(c, AuthResp("OK"))
      BY <1>1, <1>3, <1>5, <2>1, <2>2 DEF Answer, Expected, StateAt
  <2> QED BY <2>3
<1>6. CASE ~Matches(req)
  <2>1. ~LastTry(auth_retries + 1)
      BY <1>1, RetriesAssumption, ProtocolAssumption DEF Asks, LastTry
  <2>2. PICK outcome \in Outcomes(c) :
           /\ Emit(c, <<AuthResp("FAIL")>>)
           /\ Conclude(c, outcome, outcome = "failed")
      BY <1>2, <1>4, <1>6, <2>1 DEF HandleAuth
  <2>3. Replied(c, AuthResp("FAIL")) /\ GoesOn(c)
      BY <2>2, SentOutcome DEF Asks
  <2>4. Answer(c, AuthResp("FAIL"))
      BY <1>1, <1>3, <1>6, <2>3 DEF Answer, Expected
  <2> QED BY <2>4
<1> QED BY <1>5, <1>6

\* A command of the scripts is answered, and PING is not refused.
LEMMA AnswerCommand ==
    ASSUME IInv, NetType, NEW c \in Conns, Asks(c),
           Doing(c) \in {"PING", "INFO", "LIST", "READ"},
           ServerStep(c), ~Accept(c), ~ConnectionLost(c)
    PROVE  \E r : Answer(c, r)
<1>1. step[c] \in Nat /\ step[c] > 2
  <2>1. step[c] # 1 /\ step[c] # 2 /\ step[c] \in 1..Len(Steps(c)) /\ Len(Steps(c)) \in Nat
      BY DoingFacts
  <2> QED BY <2>1
<1>2. PICK args : RequestOf(c) = CmdReq(Doing(c), args)
    BY RequestFacts
<1> DEFINE req == RequestOf(c)
<1>3. /\ Head(inbox[c]) = req /\ state = "AUTHENTICATED"
      /\ req.type = "CMD_REQ" /\ req.ok /\ req.cmd = Doing(c)
    BY <1>1, <1>2 DEF Asks, StateAt, CmdReq
<1> HIDE DEF req
<1>4. HandleCommand(c)
    BY <1>3, HandlerOf
<1>5. PICK outcome \in Outcomes(c) :
         /\ Emit(c, <<CommandReply(req)>>)
         /\ Conclude(c, outcome, outcome = "failed")
    BY <1>3, <1>4 DEF HandleCommand
<1>6. Replied(c, CommandReply(req)) /\ GoesOn(c)
    BY <1>5, SentOutcome DEF Asks
<1>7. state' = state
    BY <1>4 DEF HandleCommand, session
<1>8. /\ CommandReply(req).type = "CMD_RESP"
      /\ Doing(c) = "PING" => CommandReply(req) # CmdFail
    BY <1>3 DEF CommandReply, CmdOk, CmdFail
<1>9. Answer(c, CommandReply(req))
  <2>1. Expected(c, CommandReply(req))
      BY <1>8 DEF Expected
  <2>2. state' = StateAt(step[c] + 1)
      BY <1>1, <1>3, <1>7 DEF StateAt
  <2> QED BY <1>1, <1>6, <2>1, <2>2 DEF Answer
<1> QED BY <1>9

LEMMA AnswerQuit ==
    ASSUME IInv, NetType, NEW c \in Conns, Asks(c), Doing(c) = "QUIT",
           ServerStep(c), ~Accept(c), ~ConnectionLost(c)
    PROVE  \E r : Answer(c, r)
<1>1. step[c] # 1
    BY DoingFacts
<1>2. Head(inbox[c]) = QuitReq
    BY RequestFacts DEF Asks
<1>3. HandleQuit(c)
    BY <1>2, HandlerOf DEF QuitReq
<1>4. PICK outcome \in Outcomes(c) : Emit(c, <<Bye>>) /\ Conclude(c, outcome, TRUE)
    BY <1>3 DEF HandleQuit
<1>5. Replied(c, Bye) /\ CloseClient(c)
    BY <1>4, SentOutcome DEF Asks
<1>6. Answer(c, Bye)
    BY <1>1, <1>5 DEF Answer, Expected
<1> QED BY <1>6

LEMMA ServerAnswers ==
    ASSUME IInv, NetType, NEW c \in Conns, Client(c),
           ServerStep(c), ~Accept(c), ~ConnectionLost(c)
    PROVE  Asks(c) /\ \E r : Answer(c, r)
<1>1. Asks(c)
    BY HandlerOf, AsksWhenHandled
<1> QED BY <1>1, DoingFacts, AnswerHello, AnswerAuth, AnswerCommand, AnswerQuit

-----------------------------------------------------------------------------
(***************************************************************************)
(* The steps of the server.                                                *)
(***************************************************************************)
SameClients == UNCHANGED clientVars

Clients == \A c \in Conns : Client(c)

LEMMA ClientsAccept ==
    ASSUME IInv, NetType, Clients, NEW s \in Conns, Accept(s), SameClients
    PROVE  Clients'
<1>1. /\ running /\ running' = running /\ served' = s
      /\ UNCHANGED <<peer, inbox, outbox, refused>> /\ state' = "CONNECTED"
    BY DEF Accept, TcpAccept, FreshSession, history
<1>2. /\ Waits(s) /\ refused[s] = 0
      /\ \A d \in Conns : Waits(d)' => Waits(d)
      /\ \A d \in Conns : d # s => (Held(d)' <=> Held(d))
  <2>1. TcpAccept(s)
      BY DEF Accept
  <2>2. /\ Waits(s) /\ \A d \in Conns : Waits(d)' => Waits(d)
        /\ \A d \in Conns : d # s => (Held(d)' <=> Held(d))
      BY <2>1, AcceptWaits DEF IInv, TypeOK
  <2>3. refused[s] = 0
      BY <2>2 DEF Waits, IInv, Count
  <2> QED BY <2>2, <2>3
<1>3. Held(s) /\ Held(s)'
    BY <1>1, <1>2, HeldIs DEF Held
<1>4. ASSUME NEW d \in Conns, d # s
      PROVE  Client(d)'
    BY <1>1, <1>2, <1>4, ClientKept DEF Clients, SameClients, clientVars
<1>5. Client(s)'
  <2>1. Client(s) /\ cpc[s] \in {"send", "recv"} /\ step[s] = 1 /\ outbox[s] = <<>>
      BY <1>2 DEF Clients, Client, Waiting
  <2>2. Doing(s)' = Doing(s) /\ RequestOf(s)' = RequestOf(s) /\ Login(s)' = Login(s)
      BY DEF Doing, RequestOf, SameClients, clientVars, Login
  <2>3. Sockets(s)'
      BY <1>1, <1>3, <2>1, <2>2 DEF Client, Sockets, SameClients, clientVars
  <2>4. Waiting(s)' /\ Lasting(s)'
      BY <1>1, <1>3, <2>1 DEF Waiting, Lasting, SameClients, clientVars
  <2>5. Judged(s)'
      BY <1>1, <2>1, <2>2 DEF Client, Judged, SameClients, clientVars
  <2>6. Agree(s)'
    <3>1. step'[s] = 1 /\ outbox'[s] = <<>> /\ ~Answered(s)' /\ Reached(s)' = 1
        BY <1>1, <2>1 DEF SameClients, clientVars, Answered, Reached
    <3>2. Len(Steps(s)) >= 4
        BY ScriptFacts
    <3> QED BY <1>1, <1>2, <3>1, <3>2 DEF Agree, StateAt
  <2> QED BY <2>3, <2>4, <2>5, <2>6 DEF Client
<1> QED BY <1>4, <1>5 DEF Clients

\* The server closes the connection it works on, and no other.
LEMMA OthersKept ==
    ASSUME IInv, NetType, Clients, NEW s \in Conns, s = served, SameClients,
           served' \in {s, NoConn}, UNCHANGED <<running, backlog, peer>>,
           \A d \in Conns : d # s =>
               inbox'[d] = inbox[d] /\ outbox'[d] = outbox[d] /\ refused'[d] = refused[d]
    PROVE  \A d \in Conns : d # s => Client(d)'
<1> SUFFICES ASSUME NEW d \in Conns, d # s
             PROVE  Client(d)'
    OBVIOUS
<1>1. d # served' /\ d # served
    BY ServiceAssumption
<1>2. (Waits(d)' <=> Waits(d)) /\ (Held(d)' <=> Held(d))
    BY <1>1 DEF Waits, Held
<1> QED BY <1>1, <1>2, ClientKept DEF Clients, SameClients, clientVars

LEMMA ClientsLost ==
    ASSUME IInv, NetType, Clients, NEW s \in Conns, ConnectionLost(s), SameClients
    PROVE  Clients'
<1>1. /\ s = served /\ served' = NoConn /\ peer[s] = "closed"
      /\ inbox' = [inbox EXCEPT ![s] = <<>>]
      /\ UNCHANGED <<running, backlog, peer, outbox, refused>>
    BY DEF ConnectionLost, TcpLost, EndOfStream, CloseClient, history
<1>2. \A d \in Conns : d # s => Client(d)'
    BY <1>1, OthersKept DEF IInv, TypeOK, TcpTypes
<1>3. Client(s)'
  <2>1. Client(s) /\ cpc[s] \notin {"send", "recv", "close"}
      BY <1>1 DEF Clients, Client, Sockets
  <2>2. s # served' /\ ~Waits(s)' /\ ~Held(s)'
      BY <1>1, ServiceAssumption DEF IInv, Queue, Waits, Held
  <2>3. Doing(s)' = Doing(s) /\ RequestOf(s)' = RequestOf(s) /\ Login(s)' = Login(s)
      BY DEF Doing, RequestOf, SameClients, clientVars, Login
  <2>4. Sockets(s)'
      BY <1>1, <2>1, <2>2, <2>3 DEF Client, Sockets, SameClients, clientVars
  <2>5. Waiting(s)' /\ Lasting(s)' /\ Agree(s)'
      BY <2>1, <2>2 DEF Waiting, Lasting, Agree, SameClients, clientVars
  <2>6. Judged(s)'
      BY <1>1, <2>1, <2>3 DEF Client, Judged, SameClients, clientVars
  <2> QED BY <2>4, <2>5, <2>6 DEF Client
<1> QED BY <1>2, <1>3 DEF Clients

LEMMA ClientsHandler ==
    ASSUME IInv, IInv', NetType, Clients, NEW s \in Conns, ServerStep(s),
           ~Accept(s), ~ConnectionLost(s), SameClients
    PROVE  Clients'
<1>1. PICK r : Asks(s) /\ Answer(s, r)
    BY ServerAnswers DEF Clients
<1>2. /\ s = served /\ served # NoConn /\ peer' = peer
      /\ \A d \in Conns : refused'[d] = refused[d] \/ d = s
    BY <1>1, HandlerFrame, HandlerReplies DEF Asks, IInv
<1>3. /\ served' \in {s, NoConn} /\ inbox'[s] = <<>> /\ outbox'[s] = <<r>>
      /\ UNCHANGED <<running, backlog>>
      /\ \A d \in Conns : d # s => inbox'[d] = inbox[d] /\ outbox'[d] = outbox[d]
      /\ Doing(s) # "QUIT" => served' = s
      /\ Doing(s) = "QUIT" => served' = NoConn
  <2>1. inbox \in [Conns -> Seq(Request)] /\ outbox \in [Conns -> Seq(Reply)]
      BY DEF IInv, TypeOK, TcpTypes
  <2>2. /\ outbox' = [outbox EXCEPT ![s] = <<r>>]
        /\ inbox' = [inbox EXCEPT ![s] = <<>>] /\ UNCHANGED <<running, backlog>>
        /\ Doing(s) # "QUIT" => served' = s
        /\ Doing(s) = "QUIT" => served' = NoConn
      BY <1>1, <1>2 DEF Answer, Replied, CloseClient, GoesOn
  <2> QED BY <2>1, <2>2
<1>4. \A d \in Conns : d # s => Client(d)'
    BY <1>2, <1>3, OthersKept
<1>5. Client(s)'
  <2>1. Client(s) /\ Asks(s)
      BY <1>1 DEF Clients
  <2>2. Doing(s)' = Doing(s) /\ RequestOf(s)' = RequestOf(s) /\ Login(s)' = Login(s)
      BY DEF Doing, RequestOf, SameClients, clientVars, Login
  <2>3. cpc'[s] = "recv" /\ step'[s] = step[s] /\ peer'[s] = "open" /\ verdict'[s] = verdict[s]
        /\ turn'[s] = turn[s] /\ key'[s] = key[s]
      BY <1>2, <2>1 DEF Asks, SameClients, clientVars
  <2>4. outbox'[s] # <<>> /\ outbox'[s][1] = r /\ Len(outbox'[s]) = 1
      BY <1>3
  <2>5. Expected(s, r)'
      BY <1>1, <2>2 DEF Answer, Expected
  <2>6. ~Waits(s) /\ ~Waits(s)'
      BY <1>2, <1>3 DEF IInv, Queue, Waits
  <2>7. Sockets(s)'
      BY <1>3, <2>3, <2>4, <2>5 DEF Sockets, Expected
  <2>8. Waiting(s)'
      BY <2>6 DEF Waiting
  <2>9. Lasting(s)'
      BY <1>3, <2>2, <2>3, <2>4 DEF Lasting, Answered, Held
  <2>10. Judged(s)'
      BY <1>3, <2>1, <2>2, <2>3 DEF Client, Judged, Asks
  <2>11. Agree(s)'
    <3>1. Answered(s)' /\ Reached(s)' = step[s] + 1
        BY <2>3, <2>4 DEF Answered, Reached
    <3>2. step[s] \in 1..Len(Steps(s)) /\ Len(Steps(s)) \in Nat
          /\ (Doing(s) = "QUIT" <=> step[s] = Len(Steps(s)))
        BY DoingFacts
    <3> SUFFICES ASSUME s = served', r # AuthResp("FAIL")
                 PROVE  /\ state' = StateAt(step[s] + 1)
                        /\ step[s] + 1 <= 2 => refused'[s] = 0
                        /\ step[s] + 1 = 2 => challenge' = r.challenge
                        /\ step[s] + 1 <= Len(Steps(s))
        BY <2>4, <3>1 DEF Agree
    <3>3. Doing(s) # "QUIT"
        BY <1>2, <1>3
    <3> QED BY <1>1, <3>2, <3>3 DEF Answer
  <2> QED BY <2>7, <2>8, <2>9, <2>10, <2>11 DEF Client
<1> QED BY <1>4, <1>5 DEF Clients

LEMMA ClientsStop ==
    ASSUME IInv, NetType, Clients, StopServer, SameClients
    PROVE  Clients'
<1>1. /\ running' = FALSE /\ served' = NoConn /\ backlog' = <<>>
      /\ UNCHANGED <<peer, outbox, refused>>
    BY DEF StopServer, TcpStop, Die, history
<1>2. ASSUME NEW d \in Conns PROVE Client(d)'
  <2>1. d # served' /\ DOMAIN <<>> = {}
      BY <1>1, ServiceAssumption
  <2>2. ~Held(d)' /\ ~Waits(d)'
      BY <1>1, <2>1 DEF Held, Waits
  <2> QED BY <1>1, <2>1, <2>2, ClientKept DEF Clients, SameClients, clientVars
<1> QED BY <1>2 DEF Clients

-----------------------------------------------------------------------------
(***************************************************************************)
(* The steps of the clients.                                               *)
(***************************************************************************)

\* A step of the program of c moves the program of c, within its script and
\* its accounts, and no other.
Moves(c) ==
    /\ \A d \in Conns : d # c =>
            /\ cpc'[d] = cpc[d] /\ step'[d] = step[d]
            /\ turn'[d] = turn[d] /\ verdict'[d] = verdict[d]
    /\ cpc' \in [Conns -> {"start", "send", "recv", "close", "done"}]
    /\ step' \in [Conns -> Nat] /\ step'[c] \in 1..Len(Steps(c))
    /\ turn' \in [Conns -> Nat] /\ turn'[c] \in DOMAIN Logins[c]
    /\ verdict' \in [Conns -> BOOLEAN]

LEMMA Moved ==
    ASSUME NetType, NEW c \in Conns,
           \/ Abort(c)
           \/ \E ok \in BOOLEAN : Advance(c, ok)
           \/ /\ NextSession(c) /\ UNCHANGED step
              /\ UNCHANGED verdict \/ verdict' = [verdict EXCEPT ![c] = FALSE]
           \/ /\ cpc' \in {[cpc EXCEPT ![c] = pc] : pc \in {"send", "recv", "done"}}
              /\ UNCHANGED step \/ step' = [step EXCEPT ![c] = 1]
              /\ UNCHANGED turn
              /\ UNCHANGED verdict \/ verdict' = [verdict EXCEPT ![c] = FALSE]
    PROVE  Moves(c)
<1>1. step[c] \in 1..Len(Steps(c)) /\ Len(Steps(c)) \in Nat /\ Len(Steps(c)) >= 4
    BY DoingFacts
<1>2. turn[c] \in Nat /\ turn[c] \in DOMAIN Logins[c] /\ DOMAIN Logins[c] = 1..Len(Logins[c])
      /\ Len(Logins[c]) \in Nat
    BY NetworkAssumption, LenProperties DEF NetType
<1>3. CASE Abort(c)
    BY <1>1, <1>2, <1>3 DEF Abort, NetType, Moves
<1>4. ASSUME NEW ok \in BOOLEAN, Advance(c, ok)
      PROVE  Moves(c)
  <2>1. verdict' = [verdict EXCEPT ![c] = @ /\ ok] /\ turn' = turn
      BY <1>4 DEF Advance
  <2>2. verdict' \in [Conns -> BOOLEAN] /\ \A d \in Conns : d # c => verdict'[d] = verdict[d]
      BY <2>1 DEF NetType
  <2>3. \/ /\ step[c] < Len(Steps(c))
           /\ cpc' = [cpc EXCEPT ![c] = "send"] /\ step' = [step EXCEPT ![c] = @ + 1]
        \/ cpc' = [cpc EXCEPT ![c] = "close"] /\ step' = step
      BY <1>4 DEF Advance, MoreSteps
  <2>4. step' \in [Conns -> Nat] /\ step'[c] \in 1..Len(Steps(c))
      BY <1>1, <2>3 DEF NetType
  <2> QED BY <1>2, <2>1, <2>2, <2>3, <2>4 DEF NetType, Moves
<1>5. CASE /\ NextSession(c) /\ UNCHANGED step
           /\ UNCHANGED verdict \/ verdict' = [verdict EXCEPT ![c] = FALSE]
  <2>1. \/ /\ turn[c] < Len(Logins[c])
           /\ cpc' = [cpc EXCEPT ![c] = "start"] /\ turn' = [turn EXCEPT ![c] = @ + 1]
        \/ cpc' = [cpc EXCEPT ![c] = "done"] /\ turn' = turn
      BY <1>5 DEF NextSession
  <2>2. turn' \in [Conns -> Nat] /\ turn'[c] \in DOMAIN Logins[c]
      BY <1>2, <2>1 DEF NetType
  <2> QED BY <1>1, <1>5, <2>1, <2>2 DEF NetType, Moves
<1>6. CASE /\ cpc' \in {[cpc EXCEPT ![c] = pc] : pc \in {"send", "recv", "done"}}
           /\ UNCHANGED step \/ step' = [step EXCEPT ![c] = 1]
           /\ UNCHANGED turn
           /\ UNCHANGED verdict \/ verdict' = [verdict EXCEPT ![c] = FALSE]
  <2>1. PICK pc \in {"send", "recv", "done"} : cpc' = [cpc EXCEPT ![c] = pc]
      BY <1>6
  <2>2. /\ cpc' \in [Conns -> {"start", "send", "recv", "close", "done"}]
        /\ \A d \in Conns : d # c => cpc'[d] = cpc[d]
      BY <2>1 DEF NetType
  <2>3. /\ step' \in [Conns -> Nat] /\ step'[c] \in 1..Len(Steps(c))
        /\ \A d \in Conns : d # c => step'[d] = step[d]
    <3>1. step \in [Conns -> Nat]
        BY DEF NetType
    <3>2. step' = step \/ step' = [step EXCEPT ![c] = 1]
        BY <1>6
    <3> QED BY <1>1, <3>1, <3>2
  <2>4. /\ verdict' \in [Conns -> BOOLEAN]
        /\ \A d \in Conns : d # c => verdict'[d] = verdict[d]
      BY <1>6 DEF NetType
  <2> QED BY <1>2, <1>6, <2>2, <2>3, <2>4 DEF NetType, Moves
<1> QED BY <1>3, <1>4, <1>5, <1>6

\* What a step of the program of c does to the server and its sockets.
Reaches(c) ==
    /\ UNCHANGED <<running, served, state, challenge>>
    /\ \A d \in Conns : d # c =>
            /\ peer'[d] = peer[d] /\ inbox'[d] = inbox[d]
            /\ outbox'[d] = outbox[d] /\ refused'[d] = refused[d]
            /\ (Waits(d)' <=> Waits(d))

LEMMA PeerReaches ==
    ASSUME IInv, NEW c \in Conns,
           \/ Connect(c) \/ TakeReply(c) \/ Hangup(c) \/ UNCHANGED vars
           \/ \E req : Submit(c, req)
    PROVE  Reaches(c)
<1>1. /\ peer \in [Conns -> {"open", "closed"}] /\ inbox \in [Conns -> Seq(Request)]
      /\ outbox \in [Conns -> Seq(Reply)] /\ refused \in [Conns -> Nat]
      /\ backlog \in Seq(Conns)
    BY DEF IInv, TypeOK, TcpTypes
<1>2. CASE Connect(c)
  <2>1. /\ UNCHANGED <<running, served, state, challenge>>
        /\ \A d \in Conns : d # c =>
              /\ peer'[d] = peer[d] /\ inbox'[d] = inbox[d]
              /\ outbox'[d] = outbox[d] /\ refused'[d] = refused[d]
      BY <1>1, <1>2 DEF Connect, TcpConnect, session
  <2>2. \A d \in Conns : d # c => (Waits(d)' <=> Waits(d))
      BY <1>2, ConnectWaits DEF Connect, IInv, TypeOK
  <2> QED BY <2>1, <2>2 DEF Reaches
<1>3. CASE TakeReply(c)
    BY <1>1, <1>3 DEF TakeReply, TcpTakeReply, session, history, Reaches, Waits
<1>4. CASE Hangup(c)
    BY <1>1, <1>4 DEF Hangup, TcpHangup, session, Reaches, Waits
<1>5. CASE UNCHANGED vars
    BY <1>5 DEF vars, tcp, session, history, Reaches, Waits
<1>6. ASSUME NEW req, Submit(c, req)
      PROVE  Reaches(c)
    BY <1>1, <1>6 DEF Submit, TcpSubmit, session, history, Reaches, Waits
<1> QED BY <1>2, <1>3, <1>4, <1>5, <1>6

LEMMA OtherClients ==
    ASSUME NetType, Clients, NEW c \in Conns, Moves(c), Reaches(c),
           \A d \in Conns : d # c => key'[d] = key[d]
    PROVE  \A d \in Conns : d # c => Client(d)'
<1> SUFFICES ASSUME NEW d \in Conns, d # c
             PROVE  Client(d)'
    OBVIOUS
<1>1. /\ cpc'[d] = cpc[d] /\ step'[d] = step[d] /\ turn'[d] = turn[d]
      /\ key'[d] = key[d] /\ verdict'[d] = verdict[d]
    BY DEF Moves
<1>2. /\ UNCHANGED <<running, served, state, challenge>>
      /\ peer'[d] = peer[d] /\ inbox'[d] = inbox[d]
      /\ outbox'[d] = outbox[d] /\ refused'[d] = refused[d]
      /\ (Waits(d)' <=> Waits(d))
    BY DEF Reaches
<1>3. Held(d)' <=> Held(d)
    BY <1>2 DEF Held, Waits
<1>4. Client(d)
    BY DEF Clients
<1> QED BY <1>1, <1>2, <1>3, <1>4, ClientKept

\* What the account in turn adds to the verdict.
LEMMA GoodNext ==
    ASSUME NetType, NEW c \in Conns
    PROVE  /\ turn[c] \in Nat \ {0}
           /\ Good(c, turn[c]) <=> Good(c, turn[c] - 1) /\ ValidLogin(Login(c))
<1>1. turn[c] \in Nat \ {0}
  <2>1. DOMAIN Logins[c] = 1..Len(Logins[c]) /\ Len(Logins[c]) \in Nat
      BY NetworkAssumption, LenProperties
  <2> QED BY <2>1 DEF NetType
<1> DEFINE n == turn[c]
<1>2. n \in 1..n /\ \A t \in 1..n : t = n \/ t \in 1..n - 1
    BY <1>1
<1>3. \A t \in 1..n - 1 : t \in 1..n
    BY <1>1
<1> QED BY <1>1, <1>2, <1>3 DEF Good, Login

\* A server that has been stopped owes c nothing.
LEMMA Orphan ==
    ASSUME NEW c \in Conns, ~running', ~Held(c)', c # served',
           peer'[c] = "open" <=> cpc'[c] \in {"send", "recv", "close"},
           outbox'[c] = <<>>
    PROVE  Client(c)'
<1>1. Len(<<>>) = 0 /\ ~Waits(c)'
    BY DEF Held, Waits
<1> QED BY <1>1 DEF Client, Sockets, Waiting, Agree, Lasting, Judged

\* Neither does one whose client is between two sessions.
LEMMA Idle ==
    ASSUME NEW c \in Conns, cpc'[c] \in {"start", "close", "done"},
           peer'[c] = "open" <=> cpc'[c] = "close",
           outbox'[c] = <<>>, Held(c)' => inbox'[c] = <<>>, ~Waits(c)', Judged(c)'
    PROVE  Client(c)'
<1>1. Len(<<>>) = 0
    OBVIOUS
<1> QED BY <1>1 DEF Client, Sockets, Waiting, Agree, Lasting

LEMMA OwnConnect ==
    ASSUME IInv, NetType, NEW c \in Conns, Client(c), ClientConnect(c)
    PROVE  Client(c)'
<1>1. /\ cpc[c] = "start" /\ cpc'[c] = "send" /\ step'[c] = 1
      /\ UNCHANGED <<turn, key, verdict>>
    BY DEF ClientConnect, NetType
<1>2. /\ TcpConnect(c) /\ running /\ running' = running /\ served' = served /\ ~Held(c)
      /\ peer'[c] = "open" /\ inbox'[c] = <<>> /\ outbox'[c] = <<>> /\ Len(<<>>) = 0
      /\ backlog' = Append(backlog, c) /\ backlog \in Seq(Conns)
    BY DEF ClientConnect, Connect, TcpConnect, IInv, TypeOK, TcpTypes
<1>3. Held(c)' /\ c # served'
  <2>1. Len(backlog) + 1 \in DOMAIN backlog' /\ backlog'[Len(backlog) + 1] = c
      BY <1>2, AppendFacts
  <2> QED BY <1>2, <2>1 DEF Held
<1>4. Login(c)' = Login(c)
    BY <1>1 DEF Login
<1>5. Judged(c)'
    BY <1>1, <1>2, <1>4 DEF Client, Judged
<1> QED BY <1>1, <1>2, <1>3, <1>5 DEF Client, Sockets, Waiting, Agree, Lasting

LEMMA OwnRefused ==
    ASSUME IInv, NetType, NEW c \in Conns, Client(c), ClientRefused(c)
    PROVE  Client(c)'
<1>1. /\ cpc[c] = "start" /\ cpc'[c] \in {"start", "done"} /\ ~running
      /\ UNCHANGED vars
    BY DEF ClientRefused, NextSession, NetType
<1>2. /\ peer[c] # "open" /\ outbox[c] = <<>> /\ ~Waits(c)
      /\ Held(c) => inbox[c] = <<>>
    BY <1>1 DEF Client, Sockets, Waiting
<1>3. (Held(c)' <=> Held(c)) /\ ~Waits(c)'
    BY <1>1, <1>2 DEF Held, Waits, vars, tcp
<1>4. Judged(c)'
    BY <1>1 DEF Judged, vars, tcp
<1> QED BY <1>1, <1>2, <1>3, <1>4, Idle DEF vars, tcp

LEMMA OwnSend ==
    ASSUME IInv, NetType, NEW c \in Conns, Client(c), ClientSend(c)
    PROVE  Client(c)'
<1>1. /\ cpc[c] = "send" /\ cpc'[c] = "recv"
      /\ UNCHANGED <<step, turn, key, verdict>>
    BY DEF ClientSend, AfterSend, NetType
<1>2. /\ Held(c) /\ peer[c] = "open" /\ inbox'[c] = Append(inbox[c], RequestOf(c))
      /\ UNCHANGED <<running, backlog, served, peer, outbox, state, challenge, refused>>
    BY DEF ClientSend, Submit, TcpSubmit, IInv, TypeOK, TcpTypes, session, history
<1>3. inbox[c] = <<>> /\ outbox[c] = <<>> /\ Len(<<>>) = 0
    BY <1>1, <1>2 DEF Client, Sockets
<1>4. \A r : Append(<<>>, r) = <<r>>
    OBVIOUS
<1>5. /\ Doing(c)' = Doing(c) /\ RequestOf(c)' = RequestOf(c) /\ Login(c)' = Login(c)
      /\ ~Answered(c) /\ ~Answered(c)' /\ Reached(c)' = Reached(c)
    BY <1>1, <1>2, <1>3 DEF Doing, RequestOf, Login, Answered, Reached
<1>6. (Held(c)' <=> Held(c)) /\ (Waits(c)' <=> Waits(c))
    BY <1>2 DEF Held, Waits
<1>7. Sockets(c)'
    BY <1>1, <1>2, <1>3, <1>4, <1>5 DEF Sockets
<1>8. Waiting(c)' /\ Lasting(c)'
    BY <1>1, <1>2, <1>3, <1>6 DEF Client, Waiting, Lasting
<1>9. Agree(c)'
    BY <1>1, <1>2, <1>5 DEF Client, Agree
<1>10. Judged(c)'
    BY <1>1, <1>2, <1>5 DEF Client, Judged
<1> QED BY <1>7, <1>8, <1>9, <1>10 DEF Client

LEMMA OwnSendLost ==
    ASSUME IInv, NetType, NEW c \in Conns, Client(c), ClientSendLost(c)
    PROVE  Client(c)'
<1>1. cpc[c] = "send" /\ ~Held(c) /\ peer[c] = "open" /\ outbox[c] = <<>>
    BY DEF ClientSendLost, Client, Sockets
<1>2. ~running
    BY <1>1 DEF Client, Lasting, Answered
<1>3. UNCHANGED <<running, served, backlog>>
    BY DEF ClientSendLost, vars, tcp, Hangup, TcpHangup
<1>4. ~Held(c)' /\ c # served'
    BY <1>1, <1>3 DEF Held
<1>5. \/ cpc'[c] \in {"send", "recv", "close"} /\ UNCHANGED <<peer, outbox>>
      \/ cpc'[c] = "done" /\ peer'[c] = "closed" /\ outbox'[c] = <<>>
    BY <1>1 DEF ClientSendLost, Abort, Advance, vars, tcp, Hangup, TcpHangup, NetType,
                IInv, TypeOK, TcpTypes
<1> QED BY <1>1, <1>2, <1>3, <1>4, <1>5, Orphan

LEMMA OwnReceiveLost ==
    ASSUME IInv, NetType, NEW c \in Conns, Client(c), ClientReceiveLost(c)
    PROVE  Client(c)'
<1>1. cpc[c] = "recv" /\ ~Held(c) /\ peer[c] = "open" /\ outbox[c] = <<>>
    BY DEF ClientReceiveLost, Client, Sockets
<1>2. ~running
    BY <1>1 DEF Client, Lasting, Answered
<1>3. UNCHANGED <<running, served, backlog, peer, outbox>>
    BY DEF ClientReceiveLost, vars, tcp
<1>4. ~Held(c)' /\ c # served'
    BY <1>1, <1>3 DEF Held
<1>5. cpc'[c] \in {"send", "close"}
    BY DEF ClientReceiveLost, Abort, Advance, NetType
<1> QED BY <1>1, <1>2, <1>3, <1>4, <1>5, Orphan

LEMMA OwnClose ==
    ASSUME IInv, NetType, NEW c \in Conns, Client(c), ClientClose(c)
    PROVE  Client(c)'
<1>1. /\ cpc[c] = "close" /\ UNCHANGED <<step, key, verdict>>
      /\ \/ /\ turn[c] < Len(Logins[c])
            /\ cpc'[c] = "start" /\ turn'[c] = turn[c] + 1
         \/ /\ ~(turn[c] < Len(Logins[c]))
            /\ cpc'[c] = "done" /\ turn'[c] = turn[c]
    BY DEF ClientClose, NextSession, NetType
<1>2. /\ UNCHANGED <<running, backlog, served, inbox>>
      /\ peer'[c] = "closed" /\ outbox'[c] = <<>>
    BY DEF ClientClose, Hangup, TcpHangup, IInv, TypeOK, TcpTypes
<1>3. (Held(c) => inbox[c] = <<>>) /\ ~Waits(c)
    BY <1>1 DEF Client, Sockets, Waiting
<1>4. (Held(c)' <=> Held(c)) /\ ~Waits(c)'
    BY <1>2, <1>3 DEF Held, Waits
<1>5. Judged(c)'
  <2>1. turn[c] \in Nat /\ turn[c] <= Len(Logins[c]) /\ Len(Logins[c]) \in Nat
    <3>1. DOMAIN Logins[c] = 1..Len(Logins[c]) /\ Len(Logins[c]) \in Nat
        BY NetworkAssumption, LenProperties
    <3> QED BY <3>1 DEF NetType
  <2>2. running => (verdict[c] <=> Good(c, turn[c]))
      BY <1>1 DEF Client, Judged
  <2>3. CASE cpc'[c] = "start"
    <3>1. turn'[c] - 1 = turn[c]
        BY <1>1, <2>1, <2>3
    <3>2. Good(c, turn[c] - 1)' <=> Good(c, turn[c])
        BY <3>1 DEF Good, ValidLogin
    <3> QED BY <1>1, <1>2, <2>2, <2>3, <3>2 DEF Judged
  <2>4. CASE cpc'[c] = "done"
    <3>1. turn'[c] = turn[c] /\ turn[c] = Len(Logins[c])
        BY <1>1, <2>1, <2>4
    <3>2. Good(c, turn[c])' <=> Good(c, turn[c])
        BY <3>1 DEF Good, ValidLogin
    <3> QED BY <1>1, <1>2, <2>2, <2>4, <3>1, <3>2 DEF Judged
  <2> QED BY <1>1, <2>3, <2>4
<1> QED BY <1>1, <1>2, <1>3, <1>4, <1>5, Idle

\* A reply a script awaits: what it tells of the step, and of the account.
LEMMA ExpectedFacts ==
    ASSUME NetType, NEW c \in Conns, NEW r, Expected(c, r)
    PROVE  /\ r.type = "HELLO_RESP" => Doing(c) = "HELLO"
           /\ Doing(c) = "HELLO" => r.type = "HELLO_RESP" /\ r.challenge \in Challenges
           /\ r = AuthResp("FAIL") => Doing(c) = "AUTH"
           /\ Doing(c) = "AUTH" => (r = AuthResp("OK") <=> ValidLogin(Login(c)))
           /\ Doing(c) = "AUTH" => r = AuthResp("OK") \/ r = AuthResp("FAIL")
           /\ Doing(c) \notin {"HELLO", "AUTH", "QUIT"} => r.type = "CMD_RESP"
           /\ Doing(c) = "PING" => r # CmdFail
           /\ r.type # "ERROR"
<1>1. /\ AuthResp("OK") # AuthResp("FAIL")
      /\ AuthResp("OK").type = "AUTH_RESP" /\ AuthResp("FAIL").type = "AUTH_RESP"
      /\ Bye.type = "QUIT_RESP"
      /\ \A ch : Welcome(ch).type = "HELLO_RESP" /\ Welcome(ch).challenge = ch
    BY DEF AuthResp, Bye, Welcome
<1>2. CASE Doing(c) = "HELLO"
    BY <1>1, <1>2 DEF Expected
<1>3. CASE Doing(c) = "AUTH"
    BY <1>1, <1>3 DEF Expected
<1>4. CASE Doing(c) = "QUIT"
    BY <1>1, <1>4 DEF Expected
<1>5. CASE Doing(c) \notin {"HELLO", "AUTH", "QUIT"}
    BY <1>1, <1>5 DEF Expected
<1> QED BY <1>2, <1>3, <1>4, <1>5

\* The reply is the only one, and it is read.
LEMMA ReceiveFacts ==
    ASSUME IInv, NetType, NEW c \in Conns, Client(c), ClientReceive(c)
    PROVE  /\ cpc[c] = "recv" /\ peer[c] = "open" /\ Answered(c)
           /\ Head(outbox[c]) = outbox[c][1] /\ Expected(c, outbox[c][1])
           /\ outbox'[c] = <<>>
           /\ UNCHANGED <<running, backlog, served, peer, inbox, state, challenge, refused>>
           /\ Held(c) => inbox[c] = <<>>
           /\ ~Waits(c)
<1>1. /\ cpc[c] = "recv" /\ peer[c] = "open" /\ outbox[c] # <<>>
      /\ outbox'[c] = Tail(outbox[c]) /\ outbox[c] \in Seq(Reply)
      /\ UNCHANGED <<running, backlog, served, peer, inbox, state, challenge, refused>>
    BY DEF ClientReceive, TakeReply, TcpTakeReply, IInv, TypeOK, TcpTypes, session, history
<1>2. Len(outbox[c]) <= 1
    BY DEF Client, Sockets
<1>3. Tail(outbox[c]) = <<>>
    BY <1>1, <1>2, TailOfOne
<1>4. Head(outbox[c]) = outbox[c][1]
    BY <1>1, HeadTailProperties
<1> QED BY <1>1, <1>3, <1>4 DEF Client, Sockets, Waiting, Answered

LEMMA OwnReceive ==
    ASSUME IInv, NetType, NEW c \in Conns, Client(c), ClientReceive(c)
    PROVE  Client(c)'
<1> DEFINE r == outbox[c][1]
<1>1. /\ cpc[c] = "recv" /\ peer[c] = "open" /\ Answered(c) /\ outbox'[c] = <<>>
      /\ UNCHANGED <<running, backlog, served, peer, inbox, state, challenge, refused>>
      /\ (Held(c) => inbox[c] = <<>>) /\ ~Waits(c)
    BY ReceiveFacts
<1>2. Head(outbox[c]) = r /\ Expected(c, r)
    BY ReceiveFacts
<1>3. /\ step[c] \in Nat /\ step[c] \in 1..Len(Steps(c)) /\ Len(Steps(c)) \in Nat
      /\ Len(Steps(c)) >= 4
    BY DoingFacts DEF NetType
<1>4. (Held(c)' <=> Held(c)) /\ ~Waits(c)'
    BY <1>1 DEF Held, Waits
<1>5. \/ GivesUpOn(c, r) /\ Abort(c)
      \/ /\ ~GivesUpOn(c, r)
         /\ Advance(c, Script[c] = "testall" /\ Doing(c) = "PING" => r # CmdFail)
    BY <1>2 DEF ClientReceive
<1>6. running => /\ verdict[c] <=> Good(c, turn[c] - 1)
                 /\ step[c] > 2 => ValidLogin(Login(c))
    BY <1>1 DEF Client, Judged
<1>7. CASE GivesUpOn(c, r) /\ Abort(c)
  <2>1. cpc'[c] = "close" /\ ~verdict'[c] /\ turn'[c] = turn[c]
      BY <1>7 DEF Abort, NetType
  <2>2. Doing(c) = "AUTH" /\ ~ValidLogin(Login(c))
      BY <1>2, <1>7, ExpectedFacts DEF GivesUpOn
  <2>3. ~Good(c, turn[c])
      BY <2>2, GoodNext
  <2>4. ~Good(c, turn[c])'
      BY <2>1, <2>3 DEF Good, ValidLogin
  <2>5. Judged(c)'
      BY <2>1, <2>4 DEF Judged
  <2> QED BY <1>1, <1>4, <2>1, <2>5, Idle
<1>8. CASE /\ ~GivesUpOn(c, r)
           /\ Advance(c, Script[c] = "testall" /\ Doing(c) = "PING" => r # CmdFail)
  <2>1. Script[c] = "testall" /\ Doing(c) = "PING" => r # CmdFail
      BY <1>2, ExpectedFacts
  <2>2. verdict'[c] <=> verdict[c]
      BY <1>8, <2>1 DEF Advance, NetType
  <2>3. Doing(c) = "AUTH" => r = AuthResp("OK") /\ ValidLogin(Login(c))
      BY <1>2, <1>8, ExpectedFacts DEF GivesUpOn
  <2>4. r # AuthResp("FAIL")
    <3>1. AuthResp("OK") # AuthResp("FAIL")
        BY DEF AuthResp
    <3> QED BY <1>2, <2>3, <3>1, ExpectedFacts
  <2>5. turn'[c] = turn[c] /\ Login(c)' = Login(c)
      BY <1>8 DEF Advance, Login
  <2>6. /\ Good(c, turn[c])' <=> Good(c, turn[c])
        /\ Good(c, turn[c] - 1)' <=> Good(c, turn[c] - 1)
        /\ ValidLogin(Login(c))' <=> ValidLogin(Login(c))
      BY <2>5 DEF Good, ValidLogin
  <2>7. CASE MoreSteps(c)
    <3>1. cpc'[c] = "send" /\ step'[c] = step[c] + 1 /\ step[c] < Len(Steps(c))
        BY <1>8, <2>7 DEF Advance, MoreSteps, NetType
    <3>2. ~Answered(c)' /\ Reached(c)' = step[c] + 1 /\ Reached(c) = step[c] + 1
        BY <1>1, <3>1 DEF Answered, Reached
    <3>3. Sockets(c)'
        BY <1>1, <1>4, <3>1 DEF Sockets
    <3>4. Waiting(c)'
        BY <1>4 DEF Waiting
    <3>5. Lasting(c)'
      <4>1. Doing(c) # "QUIT"
          BY <3>1, <1>3, DoingFacts
      <4> QED BY <1>1, <1>4, <4>1 DEF Client, Lasting
    <3>6. Agree(c)'
      <4> SUFFICES ASSUME c = served
                   PROVE  /\ state = StateAt(step[c] + 1)
                          /\ step[c] + 1 <= 2 => refused[c] = 0
                          /\ step[c] + 1 = 2 => challenge = key'[c]
                          /\ step[c] + 1 <= Len(Steps(c))
          BY <1>1, <3>1, <3>2 DEF Agree
      <4>1. /\ state = StateAt(step[c] + 1)
            /\ step[c] + 1 <= 2 => refused[c] = 0
            /\ step[c] + 1 = 2 => challenge = r.challenge
          BY <1>1, <2>4, <3>2 DEF Client, Agree
      <4>2. step[c] + 1 = 2 => key'[c] = r.challenge
        <5> SUFFICES ASSUME step[c] = 1 PROVE key'[c] = r.challenge
            BY <1>3
        <5>1. r.type = "HELLO_RESP"
            BY <1>2, DoingFacts, ExpectedFacts
        <5> QED BY <1>2, <5>1 DEF ClientReceive, NetType
      <4> QED BY <1>3, <3>1, <4>1, <4>2
    <3>7. Judged(c)'
      <4>1. step[c] + 1 > 2 /\ running => ValidLogin(Login(c))
          BY <1>3, <1>6, <2>3, DoingFacts
      <4> QED BY <1>1, <1>6, <2>2, <2>5, <2>6, <3>1, <4>1 DEF Judged
    <3> QED BY <3>3, <3>4, <3>5, <3>6, <3>7 DEF Client
  <2>8. CASE ~MoreSteps(c)
    <3>1. cpc'[c] = "close" /\ step[c] = Len(Steps(c))
        BY <1>3, <1>8, <2>8 DEF Advance, MoreSteps, NetType
    <3>2. running => (verdict[c] <=> Good(c, turn[c]))
        BY <1>3, <1>6, <3>1, GoodNext
    <3>3. Judged(c)'
        BY <1>1, <2>2, <2>5, <2>6, <3>1, <3>2 DEF Judged
    <3> QED BY <1>1, <1>4, <3>1, <3>3, Idle
  <2> QED BY <2>7, <2>8
<1> QED BY <1>5, <1>7, <1>8

-----------------------------------------------------------------------------
(***************************************************************************)
(* Every step of a client is a step of a peer of the server module, or of  *)
(* none.                                                                   *)
(***************************************************************************)
LEMMA ClientIsPeer ==
    ASSUME IInv, NetType, NEW c \in Conns, ClientStep(c)
    PROVE  /\ PeerStep(c) \/ UNCHANGED vars
           /\ Reaches(c)
<1>1. CASE ClientConnect(c)
    BY <1>1, PeerReaches DEF ClientConnect, PeerStep
<1>2. CASE ClientSend(c)
    BY <1>2, RequestSendable, PeerReaches DEF ClientSend, PeerStep
<1>3. CASE ClientReceive(c)
    BY <1>3, PeerReaches DEF ClientReceive, PeerStep
<1>4. CASE ClientClose(c)
    BY <1>4, PeerReaches DEF ClientClose, PeerStep
<1>5. CASE ClientRefused(c)
    BY <1>5, PeerReaches DEF ClientRefused
<1>6. CASE ClientSendLost(c)
    BY <1>6, PeerReaches DEF ClientSendLost, PeerStep
<1>7. CASE ClientReceiveLost(c)
    BY <1>7, PeerReaches DEF ClientReceiveLost
<1> QED BY <1>1, <1>2, <1>3, <1>4, <1>5, <1>6, <1>7 DEF ClientStep

LEMMA ClientMoves ==
    ASSUME NetType, NEW c \in Conns, ClientStep(c)
    PROVE  Moves(c)
<1>1. CASE ClientConnect(c)
    BY <1>1, Moved DEF ClientConnect
<1>2. CASE ClientSend(c)
    BY <1>2, Moved DEF ClientSend, AfterSend
<1>3. CASE ClientReceive(c)
    BY <1>3, Moved DEF ClientReceive
<1>4. CASE ClientClose(c)
    BY <1>4, Moved DEF ClientClose
<1>5. CASE ClientRefused(c)
    BY <1>5, Moved DEF ClientRefused
<1>6. CASE ClientSendLost(c)
    BY <1>6, Moved DEF ClientSendLost
<1>7. CASE ClientReceiveLost(c)
    BY <1>7, Moved DEF ClientReceiveLost
<1> QED BY <1>1, <1>2, <1>3, <1>4, <1>5, <1>6, <1>7 DEF ClientStep

\* The challenge a client keeps is one it was sent.
LEMMA ClientKey ==
    ASSUME IInv, NetType, Clients, NEW c \in Conns, ClientStep(c)
    PROVE  /\ key' \in [Conns -> Challenges]
           /\ \A d \in Conns : d # c => key'[d] = key[d]
<1>1. CASE ClientReceive(c)
  <2>1. Expected(c, Head(outbox[c]))
      BY <1>1, ReceiveFacts DEF Clients
  <2>2. Head(outbox[c]).type = "HELLO_RESP" => Head(outbox[c]).challenge \in Challenges
      BY <2>1, ExpectedFacts
  <2> QED BY <1>1, <2>2 DEF ClientReceive, NetType
<1>2. CASE ~ClientReceive(c)
    BY <1>2 DEF ClientStep, ClientConnect, ClientSend, ClientClose, ClientRefused,
                ClientSendLost, ClientReceiveLost, NetType
<1> QED BY <1>1, <1>2

LEMMA ClientsStep ==
    ASSUME IInv, NetType, Clients, NEW c \in Conns, ClientStep(c)
    PROVE  NetType' /\ Clients'
<1>1. Moves(c) /\ Reaches(c)
    BY ClientIsPeer, ClientMoves
<1>2. key' \in [Conns -> Challenges] /\ \A d \in Conns : d # c => key'[d] = key[d]
    BY ClientKey
<1>3. NetType'
  <2>1. \A d \in Conns : step'[d] \in 1..Len(Steps(d)) /\ turn'[d] \in DOMAIN Logins[d]
      BY <1>1 DEF Moves, NetType
  <2> QED BY <1>1, <1>2, <2>1 DEF Moves, NetType
<1>4. Client(c)'
  <2>1. Client(c)
      BY DEF Clients
  <2> QED BY <2>1, OwnConnect, OwnRefused, OwnSend, OwnSendLost, OwnReceive, OwnReceiveLost,
             OwnClose DEF ClientStep
<1>5. \A d \in Conns : d # c => Client(d)'
    BY <1>1, <1>2, OtherClients
<1> QED BY <1>3, <1>4, <1>5 DEF Clients

LEMMA NetStep ==
    ASSUME IInv, NetType, [NetNext]_netVars
    PROVE  [Next]_vars
<1>1. ASSUME NEW c \in Conns, ServerStep(c)
      PROVE  Next
    BY <1>1 DEF Next
<1>2. ASSUME NEW c \in Conns, ClientStep(c)
      PROVE  [Next]_vars
    BY <1>2, ClientIsPeer DEF Next
<1>3. StopServer => Next
    BY DEF Next
<1>4. UNCHANGED netVars => UNCHANGED vars
    BY DEF netVars
<1> QED BY <1>1, <1>2, <1>3, <1>4 DEF NetNext, ServerMoves

LEMMA NetInitial == NetInit => NetInv
<1> SUFFICES ASSUME NetInit PROVE NetInv
    OBVIOUS
<1>1. IInv
    BY Initial DEF NetInit
<1>2. ZeroChallenge \in Challenges
    BY DEF ZeroChallenge, Challenges, Byte
<1>3. ASSUME NEW c \in Conns
      PROVE  /\ 1 \in 1..Len(Steps(c)) /\ 1 \in DOMAIN Logins[c]
             /\ Len(Logins[c]) \in Nat
  <2>1. Len(Steps(c)) \in Nat /\ Len(Steps(c)) >= 4
      BY ScriptFacts
  <2>2. /\ DOMAIN Logins[c] = 1..Len(Logins[c]) /\ Len(Logins[c]) \in Nat
        /\ Logins[c] # <<>>
      BY NetworkAssumption, LenProperties
  <2>3. Len(Logins[c]) # 0
      BY <2>2, NetworkAssumption, EmptySeq
  <2> QED BY <2>1, <2>2, <2>3
<1>4. NetType
    BY <1>2, <1>3 DEF NetInit, NetType
<1>5. ASSUME NEW c \in Conns
      PROVE  Client(c)
  <2>1. /\ cpc[c] = "start" /\ turn[c] = 1 /\ verdict[c] = TRUE
        /\ peer[c] = "closed" /\ outbox[c] = <<>> /\ inbox[c] = <<>> /\ Len(<<>>) = 0
        /\ backlog = <<>> /\ DOMAIN <<>> = {}
      BY DEF NetInit, Init, TcpInit
  <2>2. Good(c, 0)
      BY DEF Good
  <2>3. Judged(c)
      BY <2>1, <2>2 DEF Judged
  <2> QED BY <2>1, <2>3 DEF Client, Sockets, Waiting, Agree, Lasting, Waits
<1> QED BY <1>1, <1>4, <1>5 DEF NetInv

LEMMA NetInductive == NetInv /\ [NetNext]_netVars => NetInv'
<1> SUFFICES ASSUME NetInv, [NetNext]_netVars PROVE NetInv'
    OBVIOUS
<1>1. IInv /\ NetType /\ Clients
    BY DEF NetInv, Clients
<1>2. IInv'
    BY <1>1, NetStep, Inductive
<1>3. ASSUME SameClients
      PROVE  NetType'
    BY <1>1, <1>3 DEF SameClients, clientVars, NetType
<1>4. ASSUME NEW c \in Conns, ServerStep(c), SameClients
      PROVE  Clients'
    BY <1>1, <1>2, <1>4, ClientsAccept, ClientsLost, ClientsHandler
<1>5. ASSUME NEW c \in Conns, ClientStep(c)
      PROVE  NetType' /\ Clients'
    BY <1>1, <1>5, ClientsStep
<1>6. ASSUME StopServer, SameClients
      PROVE  Clients'
    BY <1>1, <1>6, ClientsStop
<1>7. ASSUME UNCHANGED netVars
      PROVE  SameClients /\ Clients'
  <2>1. SameClients
      BY <1>7 DEF netVars, SameClients
  <2>2. /\ UNCHANGED <<running, backlog, served, peer, inbox, outbox, state, challenge, refused>>
      BY <1>7 DEF netVars, vars, tcp, session, history
  <2>3. ASSUME NEW d \in Conns PROVE Client(d)'
    <3>1. (Held(d)' <=> Held(d)) /\ (Waits(d)' <=> Waits(d))
        BY <2>2 DEF Held, Waits
    <3> QED BY <1>1, <2>1, <2>2, <3>1, ClientKept DEF Clients, SameClients, clientVars
  <2> QED BY <2>1, <2>3 DEF Clients
<1>8. NetType' /\ Clients'
    BY <1>3, <1>4, <1>5, <1>6, <1>7 DEF NetNext, ServerMoves, SameClients
<1> QED BY <1>2, <1>8 DEF NetInv, Clients

-----------------------------------------------------------------------------
(***************************************************************************)
(* The theorems.                                                           *)
(***************************************************************************)

\* Where each client stands tells what is in its sockets and what the server
\* holds of its session.
THEOREM NetInvariant == NetSpec => []NetInv
BY NetInitial, NetInductive, PTL DEF NetSpec

\* No order of the steps of these clients and of the server makes the server
\* send one of them an ERROR, and none of them leaves a request behind.
THEOREM NoError == NetSpec => []NoProtocolError
<1>1. NetInv => NoProtocolError
  <2> SUFFICES ASSUME NetInv, NEW c \in Conns
               PROVE  /\ \A i \in DOMAIN outbox[c] : outbox[c][i].type # "ERROR"
                      /\ Held(c) /\ peer[c] = "closed" => inbox[c] = <<>>
      BY DEF NoProtocolError
  <2>1. NetType /\ Client(c)
      BY DEF NetInv
  <2>2. ASSUME NEW i \in DOMAIN outbox[c]
        PROVE  outbox[c][i].type # "ERROR"
    <3>1. outbox[c] \in Seq(Reply)
        BY DEF NetInv, IInv, TypeOK, TcpTypes
    <3>2. DOMAIN outbox[c] = 1..Len(outbox[c]) /\ Len(outbox[c]) \in Nat
        BY <3>1, LenProperties
    <3>3. i = 1 /\ outbox[c] # <<>>
        BY <2>1, <3>2 DEF Client, Sockets
    <3>4. Expected(c, outbox[c][1])
        BY <2>1, <3>3 DEF Client, Sockets
    <3> QED BY <2>1, <3>3, <3>4, ExpectedFacts
  <2>3. Held(c) /\ peer[c] = "closed" => inbox[c] = <<>>
      BY <2>1 DEF Client, Sockets
  <2> QED BY <2>2, <2>3
<1> QED BY <1>1, NetInvariant, PTL

\* A program that has ended while the server ran has judged all its accounts.
LEMMA DoneIsJudged ==
    ASSUME NetInv, NEW c \in Conns, running, cpc[c] = "done"
    PROVE  verdict[c] <=> \A t \in DOMAIN Logins[c] : ValidLogin(Logins[c][t])
<1>1. turn[c] = Len(Logins[c]) /\ (verdict[c] <=> Good(c, turn[c]))
    BY DEF NetInv, Client, Judged
<1>2. DOMAIN Logins[c] = 1..Len(Logins[c])
    BY NetworkAssumption, LenProperties
<1> QED BY <1>1, <1>2 DEF Good

\* The step that closes a session of the Python client with success.
LEMMA ByeIsLast ==
    ASSUME NetInv, [NetNext]_netVars, NEW c \in Conns, Script[c] # "demo",
           cpc[c] = "recv", cpc'[c] = "close", verdict'[c]
    PROVE  outbox[c] # <<>> /\ Head(outbox[c]) = Bye
<1>1. IInv /\ NetType /\ Client(c)
    BY DEF NetInv
<1>2. ClientStep(c)
  <2>1. cpc' # cpc
      OBVIOUS
  <2>2. PICK d \in Conns : ClientStep(d)
      BY <2>1 DEF NetNext, ServerMoves, netVars, clientVars
  <2>3. d = c
      BY <1>1, <2>2, ClientMoves DEF Moves
  <2> QED BY <2>2, <2>3
<1>3. ~Abort(c)
    BY <1>1 DEF Abort, NetType
<1>4. CASE ClientReceive(c)
  <2>1. /\ outbox[c] # <<>> /\ Head(outbox[c]) = outbox[c][1]
        /\ Expected(c, outbox[c][1])
      BY <1>1, <1>4, ReceiveFacts DEF Answered
  <2>2. PICK ok : Advance(c, ok)
      BY <1>3, <1>4 DEF ClientReceive
  <2>3. ~MoreSteps(c)
      BY <1>1, <2>2 DEF Advance, NetType
  <2>4. Doing(c) = "QUIT"
      BY <1>1, <2>3, DoingFacts DEF MoreSteps
  <2> QED BY <2>1, <2>4 DEF Expected
<1>5. CASE ClientReceiveLost(c)
    BY <1>3, <1>5 DEF ClientReceiveLost, GivesUpOnLoss
<1> QED BY <1>2, <1>4, <1>5 DEF ClientStep, ClientConnect, ClientSend, ClientClose,
                                ClientRefused, ClientSendLost

\* A client's verdict is the truth about its accounts, whatever the others do,
\* and the Python client calls a session complete only on reading its BYE.
THEOREM Truthful == NetSpec => VerdictIsTruth
<1>1. NetInv => \A c \in Conns : running /\ cpc[c] = "done" =>
                   (verdict[c] <=> \A t \in DOMAIN Logins[c] : ValidLogin(Logins[c][t]))
    BY DoneIsJudged
<1>2. NetInv /\ [NetNext]_netVars =>
         [\A c \in Conns : Script[c] # "demo" => CompletesWithBye(c)]_netVars
    BY ByeIsLast DEF CompletesWithBye
<1> QED BY <1>1, <1>2, NetInvariant, PTL DEF NetSpec, VerdictIsTruth

=============================================================================
