----------------------------- MODULE Ch20Proofs -----------------------------
(***************************************************************************)
(* Theorems about the token service of chapter 20: the server by itself,   *)
(* for every set of connections, of tokens and of requests, and then with  *)
(* any number of its clients among any number of strangers.                *)
(***************************************************************************)
EXTENDS Ch20Network, TcpServiceProofs

(***************************************************************************)
(* The inductive invariant.  Without Queue a connection could be accepted  *)
(* twice, and its second session have what the first was granted, or its   *)
(* second close throw away what a third had asked.                         *)
(***************************************************************************)
IInv == TypeOK /\ Queue /\ CommandsAfterOwnAuth /\ InStep

Handler(c) == HandleAuth(c) \/ HandleCmd(c) \/ HandlePing(c)

-----------------------------------------------------------------------------
\* What a handler may send is a reply.
LEMMA Replies ==
    /\ \A success \in BOOLEAN, tok \in Tokens : AuthResp(success, tok) \in Reply
    /\ \A cmd \in Commands \ {"OTHER"} : Output(cmd) \in Reply
    /\ \A args \in Args : Echoed(args) \in Reply
    /\ \A text \in {"NOT_AUTH", "UNKNOWN_CMD"} : CmdError(text) \in Reply
    /\ Pong \in Reply
BY DEF Reply, AuthResp, Output, Echoed, CmdError, Pong

\* A command is one of the fixed ones, or an ECHO with its arguments.
LEMMA CommandRequest ==
    ASSUME NEW req \in Request, req.type = "CMD_REQ", req.ok
    PROVE  req.cmd \in Commands \/ (req.cmd = "ECHO" /\ req.args \in Args)
<1>1. req \in [type : {"AUTH_REQ"}, ok : {TRUE}, user : Users, hash : Hashes]
        => req.type = "AUTH_REQ"
    OBVIOUS
<1>2. req \in {Short("AUTH_REQ"), Short("CMD_REQ")} => ~req.ok
    BY DEF Short
<1>3. req \in {Ping, Disconnect, UnknownType, BadFrame} => req.type # "CMD_REQ"
    BY DEF Ping, Disconnect, UnknownType, BadFrame
<1>4. req \in [type : {"CMD_REQ"}, ok : {TRUE}, token : Tokens, cmd : Commands]
        => req.cmd \in Commands
    OBVIOUS
<1>5. req \in [type : {"CMD_REQ"}, ok : {TRUE}, token : Tokens, cmd : {"ECHO"}, args : Args]
        => req.cmd = "ECHO" /\ req.args \in Args
    OBVIOUS
<1>6. \/ req \in [type : {"AUTH_REQ"}, ok : {TRUE}, user : Users, hash : Hashes]
      \/ req \in [type : {"CMD_REQ"}, ok : {TRUE}, token : Tokens, cmd : Commands]
      \/ req \in [type : {"CMD_REQ"}, ok : {TRUE}, token : Tokens, cmd : {"ECHO"}, args : Args]
      \/ req \in {Short("AUTH_REQ"), Short("CMD_REQ")}
      \/ req \in {Ping, Disconnect, UnknownType, BadFrame}
    BY DEF Request
<1> QED BY <1>1, <1>2, <1>3, <1>4, <1>5, <1>6

\* The command's reply says NOT_AUTH, or the command was let through.
LEMMA CmdReplyFacts ==
    ASSUME NEW req \in Request, req.type = "CMD_REQ", req.ok
    PROVE  /\ CmdReply(req) \in Reply
           /\ CmdReply(req).status # "NOT_AUTH" => authenticated
           /\ Answers(CmdReply(req), req)
<1>1. CASE ~Allowed(req)
  <2>1. CmdReply(req) = CmdError("NOT_AUTH")
      BY <1>1 DEF CmdReply
  <2> QED BY <2>1, Replies DEF CmdError, Answers
<1>2. CASE Allowed(req)
  <2>1. authenticated
      BY <1>2 DEF Allowed
  <2>2. CASE req.cmd = "OTHER"
    <3>1. CmdReply(req) = CmdError("UNKNOWN_CMD")
        BY <1>2, <2>2 DEF CmdReply
    <3> QED BY <2>1, <3>1, Replies DEF Answers, CmdError
  <2>3. CASE req.cmd = "ECHO"
    <3>1. req.args \in Args
        BY <2>3, CommandRequest DEF Commands
    <3>2. CmdReply(req) = Echoed(req.args)
        BY <1>2, <2>3 DEF CmdReply
    <3> QED BY <2>1, <2>3, <3>1, <3>2, Replies DEF Answers, Echoed
  <2>4. CASE req.cmd \notin {"OTHER", "ECHO"}
    <3>1. req.cmd \in Commands \ {"OTHER"}
        BY <2>4, CommandRequest
    <3>2. CmdReply(req) = Output(req.cmd)
        BY <1>2, <2>4 DEF CmdReply
    <3> QED BY <2>1, <2>4, <3>1, <3>2, Replies DEF Answers, Output
  <2> QED BY <2>2, <2>3, <2>4
<1> QED BY <1>1, <1>2

\* A handler sends one reply, an answer, whose command was let through, if it
\* has one.
LEMMA HandlerReply ==
    ASSUME TypeOK, NEW c \in Conns, Handler(c)
    PROVE  /\ \E reply \in Reply : \E type, outcome :
                /\ Receives(c, type) /\ Emit(c, <<reply>>) /\ Conclude(c, outcome, FALSE)
                /\ reply.type = "CMD_RESP" /\ reply.status # "NOT_AUTH" =>
                     authenticated /\ UNCHANGED admitted
                /\ Answers(reply, Head(inbox[c])) /\ ~Silent(Head(inbox[c]))
           /\ UNCHANGED <<peer, asked>>
<1> DEFINE req == Head(inbox[c])
<1>1. CASE HandleAuth(c)
  <2>1. Receives(c, "AUTH_REQ")
      BY <1>1 DEF HandleAuth
  <2>2. \E success \in BOOLEAN, tok \in Tokens :
          Respond(c, AuthResp(success, tok)) /\ (success <=> Valid(req))
      BY <1>1, CredentialsAssumption DEF HandleAuth
  <2>3. PICK success \in BOOLEAN, tok \in Tokens :
          Respond(c, AuthResp(success, tok)) /\ (success <=> Valid(req))
      BY <2>2
  <2>4. AuthResp(success, tok) \in Reply /\ AuthResp(success, tok).type # "CMD_RESP"
      BY Replies DEF AuthResp
  <2>5. req.type = "AUTH_REQ"
      BY <2>1, ReceivesFacts DEF TypeOK
  <2> HIDE DEF req
  <2>6. Answers(AuthResp(success, tok), req) /\ ~Silent(req)
      BY <2>3, <2>5 DEF Answers, AuthResp, Silent, Short, UnknownType
  <2> QED BY <2>1, <2>3, <2>4, <2>6 DEF Respond, req
<1>2. CASE HandleCmd(c)
  <2>1. Receives(c, "CMD_REQ") /\ req.ok /\ Respond(c, CmdReply(req)) /\ UNCHANGED admitted
      BY <1>2 DEF HandleCmd
  <2>2. req \in Request /\ req.type = "CMD_REQ"
      BY <2>1, ReceivesFacts DEF TypeOK
  <2> HIDE DEF req
  <2>3. /\ CmdReply(req) \in Reply /\ (CmdReply(req).status # "NOT_AUTH" => authenticated)
        /\ Answers(CmdReply(req), req)
      BY <2>1, <2>2, CmdReplyFacts
  <2>4. ~Silent(req)
      BY <2>1, <2>2 DEF Silent, Short, UnknownType
  <2> QED BY <2>1, <2>3, <2>4 DEF Respond, req
<1>3. CASE HandlePing(c)
  <2>1. Receives(c, "PING") /\ Respond(c, Pong)
      BY <1>3 DEF HandlePing
  <2>2. Pong \in Reply /\ Pong.type # "CMD_RESP"
      BY Replies DEF Pong
  <2>3. req.type = "PING"
      BY <2>1, ReceivesFacts DEF TypeOK
  <2> HIDE DEF req
  <2>4. Answers(Pong, req) /\ ~Silent(req)
      BY <2>3 DEF Answers, Silent, Short, UnknownType
  <2> QED BY <2>1, <2>2, <2>4 DEF Respond, req
<1> QED BY <1>1, <1>2, <1>3 DEF Handler

-----------------------------------------------------------------------------
(***************************************************************************)
(* Every step keeps the types.                                             *)
(***************************************************************************)
LEMMA TypeInit == Init => TypeOK
<1> SUFFICES ASSUME Init PROVE TypeOK
    OBVIOUS
<1>1. TcpTypes(Request, Reply)
  <2>1. <<>> \in Seq(Conns) /\ <<>> \in Seq(Request) /\ <<>> \in Seq(Reply)
      OBVIOUS
  <2> QED BY <2>1 DEF Init, TcpInit, TcpTypes
<1>2. [c \in Conns |-> FALSE] \in [Conns -> BOOLEAN]
    OBVIOUS
<1> QED BY <1>1, <1>2, CredentialsAssumption DEF Init, TypeOK

\* What the server keeps for itself.
Own == session_token \in Tokens /\ authenticated \in BOOLEAN /\ admitted \in [Conns -> BOOLEAN]

LEMMA OwnKept ==
    ASSUME TypeOK, [Next]_vars
    PROVE  Own'
<1> USE DEF TypeOK, Own, session
<1>1. ASSUME NEW c \in Conns, HandleAuth(c)
      PROVE  Own'
  <2>1. CASE Valid(Head(inbox[c]))
    <3>1. (peer[c] = "open") \in BOOLEAN
        OBVIOUS
    <3>2. admitted' \in [Conns -> BOOLEAN]
        BY <1>1, <2>1, <3>1 DEF HandleAuth
    <3>3. session_token' \in Tokens
        BY <1>1, <2>1, CredentialsAssumption DEF HandleAuth
    <3>4. authenticated' \in BOOLEAN
        BY <1>1, <2>1 DEF HandleAuth
    <3> QED BY <3>2, <3>3, <3>4
  <2>2. CASE ~Valid(Head(inbox[c]))
      BY <1>1, <2>2 DEF HandleAuth
  <2> QED BY <2>1, <2>2
<1>2. ASSUME NEW c \in Conns, Accept(c)
      PROVE  Own'
  BY <1>2 DEF Accept, FreshSession
<1>3. ASSUME NEW c \in Conns, Connect(c) \/ Hangup(c)
      PROVE  Own'
  BY <1>3 DEF Connect, Hangup
<1>4. ASSUME UNCHANGED <<session, admitted>>
      PROVE  Own'
  BY <1>4
<1> QED BY <1>1, <1>2, <1>3, <1>4
        DEF Next, vars, ServerStep, PeerStep, ConnectionLost, Leave, Drop, HandleCmd,
            HandlePing, Submit, TakeReply, StopServer

LEMMA TypeNext ==
    ASSUME TypeOK, [Next]_vars
    PROVE  TypeOK'
<1>1. Own'
    BY OwnKept
<1>2. ASSUME NEW c \in Conns, PeerStep(c)
      PROVE  TcpTypes(Request, Reply)'
  <2>1. ASSUME NEW req \in Requests[c], Submit(c, req)
        PROVE  TcpTypes(Request, Reply)'
    <3>1. req \in Request
        BY RequestsAssumption
    <3>2. CASE Silent(req)
      <4>1. SubmitSilent(c, req)
          BY <2>1, <3>2 DEF Submit
      <4>2. Append(inbox[c], req) \in Seq(Request)
          BY <3>1, AppendProperties DEF TypeOK, TcpTypes
      <4> QED BY <4>1, <4>2 DEF SubmitSilent, TypeOK, TcpTypes
    <3>3. CASE ~Silent(req)
        BY <2>1, <3>1, <3>3, FrameTypes DEF Submit, TypeOK
    <3> QED BY <3>2, <3>3
  <2>2. CASE TcpConnect(c) \/ TcpTakeReply(c) \/ TcpHangup(c)
      BY <2>2, FrameTypes DEF TypeOK
  <2> QED BY <1>2, <2>1, <2>2 DEF PeerStep, Connect, TakeReply, Hangup
<1>3. ASSUME NEW c \in Conns, Handler(c)
      PROVE  TcpTypes(Request, Reply)'
  <2>1. PICK reply \in Reply : \E type, outcome, leave :
          Receives(c, type) /\ Emit(c, <<reply>>) /\ Conclude(c, outcome, leave)
      BY <1>3, HandlerReply
  <2>2. <<reply>> \in Seq(Reply)
      OBVIOUS
  <2>3. UNCHANGED <<peer, asked>>
      BY <1>3, HandlerReply
  <2>4. PICK type, outcome, leave :
          Receives(c, type) /\ Emit(c, <<reply>>) /\ Conclude(c, outcome, leave)
      BY <2>1
  <2> QED BY <2>2, <2>3, <2>4, HandlerTcp DEF TypeOK
<1>4. ASSUME NEW c \in Conns, Accept(c) \/ ConnectionLost(c)
      PROVE  TcpTypes(Request, Reply)'
  BY <1>4, FrameTypes DEF Accept, ConnectionLost, TypeOK
<1>5. ASSUME NEW c \in Conns, Leave(c)
      PROVE  TcpTypes(Request, Reply)'
  <2>1. <<>> \in Seq(Request)
      OBVIOUS
  <2> QED BY <1>5, <2>1 DEF Leave, CloseClient, TypeOK, TcpTypes
<1>6. ASSUME NEW c \in Conns, Drop(c)
      PROVE  TcpTypes(Request, Reply)'
  <2>1. inbox[c] \in Seq(Request) /\ inbox[c] # <<>>
      BY <1>6 DEF Drop, Receives, TypeOK, TcpTypes
  <2>2. Tail(inbox[c]) \in Seq(Request)
      BY <2>1, TailElements
  <2> QED BY <1>6, <2>2 DEF Drop, TypeOK, TcpTypes
<1>7. ASSUME StopServer
      PROVE  TcpTypes(Request, Reply)'
  <2>1. <<>> \in Seq(Request) /\ <<>> \in Seq(Conns)
      OBVIOUS
  <2> QED BY <1>7, <2>1 DEF StopServer, TcpStop, Die, TypeOK, TcpTypes
<1>8. ASSUME UNCHANGED vars
      PROVE  TcpTypes(Request, Reply)'
  BY <1>8 DEF TypeOK, TcpTypes, vars, tcp
<1>9. TcpTypes(Request, Reply)'
    BY <1>2, <1>3, <1>4, <1>5, <1>6, <1>7, <1>8 DEF Next, ServerStep, Handler
<1> QED BY <1>1, <1>9 DEF Own, TypeOK

-----------------------------------------------------------------------------
(***************************************************************************)
(* Requests with and without an answer: what a step does to either end of  *)
(* a connection keeps what is still to be answered in its order.           *)
(***************************************************************************)
\* at places the requests of q numbered in I at the answered frames of b, which
\* are numbered in J.
Places(at, q, I, b, J) ==
    /\ at \in [I -> J]
    /\ \A i, j \in I : i < j => at[i] < at[j]
    /\ \A i \in I : b[at[i]] = q[i]
    /\ \A k \in J : ~Silent(b[k]) <=> \E i \in I : at[i] = k

LEMMA UnansweredIs ==
    ASSUME NEW q, NEW n, NEW b
    PROVE  Unanswered(q, n, b) <=> \E at : Places(at, q, n + 1..Len(q), b, DOMAIN b)
BY DEF Unanswered, Places

LEMMA UnansweredNone == Unanswered(<<>>, 0, <<>>)
<1> DEFINE at == [i \in 1..0 |-> i]
<1>1. DOMAIN <<>> = {} /\ Len(<<>>) = 0 /\ 0 + 1 = 1 /\ 1..0 = {}
    OBVIOUS
<1>2. at \in [1..0 -> {}]
    BY <1>1
<1> QED BY <1>1, <1>2 DEF Unanswered

\* A request that gets an answer is sent.
LEMMA UnansweredAsk ==
    ASSUME NEW q \in Seq(Request), NEW b \in Seq(Request), NEW n \in Nat, n <= Len(q),
           Unanswered(q, n, b), NEW e \in Request, ~Silent(e)
    PROVE  Unanswered(Append(q, e), n, Append(b, e))
<1> PICK m, l, q1, b1 : m = Len(q) /\ l = Len(b) /\ q1 = Append(q, e) /\ b1 = Append(b, e)
    OBVIOUS
<1>1. /\ m \in Nat /\ l \in Nat /\ n <= m /\ DOMAIN b = 1..l
      /\ Len(q1) = m + 1 /\ DOMAIN b1 = 1..l + 1
      /\ \A i \in 1..m : q1[i] = q[i]
      /\ \A k \in 1..l : b1[k] = b[k]
      /\ q1[m + 1] = e /\ b1[l + 1] = e
    BY AppendFacts
<1>0. PICK at : Places(at, q, n + 1..m, b, 1..l)
    BY <1>1, UnansweredIs
<1>2. /\ at \in [n + 1..m -> 1..l]
      /\ \A i, j \in n + 1..m : i < j => at[i] < at[j]
      /\ \A i \in n + 1..m : b[at[i]] = q[i]
      /\ \A k \in 1..l : ~Silent(b[k]) <=> \E i \in n + 1..m : at[i] = k
    BY <1>0 DEF Places
<1> DEFINE at1 == [i \in n + 1..m + 1 |-> IF i = m + 1 THEN l + 1 ELSE at[i]]
<1>3. /\ m + 1 \in n + 1..m + 1 /\ at1[m + 1] = l + 1
      /\ \A i \in n + 1..m : at1[i] = at[i] /\ at[i] \in 1..l /\ i \in n + 1..m + 1
      /\ \A i \in n + 1..m + 1 : i \in n + 1..m \/ i = m + 1
  <2>1. m + 1 \in n + 1..m + 1
      BY <1>1
  <2>2. \A i \in n + 1..m + 1 : i \in n + 1..m \/ i = m + 1
      BY <1>1
  <2>3. \A i \in n + 1..m : i \in n + 1..m + 1 /\ i # m + 1
      BY <1>1
  <2>4. \A i \in n + 1..m : at[i] \in 1..l
      BY <1>2
  <2> QED BY <2>1, <2>2, <2>3, <2>4
<1>4. at1 \in [n + 1..m + 1 -> 1..l + 1]
  <2>1. \A i \in n + 1..m + 1 : (IF i = m + 1 THEN l + 1 ELSE at[i]) \in 1..l + 1
    <3>1. \A k \in 1..l : k \in 1..l + 1
        BY <1>1
    <3>2. l + 1 \in 1..l + 1
        BY <1>1
    <3> QED BY <1>3, <3>1, <3>2
  <2> QED BY <2>1
<1> HIDE DEF at1
<1>5. ASSUME NEW i \in n + 1..m + 1, NEW j \in n + 1..m + 1, i < j
      PROVE  at1[i] < at1[j]
  <2>1. i \in n + 1..m
      BY <1>1, <1>5
  <2>2. CASE j = m + 1
      BY <1>1, <1>3, <2>1, <2>2
  <2>3. CASE j \in n + 1..m
      BY <1>2, <1>3, <1>5, <2>1, <2>3
  <2> QED BY <1>3, <2>2, <2>3
<1>6. \A i \in n + 1..m + 1 : b1[at1[i]] = q1[i]
  <2>1. \A i \in n + 1..m : b1[at1[i]] = b[at[i]] /\ q1[i] = q[i]
      BY <1>1, <1>3
  <2> QED BY <1>1, <1>2, <1>3, <2>1
<1>7. \A k \in 1..l + 1 : ~Silent(b1[k]) <=> \E i \in n + 1..m + 1 : at1[i] = k
  <2>1. ASSUME NEW k \in 1..l
        PROVE  ~Silent(b1[k]) <=> \E i \in n + 1..m + 1 : at1[i] = k
    <3>1. b1[k] = b[k] /\ l + 1 # k
        BY <1>1
    <3>2. (\E i \in n + 1..m + 1 : at1[i] = k) <=> \E i \in n + 1..m : at[i] = k
        BY <1>3, <3>1
    <3> QED BY <1>2, <3>1, <3>2
  <2>2. ~Silent(b1[l + 1]) /\ \E i \in n + 1..m + 1 : at1[i] = l + 1
      BY <1>1, <1>3
  <2>3. \A k \in 1..l + 1 : k \in 1..l \/ k = l + 1
      BY <1>1
  <2> QED BY <2>1, <2>2, <2>3
<1>8. Places(at1, q1, n + 1..m + 1, b1, 1..l + 1)
    BY <1>4, <1>5, <1>6, <1>7 DEF Places
<1> QED BY <1>1, <1>8, UnansweredIs

\* A frame that gets none is sent.
LEMMA UnansweredSilent ==
    ASSUME NEW q \in Seq(Request), NEW b \in Seq(Request), NEW n \in Nat,
           Unanswered(q, n, b), NEW e \in Request, Silent(e)
    PROVE  Unanswered(q, n, Append(b, e))
<1> PICK m, l, b1 : m = Len(q) /\ l = Len(b) /\ b1 = Append(b, e)
    OBVIOUS
<1>1. /\ m \in Nat /\ l \in Nat /\ DOMAIN b = 1..l /\ DOMAIN b1 = 1..l + 1
      /\ \A k \in 1..l : b1[k] = b[k]
      /\ b1[l + 1] = e
    BY AppendFacts, LenProperties
<1>0. PICK at : Places(at, q, n + 1..m, b, 1..l)
    BY <1>1, UnansweredIs
<1>2. /\ at \in [n + 1..m -> 1..l]
      /\ \A i, j \in n + 1..m : i < j => at[i] < at[j]
      /\ \A i \in n + 1..m : b[at[i]] = q[i]
      /\ \A k \in 1..l : ~Silent(b[k]) <=> \E i \in n + 1..m : at[i] = k
    BY <1>0 DEF Places
<1>3. /\ \A i \in n + 1..m : at[i] \in 1..l /\ at[i] \in 1..l + 1 /\ at[i] # l + 1
      /\ \A k \in 1..l + 1 : k \in 1..l \/ k = l + 1
  <2>1. \A i \in n + 1..m : at[i] \in 1..l
      BY <1>2
  <2>2. \A k \in 1..l : k \in 1..l + 1 /\ k # l + 1
      BY <1>1
  <2>3. \A k \in 1..l + 1 : k \in 1..l \/ k = l + 1
      BY <1>1
  <2> QED BY <2>1, <2>2, <2>3
<1>4. at \in [n + 1..m -> 1..l + 1]
    BY <1>2, <1>3
<1>5. \A i \in n + 1..m : b1[at[i]] = q[i]
    BY <1>1, <1>2, <1>3
<1>6. \A k \in 1..l + 1 : ~Silent(b1[k]) <=> \E i \in n + 1..m : at[i] = k
    BY <1>1, <1>2, <1>3
<1>7. Places(at, q, n + 1..m, b1, 1..l + 1)
    BY <1>2, <1>4, <1>5, <1>6 DEF Places
<1> QED BY <1>1, <1>7, UnansweredIs

\* The peer reads a reply.
LEMMA UnansweredTake ==
    ASSUME NEW q \in Seq(Request), NEW b \in Seq(Request), NEW n \in Nat \ {0}, n <= Len(q),
           Unanswered(q, n, b)
    PROVE  Unanswered(Tail(q), n - 1, b)
<1> PICK m, l, q1 : m = Len(q) /\ l = Len(b) /\ q1 = Tail(q)
    OBVIOUS
<1>1. /\ m \in Nat \ {0} /\ l \in Nat /\ n <= m /\ DOMAIN b = 1..l /\ Len(q1) = m - 1
      /\ \A i \in 1..m - 1 : q1[i] = q[i + 1]
    BY TailFacts, LenProperties, EmptySeq
<1>0. PICK at : Places(at, q, n + 1..m, b, 1..l)
    BY <1>1, UnansweredIs
<1>2. /\ at \in [n + 1..m -> 1..l]
      /\ \A i, j \in n + 1..m : i < j => at[i] < at[j]
      /\ \A i \in n + 1..m : b[at[i]] = q[i]
      /\ \A k \in 1..l : ~Silent(b[k]) <=> \E i \in n + 1..m : at[i] = k
    BY <1>0 DEF Places
<1> DEFINE at1 == [i \in n..m - 1 |-> at[i + 1]]
<1>3. /\ \A i \in n..m - 1 : i + 1 \in n + 1..m /\ at1[i] = at[i + 1] /\ q1[i] = q[i + 1]
      /\ \A i \in n + 1..m : i - 1 \in n..m - 1 /\ at1[i - 1] = at[i]
    BY <1>1
<1>4. at1 \in [n..m - 1 -> 1..l]
    BY <1>2, <1>3
<1> HIDE DEF at1
<1>5. ASSUME NEW i \in n..m - 1, NEW j \in n..m - 1, i < j
      PROVE  at1[i] < at1[j]
  <2>1. i + 1 < j + 1
      BY <1>1, <1>5
  <2> QED BY <1>2, <1>3, <2>1
<1>6. \A i \in n..m - 1 : b[at1[i]] = q1[i]
    BY <1>2, <1>3
<1>7. ASSUME NEW k \in 1..l
      PROVE  (\E i \in n + 1..m : at[i] = k) <=> \E i \in n..m - 1 : at1[i] = k
    BY <1>3
<1>8. (n - 1) + 1 = n
    OBVIOUS
<1>9. \A k \in 1..l : ~Silent(b[k]) <=> \E i \in n..m - 1 : at1[i] = k
    BY <1>2, <1>7
<1>10. Places(at1, q1, n..m - 1, b, 1..l)
    BY <1>4, <1>5, <1>6, <1>9 DEF Places
<1> QED BY <1>1, <1>8, <1>10, UnansweredIs

\* The server takes the first frame, which is silent or the next to be answered.
LEMMA UnansweredNext ==
    ASSUME NEW q \in Seq(Request), NEW b \in Seq(Request), NEW n \in Nat, n <= Len(q),
           b # <<>>, Unanswered(q, n, b)
    PROVE  /\ Silent(Head(b)) => Unanswered(q, n, Tail(b))
           /\ ~Silent(Head(b)) =>
                /\ n < Len(q) /\ q[n + 1] = Head(b)
                /\ Unanswered(q, n + 1, Tail(b))
<1> PICK m, l, b1 : m = Len(q) /\ l = Len(b) /\ b1 = Tail(b)
    OBVIOUS
<1>1. /\ m \in Nat /\ l \in Nat \ {0} /\ n <= m /\ DOMAIN b = 1..l /\ DOMAIN b1 = 1..l - 1
      /\ \A k \in 1..l - 1 : b1[k] = b[k + 1]
      /\ Head(b) = b[1]
    BY TailFacts, TailElements, LenProperties
<1>0. PICK at : Places(at, q, n + 1..m, b, 1..l)
    BY <1>1, UnansweredIs
<1>2. /\ at \in [n + 1..m -> 1..l]
      /\ \A i, j \in n + 1..m : i < j => at[i] < at[j]
      /\ \A i \in n + 1..m : b[at[i]] = q[i]
      /\ \A k \in 1..l : ~Silent(b[k]) <=> \E i \in n + 1..m : at[i] = k
    BY <1>0 DEF Places
\* Whatever is left when the first frame of b has been dealt with.
<1>3. ASSUME NEW p \in {n, n + 1}, p <= m, \A i \in p + 1..m : at[i] # 1,
             \A i \in n + 1..m : i \notin p + 1..m => at[i] = 1
      PROVE  Unanswered(q, p, b1)
  <2> DEFINE at1 == [i \in p + 1..m |-> at[i] - 1]
  <2>1. \A i \in p + 1..m : i \in n + 1..m /\ at[i] \in 2..l
      BY <1>1, <1>2, <1>3
  <2>2. at1 \in [p + 1..m -> 1..l - 1] /\ \A i \in p + 1..m : at1[i] = at[i] - 1
    <3>1. \A i \in p + 1..m : at[i] - 1 \in 1..l - 1
        BY <1>1, <2>1
    <3> QED BY <3>1
  <2> HIDE DEF at1
  <2>3. ASSUME NEW i \in p + 1..m, NEW j \in p + 1..m, i < j
        PROVE  at1[i] < at1[j]
    <3>1. at[i] < at[j]
        BY <1>2, <2>1, <2>3
    <3> QED BY <1>1, <2>1, <2>2, <3>1
  <2>4. ASSUME NEW i \in p + 1..m
        PROVE  b1[at1[i]] = q[i]
    <3>1. at1[i] \in 1..l - 1 /\ at1[i] + 1 = at[i]
        BY <1>1, <2>1, <2>2
    <3> QED BY <1>1, <1>2, <2>1, <3>1
  <2>5. ASSUME NEW k \in 1..l - 1
        PROVE  ~Silent(b1[k]) <=> \E i \in p + 1..m : at1[i] = k
    <3>1. k + 1 \in 1..l /\ k + 1 # 1 /\ b1[k] = b[k + 1]
        BY <1>1
    <3>2. ~Silent(b[k + 1]) <=> \E i \in n + 1..m : at[i] = k + 1
        BY <1>2, <3>1
    <3>3. \A i \in n + 1..m : at[i] = k + 1 => i \in p + 1..m
        BY <1>3, <3>1
    <3>4. \A i \in p + 1..m : at[i] = k + 1 <=> at1[i] = k
        BY <1>1, <2>1, <2>2
    <3> QED BY <2>1, <3>1, <3>2, <3>3, <3>4
  <2>6. Places(at1, q, p + 1..m, b1, 1..l - 1)
      BY <2>2, <2>3, <2>4, <2>5 DEF Places
  <2> QED BY <1>1, <2>6, UnansweredIs
<1>4. CASE Silent(b[1])
  <2>1. \A i \in n + 1..m : at[i] # 1
      BY <1>1, <1>2, <1>4
  <2>2. Unanswered(q, n, b1)
      BY <1>3, <1>1, <2>1
  <2> QED BY <1>1, <1>4, <2>2
<1>5. CASE ~Silent(b[1])
  <2>1. PICK i \in n + 1..m : at[i] = 1
      BY <1>1, <1>2, <1>5
  <2>2. n + 1 \in n + 1..m /\ n + 1 <= m /\ n < m
      BY <1>1, <2>1
  <2>3. at[n + 1] = 1
    <3>1. at[n + 1] \in 1..l
        BY <1>2, <2>2
    <3>2. i # n + 1 => at[n + 1] < 1
        BY <1>1, <1>2, <2>1, <2>2
    <3> QED BY <1>1, <2>1, <3>1, <3>2
  <2>4. \A j \in (n + 1) + 1..m : at[j] # 1
    <3> TAKE j \in (n + 1) + 1..m
    <3>1. j \in n + 1..m /\ n + 1 < j
        BY <1>1
    <3>2. at[n + 1] < at[j] /\ at[j] \in 1..l
        BY <1>2, <2>2, <3>1
    <3> QED BY <1>1, <2>3, <3>2
  <2>5. \A j \in n + 1..m : j \notin (n + 1) + 1..m => at[j] = 1
    <3>1. \A j \in n + 1..m : j \notin (n + 1) + 1..m => j = n + 1
        BY <1>1
    <3> QED BY <2>3, <3>1
  <2>6. Unanswered(q, n + 1, b1)
      BY <1>3, <2>2, <2>4, <2>5
  <2>7. q[n + 1] = b[1]
      BY <1>2, <2>2, <2>3
  <2> QED BY <1>1, <1>5, <2>2, <2>6, <2>7
<1> QED BY <1>4, <1>5

-----------------------------------------------------------------------------
(***************************************************************************)
(* Replies stay in step with requests.                                     *)
(***************************************************************************)
Paired(c) ==
    peer[c] = "open" =>
        /\ Len(outbox[c]) <= Len(asked[c])
        /\ \A i \in 1..Len(outbox[c]) : Answers(outbox[c][i], asked[c][i])
        /\ Held(c) => Unanswered(asked[c], Len(outbox[c]), inbox[c])

LEMMA InStepIs == InStep <=> \A c \in Conns : Paired(c)
BY DEF InStep, Paired

\* A connection the step is not about, or that loses its server.
LEMMA PairedKept ==
    ASSUME NEW d \in Conns, Paired(d), peer'[d] = peer[d], outbox'[d] = outbox[d],
           asked'[d] = asked[d], Held(d)' => Held(d) /\ inbox'[d] = inbox[d]
    PROVE  Paired(d)'
BY DEF Paired

LEMMA PairedSubmit ==
    ASSUME TypeOK, NEW c \in Conns, NEW req \in Request, Submit(c, req), Paired(c)
    PROVE  Paired(c)'
<1>1. /\ inbox[c] \in Seq(Request) /\ asked[c] \in Seq(Request) /\ outbox[c] \in Seq(Reply)
      /\ peer[c] = "open" /\ Held(c)
    BY DEF TypeOK, TcpTypes, Submit, SubmitSilent, TcpSubmit
<1>2. /\ Len(outbox[c]) \in Nat /\ Len(asked[c]) \in Nat /\ Len(outbox[c]) <= Len(asked[c])
      /\ \A i \in 1..Len(outbox[c]) : Answers(outbox[c][i], asked[c][i])
      /\ Unanswered(asked[c], Len(outbox[c]), inbox[c])
    BY <1>1, LenProperties DEF Paired
<1>3. UNCHANGED <<served, backlog, peer, outbox>> /\ inbox'[c] = Append(inbox[c], req)
    BY DEF Submit, SubmitSilent, TcpSubmit, TypeOK, TcpTypes
<1>4. CASE Silent(req)
  <2>1. asked' = asked
      BY <1>4 DEF Submit, SubmitSilent
  <2>2. Unanswered(asked[c], Len(outbox[c]), Append(inbox[c], req))
      BY <1>1, <1>2, <1>4, UnansweredSilent
  <2> QED BY <1>2, <1>3, <2>1, <2>2 DEF Paired
<1>5. CASE ~Silent(req)
  <2>1. asked'[c] = Append(asked[c], req)
      BY <1>5 DEF Submit, TcpSubmit, TypeOK, TcpTypes
  <2>2. Unanswered(Append(asked[c], req), Len(outbox[c]), Append(inbox[c], req))
      BY <1>1, <1>2, <1>5, UnansweredAsk
  <2>3. /\ Len(Append(asked[c], req)) = Len(asked[c]) + 1
        /\ \A i \in 1..Len(asked[c]) : Append(asked[c], req)[i] = asked[c][i]
      BY <1>1, AppendFacts
  <2>4. \A i \in 1..Len(outbox[c]) : Append(asked[c], req)[i] = asked[c][i]
      BY <1>2, <2>3
  <2>5. Len(outbox[c]) <= Len(Append(asked[c], req))
      BY <1>2, <2>3
  <2> QED BY <1>2, <1>3, <2>1, <2>2, <2>4, <2>5 DEF Paired
<1> QED BY <1>4, <1>5

LEMMA PairedTake ==
    ASSUME TypeOK, NEW c \in Conns, TcpTakeReply(c), Paired(c)
    PROVE  Paired(c)'
<1>1. /\ inbox[c] \in Seq(Request) /\ asked[c] \in Seq(Request) /\ outbox[c] \in Seq(Reply)
      /\ peer[c] = "open" /\ outbox[c] # <<>>
    BY DEF TypeOK, TcpTypes, TcpTakeReply
<1> PICK n, m : n = Len(outbox[c]) /\ m = Len(asked[c])
    OBVIOUS
<1>2. /\ n \in Nat \ {0} /\ m \in Nat /\ n <= m /\ asked[c] # <<>>
      /\ \A i \in 1..n : Answers(outbox[c][i], asked[c][i])
      /\ Held(c) => Unanswered(asked[c], n, inbox[c])
  <2>1. /\ n <= m
        /\ \A i \in 1..n : Answers(outbox[c][i], asked[c][i])
        /\ Held(c) => Unanswered(asked[c], n, inbox[c])
      BY <1>1 DEF Paired
  <2>2. n \in Nat /\ m \in Nat /\ n # 0
      BY <1>1, LenProperties, EmptySeq
  <2>3. m # 0
      BY <2>1, <2>2
  <2>4. asked[c] # <<>>
      BY <1>1, <2>3, EmptySeq
  <2> QED BY <2>1, <2>2, <2>4
<1>3. /\ UNCHANGED <<served, backlog, peer, inbox>>
      /\ outbox'[c] = Tail(outbox[c]) /\ asked'[c] = Tail(asked[c])
    BY <1>2 DEF TcpTakeReply, TypeOK, TcpTypes
<1>4. /\ Len(Tail(outbox[c])) = n - 1 /\ \A i \in 1..n - 1 : Tail(outbox[c])[i] = outbox[c][i + 1]
      /\ Len(Tail(asked[c])) = m - 1 /\ \A i \in 1..m - 1 : Tail(asked[c])[i] = asked[c][i + 1]
    BY <1>1, <1>2, TailFacts
<1>5. Held(c) => Unanswered(Tail(asked[c]), n - 1, inbox[c])
    BY <1>1, <1>2, UnansweredTake
<1>6. \A i \in 1..n - 1 : i + 1 \in 1..n /\ i \in 1..m - 1
    BY <1>2
<1>7. \A i \in 1..n - 1 : Answers(Tail(outbox[c])[i], Tail(asked[c])[i])
    BY <1>2, <1>4, <1>6
<1>8. n - 1 <= m - 1
    BY <1>2
<1>9. Held(c)' <=> Held(c)
    BY <1>3 DEF Held
<1> QED BY <1>3, <1>4, <1>5, <1>7, <1>8, <1>9 DEF Paired

\* The server takes the first frame, and drops it or answers it.
LEMMA PairedNext ==
    ASSUME TypeOK, NEW c \in Conns, c = served, inbox[c] # <<>>, Paired(c),
           UNCHANGED <<peer, asked>>, Held(c)' => inbox'[c] = Tail(inbox[c]),
           \/ Silent(Head(inbox[c])) /\ UNCHANGED outbox
           \/ /\ ~Silent(Head(inbox[c]))
              /\ \E r \in Reply : Emit(c, <<r>>) /\ Answers(r, Head(inbox[c]))
    PROVE  Paired(c)'
<1> SUFFICES ASSUME peer[c] = "open" PROVE Paired(c)'
    BY DEF Paired
<1>1. /\ inbox[c] \in Seq(Request) /\ asked[c] \in Seq(Request) /\ outbox[c] \in Seq(Reply)
      /\ Held(c)
    BY DEF TypeOK, TcpTypes, Held
<1> PICK n, m : n = Len(outbox[c]) /\ m = Len(asked[c])
    OBVIOUS
<1>2. /\ n \in Nat /\ m \in Nat /\ n <= m
      /\ \A i \in 1..n : Answers(outbox[c][i], asked[c][i])
      /\ Unanswered(asked[c], n, inbox[c])
    BY <1>1, LenProperties DEF Paired
<1>3. CASE Silent(Head(inbox[c])) /\ UNCHANGED outbox
  <2>1. Unanswered(asked[c], n, Tail(inbox[c]))
      BY <1>1, <1>2, <1>3, UnansweredNext
  <2> QED BY <1>2, <1>3, <2>1 DEF Paired
<1>4. ASSUME ~Silent(Head(inbox[c])),
             NEW r \in Reply, Emit(c, <<r>>), Answers(r, Head(inbox[c]))
      PROVE  Paired(c)'
  <2>1. /\ n < m /\ asked[c][n + 1] = Head(inbox[c])
        /\ Unanswered(asked[c], n + 1, Tail(inbox[c]))
      BY <1>1, <1>2, <1>4, UnansweredNext
  <2>2. outbox'[c] = Append(outbox[c], r)
    <3>1. outbox'[c] = outbox[c] \o <<r>>
        BY <1>4 DEF Emit, TypeOK, TcpTypes
    <3> QED BY <1>1, <1>4, <3>1
  <2>3. /\ Len(outbox'[c]) = n + 1 /\ outbox'[c][n + 1] = r
        /\ \A i \in 1..n : outbox'[c][i] = outbox[c][i]
      BY <1>1, <1>4, <2>2, AppendFacts
  <2>4. \A i \in 1..n + 1 : Answers(outbox'[c][i], asked[c][i])
    <3>1. \A i \in 1..n + 1 : i \in 1..n \/ i = n + 1
        BY <1>2
    <3> QED BY <1>2, <1>4, <2>1, <2>3, <3>1
  <2>5. n + 1 <= m
      BY <1>2, <2>1
  <2> QED BY <2>1, <2>3, <2>4, <2>5 DEF Paired
<1> QED BY <1>3, <1>4

\* A frame that is dropped gets no answer.
LEMMA DropSilent ==
    ASSUME TypeOK, NEW c \in Conns, Drop(c)
    PROVE  c = served /\ inbox[c] # <<>> /\ Silent(Head(inbox[c]))
<1> DEFINE req == Head(inbox[c])
<1>1. /\ c = served /\ inbox[c] # <<>> /\ req \in Request
      /\ (req.type = "CMD_REQ" /\ ~req.ok) \/ req.type = "UNKNOWN_TYPE"
    BY ReceivesFacts DEF Drop, Receives, TypeOK
<1> HIDE DEF req
<1>2. \/ req \in [type : {"AUTH_REQ"}, ok : {TRUE}, user : Users, hash : Hashes]
      \/ req \in [type : {"CMD_REQ"}, ok : {TRUE}, token : Tokens, cmd : Commands]
      \/ req \in [type : {"CMD_REQ"}, ok : {TRUE}, token : Tokens, cmd : {"ECHO"}, args : Args]
      \/ req \in {Short("AUTH_REQ"), Short("CMD_REQ"), UnknownType}
      \/ req \in {Ping, Disconnect, BadFrame}
    BY <1>1 DEF Request
<1>3. req \in [type : {"AUTH_REQ"}, ok : {TRUE}, user : Users, hash : Hashes]
        => req.type = "AUTH_REQ"
    OBVIOUS
<1>4. /\ req \in [type : {"CMD_REQ"}, ok : {TRUE}, token : Tokens, cmd : Commands]
            => req.type = "CMD_REQ" /\ req.ok
      /\ req \in [type : {"CMD_REQ"}, ok : {TRUE}, token : Tokens, cmd : {"ECHO"}, args : Args]
            => req.type = "CMD_REQ" /\ req.ok
    OBVIOUS
<1>5. req = Short("AUTH_REQ") \/ req \in {Ping, Disconnect, BadFrame}
        => req.type \notin {"CMD_REQ", "UNKNOWN_TYPE"}
    BY DEF Short, Ping, Disconnect, BadFrame
<1>6. req \in {Short("CMD_REQ"), UnknownType}
    BY <1>1, <1>2, <1>3, <1>4, <1>5
<1> QED BY <1>1, <1>6 DEF Silent, req

LEMMA InStepServer ==
    ASSUME TypeOK, Queue, InStep, NEW c \in Conns, ServerStep(c)
    PROVE  InStep'
<1>1. TcpTypes(Request, Reply) /\ \A d \in Conns : Paired(d)
    BY InStepIs DEF TypeOK
<1>2. CASE Accept(c)
  <2>1. TcpAccept(c) /\ UNCHANGED <<peer, inbox, outbox, asked>>
      BY <1>2 DEF Accept, TcpAccept
  <2>2. \A d \in Conns : Held(d)' => Held(d)
      BY <1>1, <2>1, HeldBefore
  <2>3. \A d \in Conns : Paired(d)'
      BY <1>1, <2>1, <2>2, PairedKept
  <2> QED BY <2>3 DEF InStep, Paired
<1>3. CASE ConnectionLost(c) \/ Leave(c)
  <2>1. c = served /\ CloseClient(c) /\ UNCHANGED <<peer, outbox, asked>>
      BY <1>3 DEF ConnectionLost, TcpLost, Leave, Receives
  <2>2. \A d \in Conns : Held(d)' => Held(d) /\ inbox'[d] = inbox[d]
      BY <2>1, ServiceAssumption DEF CloseClient, Held, Queue, TypeOK, TcpTypes
  <2>3. \A d \in Conns : Paired(d)'
      BY <1>1, <2>1, <2>2, PairedKept
  <2> QED BY <2>3 DEF InStep, Paired
<1>4. ASSUME UNCHANGED <<peer, asked>>, c = served, inbox[c] # <<>>,
             NEW outcome, Conclude(c, outcome, FALSE),
             NEW r \in Seq(Reply), Emit(c, r), Paired(c)'
      PROVE  InStep'
  <2>1. \A d \in Conns : d # c => /\ Held(d)' => Held(d) /\ inbox'[d] = inbox[d]
                                  /\ outbox'[d] = outbox[d]
      BY <1>1, <1>4, OthersAfter DEF Emit, TcpTypes
  <2>2. \A d \in Conns : d # c => Paired(d)'
      BY <1>1, <1>4, <2>1, PairedKept
  <2> QED BY <1>4, <2>2 DEF InStep, Paired
\* The loop goes on with the next frame, or the process has ended.
<1>5. ASSUME c = served, inbox[c] # <<>>, NEW outcome, Conclude(c, outcome, FALSE), Held(c)'
      PROVE  inbox'[c] = Tail(inbox[c])
  <2>1. CASE Die
    <3>1. DOMAIN <<>> = {} /\ c # NoConn
        BY ServiceAssumption
    <3> QED BY <1>5, <2>1, <3>1 DEF Die, Held
  <2>2. CASE inbox' = [inbox EXCEPT ![c] = Tail(@)]
      BY <1>1, <2>2 DEF TcpTypes
  <2> QED BY <1>5, <2>1, <2>2 DEF Conclude
<1>6. CASE Drop(c)
  <2>1. /\ c = served /\ inbox[c] # <<>> /\ Silent(Head(inbox[c]))
        /\ UNCHANGED <<peer, asked, outbox>> /\ inbox'[c] = Tail(inbox[c])
      BY <1>1, <1>6, DropSilent DEF Drop, TcpTypes
  <2>2. \A d \in Conns : d # c => (Held(d)' => Held(d) /\ inbox'[d] = inbox[d])
      BY <1>1, <1>6 DEF Drop, Held, TcpTypes
  <2>3. Paired(c)'
      BY <1>1, <2>1, PairedNext
  <2>4. \A d \in Conns : d # c => Paired(d)'
      BY <1>1, <2>1, <2>2, PairedKept
  <2> QED BY <2>3, <2>4 DEF InStep, Paired
<1>7. CASE Handler(c)
  <2>1. PICK r, type, outcome :
          /\ r \in Reply /\ Receives(c, type) /\ Emit(c, <<r>>) /\ Conclude(c, outcome, FALSE)
          /\ Answers(r, Head(inbox[c])) /\ ~Silent(Head(inbox[c]))
      BY <1>7, HandlerReply
  <2>2. UNCHANGED <<peer, asked>> /\ c = served /\ inbox[c] # <<>> /\ <<r>> \in Seq(Reply)
    <3>1. UNCHANGED <<peer, asked>>
        BY <1>7, HandlerReply
    <3>2. c = served /\ inbox[c] # <<>>
        BY <2>1 DEF Receives
    <3>3. <<r>> \in Seq(Reply)
        BY <2>1
    <3> QED BY <3>1, <3>2, <3>3
  <2>3. Held(c)' => inbox'[c] = Tail(inbox[c])
      BY <1>5, <2>1, <2>2
  <2>4. Paired(c)'
      BY <1>1, <2>1, <2>2, <2>3, PairedNext
  <2> QED BY <1>4, <2>1, <2>2, <2>4
<1> QED BY <1>2, <1>3, <1>6, <1>7 DEF ServerStep, Handler

LEMMA InStepPeer ==
    ASSUME TypeOK, Queue, InStep, NEW c \in Conns, PeerStep(c)
    PROVE  InStep'
<1>1. TcpTypes(Request, Reply) /\ \A d \in Conns : Paired(d)
    BY InStepIs DEF TypeOK
<1>2. ASSUME Paired(c)',
             \A d \in Conns : d # c => /\ peer'[d] = peer[d] /\ outbox'[d] = outbox[d]
                                       /\ asked'[d] = asked[d] /\ inbox'[d] = inbox[d]
                                       /\ Held(d)' => Held(d)
      PROVE  InStep'
  <2>1. \A d \in Conns : d # c => Paired(d)'
      BY <1>1, <1>2, PairedKept
  <2> QED BY <1>2, <2>1 DEF InStep, Paired
<1>3. CASE Connect(c)
  <2>1. TcpConnect(c)
      BY <1>3 DEF Connect
  <2>2. inbox'[c] = <<>> /\ outbox'[c] = <<>> /\ asked'[c] = <<>> /\ Len(<<>>) = 0
      BY <1>1, <2>1 DEF TcpConnect, TcpTypes
  <2>3. Paired(c)'
      BY <2>2, UnansweredNone DEF Paired
  <2>4. \A d \in Conns : d # c => /\ peer'[d] = peer[d] /\ outbox'[d] = outbox[d]
                                  /\ asked'[d] = asked[d] /\ inbox'[d] = inbox[d]
      BY <1>1, <2>1 DEF TcpConnect, TcpTypes
  <2>5. \A d \in Conns : d # c => (Held(d)' => Held(d))
      BY <1>1, <2>1, HeldBefore
  <2> QED BY <1>2, <2>3, <2>4, <2>5
<1>4. ASSUME NEW req \in Requests[c], Submit(c, req)
      PROVE  InStep'
  <2>1. req \in Request
      BY RequestsAssumption
  <2>2. Paired(c)'
      BY <1>1, <1>4, <2>1, PairedSubmit
  <2>3. \A d \in Conns : d # c => /\ peer'[d] = peer[d] /\ outbox'[d] = outbox[d]
                                  /\ asked'[d] = asked[d] /\ inbox'[d] = inbox[d]
                                  /\ Held(d)' => Held(d)
      BY <1>1, <1>4 DEF Submit, SubmitSilent, TcpSubmit, TcpTypes, Held
  <2> QED BY <1>2, <2>2, <2>3
<1>5. CASE TakeReply(c)
  <2>1. TcpTakeReply(c)
      BY <1>5 DEF TakeReply
  <2>2. Paired(c)'
      BY <1>1, <2>1, PairedTake
  <2>3. \A d \in Conns : d # c => /\ peer'[d] = peer[d] /\ outbox'[d] = outbox[d]
                                  /\ asked'[d] = asked[d] /\ inbox'[d] = inbox[d]
                                  /\ Held(d)' => Held(d)
      BY <1>1, <2>1 DEF TcpTakeReply, TcpTypes, Held
  <2> QED BY <1>2, <2>2, <2>3
<1>6. CASE Hangup(c)
  <2>1. TcpHangup(c)
      BY <1>6 DEF Hangup
  <2>2. peer'[c] = "closed"
      BY <1>1, <2>1 DEF TcpHangup, TcpTypes
  <2>3. \A d \in Conns : d # c => /\ peer'[d] = peer[d] /\ outbox'[d] = outbox[d]
                                  /\ asked'[d] = asked[d] /\ inbox'[d] = inbox[d]
                                  /\ Held(d)' => Held(d)
      BY <1>1, <2>1 DEF TcpHangup, TcpTypes, Held
  <2> QED BY <1>2, <2>2, <2>3 DEF Paired
<1> QED BY <1>3, <1>4, <1>5, <1>6 DEF PeerStep

LEMMA InStepNext ==
    ASSUME TypeOK, Queue, InStep, [Next]_vars
    PROVE  InStep'
<1>1. \A d \in Conns : Paired(d)
    BY InStepIs
<1>2. CASE StopServer
  <2>1. \A d \in Conns : ~Held(d)'
    <3>1. DOMAIN <<>> = {}
        OBVIOUS
    <3> QED BY <1>2, <3>1, ServiceAssumption DEF StopServer, TcpStop, Die, Held
  <2>2. UNCHANGED <<peer, outbox, asked>>
      BY <1>2 DEF StopServer, TcpStop
  <2>3. \A d \in Conns : Paired(d)'
      BY <1>1, <2>1, <2>2, PairedKept
  <2> QED BY <2>3 DEF InStep, Paired
<1>3. CASE UNCHANGED vars
  <2>1. \A d \in Conns : Paired(d)'
      BY <1>1, <1>3, PairedKept DEF vars, tcp, Held
  <2> QED BY <2>1 DEF InStep, Paired
<1> QED BY <1>2, <1>3, InStepServer, InStepPeer DEF Next

-----------------------------------------------------------------------------
(***************************************************************************)
(* Every step keeps the rest.                                              *)
(***************************************************************************)
LEMMA IInvInit == Init => IInv
<1> SUFFICES ASSUME Init PROVE IInv
    OBVIOUS
<1>1. DOMAIN <<>> = {}
    OBVIOUS
<1>2. \A c \in Conns : peer[c] # "open"
    BY DEF Init, TcpInit
<1> QED BY <1>1, <1>2, TypeInit DEF Init, TcpInit, IInv, Queue, CommandsAfterOwnAuth, InStep

\* What connections were sent and told stays.
LEMMA SocketsKept ==
    ASSUME CommandsAfterOwnAuth, UNCHANGED <<peer, outbox, admitted>>,
           \/ served' \in {served, NoConn} /\ UNCHANGED session
           \/ ~authenticated'
    PROVE  CommandsAfterOwnAuth'
BY ServiceAssumption DEF CommandsAfterOwnAuth, session

LEMMA HandlerKeeps ==
    ASSUME IInv, NEW c \in Conns, Handler(c)
    PROVE  Queue' /\ CommandsAfterOwnAuth'
<1>1. PICK reply \in Reply : \E type, outcome :
        /\ Receives(c, type) /\ Emit(c, <<reply>>) /\ Conclude(c, outcome, FALSE)
        /\ reply.type = "CMD_RESP" /\ reply.status # "NOT_AUTH" =>
             authenticated /\ UNCHANGED admitted
    BY HandlerReply DEF IInv
<1>2. UNCHANGED <<peer, asked>>
    BY HandlerReply DEF IInv
<1>3. c = served /\ served' \in {served, NoConn} /\ backlog' \in {backlog, <<>>}
    BY <1>1, ReceivesFacts, ConcludeFacts DEF IInv, TypeOK
<1>4. Queue'
    BY <1>3, QueueKept DEF IInv, TypeOK
<1>5. ASSUME NEW d \in Conns, peer[d] = "open", admitted[d]
      PROVE  admitted'[d]
  <2>1. CASE HandleAuth(c) /\ Valid(Head(inbox[c]))
      BY <1>5, <2>1 DEF HandleAuth, IInv, TypeOK
  <2>2. CASE ~(HandleAuth(c) /\ Valid(Head(inbox[c])))
      BY <1>5, <2>2 DEF Handler, HandleAuth, HandleCmd, HandlePing
  <2> QED BY <2>1, <2>2
<1>6. ASSUME peer[c] = "open", authenticated'
      PROVE  admitted'[c] /\ session_token' = Generated
  <2>1. CASE HandleAuth(c) /\ Valid(Head(inbox[c]))
      BY <1>6, <2>1 DEF HandleAuth, IInv, TypeOK
  <2>2. CASE ~(HandleAuth(c) /\ Valid(Head(inbox[c])))
    <3>1. UNCHANGED <<session, admitted>>
        BY <2>2 DEF Handler, HandleAuth, HandleCmd, HandlePing
    <3> QED BY <1>3, <1>6, <3>1 DEF IInv, CommandsAfterOwnAuth, session
  <2> QED BY <2>1, <2>2
<1>7. ASSUME NEW d \in Conns, peer[d] = "open", NEW i \in DOMAIN outbox'[d],
             outbox'[d][i].type = "CMD_RESP", outbox'[d][i].status # "NOT_AUTH"
      PROVE  admitted'[d]
  <2>1. CASE i \in DOMAIN outbox[d] /\ outbox'[d][i] = outbox[d][i]
      BY <1>5, <1>7, <2>1 DEF IInv, CommandsAfterOwnAuth
  <2>2. CASE d = c /\ outbox'[d][i] = reply
      BY <1>1, <1>3, <1>5, <1>7, <2>2 DEF IInv, CommandsAfterOwnAuth
  <2>3. \/ i \in DOMAIN outbox[d] /\ outbox'[d][i] = outbox[d][i]
        \/ d = c /\ outbox'[d][i] = reply
    <3> DEFINE replies == <<reply>>
    <3>1. replies \in Seq(Reply) /\ \A k \in DOMAIN replies : replies[k] = reply
        OBVIOUS
    <3>2. Emit(c, replies)
        BY <1>1
    <3> HIDE DEF replies
    <3>3. \/ i \in DOMAIN outbox[d] /\ outbox'[d][i] = outbox[d][i]
          \/ d = c /\ \E k \in DOMAIN replies : outbox'[d][i] = replies[k]
        BY <1>7, <3>1, <3>2, EmitReplies DEF IInv, TypeOK
    <3> QED BY <3>1, <3>3
  <2> QED BY <2>1, <2>2, <2>3
<1>8. \A d \in Conns : d = served' => d = c
    BY <1>3, ServiceAssumption
<1>9. CommandsAfterOwnAuth'
    BY <1>2, <1>6, <1>7, <1>8 DEF CommandsAfterOwnAuth
<1> QED BY <1>4, <1>9

LEMMA PeerKeeps ==
    ASSUME IInv, NEW c \in Conns, PeerStep(c)
    PROVE  Queue' /\ CommandsAfterOwnAuth'
<1>1. CASE Connect(c)
  <2>1. TcpConnect(c) /\ UNCHANGED session /\ admitted' = [admitted EXCEPT ![c] = FALSE]
      BY <1>1 DEF Connect
  <2>2. Queue'
      BY <2>1, QueueConnect DEF IInv, TypeOK
  <2>3. c # served' /\ served' = served
      BY <2>1, ConnectQueue DEF IInv, TypeOK
  <2>4. /\ outbox'[c] = <<>> /\ DOMAIN <<>> = {}
        /\ \A d \in Conns : d # c =>
              peer'[d] = peer[d] /\ outbox'[d] = outbox[d] /\ admitted'[d] = admitted[d]
      BY <2>1 DEF TcpConnect, IInv, TypeOK, TcpTypes
  <2>5. CommandsAfterOwnAuth'
      BY <2>1, <2>3, <2>4 DEF IInv, CommandsAfterOwnAuth, session
  <2> QED BY <2>2, <2>5
<1>2. ASSUME NEW req \in Requests[c], Submit(c, req)
      PROVE  Queue' /\ CommandsAfterOwnAuth'
  <2>1. UNCHANGED <<served, backlog, peer, outbox, session, admitted>>
      BY <1>2 DEF Submit, SubmitSilent, TcpSubmit
  <2> QED BY <2>1, SocketsKept DEF IInv, Queue
<1>3. CASE TakeReply(c)
  <2>1. UNCHANGED <<served, backlog, peer, session, admitted>> /\ TcpTakeReply(c)
      BY <1>3 DEF TakeReply, TcpTakeReply
  <2>2. \A d \in Conns : \A i \in DOMAIN outbox'[d] :
          \E j \in DOMAIN outbox[d] : outbox'[d][i] = outbox[d][j]
      BY <2>1, TakeReplies DEF IInv, TypeOK
  <2>3. CommandsAfterOwnAuth'
      BY <2>1, <2>2 DEF IInv, CommandsAfterOwnAuth, session
  <2> QED BY <2>1, <2>3 DEF IInv, Queue
<1>4. CASE Hangup(c)
  <2>1. TcpHangup(c) /\ UNCHANGED session /\ admitted' = [admitted EXCEPT ![c] = FALSE]
      BY <1>4 DEF Hangup
  <2>2. /\ peer'[c] = "closed" /\ UNCHANGED <<served, backlog>>
        /\ \A d \in Conns : d # c =>
              peer'[d] = peer[d] /\ outbox'[d] = outbox[d] /\ admitted'[d] = admitted[d]
      BY <2>1 DEF TcpHangup, IInv, TypeOK, TcpTypes
  <2>3. CommandsAfterOwnAuth'
      BY <2>1, <2>2 DEF IInv, CommandsAfterOwnAuth, session
  <2> QED BY <2>2, <2>3 DEF IInv, Queue
<1> QED BY <1>1, <1>2, <1>3, <1>4 DEF PeerStep

LEMMA IInvNext ==
    ASSUME IInv, [Next]_vars
    PROVE  IInv'
<1>1. TypeOK'
    BY TypeNext DEF IInv
<1>2. ASSUME NEW c \in Conns, Accept(c)
      PROVE  Queue' /\ CommandsAfterOwnAuth'
  <2>1. TcpAccept(c) /\ ~authenticated' /\ UNCHANGED <<peer, outbox, admitted>>
      BY <1>2 DEF Accept, FreshSession, TcpAccept
  <2> QED BY <2>1, QueueAccept, SocketsKept DEF IInv, TypeOK
<1>3. ASSUME NEW c \in Conns, ConnectionLost(c) \/ Leave(c) \/ Drop(c)
      PROVE  Queue' /\ CommandsAfterOwnAuth'
  <2>1. /\ served' \in {served, NoConn} /\ backlog' = backlog
        /\ UNCHANGED <<peer, outbox, session, admitted>>
      BY <1>3 DEF ConnectionLost, TcpLost, Leave, Drop, CloseClient
  <2> QED BY <2>1, QueueKept, SocketsKept DEF IInv, TypeOK
<1>4. ASSUME StopServer
      PROVE  Queue' /\ CommandsAfterOwnAuth'
  <2>1. /\ served' = NoConn /\ backlog' = <<>>
        /\ UNCHANGED <<peer, outbox, session, admitted>>
      BY <1>4 DEF StopServer, TcpStop, Die
  <2> QED BY <2>1, QueueKept, SocketsKept DEF IInv, TypeOK
<1>5. ASSUME UNCHANGED vars
      PROVE  Queue' /\ CommandsAfterOwnAuth'
    BY <1>5, SocketsKept DEF vars, tcp, IInv, Queue
<1>6. InStep'
    BY InStepNext DEF IInv
<1> QED BY <1>1, <1>2, <1>3, <1>4, <1>5, <1>6, HandlerKeeps, PeerKeeps
        DEF IInv, Next, ServerStep, Handler

-----------------------------------------------------------------------------
(***************************************************************************)
(* Types, one place per connection, and commands after an own AUTH, as one *)
(* inductive invariant of the token service.                               *)
(***************************************************************************)
THEOREM Invariant == Spec => []IInv
<1>1. Init => IInv
    BY IInvInit
<1>2. IInv /\ [Next]_vars => IInv'
    BY IInvNext
<1> QED BY <1>1, <1>2, PTL DEF Spec

(***************************************************************************)
(* The server's globals, its sockets and its queue keep their types.       *)
(***************************************************************************)
THEOREM TypeCorrect == Spec => []TypeOK
<1>1. IInv => TypeOK
    BY DEF IInv
<1> QED BY <1>1, Invariant, PTL

(***************************************************************************)
(* A command does its work only on a connection that was itself told of a  *)
(* successful AUTH, although the token is the same for all and outlives    *)
(* every session (server.c:148-158, 196-201).                              *)
(***************************************************************************)
THEOREM TokenAlone == Spec => []CommandsAfterOwnAuth
<1>1. IInv => CommandsAfterOwnAuth
    BY DEF IInv
<1> QED BY <1>1, Invariant, PTL

(***************************************************************************)
(* The two kinds of frames that are dropped without an answer shift no     *)
(* reply: at any pipelining depth the n-th reply answers the n-th request  *)
(* that gets one (server.c:121-224).                                       *)
(***************************************************************************)
THEOREM Pipelined == Spec => []InStep
<1>1. IInv => InStep
    BY DEF IInv
<1> QED BY <1>1, Invariant, PTL

-----------------------------------------------------------------------------
(***************************************************************************)
(* The service with its clients.  Where a client program stands tells what *)
(* is in its two sockets, and what the server holds of its session.        *)
(***************************************************************************)
Names == {"AUTH", "GET_INFO", "LIST_FILES", "READ_FILE", "PING", "DISCONNECT"}

NetType ==
    /\ cpc \in [Clients -> {"start", "send", "recv", "close", "done"}]
    /\ step \in [Clients -> 1..6]
    /\ token \in [Clients -> Tokens]
    /\ got \in [Clients -> SUBSET Names]
    /\ exit \in [Clients -> {"none", "0", "1", "killed"}]

\* What the server answers to the step c is at.
AnswerTo(c) ==
    CASE Doing(c) = "AUTH" -> AuthResp(TRUE, Generated)
      [] Doing(c) = "PING" -> Pong
      [] OTHER -> Output(Doing(c))

\* c has sent a request and nothing has been sent back.
Awaits(c) == cpc[c] = "recv" /\ outbox[c] = <<>>

\* A request is on its way only while its reply is waited for, there is never
\* more than that one reply, and DISCONNECT stays behind.
Sockets(c) ==
    /\ (peer[c] = "open" <=> cpc[c] \in {"send", "recv", "close"})
    /\ cpc[c] # "recv" => outbox[c] = <<>>
    /\ cpc[c] = "recv" => Doing(c) # "DISCONNECT"
    /\ outbox[c] \in {<<>>, <<AnswerTo(c)>>}
    /\ Held(c) /\ Awaits(c) => inbox[c] = <<RequestOf(c)>>
    /\ Held(c) /\ ~Awaits(c) =>
          inbox[c] = IF exit[c] = "0" THEN <<Disconnect>> ELSE <<>>

\* A client about to connect, or in the accept queue, has had no answer.
Waiting(c) ==
    /\ cpc[c] = "start" => step[c] = 1
    /\ Waits(c) => cpc[c] \in {"send", "recv"} /\ step[c] = 1 /\ outbox[c] = <<>>

\* A client past its authentication has the token.
HasToken(c) == step[c] > 1 => token[c] = Generated

\* The flag of the server is that of the client it serves.
Agree(c) ==
    c = served /\ (step[c] > 1 \/ outbox[c] # <<>>) =>
        authenticated /\ session_token = Generated

\* While it runs, the server closes on none of these clients before they do.
Lasting(c) == running /\ cpc[c] \in {"send", "recv"} => Held(c)

Before(n) == {Script[i] : i \in 1..n - 1}

\* The client has had its own answer to every step it has done.
Complete(c) ==
    /\ (exit[c] = "none" <=> cpc[c] \in {"start", "send", "recv"})
    /\ running /\ exit[c] = "none" => got[c] = Before(step[c])
    /\ running /\ exit[c] # "none" => exit[c] = "0" /\ got[c] = Before(6)

Client(c) ==
    Sockets(c) /\ Waiting(c) /\ HasToken(c) /\ Agree(c) /\ Lasting(c) /\ Complete(c)

AllClients == \A c \in Clients : Client(c)

NetInv == IInv /\ NetType /\ AllClients

-----------------------------------------------------------------------------
(***************************************************************************)
(* The script of main.                                                     *)
(***************************************************************************)
LEMMA ScriptFacts ==
    /\ Len(Script) = 6
    /\ Script[1] = "AUTH" /\ Script[2] = "GET_INFO" /\ Script[3] = "LIST_FILES"
    /\ Script[4] = "READ_FILE" /\ Script[5] = "PING" /\ Script[6] = "DISCONNECT"
BY DEF Script

LEMMA DoingFacts ==
    ASSUME NetType, NEW c \in Clients
    PROVE  /\ step[c] \in 1..6 /\ Doing(c) \in Names
           /\ (Doing(c) = "AUTH" <=> step[c] = 1)
           /\ (Doing(c) = "DISCONNECT" <=> step[c] = 6)
<1>1. step[c] \in 1..6
    BY DEF NetType
<1>2. step[c] \in {1, 2, 3, 4, 5, 6}
    BY <1>1
<1> QED BY <1>1, <1>2, ScriptFacts DEF Doing, Names

\* Each step adds its own name to those done.
LEMMA BeforeFacts ==
    /\ Before(1) = {}
    /\ \A n \in 1..5 : Before(n + 1) = Before(n) \cup {Script[n]}
<1>1. 1..1 - 1 = {}
    OBVIOUS
<1>2. Before(1) = {}
    BY <1>1 DEF Before
<1>3. ASSUME NEW n \in 1..5
      PROVE  Before(n + 1) = Before(n) \cup {Script[n]}
  <2>1. \A i \in 1..(n + 1) - 1 : i \in 1..n - 1 \/ i = n
      OBVIOUS
  <2>2. n \in 1..(n + 1) - 1 /\ \A i \in 1..n - 1 : i \in 1..(n + 1) - 1
      OBVIOUS
  <2> QED BY <2>1, <2>2 DEF Before
<1> QED BY <1>2, <1>3

\* The request of each step.
LEMMA RequestFacts ==
    ASSUME NetType, NEW c \in Clients
    PROVE  /\ Doing(c) = "AUTH" => RequestOf(c) = AuthReq(VALID_USER, ClientHash)
           /\ Doing(c) = "PING" => RequestOf(c) = Ping
           /\ Doing(c) = "DISCONNECT" => RequestOf(c) = Disconnect
           /\ Doing(c) \in {"GET_INFO", "LIST_FILES", "READ_FILE"} =>
                RequestOf(c) = CmdReq(token[c], Doing(c))
           /\ ~Silent(RequestOf(c))
<1>1. /\ Doing(c) = "AUTH" => RequestOf(c) = AuthReq(VALID_USER, ClientHash)
      /\ Doing(c) = "PING" => RequestOf(c) = Ping
      /\ Doing(c) = "DISCONNECT" => RequestOf(c) = Disconnect
      /\ Doing(c) \in {"GET_INFO", "LIST_FILES", "READ_FILE"} =>
           RequestOf(c) = CmdReq(token[c], Doing(c))
    BY DEF RequestOf
<1>2. /\ ~Silent(AuthReq(VALID_USER, ClientHash)) /\ ~Silent(Ping) /\ ~Silent(Disconnect)
      /\ ~Silent(CmdReq(token[c], Doing(c)))
    BY DEF Silent, AuthReq, Ping, Disconnect, CmdReq, Short, UnknownType
<1> QED BY <1>1, <1>2, DoingFacts DEF Names

\* A client sends nothing but what its peer of the server module may send.
LEMMA RequestSendable ==
    ASSUME NetType, NEW c \in Clients, HasToken(c)
    PROVE  RequestOf(c) \in Requests[c]
<1>1. CASE Doing(c) \in {"AUTH", "PING", "DISCONNECT"}
    BY <1>1, RequestFacts, ScriptAssumption
<1>2. CASE Doing(c) \in {"GET_INFO", "LIST_FILES", "READ_FILE"}
  <2>1. step[c] > 1
      BY <1>2, DoingFacts
  <2>2. RequestOf(c) = CmdReq(Generated, Doing(c))
      BY <1>2, <2>1, RequestFacts DEF HasToken
  <2> QED BY <1>2, <2>2, ScriptAssumption
<1> QED BY <1>1, <1>2, DoingFacts DEF Names

-----------------------------------------------------------------------------
(***************************************************************************)
(* A connection the step is not about.                                     *)
(***************************************************************************)
LEMMA ClientKept ==
    ASSUME NEW d \in Clients, Client(d),
           cpc'[d] = cpc[d], step'[d] = step[d], token'[d] = token[d],
           got'[d] = got[d], exit'[d] = exit[d],
           peer'[d] = peer[d], outbox'[d] = outbox[d],
           Held(d)' => Held(d) /\ inbox'[d] = inbox[d],
           Waits(d)' => Waits(d),
           d = served' => d = served /\ UNCHANGED session,
           running' => running /\ (Held(d) => Held(d)')
    PROVE  Client(d)'
<1>1. Doing(d)' = Doing(d) /\ (Awaits(d)' <=> Awaits(d))
    BY DEF Doing, Awaits
<1>2. RequestOf(d)' = RequestOf(d) /\ AnswerTo(d)' = AnswerTo(d)
    BY <1>1 DEF RequestOf, AnswerTo
<1>3. Sockets(d)'
    BY <1>1, <1>2 DEF Client, Sockets
<1>4. Waiting(d)' /\ HasToken(d)'
    BY DEF Client, Waiting, HasToken
<1>5. Agree(d)'
    BY DEF Client, Agree, session
<1>6. Lasting(d)' /\ Complete(d)'
    BY DEF Client, Lasting, Complete, Before
<1> QED BY <1>3, <1>4, <1>5, <1>6 DEF Client

-----------------------------------------------------------------------------
(***************************************************************************)
(* The server's answers to the requests of main.                           *)
(***************************************************************************)

\* A request of main reaches its handler and no other.
LEMMA HandlerOf ==
    ASSUME NEW c \in Conns, ServerStep(c), ~Accept(c), ~ConnectionLost(c),
           NEW req, req = Head(inbox[c])
    PROVE  /\ running /\ c = served /\ inbox[c] # <<>>
           /\ req.type = "AUTH_REQ" => HandleAuth(c)
           /\ req.type = "PING" => HandlePing(c)
           /\ req.type = "CMD_REQ" /\ req.ok => HandleCmd(c)
           /\ req.type = "DISCONNECT" => Leave(c)
<1>1. running /\ c = served /\ inbox[c] # <<>>
    BY DEF ServerStep, Leave, Drop, HandleAuth, HandleCmd, HandlePing, Receives
<1>2. /\ HandleAuth(c) => req.type = "AUTH_REQ"
      /\ HandlePing(c) => req.type = "PING"
      /\ HandleCmd(c) => req.type = "CMD_REQ"
      /\ Leave(c) => req.type \in {"BAD_FRAME", "DISCONNECT"}
    BY DEF Leave, HandleAuth, HandleCmd, HandlePing, Receives
<1>3. Drop(c) => req.type = "UNKNOWN_TYPE" \/ (req.type = "CMD_REQ" /\ ~req.ok)
    BY DEF Drop, Receives
<1> QED BY <1>1, <1>2, <1>3 DEF ServerStep

\* The state in which the server takes the request of a client that waits.
Asks(c) ==
    /\ running /\ c = served /\ peer[c] = "open" /\ Awaits(c)
    /\ inbox[c] = <<RequestOf(c)>> /\ Head(inbox[c]) = RequestOf(c)

LEMMA AsksOrGone ==
    ASSUME NetType, NEW c \in Clients, Client(c), running, c = served, inbox[c] # <<>>
    PROVE  \/ Asks(c)
           \/ /\ ~Awaits(c) /\ exit[c] = "0" /\ inbox[c] = <<Disconnect>>
              /\ Head(inbox[c]) = Disconnect
<1>1. Held(c) /\ \A r : Head(<<r>>) = r
    BY DEF Held
<1>2. CASE Awaits(c)
    BY <1>1, <1>2 DEF Asks, Client, Sockets, Awaits
<1>3. CASE ~Awaits(c)
    BY <1>1, <1>3 DEF Client, Sockets
<1> QED BY <1>2, <1>3

\* How the session goes on with its answer.
Answer(c) ==
    /\ Replied(c, AnswerTo(c)) /\ GoesOn(c) /\ peer' = peer
    /\ authenticated' /\ session_token' = Generated

\* A handler that responds to a client that waits.
LEMMA Responds ==
    ASSUME NEW c \in Conns, Asks(c), NEW r, Respond(c, r)
    PROVE  Replied(c, r) /\ GoesOn(c) /\ peer' = peer
<1>1. PICK outcome \in Outcomes(c) : Emit(c, <<r>>) /\ Conclude(c, outcome, FALSE)
    BY DEF Respond
<1>2. peer' = peer
    BY DEF Respond
<1> QED BY <1>1, <1>2, SentOutcome DEF Asks, Awaits

LEMMA AnswerAuth ==
    ASSUME NetType, NEW c \in Clients, Asks(c), Doing(c) = "AUTH",
           ServerStep(c), ~Accept(c), ~ConnectionLost(c)
    PROVE  Answer(c)
<1> DEFINE req == AuthReq(VALID_USER, ClientHash)
<1>1. req.type = "AUTH_REQ" /\ Valid(req)
    BY ClientAssumption DEF AuthReq, Valid
<1> HIDE DEF req
<1>2. Head(inbox[c]) = req
    BY RequestFacts DEF Asks, req
<1>3. HandleAuth(c) /\ c \in Conns
    BY <1>1, <1>2, HandlerOf, ClientAssumption
<1>4. session_token' = Generated /\ authenticated' /\ Respond(c, AuthResp(TRUE, Generated))
    BY <1>1, <1>2, <1>3 DEF HandleAuth
<1>5. AnswerTo(c) = AuthResp(TRUE, Generated)
    BY DEF AnswerTo
<1> QED BY <1>3, <1>4, <1>5, Responds DEF Answer

LEMMA AnswerPing ==
    ASSUME NetType, NEW c \in Clients, Client(c), Asks(c), Doing(c) = "PING",
           ServerStep(c), ~Accept(c), ~ConnectionLost(c)
    PROVE  Answer(c)
<1>1. Head(inbox[c]) = Ping /\ Ping.type = "PING"
    BY RequestFacts DEF Asks, Ping
<1>2. HandlePing(c) /\ c \in Conns
    BY <1>1, HandlerOf, ClientAssumption
<1>3. step[c] > 1
    BY DoingFacts
<1>4. authenticated /\ session_token = Generated
    BY <1>3 DEF Client, Agree, Asks
<1>5. AnswerTo(c) = Pong
    BY DEF AnswerTo
<1> QED BY <1>2, <1>4, <1>5, Responds DEF HandlePing, Answer, session

\* The token the client shows is the one the server holds.
LEMMA AnswerCmd ==
    ASSUME NetType, NEW c \in Clients, Client(c), Asks(c),
           Doing(c) \in {"GET_INFO", "LIST_FILES", "READ_FILE"},
           ServerStep(c), ~Accept(c), ~ConnectionLost(c)
    PROVE  Answer(c)
<1> DEFINE req == CmdReq(token[c], Doing(c))
<1>1. req.type = "CMD_REQ" /\ req.ok /\ req.token = token[c] /\ req.cmd = Doing(c)
    BY DEF CmdReq
<1> HIDE DEF req
<1>2. Head(inbox[c]) = req
    BY RequestFacts DEF Asks, req
<1>3. HandleCmd(c) /\ c \in Conns
    BY <1>1, <1>2, HandlerOf, ClientAssumption
<1>4. step[c] > 1
    BY DoingFacts
<1>5. authenticated /\ session_token = Generated /\ token[c] = Generated
    BY <1>4 DEF Client, Agree, HasToken, Asks
<1>6. CmdReply(req) = Output(Doing(c))
    BY <1>1, <1>5 DEF CmdReply, Allowed
<1>7. AnswerTo(c) = Output(Doing(c))
    BY DEF AnswerTo
<1> QED BY <1>2, <1>3, <1>5, <1>6, <1>7, Responds DEF HandleCmd, Answer, session

LEMMA ServerAnswers ==
    ASSUME NetType, NEW c \in Clients, Client(c), Asks(c),
           ServerStep(c), ~Accept(c), ~ConnectionLost(c)
    PROVE  Answer(c)
<1>1. Doing(c) # "DISCONNECT"
    BY DEF Client, Sockets, Asks, Awaits
<1> QED BY <1>1, DoingFacts, AnswerAuth, AnswerPing, AnswerCmd DEF Names

-----------------------------------------------------------------------------
(***************************************************************************)
(* The steps of the server among its clients.                              *)
(***************************************************************************)
SameClients == UNCHANGED clientVars

\* What the step leaves of a connection it is not about.
Untouched(d) ==
    /\ peer'[d] = peer[d] /\ outbox'[d] = outbox[d]
    /\ Held(d)' => Held(d) /\ inbox'[d] = inbox[d]
    /\ Waits(d)' => Waits(d)
    /\ d = served' => d = served /\ UNCHANGED session
    /\ running' => running /\ (Held(d) => Held(d)')

LEMMA ServerKeeps ==
    ASSUME AllClients, SameClients, NEW d \in Clients, Untouched(d)
    PROVE  Client(d)'
<1>1. /\ cpc'[d] = cpc[d] /\ step'[d] = step[d] /\ token'[d] = token[d]
      /\ got'[d] = got[d] /\ exit'[d] = exit[d]
    BY DEF SameClients, clientVars
<1> QED BY <1>1, ClientKept DEF AllClients, Untouched

\* The server, at work on one connection, leaves the others alone, unless it
\* ends.
LEMMA OthersUntouched ==
    ASSUME IInv, NEW s \in Conns, ServerStep(s), NEW d \in Conns, d # s
    PROVE  Untouched(d)
<1>1. TcpTypes(Request, Reply)
    BY DEF IInv, TypeOK
<1>2. CASE Accept(s)
  <2>1. TcpAccept(s) /\ served' = s /\ UNCHANGED <<running, peer, inbox, outbox>>
      BY <1>2 DEF Accept, TcpAccept
  <2>2. (Waits(d)' => Waits(d)) /\ (Held(d)' <=> Held(d))
      BY <1>1, <2>1, AcceptWaits
  <2> QED BY <2>1, <2>2 DEF Untouched
<1>3. CASE ConnectionLost(s) \/ Leave(s)
  <2>1. s = served /\ CloseClient(s) /\ UNCHANGED <<peer, outbox>>
      BY <1>3 DEF ConnectionLost, TcpLost, Leave, Receives
  <2>2. Conclude(s, "sent", TRUE)
      BY <2>1 DEF Conclude
  <2> QED BY <1>1, <2>1, <2>2, OthersAfter DEF Untouched
<1>4. CASE Drop(s)
  <2>1. s = served /\ UNCHANGED <<peer, outbox>> /\ Conclude(s, "sent", FALSE)
      BY <1>4 DEF Drop, Receives, Conclude
  <2> QED BY <1>1, <2>1, OthersAfter DEF Untouched
<1>5. CASE Handler(s)
  <2>1. PICK reply, type, outcome :
           reply \in Reply /\ Receives(s, type) /\ Emit(s, <<reply>>) /\ Conclude(s, outcome, FALSE)
      BY <1>5, HandlerReply DEF IInv
  <2>2. UNCHANGED peer /\ s = served
      BY <1>5, <2>1, HandlerReply DEF IInv, Receives
  <2>3. outbox'[d] = outbox[d]
      BY <1>1, <2>1 DEF Emit, TcpTypes
  <2> QED BY <1>1, <2>1, <2>2, <2>3, OthersAfter DEF Untouched
<1> QED BY <1>2, <1>3, <1>4, <1>5 DEF ServerStep, Handler

\* What a step of the server leaves of the program of c.
LEMMA ProgramSame ==
    ASSUME NEW c \in Clients, SameClients
    PROVE  /\ UNCHANGED <<cpc, step, token, got, exit>>
           /\ Doing(c)' = Doing(c) /\ RequestOf(c)' = RequestOf(c)
           /\ AnswerTo(c)' = AnswerTo(c) /\ \A n : Before(n)' = Before(n)
<1>1. UNCHANGED <<cpc, step, token, got, exit>>
    BY DEF SameClients, clientVars
<1>2. Doing(c)' = Doing(c)
    BY <1>1 DEF Doing
<1> QED BY <1>1, <1>2 DEF RequestOf, AnswerTo, Before

LEMMA OwnAccept ==
    ASSUME IInv, NetType, NEW c \in Clients, Client(c), Accept(c), SameClients
    PROVE  Client(c)'
<1>1. /\ running /\ running' = running /\ served' = c /\ TcpAccept(c) /\ c \in Conns
      /\ UNCHANGED <<peer, inbox, outbox>>
    BY ClientAssumption DEF Accept, TcpAccept
<1>2. Waits(c) /\ Held(c) /\ Held(c)'
    BY <1>1, AcceptWaits, HeldIs DEF IInv, TypeOK, Held
<1>3. cpc[c] \in {"send", "recv"} /\ step[c] = 1 /\ outbox[c] = <<>>
    BY <1>2 DEF Client, Waiting
<1>4. /\ UNCHANGED <<cpc, step, token, got, exit>> /\ (Awaits(c)' <=> Awaits(c))
      /\ Doing(c)' = Doing(c) /\ RequestOf(c)' = RequestOf(c) /\ AnswerTo(c)' = AnswerTo(c)
    BY <1>1, ProgramSame DEF Awaits
<1>5. Sockets(c)'
    BY <1>1, <1>2, <1>3, <1>4 DEF Client, Sockets
<1>6. Waiting(c)' /\ HasToken(c)' /\ Agree(c)' /\ Lasting(c)'
    BY <1>1, <1>2, <1>3, <1>4 DEF Waiting, HasToken, Agree, Lasting
<1>7. Complete(c)'
    BY <1>1, <1>4 DEF Client, Complete, Before
<1> QED BY <1>5, <1>6, <1>7 DEF Client

\* The server closes on a client that has ended its session.
LEMMA OwnClosed ==
    ASSUME IInv, NetType, NEW c \in Clients, Client(c), c = served, CloseClient(c),
           UNCHANGED <<peer, outbox>>, SameClients, cpc[c] \notin {"send", "recv"}
    PROVE  Client(c)'
<1>1. ~Waits(c)' /\ ~Held(c)' /\ c # served' /\ running' = running
    BY ClientAssumption, ServiceAssumption DEF CloseClient, IInv, Queue, Waits, Held
<1>2. /\ UNCHANGED <<cpc, step, token, got, exit>> /\ Doing(c)' = Doing(c)
      /\ AnswerTo(c)' = AnswerTo(c)
    BY ProgramSame
<1>3. Sockets(c)'
    BY <1>1, <1>2 DEF Client, Sockets
<1>4. Waiting(c)' /\ Agree(c)' /\ Lasting(c)'
    BY <1>1, <1>2 DEF Client, Waiting, Agree, Lasting
<1>5. HasToken(c)' /\ Complete(c)'
    BY <1>1, <1>2 DEF Client, HasToken, Complete, Before
<1> QED BY <1>3, <1>4, <1>5 DEF Client

LEMMA OwnAnswered ==
    ASSUME IInv, NetType, NEW c \in Clients, Client(c), Asks(c), Answer(c), SameClients
    PROVE  Client(c)'
<1> PICK r : r = AnswerTo(c)
    OBVIOUS
<1>1. /\ UNCHANGED <<cpc, step, token, got, exit>> /\ Doing(c)' = Doing(c)
      /\ AnswerTo(c)' = r
    BY ProgramSame
<1>2. inbox \in [Conns -> Seq(Request)] /\ outbox \in [Conns -> Seq(Reply)] /\ c \in Conns
    BY ClientAssumption DEF IInv, TypeOK, TcpTypes
<1>3. /\ outbox'[c] = <<r>> /\ inbox'[c] = <<>> /\ <<r>> # <<>>
      /\ UNCHANGED <<running, served, backlog, peer>>
      /\ authenticated' /\ session_token' = Generated
    BY <1>2 DEF Answer, Replied, GoesOn
<1>4. cpc[c] = "recv" /\ c = served /\ Held(c)' /\ ~Waits(c)' /\ exit[c] = "none"
    BY <1>2, <1>3 DEF Asks, Awaits, Held, IInv, Queue, Waits, Client, Complete
<1>5. Sockets(c)'
  <2>1. ~Awaits(c)'
      BY <1>3 DEF Awaits
  <2>2. (peer'[c] = "open" <=> cpc'[c] \in {"send", "recv", "close"}) /\ Doing(c)' # "DISCONNECT"
      BY <1>1, <1>3, <1>4 DEF Client, Sockets
  <2> QED BY <1>1, <1>3, <1>4, <2>1, <2>2 DEF Sockets
<1>6. Waiting(c)' /\ Lasting(c)' /\ Agree(c)'
    BY <1>1, <1>3, <1>4 DEF Waiting, Lasting, Agree
<1>7. HasToken(c)' /\ Complete(c)'
    BY <1>1, <1>3 DEF Client, HasToken, Complete, Before
<1> QED BY <1>5, <1>6, <1>7 DEF Client

LEMMA ClientsServer ==
    ASSUME IInv, NetType, AllClients, NEW s \in Conns, ServerStep(s), SameClients
    PROVE  AllClients'
<1>1. \A d \in Clients : d # s => Client(d)'
    BY OthersUntouched, ServerKeeps, ClientAssumption
<1>2. ASSUME s \in Clients
      PROVE  Client(s)'
  <2>1. Client(s)
      BY <1>2 DEF AllClients
  <2>2. CASE Accept(s)
      BY <1>2, <2>1, <2>2, OwnAccept
  <2>3. CASE ConnectionLost(s)
    <3>1. s = served /\ CloseClient(s) /\ UNCHANGED <<peer, outbox>> /\ peer[s] # "open"
        BY <2>3 DEF ConnectionLost, TcpLost, EndOfStream
    <3>2. cpc[s] \notin {"send", "recv"}
        BY <2>1, <3>1 DEF Client, Sockets
    <3> QED BY <1>2, <2>1, <3>1, <3>2, OwnClosed
  <2>4. CASE ~Accept(s) /\ ~ConnectionLost(s)
    <3>1. running /\ s = served /\ inbox[s] # <<>>
        BY <2>4, HandlerOf
    <3>2. CASE Asks(s)
      <4>1. Answer(s)
          BY <1>2, <2>1, <2>4, <3>2, ServerAnswers
      <4> QED BY <1>2, <2>1, <3>2, <4>1, OwnAnswered
    <3>3. CASE exit[s] = "0" /\ Head(inbox[s]) = Disconnect
      <4>1. Leave(s)
          BY <2>4, <3>3, HandlerOf DEF Disconnect
      <4>2. CloseClient(s) /\ UNCHANGED <<peer, outbox>>
          BY <4>1 DEF Leave
      <4>3. cpc[s] \notin {"send", "recv"}
          BY <2>1, <3>3 DEF Client, Complete
      <4> QED BY <1>2, <2>1, <3>1, <4>2, <4>3, OwnClosed
    <3> QED BY <1>2, <2>1, <3>1, <3>2, <3>3, AsksOrGone
  <2> QED BY <2>2, <2>3, <2>4
<1> QED BY <1>1, <1>2 DEF AllClients

LEMMA ClientsStop ==
    ASSUME AllClients, StopServer, SameClients
    PROVE  AllClients'
<1>1. /\ running' = FALSE /\ served' = NoConn /\ backlog' = <<>>
      /\ UNCHANGED <<peer, outbox>> /\ DOMAIN <<>> = {}
    BY DEF StopServer, TcpStop, Die
<1>2. ASSUME NEW d \in Clients
      PROVE  Untouched(d)
    BY <1>1, ClientAssumption, ServiceAssumption DEF Untouched, Held, Waits
<1> QED BY <1>2, ServerKeeps DEF AllClients

LEMMA ClientsStutter ==
    ASSUME AllClients, UNCHANGED <<tcp, session>>, SameClients
    PROVE  AllClients'
<1>1. ASSUME NEW d \in Clients
      PROVE  Untouched(d)
    BY DEF Untouched, Held, Waits, tcp
<1> QED BY <1>1, ServerKeeps DEF AllClients

-----------------------------------------------------------------------------
(***************************************************************************)
(* The steps of the clients and of the strangers.                          *)
(***************************************************************************)

\* A peer touches no connection but its own.
LEMMA PeerUntouched ==
    ASSUME IInv, NEW c \in Conns,
           \/ Connect(c) \/ TakeReply(c) \/ Hangup(c) \/ UNCHANGED vars
           \/ \E req : Submit(c, req),
           NEW d \in Conns, d # c
    PROVE  Untouched(d)
<1>1. /\ peer \in [Conns -> {"open", "closed"}] /\ inbox \in [Conns -> Seq(Request)]
      /\ outbox \in [Conns -> Seq(Reply)]
    BY DEF IInv, TypeOK, TcpTypes
<1>2. CASE Connect(c)
  <2>1. TcpConnect(c) /\ UNCHANGED <<running, served>> /\ UNCHANGED session
      BY <1>2 DEF Connect, TcpConnect
  <2>2. Waits(d)' <=> Waits(d)
      BY <2>1, ConnectWaits DEF IInv, TypeOK
  <2>3. peer'[d] = peer[d] /\ inbox'[d] = inbox[d] /\ outbox'[d] = outbox[d]
      BY <1>1, <2>1 DEF TcpConnect
  <2>4. Held(d)' <=> Held(d)
      BY <2>1, <2>2 DEF Held, Waits
  <2> QED BY <2>1, <2>2, <2>3, <2>4 DEF Untouched
<1>3. CASE TakeReply(c)
    BY <1>1, <1>3 DEF TakeReply, TcpTakeReply, Untouched, Waits, Held
<1>4. CASE Hangup(c)
    BY <1>1, <1>4 DEF Hangup, TcpHangup, Untouched, Waits, Held
<1>5. CASE UNCHANGED vars
    BY <1>5 DEF vars, tcp, Untouched, Waits, Held
<1>6. ASSUME NEW req, Submit(c, req)
      PROVE  Untouched(d)
    BY <1>1, <1>6 DEF Submit, SubmitSilent, TcpSubmit, Untouched, Waits, Held
<1> QED BY <1>2, <1>3, <1>4, <1>5, <1>6

LEMMA ClientsStranger ==
    ASSUME IInv, AllClients, NEW c \in Strangers, PeerStep(c), SameClients
    PROVE  AllClients'
<1>1. ASSUME NEW d \in Clients
      PROVE  Untouched(d)
    BY PeerUntouched, ClientAssumption DEF PeerStep, Strangers
<1> QED BY <1>1, ServerKeeps DEF AllClients

\* A step of the program of c moves no other program.
Moves(c) ==
    /\ \A d \in Clients : d # c =>
            /\ cpc'[d] = cpc[d] /\ step'[d] = step[d] /\ exit'[d] = exit[d]
            /\ token'[d] = token[d] /\ got'[d] = got[d]
    /\ NetType'

\* A step of main that is done with is followed by the next.
LEMMA ProgramMoved ==
    ASSUME NetType, NEW c \in Clients,
           NextStep(c) => step[c] < 6,
           \/ NextStep(c)
           \/ \E where \in {"close", "done"}, code \in {"0", "1", "killed"} :
                 Finish(c, where, code)
           \/ /\ cpc' \in {[cpc EXCEPT ![c] = pc] : pc \in {"send", "recv", "done"}}
              /\ UNCHANGED <<step, exit>>
    PROVE  /\ \A d \in Clients : d # c =>
                 cpc'[d] = cpc[d] /\ step'[d] = step[d] /\ exit'[d] = exit[d]
           /\ cpc' \in [Clients -> {"start", "send", "recv", "close", "done"}]
           /\ step' \in [Clients -> 1..6]
           /\ exit' \in [Clients -> {"none", "0", "1", "killed"}]
<1>1. CASE NextStep(c)
  <2>1. step[c] + 1 \in 1..6
      BY <1>1, DoingFacts
  <2> QED BY <1>1, <2>1 DEF NextStep, NetType
<1>2. ASSUME NEW where \in {"close", "done"}, NEW code \in {"0", "1", "killed"},
             Finish(c, where, code)
      PROVE  /\ \A d \in Clients : d # c =>
                   cpc'[d] = cpc[d] /\ step'[d] = step[d] /\ exit'[d] = exit[d]
             /\ cpc' \in [Clients -> {"start", "send", "recv", "close", "done"}]
             /\ step' \in [Clients -> 1..6]
             /\ exit' \in [Clients -> {"none", "0", "1", "killed"}]
    BY <1>2 DEF Finish, NetType
<1>3. CASE /\ cpc' \in {[cpc EXCEPT ![c] = pc] : pc \in {"send", "recv", "done"}}
           /\ UNCHANGED <<step, exit>>
  <2>1. PICK pc \in {"send", "recv", "done"} : cpc' = [cpc EXCEPT ![c] = pc]
      BY <1>3
  <2> QED BY <1>3, <2>1 DEF NetType
<1> QED BY <1>1, <1>2, <1>3

\* The reply the client reads is the answer to what it has sent, and the last.
LEMMA ReceiveFacts ==
    ASSUME IInv, NEW c \in Clients, Client(c), ClientReceive(c)
    PROVE  /\ cpc[c] = "recv" /\ peer[c] = "open" /\ outbox[c] # <<>>
           /\ Head(outbox[c]) = AnswerTo(c) /\ outbox'[c] = <<>>
           /\ UNCHANGED <<running, backlog, served, peer, inbox>> /\ UNCHANGED session
           /\ (Held(c) => inbox[c] = <<>>) /\ ~Waits(c) /\ exit[c] = "none"
           /\ Doing(c) # "DISCONNECT"
<1>1. /\ cpc[c] = "recv" /\ peer[c] = "open" /\ outbox[c] # <<>>
      /\ outbox'[c] = Tail(outbox[c])
      /\ UNCHANGED <<running, backlog, served, peer, inbox>> /\ UNCHANGED session
    BY ClientAssumption DEF ClientReceive, TakeReply, TcpTakeReply, IInv, TypeOK, TcpTypes
<1>2. outbox[c] = <<AnswerTo(c)>> /\ exit[c] = "none" /\ Doing(c) # "DISCONNECT"
    BY <1>1 DEF Client, Sockets, Complete
<1>3. Head(<<AnswerTo(c)>>) = AnswerTo(c) /\ Tail(<<AnswerTo(c)>>) = <<>>
    OBVIOUS
<1>4. Held(c) => inbox[c] = <<>>
    BY <1>1, <1>2 DEF Client, Sockets, Awaits
<1>5. ~Waits(c)
    BY <1>1 DEF Client, Waiting
<1> QED BY <1>1, <1>2, <1>3, <1>4, <1>5

\* What the program makes of that reply.
LEMMA ReadFacts ==
    ASSUME IInv, NetType, NEW c \in Clients, Client(c), ClientReceive(c)
    PROVE  /\ NextStep(c) /\ step[c] < 6
           /\ got' = [got EXCEPT ![c] = @ \cup {Doing(c)}]
           /\ token' = token \/ (token' = [token EXCEPT ![c] = Generated])
           /\ step[c] = 1 => token' = [token EXCEPT ![c] = Generated]
<1> DEFINE r == Head(outbox[c])
<1>1. r = AnswerTo(c) /\ Doing(c) # "DISCONNECT"
    BY ReceiveFacts
<1>2. step[c] \in 1..6 /\ step[c] # 6
    BY <1>1, DoingFacts
<1>3. OwnAnswer(c, r)
    BY <1>1 DEF OwnAnswer, AnswerTo, AuthResp
<1>4. got' = [got EXCEPT ![c] = @ \cup {Doing(c)}]
    BY <1>3 DEF ClientReceive
<1>5. CASE Doing(c) = "AUTH"
  <2>1. r = AuthResp(TRUE, Generated)
      BY <1>1, <1>5 DEF AnswerTo
  <2>2. r.success /\ r.token = Generated
      BY <2>1 DEF AuthResp
  <2>3. NextStep(c) /\ token' = [token EXCEPT ![c] = Generated]
      BY <1>5, <2>2 DEF ClientReceive
  <2> QED BY <1>2, <1>4, <2>3
<1>6. CASE Doing(c) # "AUTH"
  <2>1. NextStep(c) /\ token' = token
      BY <1>6 DEF ClientReceive
  <2>2. step[c] # 1
      BY <1>6, DoingFacts
  <2> QED BY <1>2, <1>4, <2>1, <2>2
<1> QED BY <1>5, <1>6

LEMMA ClientMoves ==
    ASSUME IInv, NetType, NEW c \in Clients, Client(c), ClientStep(c)
    PROVE  Moves(c)
<1>1. CASE ClientReceive(c)
  <2>1. NextStep(c) /\ step[c] < 6 /\ got' = [got EXCEPT ![c] = @ \cup {Doing(c)}]
        /\ (token' = token \/ token' = [token EXCEPT ![c] = Generated])
      BY <1>1, ReadFacts
  <2>2. Doing(c) \in Names /\ Generated \in Tokens
      BY DoingFacts, CredentialsAssumption
  <2>3. /\ \A d \in Clients : d # c => token'[d] = token[d] /\ got'[d] = got[d]
        /\ token' \in [Clients -> Tokens] /\ got' \in [Clients -> SUBSET Names]
      BY <2>1, <2>2 DEF NetType
  <2> QED BY <2>1, <2>3, ProgramMoved DEF Moves, NetType
<1>2. CASE ~ClientReceive(c)
  <2>1. UNCHANGED <<token, got>>
      BY <1>2 DEF ClientStep, ClientConnect, ClientRefused, ClientSend, ClientSendLost,
                  ClientReceiveLost, ClientClose
  <2>2. NextStep(c) => step[c] < 6
    <3>1. CASE ClientReceiveLost(c)
      <4>1. Doing(c) # "DISCONNECT"
          BY <3>1 DEF ClientReceiveLost, Client, Sockets
      <4> QED BY <4>1, DoingFacts
    <3>2. CASE ~ClientReceiveLost(c)
      <4>1. UNCHANGED step
          BY <1>2, <3>2 DEF ClientStep, ClientConnect, ClientRefused, ClientSend,
                            ClientSendLost, ClientClose, AfterRequest, Finish
      <4> QED BY <4>1, DoingFacts DEF NextStep, NetType
    <3> QED BY <3>1, <3>2
  <2>3. \/ NextStep(c)
        \/ \E where \in {"close", "done"}, code \in {"0", "1", "killed"} :
              Finish(c, where, code)
        \/ /\ cpc' \in {[cpc EXCEPT ![c] = pc] : pc \in {"send", "recv", "done"}}
           /\ UNCHANGED <<step, exit>>
      BY <1>2 DEF ClientStep, ClientConnect, ClientRefused, ClientSend, ClientSendLost,
                  ClientReceiveLost, ClientClose, AfterRequest
  <2> QED BY <2>1, <2>2, <2>3, ProgramMoved DEF Moves, NetType
<1> QED BY <1>1, <1>2

LEMMA ClientIsPeer ==
    ASSUME NetType, NEW c \in Clients, Client(c), ClientStep(c)
    PROVE  /\ PeerStep(c) \/ UNCHANGED vars
           /\ Connect(c) \/ TakeReply(c) \/ Hangup(c) \/ UNCHANGED vars
              \/ \E req : Submit(c, req)
<1>1. RequestOf(c) \in Requests[c]
    BY RequestSendable DEF Client
<1>2. CASE ClientSend(c)
    BY <1>1, <1>2 DEF ClientSend, PeerStep
<1>3. CASE ~ClientSend(c)
    BY <1>3 DEF ClientStep, ClientConnect, ClientRefused, ClientSendLost, ClientReceive,
                ClientReceiveLost, ClientClose, PeerStep
<1> QED BY <1>2, <1>3

\* A server that has been stopped owes c nothing.
LEMMA Orphan ==
    ASSUME NEW c \in Clients, ~running', ~Held(c)', c # served',
           (peer'[c] = "open" <=> cpc'[c] \in {"send", "recv", "close"}),
           outbox'[c] = <<>>, cpc'[c] # "start",
           cpc'[c] = "recv" => Doing(c)' # "DISCONNECT",
           (exit'[c] = "none" <=> cpc'[c] \in {"send", "recv"}), HasToken(c)'
    PROVE  Client(c)'
<1>1. ~Waits(c)'
    BY DEF Held, Waits
<1> QED BY <1>1 DEF Client, Sockets, Waiting, Agree, Lasting, Complete

LEMMA OwnConnect ==
    ASSUME IInv, NetType, NEW c \in Clients, Client(c), ClientConnect(c)
    PROVE  Client(c)'
<1>1. /\ cpc[c] = "start" /\ cpc'[c] = "send" /\ UNCHANGED <<step, token, got, exit>>
      /\ step[c] = 1
    BY DEF ClientConnect, NetType, Client, Waiting
<1>2. /\ TcpConnect(c) /\ running /\ running' = running /\ served' = served /\ ~Held(c)
      /\ c \in Conns
      /\ peer'[c] = "open" /\ inbox'[c] = <<>> /\ outbox'[c] = <<>>
    BY ClientAssumption DEF ClientConnect, Connect, TcpConnect, IInv, TypeOK, TcpTypes
<1>3. Held(c)' /\ c # served'
  <2>1. Waits(c)'
      BY <1>2, ConnectWaits DEF IInv, TypeOK
  <2> QED BY <1>2, <2>1 DEF Held, Waits
<1>4. exit[c] = "none" /\ ~Awaits(c)'
    BY <1>1 DEF Client, Complete, Awaits
<1>5. Sockets(c)'
    BY <1>1, <1>2, <1>3, <1>4 DEF Sockets
<1>6. Waiting(c)' /\ HasToken(c)' /\ Agree(c)' /\ Lasting(c)'
    BY <1>1, <1>2, <1>3 DEF Waiting, HasToken, Agree, Lasting
<1>7. Complete(c)'
    BY <1>1, <1>2 DEF Client, Complete, Before
<1> QED BY <1>5, <1>6, <1>7 DEF Client

LEMMA OwnRefused ==
    ASSUME IInv, NetType, NEW c \in Clients, Client(c), ClientRefused(c)
    PROVE  Client(c)'
<1>1. /\ cpc[c] = "start" /\ cpc'[c] = "done" /\ exit'[c] = "1" /\ ~running
      /\ UNCHANGED <<step, token, got>>
      /\ UNCHANGED <<running, backlog, served, peer, inbox, outbox>> /\ UNCHANGED session
    BY DEF ClientRefused, Finish, NetType, vars, tcp
<1>2. /\ peer[c] # "open" /\ outbox[c] = <<>> /\ ~Waits(c) /\ step[c] = 1
      /\ (Held(c) => inbox[c] = <<>>) /\ exit[c] = "none" /\ Doing(c)' = Doing(c)
    BY <1>1 DEF Client, Sockets, Waiting, Complete, Awaits, Doing
<1>3. (Held(c)' <=> Held(c)) /\ ~Waits(c)' /\ ~Awaits(c)'
    BY <1>1, <1>2 DEF Held, Waits, Awaits
<1>4. Sockets(c)'
    BY <1>1, <1>2, <1>3 DEF Sockets
<1>5. Waiting(c)' /\ HasToken(c)' /\ Agree(c)' /\ Lasting(c)'
    BY <1>1, <1>2, <1>3 DEF Waiting, HasToken, Agree, Lasting
<1>6. Complete(c)'
    BY <1>1 DEF Complete
<1> QED BY <1>4, <1>5, <1>6 DEF Client

LEMMA OwnSend ==
    ASSUME IInv, NetType, NEW c \in Clients, Client(c), ClientSend(c)
    PROVE  Client(c)'
<1> PICK req : req = RequestOf(c)
    OBVIOUS
<1>1. /\ cpc[c] = "send" /\ Held(c) /\ peer[c] = "open"
      /\ inbox'[c] = Append(inbox[c], req)
      /\ UNCHANGED <<running, backlog, served, peer, outbox>> /\ UNCHANGED session
      /\ UNCHANGED <<token, got>>
  <2>1. TcpSubmit(c, req)
      BY RequestFacts DEF ClientSend, Submit
  <2> QED BY <2>1, ClientAssumption
          DEF ClientSend, Submit, TcpSubmit, IInv, TypeOK, TcpTypes
<1>2. inbox[c] = <<>> /\ outbox[c] = <<>> /\ exit[c] = "none" /\ ~Awaits(c)
    BY <1>1 DEF Client, Sockets, Awaits, Complete
<1>3. (Held(c)' <=> Held(c)) /\ (Waits(c)' <=> Waits(c)) /\ inbox'[c] = <<req>>
    BY <1>1, <1>2 DEF Held, Waits
<1>4. CASE Doing(c) # "DISCONNECT"
  <2>1. cpc'[c] = "recv" /\ UNCHANGED <<step, exit>>
      BY <1>4 DEF ClientSend, AfterRequest, AfterSend, NetType
  <2>2. Doing(c)' = Doing(c) /\ RequestOf(c)' = req /\ Awaits(c)'
      BY <1>1, <1>2, <2>1 DEF Doing, RequestOf, Awaits
  <2>3. Sockets(c)'
      BY <1>1, <1>2, <1>3, <1>4, <2>1, <2>2 DEF Sockets
  <2>4. Waiting(c)' /\ Lasting(c)'
      BY <1>1, <1>3, <2>1 DEF Client, Waiting, Lasting
  <2>5. HasToken(c)' /\ Agree(c)'
      BY <1>1, <2>1 DEF Client, HasToken, Agree, session
  <2>6. Complete(c)'
      BY <1>1, <1>2, <2>1 DEF Client, Complete, Before
  <2> QED BY <2>3, <2>4, <2>5, <2>6 DEF Client
<1>5. CASE Doing(c) = "DISCONNECT"
  <2>1. step[c] = 6
      BY <1>5, DoingFacts
  <2>2. cpc'[c] = "close" /\ exit'[c] = "0" /\ step' = step
      BY <1>5 DEF ClientSend, AfterRequest, AfterSend, Finish, NetType
  <2>3. inbox'[c] = <<Disconnect>> /\ ~Awaits(c)'
      BY <1>3, <1>5, <2>2, RequestFacts DEF Awaits
  <2>4. Sockets(c)'
      BY <1>1, <1>2, <2>2, <2>3 DEF Sockets
  <2>5. ~Waits(c)'
      BY <1>3, <2>1 DEF Client, Waiting
  <2>6. Waiting(c)' /\ Lasting(c)'
      BY <2>2, <2>5 DEF Waiting, Lasting
  <2>7. HasToken(c)' /\ Agree(c)'
      BY <1>1, <2>2 DEF Client, HasToken, Agree, session
  <2>8. Complete(c)'
      BY <1>1, <1>2, <2>1, <2>2 DEF Client, Complete, Before
  <2> QED BY <2>4, <2>6, <2>7, <2>8 DEF Client
<1> QED BY <1>4, <1>5

\* The server is dead when a client finds its connection closed.
LEMMA OwnSendLost ==
    ASSUME IInv, NetType, NEW c \in Clients, Client(c), ClientSendLost(c)
    PROVE  Client(c)'
<1>1. /\ cpc[c] = "send" /\ ~Held(c) /\ peer[c] = "open" /\ outbox[c] = <<>>
      /\ exit[c] = "none" /\ HasToken(c) /\ UNCHANGED token
    BY DEF ClientSendLost, Client, Sockets, Complete
<1>2. ~running
    BY <1>1 DEF Client, Lasting
<1>3. UNCHANGED <<running, served, backlog>>
    BY DEF ClientSendLost, vars, tcp, Hangup, TcpHangup
<1>4. ~running' /\ ~Held(c)' /\ c # served'
    BY <1>1, <1>2, <1>3 DEF Held
<1>5. CASE AfterRequest(c) /\ UNCHANGED vars
  <2>1. peer'[c] = "open" /\ outbox'[c] = <<>>
      BY <1>1, <1>5 DEF vars, tcp
  <2>2. UNCHANGED step
      BY <1>5 DEF AfterRequest, Finish
  <2>3. Doing(c)' = Doing(c) /\ HasToken(c)'
      BY <1>1, <2>2 DEF Doing, HasToken
  <2>4. \/ cpc'[c] = "close" /\ exit'[c] = "0"
        \/ cpc'[c] = "recv" /\ exit'[c] = "none" /\ Doing(c) # "DISCONNECT"
      BY <1>1, <1>5 DEF AfterRequest, AfterSend, Finish, NetType
  <2> QED BY <1>4, <2>1, <2>3, <2>4, Orphan
<1>6. CASE Finish(c, "done", "killed") /\ Hangup(c)
  <2>1. cpc'[c] = "done" /\ exit'[c] = "killed" /\ UNCHANGED step
        /\ peer'[c] # "open" /\ outbox'[c] = <<>>
      BY <1>6, ClientAssumption
         DEF Finish, NetType, Hangup, TcpHangup, IInv, TypeOK, TcpTypes
  <2>2. HasToken(c)'
      BY <1>1, <2>1 DEF HasToken
  <2> QED BY <1>4, <2>1, <2>2, Orphan
<1> QED BY <1>5, <1>6 DEF ClientSendLost

LEMMA OwnReceiveLost ==
    ASSUME IInv, NetType, NEW c \in Clients, Client(c), ClientReceiveLost(c)
    PROVE  Client(c)'
<1>1. /\ cpc[c] = "recv" /\ ~Held(c) /\ peer[c] = "open" /\ outbox[c] = <<>>
      /\ exit[c] = "none" /\ HasToken(c) /\ UNCHANGED token /\ Doing(c) # "DISCONNECT"
    BY DEF ClientReceiveLost, Client, Sockets, Complete
<1>2. ~running
    BY <1>1 DEF Client, Lasting
<1>3. UNCHANGED <<running, served, backlog, peer, outbox>>
    BY DEF ClientReceiveLost, vars, tcp
<1>4. ~running' /\ ~Held(c)' /\ c # served'
    BY <1>1, <1>2, <1>3 DEF Held
<1>5. CASE Doing(c) = "AUTH"
  <2>1. cpc'[c] = "close" /\ exit'[c] = "1" /\ UNCHANGED step
      BY <1>5 DEF ClientReceiveLost, Finish, NetType
  <2>2. HasToken(c)'
      BY <1>1, <2>1 DEF HasToken
  <2> QED BY <1>1, <1>3, <1>4, <2>1, <2>2, Orphan
<1>6. CASE Doing(c) # "AUTH"
  <2>1. cpc'[c] = "send" /\ exit'[c] = "none"
      BY <1>1, <1>6 DEF ClientReceiveLost, NextStep, NetType
  <2>2. step[c] > 1
      BY <1>6, DoingFacts
  <2>3. HasToken(c)'
      BY <1>1, <2>2 DEF HasToken
  <2> QED BY <1>1, <1>3, <1>4, <2>1, <2>3, Orphan
<1> QED BY <1>5, <1>6

LEMMA OwnClose ==
    ASSUME IInv, NetType, NEW c \in Clients, Client(c), ClientClose(c)
    PROVE  Client(c)'
<1>1. /\ cpc[c] = "close" /\ cpc'[c] = "done" /\ UNCHANGED <<step, token, got, exit>>
      /\ UNCHANGED <<running, backlog, served, inbox>> /\ UNCHANGED session
      /\ peer'[c] = "closed" /\ outbox'[c] = <<>>
    BY ClientAssumption
       DEF ClientClose, Hangup, TcpHangup, NetType, IInv, TypeOK, TcpTypes
<1>2. (Held(c)' <=> Held(c)) /\ (Waits(c)' <=> Waits(c)) /\ ~Awaits(c) /\ ~Awaits(c)'
    BY <1>1 DEF Held, Waits, Awaits
<1>3. Sockets(c)'
    BY <1>1, <1>2 DEF Client, Sockets
<1>4. Waiting(c)' /\ Lasting(c)'
    BY <1>1, <1>2 DEF Client, Waiting, Lasting
<1>5. HasToken(c)' /\ Agree(c)'
    BY <1>1 DEF Client, HasToken, Agree, session
<1>6. Complete(c)'
    BY <1>1 DEF Client, Complete, Before
<1> QED BY <1>3, <1>4, <1>5, <1>6 DEF Client

\* A client that has read its reply is at the next step of main.
LEMMA OwnReceive ==
    ASSUME IInv, NetType, NEW c \in Clients, Client(c), ClientReceive(c)
    PROVE  Client(c)'
<1>1. /\ cpc[c] = "recv" /\ peer[c] = "open" /\ outbox[c] # <<>> /\ outbox'[c] = <<>>
      /\ UNCHANGED <<running, backlog, served, peer, inbox>> /\ UNCHANGED session
      /\ (Held(c) => inbox[c] = <<>>) /\ ~Waits(c) /\ exit[c] = "none"
    BY ReceiveFacts
<1>2. /\ NextStep(c) /\ step[c] \in 1..5
      /\ got'[c] = got[c] \cup {Doing(c)}
      /\ token' = token \/ (token' = [token EXCEPT ![c] = Generated])
      /\ step[c] = 1 => token' = [token EXCEPT ![c] = Generated]
    BY ReadFacts, DoingFacts DEF NetType
<1>3. cpc'[c] = "send" /\ step'[c] = step[c] + 1 /\ exit' = exit
    BY <1>2 DEF NextStep, NetType
<1>4. (Held(c)' <=> Held(c)) /\ ~Waits(c)' /\ ~Awaits(c)'
    BY <1>1, <1>3 DEF Held, Waits, Awaits
<1>5. Sockets(c)'
    BY <1>1, <1>3, <1>4 DEF Sockets
<1>6. Waiting(c)'
    BY <1>3, <1>4 DEF Waiting
<1>7. HasToken(c)'
  <2>1. CASE step[c] = 1
      BY <1>2, <2>1 DEF HasToken, NetType
  <2>2. CASE step[c] > 1
    <3>1. token[c] = Generated
        BY <2>2 DEF Client, HasToken
    <3> QED BY <1>2, <3>1 DEF HasToken, NetType
  <2> QED BY <1>2, <2>1, <2>2
<1>8. Agree(c)' /\ Lasting(c)'
    BY <1>1, <1>4 DEF Client, Agree, Lasting, session
<1>9. Complete(c)'
  <2>1. running => got[c] = Before(step[c])
      BY <1>1 DEF Client, Complete
  <2>2. running => got'[c] = Before(step[c] + 1)
      BY <1>2, <2>1, BeforeFacts DEF Doing
  <2>3. Before(step[c])' = Before(step[c] + 1)
      BY <1>3 DEF Before
  <2> QED BY <1>1, <1>3, <2>2, <2>3 DEF Complete
<1> QED BY <1>5, <1>6, <1>7, <1>8, <1>9 DEF Client

LEMMA ClientsStep ==
    ASSUME IInv, NetType, AllClients, NEW c \in Clients, ClientStep(c)
    PROVE  NetType' /\ AllClients'
<1>1. Client(c) /\ c \in Conns
    BY ClientAssumption DEF AllClients
<1>2. Moves(c)
    BY <1>1, ClientMoves
<1>3. Client(c)'
    BY <1>1, OwnConnect, OwnRefused, OwnSend, OwnSendLost, OwnReceive, OwnReceiveLost,
       OwnClose DEF ClientStep
<1>4. ASSUME NEW d \in Clients, d # c
      PROVE  Client(d)'
  <2>1. Untouched(d)
      BY <1>1, <1>4, ClientIsPeer, PeerUntouched, ClientAssumption
  <2>2. Client(d)
      BY DEF AllClients
  <2> QED BY <1>2, <1>4, <2>1, <2>2, ClientKept DEF Moves, Untouched
<1> QED BY <1>2, <1>3, <1>4 DEF AllClients, Moves

LEMMA NetStep ==
    ASSUME NetType, AllClients, [NetNext]_netVars
    PROVE  [Next]_vars
<1>1. ASSUME NEW c \in Conns, ServerStep(c)
      PROVE  Next
    BY <1>1 DEF Next
<1>2. ASSUME NEW c \in Clients, ClientStep(c)
      PROVE  [Next]_vars
    BY <1>2, ClientIsPeer, ClientAssumption DEF AllClients, Next
<1>3. ASSUME NEW c \in Strangers, PeerStep(c)
      PROVE  Next
    BY <1>3 DEF Strangers, Next
<1>4. StopServer => Next
    BY DEF Next
<1>5. UNCHANGED netVars => UNCHANGED vars
    BY DEF netVars
<1> QED BY <1>1, <1>2, <1>3, <1>4, <1>5 DEF NetNext, ServerMoves

LEMMA NetInitial == NetInit => NetInv
<1> SUFFICES ASSUME NetInit PROVE NetInv
    OBVIOUS
<1>1. IInv
    BY IInvInit DEF NetInit
<1>2. NetType
    BY CredentialsAssumption DEF NetInit, NetType
<1>3. ASSUME NEW c \in Clients
      PROVE  Client(c)
  <2>1. /\ cpc[c] = "start" /\ step[c] = 1 /\ got[c] = {} /\ exit[c] = "none"
        /\ peer[c] = "closed" /\ outbox[c] = <<>> /\ inbox[c] = <<>>
        /\ backlog = <<>> /\ DOMAIN <<>> = {} /\ served = NoConn
      BY <1>3, ClientAssumption DEF NetInit, Init, TcpInit
  <2>2. c # served /\ ~Waits(c) /\ ~Held(c) /\ ~Awaits(c)
      BY <2>1, ClientAssumption, ServiceAssumption DEF Waits, Held, Awaits
  <2>3. Sockets(c) /\ Waiting(c)
      BY <2>1, <2>2 DEF Sockets, Waiting
  <2>4. HasToken(c) /\ Agree(c) /\ Lasting(c)
      BY <2>1, <2>2 DEF HasToken, Agree, Lasting
  <2>5. Complete(c)
      BY <2>1, BeforeFacts DEF Complete
  <2> QED BY <2>3, <2>4, <2>5 DEF Client
<1> QED BY <1>1, <1>2, <1>3 DEF NetInv, AllClients

LEMMA NetInductive == NetInv /\ [NetNext]_netVars => NetInv'
<1> SUFFICES ASSUME NetInv, [NetNext]_netVars PROVE NetInv'
    OBVIOUS
<1>1. IInv /\ NetType /\ AllClients
    BY DEF NetInv
<1>2. IInv'
    BY <1>1, NetStep, IInvNext
<1>3. ASSUME SameClients
      PROVE  NetType'
    BY <1>1, <1>3 DEF SameClients, clientVars, NetType
<1>4. ASSUME NEW c \in Conns, ServerStep(c), SameClients
      PROVE  AllClients'
    BY <1>1, <1>4, ClientsServer
<1>5. ASSUME NEW c \in Clients, ClientStep(c)
      PROVE  NetType' /\ AllClients'
    BY <1>1, <1>5, ClientsStep
<1>6. ASSUME NEW c \in Strangers, PeerStep(c), SameClients
      PROVE  AllClients'
    BY <1>1, <1>6, ClientsStranger
<1>7. ASSUME StopServer, SameClients
      PROVE  AllClients'
    BY <1>1, <1>7, ClientsStop
<1>8. ASSUME UNCHANGED netVars
      PROVE  SameClients /\ AllClients'
  <2>1. SameClients /\ UNCHANGED <<tcp, session>>
      BY <1>8 DEF netVars, vars, SameClients
  <2> QED BY <1>1, <2>1, ClientsStutter
<1>9. NetType' /\ AllClients'
    BY <1>3, <1>4, <1>5, <1>6, <1>7, <1>8 DEF NetNext, ServerMoves, SameClients
<1> QED BY <1>2, <1>9 DEF NetInv

-----------------------------------------------------------------------------
(***************************************************************************)
(* Where each client stands tells what is in its sockets, what the server  *)
(* holds of its session, and which answers it has had (client.c:124-190).  *)
(***************************************************************************)
THEOREM NetInvariant == NetSpec => []NetInv
BY NetInitial, NetInductive, PTL DEF NetSpec

LEMMA NetServed == ASSUME NetInv PROVE ServedInFull
<1> SUFFICES ASSUME NEW c \in Clients
             PROVE  /\ running /\ cpc[c] = "done" =>
                          /\ exit[c] = "0"
                          /\ got[c] = {Script[i] : i \in 1..Len(Script) - 1}
                    /\ Held(c) /\ peer[c] = "closed" => inbox[c] \in {<<>>, <<Disconnect>>}
    BY DEF ServedInFull
<1>1. Client(c)
    BY DEF NetInv, AllClients
<1>2. Before(6) = {Script[i] : i \in 1..Len(Script) - 1}
    BY ScriptFacts DEF Before
<1>3. running /\ cpc[c] = "done" => exit[c] = "0" /\ got[c] = Before(6)
    BY <1>1 DEF Client, Complete
<1>4. peer[c] = "closed" => ~Awaits(c)
    BY <1>1 DEF Client, Sockets, Awaits
<1>5. Held(c) /\ peer[c] = "closed" => inbox[c] \in {<<>>, <<Disconnect>>}
    BY <1>1, <1>4 DEF Client, Sockets
<1> QED BY <1>2, <1>3, <1>5

(***************************************************************************)
(* While the server is alive, a client that ends has exit code 0 and its   *)
(* own answer to every step, though it checks nothing after AUTH, and      *)
(* leaves behind at most its DISCONNECT (client.c:124-190), for every      *)
(* number of clients and strangers and whatever the strangers send.        *)
(***************************************************************************)
THEOREM Served == NetSpec => []ServedInFull
BY NetInvariant, NetServed, PTL

(***************************************************************************)
(* Among its clients and strangers the server still gives no command to a  *)
(* connection that has not authenticated itself, and shifts no reply: the  *)
(* composition is a behaviour of the server module (server.c:121-224).     *)
(***************************************************************************)
THEOREM NetSafety == NetSpec => [](CommandsAfterOwnAuth /\ InStep)
<1>1. NetInit => Init
    BY DEF NetInit
<1>2. NetInv /\ [NetNext]_netVars => [Next]_vars
    BY NetStep DEF NetInv
<1>3. NetSpec => Spec
    BY <1>1, <1>2, NetInvariant, PTL DEF NetSpec, Spec
<1> QED BY <1>3, TokenAlone, Pipelined, PTL

=============================================================================
