----------------------------- MODULE Ch13Proofs -----------------------------
(***************************************************************************)
(* Theorems about the chapter 13 server, for every set of connections and  *)
(* of requests, every clock and every way to make an identifier of it; and *)
(* about the server together with its client program and with strangers,   *)
(* for every number of clients, heartbeats and resources.                  *)
(***************************************************************************)
EXTENDS Ch13Network, TcpServiceProofs

(***************************************************************************)
(* The inductive invariant.                                                *)
(***************************************************************************)

\* A reply in a socket answers the request at its place.
Pairs ==
    \A c \in Conns : peer[c] = "open" =>
        \A i \in DOMAIN outbox[c] : Answers(outbox[c][i], asked[c][i])

\* The session being served, and the data sent, go back to a grant of AUTH.
Own ==
    \A c \in Conns : peer[c] = "open" =>
        /\ c = served /\ authenticated => current_session_id \in granted[c]
        /\ \A i \in DOMAIN outbox[c] :
              outbox[c][i].type = "DATA_RESP" => asked[c][i].session_id \in granted[c]

IInv == TypeOK /\ Queue /\ Flow /\ Pairs /\ Own

-----------------------------------------------------------------------------
(***************************************************************************)
(* Handlers.                                                               *)
(***************************************************************************)
Handler(c) == HandleAuth(c) \/ HandlePing(c) \/ HandleDataReq(c) \/ HandleUnknown(c)

\* A request is told by its type and by ok.
LEMMA RequestOfType ==
    ASSUME NEW req \in Request
    PROVE  /\ req.type = "PING" /\ req.ok => req.seq \in Nat
           /\ req.type = "DATA_REQ" /\ req.ok =>
                req.session_id \in Nat /\ req.resource_id \in 0..255
<1>1. req \in [type : {"AUTH_REQ"}, ok : {TRUE}, user : Usernames, token : Tokens]
        => req.type = "AUTH_REQ"
    OBVIOUS
<1>2. req \in {Short("AUTH_REQ"), Short("PING"), Short("DATA_REQ")} => ~req.ok
    BY DEF Short
<1>3. req \in {Goodbye, UnknownType, BadFrame} =>
        req.type \in {"GOODBYE", "UNKNOWN_TYPE", "BAD_FRAME"}
    BY DEF Goodbye, UnknownType, BadFrame
<1>4. req \in [type : {"PING"}, ok : {TRUE}, seq : Nat] =>
        req.type = "PING" /\ req.seq \in Nat
    OBVIOUS
<1>5. req \in [type : {"DATA_REQ"}, ok : {TRUE}, session_id : Nat, resource_id : 0..255] =>
        req.type = "DATA_REQ" /\ req.session_id \in Nat /\ req.resource_id \in 0..255
    OBVIOUS
<1> QED BY <1>1, <1>2, <1>3, <1>4, <1>5 DEF Request

\* What a handler may send is a reply.
LEMMA Replies ==
    /\ \A sid \in Nat : AuthResp("AUTH_OK", sid) \in Reply
    /\ AuthResp("AUTH_FAILED", 0) \in Reply
    /\ \A seq \in Nat : Pong(seq) \in Reply
    /\ \A r \in 0..NUM_RESOURCES - 1 : DataResp(r) \in Reply
    /\ \A text \in {"SESSION", "RESOURCE", "TYPE"} : Error(text) \in Reply
BY DEF Reply, AuthResp, Pong, DataResp, Error

LEMMA DataReplyFacts ==
    ASSUME NEW req \in Request, req.type = "DATA_REQ", req.ok
    PROVE  /\ DataReply(req) \in Reply
           /\ Answers(DataReply(req), req)
           /\ DataReply(req).type = "DATA_RESP" => InSession(req)
           /\ DataReply(req).type # "AUTH_RESP"
<1>1. req.resource_id \in 0..255
    BY RequestOfType
<1>2. CASE ~InSession(req)
  <2>1. DataReply(req) = Error("SESSION")
      BY <1>2 DEF DataReply
  <2> QED BY <2>1, Replies DEF Answers, Error
<1>3. CASE InSession(req) /\ ~Exists(req.resource_id)
  <2>1. DataReply(req) = Error("RESOURCE")
      BY <1>3 DEF DataReply
  <2> QED BY <2>1, Replies DEF Answers, Error
<1>4. CASE InSession(req) /\ Exists(req.resource_id)
  <2>1. DataReply(req) = DataResp(req.resource_id)
      BY <1>4 DEF DataReply
  <2>2. req.resource_id \in 0..NUM_RESOURCES - 1
      BY <1>1, <1>4, ProtocolAssumption DEF Exists
  <2> QED BY <1>4, <2>1, <2>2, Replies DEF Answers, DataResp
<1> QED BY <1>2, <1>3, <1>4

\* An AUTH_OK carries the identifier of the session it begins, and no other
\* reply begins one.
Announces(reply) ==
    /\ reply.type = "AUTH_RESP" /\ reply.result = "AUTH_OK" =>
         current_session_id' = reply.session_id
    /\ reply.type # "AUTH_RESP" => current_session_id' = current_session_id

\* A handler sends one reply; it answers the request, and carries data only
\* when the request is in session.
LEMMA HandlerReply ==
    ASSUME TypeOK, NEW c \in Conns, Handler(c)
    PROVE  /\ \E reply \in Reply : \E type, outcome, leave :
                /\ Receives(c, type) /\ Emit(c, <<reply>>) /\ Conclude(c, outcome, leave)
                /\ Answers(reply, Head(inbox[c]))
                /\ reply.type = "DATA_RESP" =>
                     InSession(Head(inbox[c])) /\ UNCHANGED granted
                /\ Announces(reply)
           /\ UNCHANGED <<peer, asked, now>>
<1> DEFINE req == Head(inbox[c])
<1>1. \A type : Receives(c, type) => req \in Request /\ req.type = type
    BY ReceivesFacts DEF TypeOK
<1>2. CASE HandleAuth(c)
  <2>1. Receives(c, "AUTH_REQ") /\ req.type = "AUTH_REQ"
        /\ \E outcome : Conclude(c, outcome, outcome = "failed")
        /\ UNCHANGED <<peer, asked, now>>
      BY <1>1, <1>2 DEF HandleAuth
  <2>2. CASE Authentic(req)
    <3>1. Emit(c, <<AuthResp("AUTH_OK", SessionIdAt[now])>>)
        BY <1>2, <2>2 DEF HandleAuth
    <3>2. AuthResp("AUTH_OK", SessionIdAt[now]) \in Reply
        BY Replies, ClockAssumption DEF TypeOK
    <3>3. /\ Answers(AuthResp("AUTH_OK", SessionIdAt[now]), req)
          /\ AuthResp("AUTH_OK", SessionIdAt[now]).type # "DATA_RESP"
        BY <2>1, <2>2 DEF Answers, AuthResp
    <3>4. Announces(AuthResp("AUTH_OK", SessionIdAt[now]))
        BY <1>2, <2>2 DEF HandleAuth, Announces, AuthResp
    <3> QED BY <2>1, <3>1, <3>2, <3>3, <3>4
  <2>3. CASE ~Authentic(req)
    <3>1. Emit(c, <<AuthResp("AUTH_FAILED", 0)>>)
        BY <1>2, <2>3 DEF HandleAuth
    <3>2. AuthResp("AUTH_FAILED", 0) \in Reply
        BY Replies
    <3>3. /\ Answers(AuthResp("AUTH_FAILED", 0), req)
          /\ AuthResp("AUTH_FAILED", 0).type # "DATA_RESP"
          /\ Announces(AuthResp("AUTH_FAILED", 0))
        BY <2>1, <2>3 DEF Answers, AuthResp, Announces
    <3> QED BY <2>1, <3>1, <3>2, <3>3
  <2> QED BY <2>2, <2>3
<1>3. CASE HandlePing(c)
  <2>1. Receives(c, "PING") /\ req.type = "PING" /\ req.ok /\ req \in Request
        /\ Emit(c, <<Pong(req.seq)>>)
        /\ \E outcome : Conclude(c, outcome, outcome = "failed")
        /\ UNCHANGED <<peer, asked, now>>
      BY <1>1, <1>3 DEF HandlePing
  <2>2. Pong(req.seq) \in Reply
      BY <2>1, Replies, RequestOfType
  <2>3. /\ Answers(Pong(req.seq), req) /\ Pong(req.seq).type # "DATA_RESP"
        /\ Announces(Pong(req.seq))
      BY <1>3, <2>1 DEF HandlePing, session, Answers, Pong, Announces
  <2> QED BY <2>1, <2>2, <2>3
<1>4. CASE HandleDataReq(c)
  <2>1. Receives(c, "DATA_REQ") /\ req.type = "DATA_REQ" /\ req.ok /\ req \in Request
        /\ Emit(c, <<DataReply(req)>>)
        /\ \E outcome : Conclude(c, outcome, outcome = "failed")
        /\ UNCHANGED <<peer, asked, now, granted>>
      BY <1>1, <1>4 DEF HandleDataReq
  <2> HIDE DEF req
  <2>2. /\ DataReply(req) \in Reply /\ Answers(DataReply(req), req)
        /\ DataReply(req).type = "DATA_RESP" => InSession(req)
        /\ DataReply(req).type # "AUTH_RESP"
      BY <2>1, DataReplyFacts
  <2>3. Announces(DataReply(req))
      BY <1>4, <2>2 DEF HandleDataReq, session, Announces
  <2> QED BY <2>1, <2>2, <2>3 DEF req
<1>5. CASE HandleUnknown(c)
  <2>1. Receives(c, "UNKNOWN_TYPE") /\ req.type = "UNKNOWN_TYPE"
        /\ Emit(c, <<Error("TYPE")>>)
        /\ \E outcome : Conclude(c, outcome, FALSE)
        /\ UNCHANGED <<peer, asked, now>>
      BY <1>1, <1>5 DEF HandleUnknown, UnknownReplies
  <2>2. Error("TYPE") \in Reply /\ Answers(Error("TYPE"), req)
        /\ Error("TYPE").type # "DATA_RESP" /\ Announces(Error("TYPE"))
      BY <1>5, <2>1, Replies DEF HandleUnknown, session, Answers, Error, Announces
  <2> QED BY <2>1, <2>2
<1> QED BY <1>2, <1>3, <1>4, <1>5 DEF Handler

-----------------------------------------------------------------------------
(***************************************************************************)
(* Every step keeps the types.                                             *)
(***************************************************************************)
LEMMA TypeInit == Init => TypeOK
<1> SUFFICES ASSUME Init PROVE TypeOK
    OBVIOUS
<1>1. TcpTypes(Request, Reply)
  <2>1. <<>> \in Seq(Conns) /\ <<>> \in Seq(Request) /\ <<>> \in Seq(Reply)
      OBVIOUS
  <2> QED BY <2>1 DEF Init, TcpInit, TcpTypes
<1>2. 0 \in 0..MaxTime
    BY ClockAssumption
<1>3. [c \in Conns |-> {}] \in [Conns -> SUBSET Nat]
    OBVIOUS
<1>4. current_session_id = 0 /\ authenticated = FALSE /\ now = 0
      /\ granted = [c \in Conns |-> {}]
    BY DEF Init
<1> QED BY <1>1, <1>2, <1>3, <1>4 DEF TypeOK

LEMMA TypeNext ==
    ASSUME TypeOK, [Next]_vars
    PROVE  TypeOK'
<1>1. ASSUME NEW c \in Conns, PeerStep(c)
      PROVE  TypeOK'
  <2>1. TcpTypes(Request, Reply)'
    <3>1. \/ TcpConnect(c) \/ TcpTakeReply(c) \/ TcpHangup(c)
          \/ \E req \in Request : TcpSubmit(c, req)
        BY <1>1, RequestsAssumption DEF PeerStep, Connect, TakeReply, Hangup, Submit
    <3> QED BY <3>1, FrameTypes DEF TypeOK
  <2> QED BY <1>1, <2>1
          DEF PeerStep, Connect, TakeReply, Hangup, Submit, TypeOK, session
<1>2. ASSUME NEW c \in Conns, Handler(c)
      PROVE  TypeOK'
  <2>1. TcpTypes(Request, Reply)'
    <3>1. PICK reply \in Reply : \E type, outcome, leave :
            Receives(c, type) /\ Emit(c, <<reply>>) /\ Conclude(c, outcome, leave)
        BY <1>2, HandlerReply
    <3>2. <<reply>> \in Seq(Reply) /\ UNCHANGED <<peer, asked>>
        BY <1>2, HandlerReply
    <3> QED BY <3>1, <3>2, HandlerTcp DEF TypeOK
  <2>2. now' = now
      BY <1>2, HandlerReply
  <2>3. CASE HandleAuth(c)
    <3>1. SessionIdAt[now] \in Nat
        BY ClockAssumption DEF TypeOK
    <3>2. current_session_id' \in Nat /\ granted' \in [Conns -> SUBSET Nat]
        BY <2>3, <3>1 DEF HandleAuth, TypeOK, session
    <3>3. authenticated' \in BOOLEAN
        BY <2>3 DEF HandleAuth, TypeOK, session
    <3> QED BY <2>1, <2>2, <3>2, <3>3 DEF TypeOK
  <2>4. CASE ~HandleAuth(c)
      BY <1>2, <2>1, <2>2, <2>4
      DEF Handler, HandlePing, HandleDataReq, HandleUnknown, TypeOK, session
  <2> QED BY <2>3, <2>4
<1>3. ASSUME NEW c \in Conns, Accept(c) \/ ConnectionLost(c)
      PROVE  TypeOK'
  <2>1. TcpTypes(Request, Reply)'
      BY <1>3, FrameTypes DEF Accept, ConnectionLost, TypeOK
  <2>2. current_session_id' \in Nat /\ UNCHANGED <<now, granted>>
      BY <1>3 DEF Accept, ConnectionLost, FreshSession, TypeOK, session
  <2>3. authenticated' \in BOOLEAN
      BY <1>3 DEF Accept, ConnectionLost, FreshSession, TypeOK, session
  <2> QED BY <2>1, <2>2, <2>3 DEF TypeOK
<1>4. ASSUME NEW c \in Conns, Leave(c)
      PROVE  TypeOK'
  <2>1. <<>> \in Seq(Request)
      OBVIOUS
  <2> QED BY <1>4, <2>1 DEF Leave, CloseClient, TypeOK, TcpTypes, session
<1>5. CASE StopServer
  <2>1. <<>> \in Seq(Request) /\ <<>> \in Seq(Conns)
      OBVIOUS
  <2> QED BY <1>5, <2>1 DEF StopServer, TcpStop, Die, TypeOK, TcpTypes, session
<1>6. CASE Tick
    BY <1>6, ClockAssumption DEF Tick, TypeOK, TcpTypes, tcp, session
<1>7. CASE UNCHANGED vars
    BY <1>7 DEF TypeOK, TcpTypes, vars, tcp, session
<1> QED BY <1>1, <1>2, <1>3, <1>4, <1>5, <1>6, <1>7 DEF Next, ServerStep, Handler

-----------------------------------------------------------------------------
(***************************************************************************)
(* Every step keeps the rest.                                              *)
(***************************************************************************)
LEMMA IInvInit == Init => IInv
<1> SUFFICES ASSUME Init PROVE IInv
    OBVIOUS
<1>1. DOMAIN <<>> = {}
    OBVIOUS
<1>2. \A c \in Conns : peer[c] # "open"
    BY DEF Init, TcpInit
<1> QED BY <1>1, <1>2, TypeInit DEF Init, TcpInit, IInv, Queue, Flow, Pairs, Own

\* Replies in sockets, the requests they answer and the grants stay.
LEMMA SocketsKept ==
    ASSUME Pairs, Own, UNCHANGED <<peer, outbox, asked, granted>>,
           \/ served' \in {served, NoConn} /\ UNCHANGED session
           \/ ~authenticated'
    PROVE  Pairs' /\ Own'
<1>1. Pairs'
    BY DEF Pairs
<1>2. Own'
    BY ServiceAssumption DEF Own, session
<1> QED BY <1>1, <1>2

LEMMA HandlerKeeps ==
    ASSUME IInv, NEW c \in Conns, Handler(c)
    PROVE  Queue' /\ Flow' /\ Pairs' /\ Own'
<1>1. PICK reply \in Reply : \E type, outcome, leave :
        /\ Receives(c, type) /\ Emit(c, <<reply>>) /\ Conclude(c, outcome, leave)
        /\ Answers(reply, Head(inbox[c]))
        /\ reply.type = "DATA_RESP" =>
             InSession(Head(inbox[c])) /\ UNCHANGED granted
    BY HandlerReply DEF IInv
<1>2. UNCHANGED <<peer, asked, now>>
    BY HandlerReply DEF IInv
<1>3. /\ Flow'
      /\ \A d \in Conns : peer[d] = "open" => \A i \in DOMAIN outbox'[d] :
            \/ i \in DOMAIN outbox[d] /\ outbox'[d][i] = outbox[d][i]
            \/ /\ d = c /\ outbox'[d][i] = reply
               /\ asked[d][i] = Head(inbox[c])
    BY <1>1, <1>2, FlowHandler DEF IInv, TypeOK
<1>4. c = served /\ served' \in {served, NoConn} /\ backlog' \in {backlog, <<>>}
    BY <1>1, ReceivesFacts, ConcludeFacts DEF IInv, TypeOK
<1>5. Queue'
    BY <1>4, QueueKept DEF IInv, TypeOK
<1>6. Pairs'
    BY <1>1, <1>2, <1>3 DEF IInv, Pairs
<1>7. \A d \in Conns : peer[d] = "open" => granted[d] \subseteq granted'[d]
  <2>1. CASE HandleAuth(c)
      BY <2>1 DEF HandleAuth, IInv, TypeOK
  <2>2. CASE ~HandleAuth(c)
      BY <2>2 DEF Handler, HandlePing, HandleDataReq, HandleUnknown
  <2> QED BY <2>1, <2>2
<1>8. ASSUME peer[c] = "open", authenticated'
      PROVE  current_session_id' \in granted'[c]
  <2>1. CASE HandleAuth(c) /\ Authentic(Head(inbox[c]))
      BY <1>8, <2>1 DEF HandleAuth, IInv, TypeOK
  <2>2. CASE ~(HandleAuth(c) /\ Authentic(Head(inbox[c])))
    <3>1. UNCHANGED <<session, granted>>
        BY <2>2 DEF Handler, HandleAuth, HandlePing, HandleDataReq, HandleUnknown
    <3> QED BY <1>4, <1>8, <3>1 DEF IInv, Own, session
  <2> QED BY <2>1, <2>2
<1>9. ASSUME NEW d \in Conns, peer[d] = "open", NEW i \in DOMAIN outbox'[d],
             outbox'[d][i].type = "DATA_RESP"
      PROVE  asked[d][i].session_id \in granted'[d]
  <2>1. CASE i \in DOMAIN outbox[d] /\ outbox'[d][i] = outbox[d][i]
      BY <1>7, <1>9, <2>1 DEF IInv, Own
  <2>2. CASE d = c /\ outbox'[d][i] = reply /\ asked[d][i] = Head(inbox[c])
    <3>1. authenticated /\ Head(inbox[c]).session_id = current_session_id
        BY <1>1, <1>9, <2>2 DEF InSession
    <3> QED BY <1>4, <1>7, <1>9, <2>2, <3>1 DEF IInv, Own
  <2> QED BY <1>3, <1>9, <2>1, <2>2
<1>10. Own'
  <2>1. \A d \in Conns : d = served' => d = c
      BY <1>4, ServiceAssumption
  <2> QED BY <1>2, <1>8, <1>9, <2>1 DEF Own
<1> QED BY <1>3, <1>5, <1>6, <1>10

LEMMA PeerKeeps ==
    ASSUME IInv, NEW c \in Conns, PeerStep(c)
    PROVE  Queue' /\ Flow' /\ Pairs' /\ Own'
<1>1. CASE Connect(c)
  <2>1. TcpConnect(c) /\ UNCHANGED session /\ granted' = [granted EXCEPT ![c] = {}]
      BY <1>1 DEF Connect
  <2>2. Queue' /\ Flow'
      BY <2>1, QueueConnect, FlowFrame DEF IInv, TypeOK
  <2>3. c # served' /\ served' = served
      BY <2>1, ConnectQueue DEF IInv, TypeOK
  <2>4. /\ outbox'[c] = <<>> /\ DOMAIN <<>> = {}
        /\ \A d \in Conns : d # c =>
              /\ peer'[d] = peer[d] /\ outbox'[d] = outbox[d]
              /\ asked'[d] = asked[d] /\ granted'[d] = granted[d]
      BY <2>1 DEF TcpConnect, IInv, TypeOK, TcpTypes
  <2>5. Pairs'
      BY <2>4 DEF IInv, Pairs
  <2>6. Own'
      BY <2>1, <2>3, <2>4 DEF IInv, Own, session
  <2> QED BY <2>2, <2>5, <2>6
<1>2. ASSUME NEW req \in Requests[c], Submit(c, req)
      PROVE  Queue' /\ Flow' /\ Pairs' /\ Own'
  <2>1. req \in Request /\ TcpSubmit(c, req) /\ UNCHANGED <<session, granted>>
      BY <1>2, RequestsAssumption DEF Submit
  <2>2. UNCHANGED <<served, backlog, peer, outbox>>
      BY <2>1 DEF TcpSubmit
  <2>3. /\ Flow'
        /\ \A d \in Conns : peer[d] = "open" => \A i \in DOMAIN outbox[d] :
              i \in DOMAIN asked[d] /\ asked'[d][i] = asked[d][i]
      BY <2>1, FlowSubmit DEF IInv, TypeOK
  <2>4. Queue'
      BY <2>2 DEF IInv, Queue
  <2>5. Pairs'
      BY <2>2, <2>3 DEF IInv, Pairs
  <2>6. Own'
      BY <2>1, <2>2, <2>3 DEF IInv, Own, session
  <2> QED BY <2>3, <2>4, <2>5, <2>6
<1>3. CASE TakeReply(c)
  <2>1. TcpTakeReply(c) /\ UNCHANGED <<session, granted>>
      BY <1>3 DEF TakeReply
  <2>2. UNCHANGED <<served, backlog, peer>>
      BY <2>1 DEF TcpTakeReply
  <2>3. /\ Flow'
        /\ \A d \in Conns : peer[d] = "open" => \A i \in DOMAIN outbox'[d] :
              \E j \in DOMAIN outbox[d] :
                  outbox'[d][i] = outbox[d][j] /\ asked'[d][i] = asked[d][j]
      BY <2>1, FlowTake DEF IInv, TypeOK
  <2>4. Queue'
      BY <2>2 DEF IInv, Queue
  <2>5. Pairs'
      BY <2>2, <2>3 DEF IInv, Pairs
  <2>6. Own'
      BY <2>1, <2>2, <2>3 DEF IInv, Own, session
  <2> QED BY <2>3, <2>4, <2>5, <2>6
<1>4. CASE Hangup(c)
  <2>1. TcpHangup(c) /\ UNCHANGED session /\ granted' = [granted EXCEPT ![c] = {}]
      BY <1>4 DEF Hangup
  <2>2. /\ peer'[c] = "closed" /\ UNCHANGED <<served, backlog>>
        /\ \A d \in Conns : d # c =>
              /\ peer'[d] = peer[d] /\ outbox'[d] = outbox[d]
              /\ asked'[d] = asked[d] /\ granted'[d] = granted[d]
      BY <2>1 DEF TcpHangup, IInv, TypeOK, TcpTypes
  <2>3. Flow'
      BY <2>1, FlowFrame DEF IInv, TypeOK
  <2>4. Queue'
      BY <2>2 DEF IInv, Queue
  <2>5. Pairs'
      BY <2>2 DEF IInv, Pairs
  <2>6. Own'
      BY <2>1, <2>2 DEF IInv, Own, session
  <2> QED BY <2>3, <2>4, <2>5, <2>6
<1> QED BY <1>1, <1>2, <1>3, <1>4 DEF PeerStep

LEMMA IInvNext ==
    ASSUME IInv, [Next]_vars
    PROVE  IInv'
<1>1. TypeOK'
    BY TypeNext DEF IInv
<1>2. ASSUME NEW c \in Conns, Accept(c)
      PROVE  Queue' /\ Flow' /\ Pairs' /\ Own'
  <2>1. TcpAccept(c) /\ ~authenticated' /\ UNCHANGED <<peer, outbox, asked, granted>>
      BY <1>2 DEF Accept, FreshSession, TcpAccept
  <2> QED BY <2>1, QueueAccept, FlowFrame, SocketsKept DEF IInv, TypeOK
<1>3. ASSUME NEW c \in Conns, ConnectionLost(c) \/ Leave(c)
      PROVE  Queue' /\ Flow' /\ Pairs' /\ Own'
  <2>1. /\ c = served /\ CloseClient(c)
        /\ UNCHANGED <<peer, outbox, asked, session, granted>>
      BY <1>3 DEF ConnectionLost, TcpLost, Leave, Receives
  <2>2. Queue'
      BY <2>1, QueueKept DEF CloseClient, IInv, TypeOK
  <2>3. Flow'
      BY <2>1, FlowFrame DEF IInv, TypeOK
  <2>4. Pairs' /\ Own'
      BY <2>1, SocketsKept DEF CloseClient, IInv
  <2> QED BY <2>2, <2>3, <2>4
<1>4. CASE StopServer
  <2>1. TcpStop /\ UNCHANGED <<peer, outbox, asked, session, granted>>
      BY <1>4 DEF StopServer, TcpStop
  <2>2. Queue'
      BY <2>1, QueueKept DEF TcpStop, Die, IInv, TypeOK
  <2>3. Flow'
    <3>1. \A d \in Conns : ~Held(d)'
        BY <2>1, ServiceAssumption DEF TcpStop, Die, Held
    <3> QED BY <2>1, <3>1 DEF IInv, Flow
  <2>4. Pairs' /\ Own'
      BY <2>1, SocketsKept DEF TcpStop, Die, IInv
  <2> QED BY <1>1, <2>2, <2>3, <2>4 DEF IInv
<1>5. CASE Tick \/ UNCHANGED vars
  <2>1. UNCHANGED <<tcp, session, granted>>
      BY <1>5 DEF Tick, vars
  <2>2. Queue' /\ Flow'
      BY <2>1 DEF tcp, IInv, Queue, Flow, Owed, Held
  <2>3. Pairs' /\ Own'
      BY <2>1, SocketsKept DEF tcp, IInv
  <2> QED BY <1>1, <2>2, <2>3 DEF IInv
<1> QED BY <1>1, <1>2, <1>3, <1>4, <1>5, HandlerKeeps, PeerKeeps
        DEF IInv, Next, ServerStep, Handler

-----------------------------------------------------------------------------
(***************************************************************************)
(* One identifier at a time.  Replies stay in the socket while the session *)
(* moves on, so what is kept of a session is told by the replies a peer    *)
(* has not read: the last AUTH_OK, when no other AUTH_RESP follows it,     *)
(* names the session of the client served.                                 *)
(***************************************************************************)

\* The grant at place i of the replies o is the last word on AUTH before j.
InForce(o, i, j) ==
    /\ o[i].type = "AUTH_RESP" /\ o[i].result = "AUTH_OK"
    /\ \A k \in i + 1..j - 1 : o[k].type # "AUTH_RESP"

\* Data among the replies o to q carries the identifier in force.
Chained(o, q) ==
    \A i, j \in DOMAIN o : i < j /\ InForce(o, i, j) /\ o[j].type = "DATA_RESP" =>
        q[j].session_id = o[i].session_id

\* sid is the identifier in force after all the replies o.
Latest(o, sid) ==
    \A i \in DOMAIN o : InForce(o, i, Len(o) + 1) => o[i].session_id = sid

\* No reply is left in the socket of a peer that closed, nor in one that waits.
Clean ==
    /\ \A c \in Conns : peer[c] # "open" => outbox[c] = <<>>
    /\ \A i \in DOMAIN backlog : outbox[backlog[i]] = <<>>

Current ==
    \A c \in Conns :
        /\ Chained(outbox[c], asked[c])
        /\ c = served => Latest(outbox[c], current_session_id)

\* A handler's reply.
LEMMA ChainedAppend ==
    ASSUME NEW Rep, NEW o \in Seq(Rep), NEW q, NEW r \in Rep, NEW sid,
           Chained(o, q), Latest(o, sid),
           r.type = "DATA_RESP" => q[Len(o) + 1].session_id = sid
    PROVE  Chained(Append(o, r), q)
<1> DEFINE n == Len(o)
           o1 == Append(o, r)
<1>1. /\ n \in Nat /\ DOMAIN o = 1..n /\ DOMAIN o1 = 1..n + 1
      /\ \A i \in 1..n : o1[i] = o[i]
      /\ o1[n + 1] = r
    BY AppendFacts
<1> HIDE DEF n, o1
<1>2. ASSUME NEW i \in DOMAIN o1, NEW j \in DOMAIN o1, i < j,
             InForce(o1, i, j), o1[j].type = "DATA_RESP"
      PROVE  q[j].session_id = o1[i].session_id
  <2>1. i \in 1..n /\ \A k \in i + 1..j - 1 : k \in 1..n
      BY <1>1, <1>2
  <2>2. InForce(o, i, j) /\ o1[i] = o[i]
      BY <1>1, <1>2, <2>1 DEF InForce
  <2>3. CASE j = n + 1
      BY <1>1, <1>2, <2>1, <2>2, <2>3 DEF Latest, n
  <2>4. CASE j # n + 1
    <3>1. j \in 1..n
        BY <1>1, <1>2, <2>4
    <3> QED BY <1>1, <1>2, <2>1, <2>2, <3>1 DEF Chained
  <2> QED BY <2>3, <2>4
<1> QED BY <1>2 DEF Chained, o1

LEMMA LatestAppend ==
    ASSUME NEW Rep, NEW o \in Seq(Rep), NEW r \in Rep, NEW sid, NEW next, Latest(o, sid),
           r.type = "AUTH_RESP" /\ r.result = "AUTH_OK" => r.session_id = next,
           r.type # "AUTH_RESP" => next = sid
    PROVE  Latest(Append(o, r), next)
<1> DEFINE n == Len(o)
           o1 == Append(o, r)
<1>1. /\ n \in Nat /\ DOMAIN o = 1..n /\ DOMAIN o1 = 1..n + 1 /\ Len(o1) = n + 1
      /\ \A i \in 1..n : o1[i] = o[i]
      /\ o1[n + 1] = r
    BY AppendFacts
<1> HIDE DEF n, o1
<1>2. ASSUME NEW i \in DOMAIN o1, InForce(o1, i, n + 2)
      PROVE  o1[i].session_id = next
  <2>1. CASE i = n + 1
      BY <1>1, <1>2, <2>1 DEF InForce
  <2>2. CASE i # n + 1
    <3>1. i \in 1..n /\ n + 1 \in i + 1..(n + 2) - 1
          /\ \A k \in i + 1..(n + 1) - 1 : k \in 1..n /\ k \in i + 1..(n + 2) - 1
        BY <1>1, <2>2
    <3>2. r.type # "AUTH_RESP" /\ InForce(o, i, n + 1)
        BY <1>1, <1>2, <3>1 DEF InForce
    <3> QED BY <1>1, <3>1, <3>2 DEF Latest, n
  <2> QED BY <2>1, <2>2
<1>3. (n + 1) + 1 = n + 2
    BY <1>1
<1> QED BY <1>1, <1>2, <1>3 DEF Latest, o1

\* A peer reads one reply, and with it one request is answered.
Shifted(n, q, q1) == \A i \in 1..n - 1 : q1[i] = q[i + 1]

LEMMA ShiftedReplies ==
    ASSUME NEW Rep, NEW o \in Seq(Rep), o # <<>>, NEW q, NEW q1, NEW sid,
           Shifted(Len(o), q, q1)
    PROVE  /\ Chained(o, q) => Chained(Tail(o), q1)
           /\ Latest(o, sid) => Latest(Tail(o), sid)
<1> DEFINE n == Len(o)
           o1 == Tail(o)
<1>1. /\ n \in Nat \ {0} /\ DOMAIN o = 1..n /\ DOMAIN o1 = 1..n - 1 /\ Len(o1) = n - 1
      /\ \A i \in 1..n - 1 : o1[i] = o[i + 1]
    BY TailFacts
<1> HIDE DEF n, o1
<1>2. ASSUME NEW i \in 1..n - 1, NEW j \in 1..n, InForce(o1, i, j)
      PROVE  InForce(o, i + 1, j + 1)
  <2>1. o1[i] = o[i + 1]
      BY <1>1
  <2>2. ASSUME NEW k \in (i + 1) + 1..(j + 1) - 1
        PROVE  o[k].type # "AUTH_RESP"
    <3>1. k - 1 \in i + 1..j - 1 /\ k - 1 \in 1..n - 1 /\ (k - 1) + 1 = k
        BY <1>1, <2>2
    <3>2. o1[k - 1] = o[k]
        BY <1>1, <3>1
    <3> QED BY <1>2, <3>1, <3>2 DEF InForce
  <2> QED BY <1>2, <2>1, <2>2 DEF InForce
<1>3. ASSUME Chained(o, q), NEW i \in DOMAIN o1, NEW j \in DOMAIN o1, i < j,
             InForce(o1, i, j), o1[j].type = "DATA_RESP"
      PROVE  q1[j].session_id = o1[i].session_id
  <2>1. i \in 1..n - 1 /\ j \in 1..n - 1 /\ j \in 1..n /\ i + 1 < j + 1
        /\ i + 1 \in DOMAIN o /\ j + 1 \in DOMAIN o
      BY <1>1, <1>3
  <2>2. InForce(o, i + 1, j + 1)
      BY <1>2, <1>3, <2>1
  <2>3. o1[i] = o[i + 1] /\ o1[j] = o[j + 1] /\ q1[j] = q[j + 1]
      BY <1>1, <2>1 DEF n, Shifted
  <2> QED BY <1>3, <2>1, <2>2, <2>3 DEF Chained
<1>4. ASSUME Latest(o, sid), NEW i \in DOMAIN o1, InForce(o1, i, n)
      PROVE  o1[i].session_id = sid
  <2>1. i \in 1..n - 1 /\ i + 1 \in DOMAIN o /\ n \in 1..n
      BY <1>1, <1>4
  <2>2. InForce(o, i + 1, n + 1)
      BY <1>2, <1>4, <2>1
  <2>3. o1[i] = o[i + 1]
      BY <1>1, <2>1
  <2> QED BY <1>4, <2>1, <2>2, <2>3 DEF Latest, n
<1>5. (n - 1) + 1 = n
    BY <1>1
<1> QED BY <1>1, <1>3, <1>4, <1>5 DEF Chained, Latest, o1

\* Only the requests at the places of the replies matter.
LEMMA ChainedAgree ==
    ASSUME NEW o, NEW q, NEW q1, Chained(o, q), \A i \in DOMAIN o : q1[i] = q[i]
    PROVE  Chained(o, q1)
BY DEF Chained

\* An empty socket tells nothing.
LEMMA NothingSent ==
    ASSUME NEW q, NEW sid PROVE Chained(<<>>, q) /\ Latest(<<>>, sid)
<1>1. DOMAIN <<>> = {}
    OBVIOUS
<1> QED BY <1>1 DEF Chained, Latest

LEMMA CleanInit == Init => Clean /\ Current
<1> SUFFICES ASSUME Init PROVE Clean /\ Current
    OBVIOUS
<1>1. /\ \A c \in Conns : outbox[c] = <<>>
      /\ backlog = <<>> /\ DOMAIN <<>> = {}
    BY DEF Init, TcpInit
<1> QED BY <1>1, NothingSent DEF Clean, Current

LEMMA HandlerCurrent ==
    ASSUME IInv, Clean, Current, NEW c \in Conns, Handler(c)
    PROVE  Clean' /\ Current'
<1>1. PICK reply \in Reply : \E type, outcome, leave :
        /\ Receives(c, type) /\ Emit(c, <<reply>>) /\ Conclude(c, outcome, leave)
        /\ reply.type = "DATA_RESP" =>
             InSession(Head(inbox[c])) /\ UNCHANGED granted
        /\ Announces(reply)
    BY HandlerReply DEF IInv
<1>2. UNCHANGED <<peer, asked>>
    BY HandlerReply DEF IInv
<1>3. /\ c = served /\ inbox[c] # <<>>
      /\ served' \in {served, NoConn} /\ backlog' \in {backlog, <<>>}
    BY <1>1, ReceivesFacts, ConcludeFacts DEF IInv, TypeOK
<1>4. /\ outbox[c] \in Seq(Reply) /\ asked[c] \in Seq(Request) /\ inbox[c] \in Seq(Request)
      /\ \A d \in Conns : d # c \/ peer[d] # "open" => outbox'[d] = outbox[d]
      /\ peer[c] = "open" => outbox'[c] = Append(outbox[c], reply)
  <2>1. outbox[c] \o <<reply>> = Append(outbox[c], reply)
      BY DEF IInv, TypeOK, TcpTypes
  <2> QED BY <1>1, <2>1 DEF Emit, IInv, TypeOK, TcpTypes
<1>5. Clean'
  <2>1. \A i \in DOMAIN backlog : backlog[i] # c /\ backlog[i] \in Conns
      BY <1>3 DEF IInv, Queue, TypeOK, TcpTypes
  <2>2. \A i \in DOMAIN backlog' : i \in DOMAIN backlog /\ backlog'[i] = backlog[i]
      BY <1>3
  <2> QED BY <1>2, <1>4, <2>1, <2>2 DEF Clean
<1>6. peer[c] = "open" => asked[c][Len(outbox[c]) + 1] = Head(inbox[c])
  <2>1. peer[c] = "open" => Aligned(asked[c], outbox[c], inbox[c])
      BY <1>3 DEF IInv, Flow, Owed, Held
  <2> QED BY <1>3, <1>4, <2>1, AlignedHandle
<1>7. \A d \in Conns : d = served' => d = c
    BY <1>3, ServiceAssumption
<1>8. CASE peer[c] = "open"
  <2>1. Chained(outbox[c], asked[c]) /\ Latest(outbox[c], current_session_id)
      BY <1>3 DEF Current
  <2>2. Chained(outbox'[c], asked[c])
    <3>1. reply.type = "DATA_RESP" =>
            asked[c][Len(outbox[c]) + 1].session_id = current_session_id
        BY <1>1, <1>6, <1>8 DEF InSession
    <3> QED BY <1>4, <1>8, <2>1, <3>1, ChainedAppend
  <2>3. Latest(outbox'[c], current_session_id')
    <3>1. /\ reply.type = "AUTH_RESP" /\ reply.result = "AUTH_OK" =>
               reply.session_id = current_session_id'
          /\ reply.type # "AUTH_RESP" => current_session_id' = current_session_id
        BY <1>1 DEF Announces
    <3>2. Latest(Append(outbox[c], reply), current_session_id')
        BY <1>4, <2>1, <3>1, LatestAppend
    <3> QED BY <1>4, <1>8, <3>2
  <2> QED BY <1>2, <1>4, <1>5, <1>7, <2>2, <2>3 DEF Current
<1>9. CASE peer[c] # "open"
  <2>1. outbox'[c] = <<>>
      BY <1>4, <1>9 DEF Clean
  <2> QED BY <1>2, <1>4, <1>5, <1>7, <2>1, NothingSent DEF Current
<1> QED BY <1>8, <1>9

LEMMA PeerCurrent ==
    ASSUME IInv, Clean, Current, NEW c \in Conns, PeerStep(c)
    PROVE  Clean' /\ Current'
<1>1. CASE Connect(c)
  <2>1. TcpConnect(c) /\ UNCHANGED session
      BY <1>1 DEF Connect
  <2>2. /\ c # served /\ served' = served
        /\ \A i \in DOMAIN backlog' :
             \/ i \in DOMAIN backlog /\ backlog'[i] = backlog[i] /\ backlog[i] # c
             \/ backlog'[i] = c
      BY <2>1, ConnectQueue DEF IInv, TypeOK
  <2>3. /\ outbox'[c] = <<>>
        /\ \A d \in Conns : d # c =>
              /\ peer'[d] = peer[d] /\ outbox'[d] = outbox[d] /\ asked'[d] = asked[d]
      BY <2>1 DEF TcpConnect, IInv, TypeOK, TcpTypes
  <2>4. Clean'
    <3>1. \A i \in DOMAIN backlog : backlog[i] \in Conns
        BY DEF IInv, TypeOK, TcpTypes
    <3> QED BY <2>2, <2>3, <3>1 DEF Clean
  <2>5. Current'
      BY <2>1, <2>2, <2>3, NothingSent DEF Current, session
  <2> QED BY <2>4, <2>5
<1>2. ASSUME NEW req \in Requests[c], Submit(c, req)
      PROVE  Clean' /\ Current'
  <2>1. req \in Request /\ TcpSubmit(c, req) /\ UNCHANGED session
      BY <1>2, RequestsAssumption DEF Submit
  <2>2. UNCHANGED <<served, backlog, peer, outbox>>
      BY <2>1 DEF TcpSubmit
  <2>3. \A d \in Conns : \A i \in DOMAIN outbox[d] : asked'[d][i] = asked[d][i]
    <3>1. \A d \in Conns : peer[d] = "open" => \A i \in DOMAIN outbox[d] :
              i \in DOMAIN asked[d] /\ asked'[d][i] = asked[d][i]
        BY <2>1, FlowSubmit DEF IInv, TypeOK
    <3>2. \A d \in Conns : peer[d] # "open" => asked'[d] = asked[d]
        BY <2>1 DEF TcpSubmit, IInv, TypeOK, TcpTypes
    <3> QED BY <3>1, <3>2
  <2>4. Clean'
      BY <2>2 DEF Clean
  <2>5. Current'
    <3>1. \A d \in Conns : Chained(outbox[d], asked'[d])
        BY <2>3, ChainedAgree DEF Current
    <3> QED BY <2>1, <2>2, <3>1 DEF Current, session
  <2> QED BY <2>4, <2>5
<1>3. CASE TakeReply(c)
  <2>1. TcpTakeReply(c) /\ UNCHANGED session
      BY <1>3 DEF TakeReply
  <2>2. /\ \A d \in Conns : d # c => outbox'[d] = outbox[d] /\ asked'[d] = asked[d]
        /\ UNCHANGED <<backlog, served, peer>>
        /\ peer[c] = "open" /\ outbox[c] # <<>> /\ outbox'[c] = Tail(outbox[c])
        /\ outbox[c] \in Seq(Reply) /\ asked[c] \in Seq(Request)
      BY <2>1 DEF TcpTakeReply, IInv, TypeOK, TcpTypes
  <2>3. \A i \in 1..Len(outbox[c]) - 1 : asked'[c][i] = asked[c][i + 1]
    <3>1. /\ Len(outbox[c]) \in Nat \ {0} /\ Len(asked[c]) \in Nat
          /\ Len(outbox[c]) <= Len(asked[c])
        BY <2>2, LenProperties, TailFacts DEF IInv, Flow
    <3>2. asked[c] # <<>>
        BY <3>1
    <3>3. asked'[c] = Tail(asked[c])
        BY <2>1, <3>2 DEF TcpTakeReply, IInv, TypeOK, TcpTypes
    <3>4. \A i \in 1..Len(asked[c]) - 1 : asked'[c][i] = asked[c][i + 1]
        BY <2>2, <3>2, <3>3, TailFacts
    <3> QED BY <3>1, <3>4
  <2>4. Clean'
    <3>1. \A i \in DOMAIN backlog : backlog[i] \in Conns /\ backlog[i] # c
        BY <2>2 DEF Clean, IInv, TypeOK, TcpTypes
    <3> QED BY <2>2, <3>1 DEF Clean
  <2>5. /\ Chained(outbox[c], asked[c]) => Chained(outbox'[c], asked'[c])
        /\ Latest(outbox[c], current_session_id) =>
             Latest(outbox'[c], current_session_id)
    <3>1. Shifted(Len(outbox[c]), asked[c], asked'[c])
        BY <2>3 DEF Shifted
    <3> QED BY <2>2, <3>1, ShiftedReplies
  <2>6. Current'
      BY <2>1, <2>2, <2>5 DEF Current, session
  <2> QED BY <2>4, <2>6
<1>4. CASE Hangup(c)
  <2>1. TcpHangup(c) /\ UNCHANGED session
      BY <1>4 DEF Hangup
  <2>2. /\ outbox'[c] = <<>> /\ UNCHANGED <<served, backlog>>
        /\ \A d \in Conns : d # c =>
              /\ peer'[d] = peer[d] /\ outbox'[d] = outbox[d] /\ asked'[d] = asked[d]
      BY <2>1 DEF TcpHangup, IInv, TypeOK, TcpTypes
  <2>3. Clean'
    <3>1. \A i \in DOMAIN backlog : backlog[i] \in Conns
        BY DEF IInv, TypeOK, TcpTypes
    <3> QED BY <2>2, <3>1 DEF Clean
  <2>4. Current'
      BY <2>1, <2>2, NothingSent DEF Current, session
  <2> QED BY <2>3, <2>4
<1> QED BY <1>1, <1>2, <1>3, <1>4 DEF PeerStep

\* A step that neither sends nor reads a reply.
LEMMA SilentCurrent ==
    ASSUME TypeOK, Clean, Current, UNCHANGED <<peer, outbox, asked, current_session_id>>,
           served' \in {served, NoConn}, backlog' \in {backlog, <<>>}
    PROVE  Clean' /\ Current'
<1>1. \A i \in DOMAIN backlog' : i \in DOMAIN backlog /\ backlog'[i] = backlog[i]
    OBVIOUS
<1>2. \A d \in Conns : d = served' => d = served
    BY ServiceAssumption
<1> QED BY <1>1, <1>2 DEF Clean, Current

LEMMA CurrentNext ==
    ASSUME IInv, Clean, Current, [Next]_vars
    PROVE  Clean' /\ Current'
<1>1. ASSUME NEW c \in Conns, Accept(c)
      PROVE  Clean' /\ Current'
  <2>1. TcpAccept(c) /\ UNCHANGED <<peer, outbox, asked>>
      BY <1>1 DEF Accept, TcpAccept
  <2>2. /\ 1 \in DOMAIN backlog /\ c = backlog[1] /\ served' = c
        /\ \A i \in DOMAIN backlog' :
             i + 1 \in DOMAIN backlog /\ backlog'[i] = backlog[i + 1]
      BY <2>1, AcceptQueue DEF IInv, TypeOK
  <2>3. Clean' /\ outbox[c] = <<>>
      BY <2>1, <2>2 DEF Clean
  <2> QED BY <2>1, <2>2, <2>3, NothingSent DEF Current
<1>2. ASSUME NEW c \in Conns, ConnectionLost(c) \/ Leave(c)
      PROVE  Clean' /\ Current'
    BY <1>2, SilentCurrent
       DEF ConnectionLost, TcpLost, Leave, CloseClient, session, IInv
<1>3. CASE StopServer
    BY <1>3, SilentCurrent DEF StopServer, TcpStop, Die, session, IInv
<1>4. CASE Tick \/ UNCHANGED vars
    BY <1>4, SilentCurrent DEF Tick, vars, tcp, session, IInv
<1> QED BY <1>1, <1>2, <1>3, <1>4, HandlerCurrent, PeerCurrent
        DEF Next, ServerStep, Handler

LEMMA CurrentImplies == ASSUME Current PROVE OldIdRefused
BY DEF Current, Chained, InForce, OldIdRefused

-----------------------------------------------------------------------------
(***************************************************************************)
(* What follows from the invariant.                                        *)
(***************************************************************************)

LEMMA OwnImplies == ASSUME IInv PROVE DataFromOwnSession
BY DEF IInv, Own, DataFromOwnSession

LEMMA PairsImply == ASSUME IInv PROVE InStep
<1> SUFFICES ASSUME NEW c \in Conns, peer[c] = "open"
             PROVE  /\ Len(outbox[c]) <= Len(asked[c])
                    /\ \A i \in 1..Len(outbox[c]) : Answers(outbox[c][i], asked[c][i])
                    /\ Held(c) =>
                         inbox[c] = SubSeq(asked[c], Len(outbox[c]) + 1, Len(asked[c]))
    BY DEF InStep
<1>1. /\ asked[c] \in Seq(Request) /\ outbox[c] \in Seq(Reply)
      /\ inbox[c] \in Seq(Request) /\ DOMAIN outbox[c] = 1..Len(outbox[c])
    BY LenProperties DEF IInv, TypeOK, TcpTypes
<1>2. Len(outbox[c]) <= Len(asked[c]) /\ (Held(c) => Owed(c))
    BY DEF IInv, Flow
<1>3. Held(c) => inbox[c] = SubSeq(asked[c], Len(outbox[c]) + 1, Len(asked[c]))
  <2>1. Aligned(asked[c], outbox[c], inbox[c]) => inbox[c] = Rest(asked[c], Len(outbox[c]))
      BY <1>1, AlignedRest
  <2> QED BY <1>2, <2>1 DEF Owed, Rest
<1>4. \A i \in 1..Len(outbox[c]) : Answers(outbox[c][i], asked[c][i])
    BY <1>1 DEF IInv, Pairs
<1> QED BY <1>2, <1>3, <1>4

(***************************************************************************)
(* The invariant holds of every behaviour of the server: its types, the    *)
(* queue, the places of requests and replies, and the session of the       *)
(* client served (server.c:234-267).                                       *)
(***************************************************************************)
THEOREM Invariant == Spec => []IInv
<1>1. IInv /\ UNCHANGED vars => IInv'
    BY IInvNext
<1> QED BY IInvInit, IInvNext, PTL DEF Spec

\* Every variable keeps its type (the two globals, server.c:67-68).
THEOREM TypeCorrect == Spec => []TypeOK
<1>1. IInv => TypeOK
    BY DEF IInv
<1> QED BY <1>1, Invariant, PTL

(***************************************************************************)
(* Data goes only to a peer that was granted, on the connection it asked   *)
(* on, the identifier it asked with (server.c:149-154, 190, 227-228).      *)
(***************************************************************************)
THEOREM OwnSession == Spec => []DataFromOwnSession
BY Invariant, OwnImplies, PTL

(***************************************************************************)
(* However deep a peer pipelines, the n-th reply it reads answers the n-th *)
(* request it sent (server.c:234-263).                                     *)
(***************************************************************************)
THEOREM Pipelined == Spec => []InStep
BY Invariant, PairsImply, PTL

(***************************************************************************)
(* An identifier the connection was granted before its last AUTH_OK opens  *)
(* nothing (server.c:149-150, 190), for every number of grants a clock can *)
(* make different and every depth of pipelining.                           *)
(***************************************************************************)
THEOREM LatestOnly == Spec => []OldIdRefused
<1>1. IInv /\ Clean /\ Current /\ [Next]_vars => Clean' /\ Current'
    BY CurrentNext
<1>2. Current => OldIdRefused
    BY CurrentImplies
<1> QED BY <1>1, <1>2, CleanInit, Invariant, PTL DEF Spec

-----------------------------------------------------------------------------
(***************************************************************************)
(* The server with its clients.  The inductive invariant: where a client   *)
(* program stands tells what is in its two sockets, and what the server    *)
(* holds of its session.                                                   *)
(***************************************************************************)
NetType ==
    /\ cpc \in [Clients -> {"start", "send", "recv", "close", "done"}]
    /\ step \in [Clients -> Nat]
    /\ \A c \in Clients : step[c] \in 1..Len(Script)
    /\ session_id \in [Clients -> Nat]
    /\ got \in [Clients -> SUBSET Reply]
    /\ exit \in [Clients -> {"none", "0", "1", "killed"}]

\* The identifiers that the clock makes.
Made(sid) == \E t \in 0..MaxTime : sid = SessionIdAt[t]

\* The reply main gets at step n, one of those it asks for data.
DataAt(n) ==
    IF n - PINGS - 2 < NUM_RESOURCES THEN DataResp(n - PINGS - 2) ELSE Error("RESOURCE")

\* r may be the server's answer to the step c is at.
Expected(c, r) ==
    CASE Doing(c) = "AUTH" ->
            \/ r = AuthResp("AUTH_FAILED", 0)
            \/ \E t \in 0..MaxTime : r = AuthResp("AUTH_OK", SessionIdAt[t])
      [] Doing(c) = "PING" -> r = Pong(step[c] - 1)
      [] Doing(c) = "DATA" -> r = DataAt(step[c])
      [] Doing(c) = "GOODBYE" -> FALSE

\* c has sent a request and nothing has been sent back.
Awaits(c) == cpc[c] = "recv" /\ outbox[c] = <<>>

\* A request is on its way only while its reply is waited for, there is never
\* more than that one reply, and the GOODBYE stays behind.
Sockets(c) ==
    /\ (peer[c] = "open" <=> cpc[c] \in {"send", "recv", "close"})
    /\ cpc[c] # "recv" => outbox[c] = <<>>
    /\ cpc[c] = "recv" => Doing(c) # "GOODBYE"
    /\ Len(outbox[c]) <= 1
    /\ outbox[c] # <<>> => Expected(c, outbox[c][1])
    /\ Held(c) /\ Awaits(c) => inbox[c] = <<RequestOf(c)>>
    /\ Held(c) /\ ~Awaits(c) =>
          inbox[c] = IF exit[c] = "0" THEN <<Goodbye>> ELSE <<>>

\* A client about to connect, or in the accept queue, has had no answer.
Waiting(c) ==
    /\ cpc[c] = "start" => step[c] = 1
    /\ Waits(c) => cpc[c] \in {"send", "recv"} /\ step[c] = 1 /\ outbox[c] = <<>>

\* A client past its authentication has an identifier, and not the 0 of a
\* refusal.
Named(c) == step[c] > 1 => Made(session_id[c]) /\ session_id[c] # 0

\* The globals of the server are those of the client it serves.
Agree(c) ==
    c = served =>
        /\ step[c] > 1 => authenticated /\ current_session_id = session_id[c]
        /\ Doing(c) = "AUTH" /\ outbox[c] # <<>> /\ outbox[c][1].result = "AUTH_OK" =>
              authenticated /\ current_session_id = outbox[c][1].session_id

\* While it runs, the server closes on none of these clients before its GOODBYE.
Lasting(c) == running /\ cpc[c] \in {"send", "recv"} => Held(c)

\* The replies with data before step n.
DataBefore(n) == {DataAt(i) : i \in PINGS + 2..n - 1}

\* The client has read what it has asked for, up to the step it is at.
Complete(c) ==
    /\ (exit[c] = "none" <=> cpc[c] \in {"start", "send", "recv"})
    /\ running /\ exit[c] = "none" => got[c] = DataBefore(step[c])
    /\ running /\ exit[c] = "0" => got[c] = DataBefore(Len(Script))

Client(c) ==
    Sockets(c) /\ Waiting(c) /\ Named(c) /\ Agree(c) /\ Lasting(c) /\ Complete(c)

AllClients == \A c \in Clients : Client(c)

NetInv == IInv /\ NetType /\ AllClients

-----------------------------------------------------------------------------
(***************************************************************************)
(* The script of main.                                                     *)
(***************************************************************************)
Last == PINGS + NUM_RESOURCES + 3

LEMMA ScriptFacts ==
    /\ PINGS \in Nat /\ NUM_RESOURCES \in Nat \ {0}
    /\ Len(Script) = Last
    /\ Script[1] = "AUTH"
    /\ \A i \in 2..PINGS + 1 : Script[i] = "PING"
    /\ \A i \in PINGS + 2..PINGS + NUM_RESOURCES + 2 : Script[i] = "DATA"
    /\ Script[Last] = "GOODBYE"
<1>1. PINGS \in Nat /\ NUM_RESOURCES \in Nat \ {0}
    BY NetworkAssumption, ProtocolAssumption
<1>2. PICK W : W = {"AUTH", "PING", "DATA", "GOODBYE"}
    OBVIOUS
<1> DEFINE a == <<"AUTH">>
           p == [i \in 1..PINGS |-> "PING"]
           n == NUM_RESOURCES + 1
           d == [i \in 1..n |-> "DATA"]
           g == <<"GOODBYE">>
<1>3. a \in Seq(W) /\ Len(a) = 1 /\ a[1] = "AUTH"
      /\ g \in Seq(W) /\ Len(g) = 1 /\ g[1] = "GOODBYE"
    BY <1>2
<1>4. /\ p \in Seq(W) /\ Len(p) = PINGS /\ \A i \in 1..PINGS : p[i] = "PING"
    BY <1>1, <1>2
<1>5. /\ n \in Nat /\ d \in Seq(W) /\ Len(d) = n /\ \A i \in 1..n : d[i] = "DATA"
    BY <1>1, <1>2
<1>6. Script = a \o p \o d \o g
    BY DEF Script
<1> HIDE DEF a, p, d, g
<1>7. PICK s : s = a \o p
    OBVIOUS
<1>8. /\ s \in Seq(W) /\ Len(s) = PINGS + 1
      /\ s[1] = "AUTH" /\ \A i \in 2..PINGS + 1 : s[i] = "PING"
  <2>1. /\ s \in Seq(W) /\ Len(s) = Len(a) + Len(p)
        /\ \A i \in 1..Len(a) : s[i] = a[i]
        /\ \A i \in Len(a) + 1..Len(a) + Len(p) : s[i] = p[i - Len(a)]
    <3>1. a \in Seq(W) /\ p \in Seq(W)
        BY <1>3, <1>4
    <3> QED BY <3>1, <1>7, ConcatFacts
  <2>2. \A i \in 2..PINGS + 1 : s[i] = p[i - 1] /\ i - 1 \in 1..PINGS
      BY <1>1, <1>3, <1>4, <2>1
  <2> QED BY <1>1, <1>3, <1>4, <2>1, <2>2
<1>9. PICK t : t = s \o d
    OBVIOUS
<1>10. /\ t \in Seq(W) /\ Len(t) = PINGS + 1 + n
       /\ \A i \in 1..PINGS + 1 : t[i] = s[i]
       /\ \A i \in PINGS + 2..PINGS + 1 + n : t[i] = "DATA"
  <2>1. /\ t \in Seq(W) /\ Len(t) = Len(s) + Len(d)
        /\ \A i \in 1..Len(s) : t[i] = s[i]
        /\ \A i \in Len(s) + 1..Len(s) + Len(d) : t[i] = d[i - Len(s)]
    <3>1. s \in Seq(W) /\ d \in Seq(W)
        BY <1>5, <1>8
    <3> QED BY <3>1, <1>9, ConcatFacts
  <2>2. \A i \in PINGS + 2..PINGS + 1 + n : t[i] = d[i - (PINGS + 1)] /\ i - (PINGS + 1) \in 1..n
      BY <1>1, <1>5, <1>8, <2>1
  <2> QED BY <1>1, <1>5, <1>8, <2>1, <2>2
<1>11. /\ Len(Script) = PINGS + n + 2
       /\ \A i \in 1..PINGS + 1 + n : Script[i] = t[i]
       /\ Script[PINGS + n + 2] = "GOODBYE"
  <2>1. /\ Len(Script) = Len(t) + Len(g)
        /\ \A i \in 1..Len(t) : Script[i] = t[i]
        /\ \A i \in Len(t) + 1..Len(t) + Len(g) : Script[i] = g[i - Len(t)]
    <3>1. t \in Seq(W) /\ g \in Seq(W) /\ Script = t \o g
        BY <1>3, <1>6, <1>7, <1>9, <1>10
    <3> QED BY <3>1, ConcatFacts
  <2> QED BY <1>1, <1>3, <1>5, <1>10, <2>1
<1> QED BY <1>1, <1>8, <1>10, <1>11 DEF Last

\* What the step a client is at tells of its place in the script.
LEMMA DoingFacts ==
    ASSUME NetType, NEW c \in Clients
    PROVE  /\ step[c] \in 1..Last /\ Last \in Nat /\ Last >= 4 /\ Len(Script) = Last
           /\ Doing(c) \in {"AUTH", "PING", "DATA", "GOODBYE"}
           /\ (Doing(c) = "AUTH" <=> step[c] = 1)
           /\ (Doing(c) = "PING" <=> step[c] \in 2..PINGS + 1)
           /\ (Doing(c) = "DATA" <=> step[c] \in PINGS + 2..Last - 1)
           /\ (Doing(c) = "GOODBYE" <=> step[c] = Last)
<1>1. step[c] \in 1..Last /\ Len(Script) = Last
    BY ScriptFacts DEF NetType
<1>2. Last \in Nat /\ Last >= 4 /\ PINGS \in Nat /\ Last - 1 = PINGS + NUM_RESOURCES + 2
      /\ PINGS + 2 <= Last - 1
    BY ScriptFacts DEF Last
<1>3. \/ step[c] = 1 \/ step[c] = Last \/ step[c] \in 2..PINGS + 1
      \/ step[c] \in PINGS + 2..Last - 1
    BY <1>1, <1>2
<1>4. CASE step[c] = 1
    BY <1>1, <1>2, <1>4, ScriptFacts DEF Doing
<1>5. CASE step[c] = Last
    BY <1>1, <1>2, <1>5, ScriptFacts DEF Doing
<1>6. CASE step[c] \in 2..PINGS + 1
    BY <1>1, <1>2, <1>6, ScriptFacts DEF Doing
<1>7. CASE step[c] \in PINGS + 2..Last - 1
    BY <1>1, <1>2, <1>7, ScriptFacts DEF Doing
<1> QED BY <1>3, <1>4, <1>5, <1>6, <1>7

\* The resource a step asks for, and whether the server has it.
LEMMA ResourceFacts ==
    ASSUME NetType, NEW c \in Clients, Doing(c) = "DATA"
    PROVE  /\ ResourceAt(step[c]) \in 0..NUM_RESOURCES - 1 \cup {NoResource}
           /\ DataAt(step[c]) = IF Exists(ResourceAt(step[c]))
                                THEN DataResp(ResourceAt(step[c])) ELSE Error("RESOURCE")
<1>1. step[c] - PINGS - 2 \in Nat /\ PINGS \in Nat /\ NUM_RESOURCES \in Nat
    BY DoingFacts, ScriptFacts
<1>2. NoResource \in Nat /\ ~(NoResource < NUM_RESOURCES)
    BY <1>1, NetworkAssumption
<1> QED BY <1>1, <1>2 DEF ResourceAt, DataAt, Exists

\* The request of each step.
LEMMA RequestFacts ==
    ASSUME NEW c \in Clients
    PROVE  /\ Doing(c) = "AUTH" =>
                RequestOf(c) = AuthReq(Username[c], EncodeToken(Username[c]))
           /\ Doing(c) = "PING" => RequestOf(c) = Ping(step[c] - 1)
           /\ Doing(c) = "DATA" =>
                RequestOf(c) = DataReq(session_id[c], ResourceAt(step[c]))
           /\ Doing(c) = "GOODBYE" => RequestOf(c) = Goodbye
BY DEF RequestOf

\* A client sends nothing but what its peer of the server module may send.
LEMMA RequestSendable ==
    ASSUME NetType, NEW c \in Clients, Named(c)
    PROVE  RequestOf(c) \in Requests[c]
<1>1. CASE Doing(c) = "AUTH"
    BY <1>1, RequestFacts, ScriptAssumption
<1>2. CASE Doing(c) = "PING"
  <2>1. step[c] - 1 \in 1..PINGS
      BY <1>2, DoingFacts, ScriptFacts
  <2> QED BY <1>2, <2>1, RequestFacts, ScriptAssumption
<1>3. CASE Doing(c) = "DATA"
  <2>1. step[c] > 1
      BY <1>3, DoingFacts, ScriptFacts
  <2>2. PICK t \in 0..MaxTime : session_id[c] = SessionIdAt[t]
      BY <2>1 DEF Named, Made
  <2> QED BY <1>3, <2>2, RequestFacts, ResourceFacts, ScriptAssumption
<1>4. CASE Doing(c) = "GOODBYE"
    BY <1>4, RequestFacts, ScriptAssumption
<1> QED BY <1>1, <1>2, <1>3, <1>4, DoingFacts

\* The data a client has read before a step, and at the end.
LEMMA DataFacts ==
    /\ DataBefore(1) = {}
    /\ \A n \in 1..PINGS + 1 : DataBefore(n + 1) = DataBefore(n)
    /\ \A n \in PINGS + 2..Last - 1 : DataBefore(n + 1) = DataBefore(n) \cup {DataAt(n)}
    /\ DataBefore(Last) =
          {DataResp(r) : r \in 0..NUM_RESOURCES - 1} \cup {Error("RESOURCE")}
<1> PICK p \in Nat, m \in Nat \ {0} : p = PINGS /\ m = NUM_RESOURCES
    BY ScriptFacts
<1>1. \A n \in Int : \A x : x \in DataBefore(n) <=> \E i \in p + 2..n - 1 : x = DataAt(i)
    BY DEF DataBefore
<1>2. DataBefore(1) = {}
    BY <1>1
<1>3. ASSUME NEW n \in 1..p + 1
      PROVE  DataBefore(n + 1) = DataBefore(n)
  <2>1. n \in Int /\ n + 1 \in Int /\ p + 2..n - 1 = {} /\ p + 2..(n + 1) - 1 = {}
      OBVIOUS
  <2>2. (\A x : x \notin DataBefore(n)) /\ (\A x : x \notin DataBefore(n + 1))
      BY <1>1, <2>1
  <2> QED BY <2>2
<1>4. ASSUME NEW n \in p + 2..Last - 1
      PROVE  DataBefore(n + 1) = DataBefore(n) \cup {DataAt(n)}
  <2>1. n \in Int /\ n + 1 \in Int /\ Last = p + m + 3
      BY DEF Last
  <2>2. \A i \in p + 2..(n + 1) - 1 : i = n \/ i \in p + 2..n - 1
      BY <2>1
  <2>3. n \in p + 2..(n + 1) - 1 /\ \A i \in p + 2..n - 1 : i \in p + 2..(n + 1) - 1
      BY <2>1
  <2> QED BY <1>1, <2>1, <2>2, <2>3
<1>5. DataBefore(Last) = {DataResp(r) : r \in 0..m - 1} \cup {Error("RESOURCE")}
  <2>1. Last \in Int /\ Last - 1 = p + 2 + m
      BY DEF Last
  <2>2. \A i \in p + 2..p + 2 + m : i = p + 2 + m \/ i - p - 2 \in 0..m - 1
      OBVIOUS
  <2>3. \A i \in p + 2..p + 2 + m :
            DataAt(i) = IF i - p - 2 < m THEN DataResp(i - p - 2) ELSE Error("RESOURCE")
      BY DEF DataAt
  <2>4. DataAt(p + 2 + m) = Error("RESOURCE") /\ p + 2 + m \in p + 2..p + 2 + m
      BY <2>3
  <2>5. \A r \in 0..m - 1 : r + p + 2 \in p + 2..p + 2 + m /\ DataAt(r + p + 2) = DataResp(r)
    <3> TAKE r \in 0..m - 1
    <3>1. r + p + 2 \in p + 2..p + 2 + m /\ (r + p + 2) - p - 2 = r /\ r < m
        OBVIOUS
    <3> QED BY <2>3, <3>1
  <2>6. \A i \in p + 2..p + 2 + m : i - p - 2 \in 0..m - 1 => DataAt(i) = DataResp(i - p - 2)
      BY <2>3
  <2>7. \A x : x \in DataBefore(Last) <=> \E i \in p + 2..p + 2 + m : x = DataAt(i)
      BY <1>1, <2>1
  <2> QED BY <2>2, <2>4, <2>5, <2>6, <2>7
<1> QED BY <1>2, <1>3, <1>4, <1>5

-----------------------------------------------------------------------------
(***************************************************************************)
(* A connection the step is not about.                                     *)
(***************************************************************************)
LEMMA ClientKept ==
    ASSUME NEW d \in Clients, Client(d),
           cpc'[d] = cpc[d], step'[d] = step[d], session_id'[d] = session_id[d],
           got'[d] = got[d], exit'[d] = exit[d],
           peer'[d] = peer[d], outbox'[d] = outbox[d],
           Held(d)' => Held(d) /\ inbox'[d] = inbox[d],
           Waits(d)' => Waits(d),
           d = served' => d = served /\ UNCHANGED session,
           running' => running /\ (Held(d) => Held(d)')
    PROVE  Client(d)'
<1>1. Doing(d)' = Doing(d) /\ (Awaits(d)' <=> Awaits(d))
    BY DEF Doing, Awaits
<1>2. RequestOf(d)' = RequestOf(d)
    BY <1>1 DEF RequestOf
<1>3. Sockets(d)'
    BY <1>1, <1>2 DEF Client, Sockets, Expected
<1>4. Waiting(d)' /\ Named(d)'
    BY DEF Client, Waiting, Named, Made
<1>5. Agree(d)'
    BY <1>1 DEF Client, Agree, session
<1>6. Lasting(d)' /\ Complete(d)'
    BY DEF Client, Lasting, Complete
<1> QED BY <1>3, <1>4, <1>5, <1>6 DEF Client

-----------------------------------------------------------------------------
(***************************************************************************)
(* The server's answers to the requests of main.                           *)
(***************************************************************************)

\* A request of full length reaches its handler and no other.
LEMMA HandlerOf ==
    ASSUME NEW c \in Conns, ServerStep(c), ~Accept(c), ~ConnectionLost(c),
           NEW req, req = Head(inbox[c])
    PROVE  /\ running /\ c = served /\ inbox[c] # <<>>
           /\ Handler(c) \/ Leave(c)
           /\ req.type = "AUTH_REQ" /\ req.ok => HandleAuth(c)
           /\ req.type = "PING" /\ req.ok => HandlePing(c)
           /\ req.type = "DATA_REQ" /\ req.ok => HandleDataReq(c)
           /\ req.type = "GOODBYE" => Leave(c)
<1>1. running /\ c = served /\ inbox[c] # <<>>
    BY DEF ServerStep, Leave, HandleAuth, HandlePing, HandleDataReq, HandleUnknown, Receives
<1>2. /\ HandleAuth(c) => req.type = "AUTH_REQ"
      /\ HandlePing(c) => req.type = "PING"
      /\ HandleDataReq(c) => req.type = "DATA_REQ"
      /\ HandleUnknown(c) => req.type = "UNKNOWN_TYPE"
      /\ Leave(c) => \/ req.type \in {"BAD_FRAME", "GOODBYE"}
                     \/ req.type \in {"AUTH_REQ", "PING", "DATA_REQ"} /\ ~req.ok
    BY DEF Leave, HandleAuth, HandlePing, HandleDataReq, HandleUnknown, Receives
<1> QED BY <1>1, <1>2 DEF ServerStep, Handler

\* The state in which the server takes the request of a client that waits.
Asks(c) ==
    /\ running /\ c = served /\ peer[c] = "open" /\ Awaits(c)
    /\ inbox[c] = <<RequestOf(c)>> /\ Head(inbox[c]) = RequestOf(c)

LEMMA AsksOrGone ==
    ASSUME NetType, NEW c \in Clients, Client(c), running, c = served, inbox[c] # <<>>
    PROVE  \/ Asks(c)
           \/ /\ ~Awaits(c) /\ exit[c] = "0" /\ inbox[c] = <<Goodbye>>
              /\ Head(inbox[c]) = Goodbye
<1>1. Held(c) /\ \A r : Head(<<r>>) = r
    BY DEF Held
<1>2. CASE Awaits(c)
    BY <1>1, <1>2 DEF Asks, Client, Sockets, Awaits
<1>3. CASE ~Awaits(c)
    BY <1>1, <1>3 DEF Client, Sockets
<1> QED BY <1>2, <1>3

\* How the session goes on with the reply r.
Answer(c, r) ==
    /\ Replied(c, r) /\ Expected(c, r) /\ GoesOn(c) /\ peer' = peer
    /\ Doing(c) # "AUTH" => UNCHANGED session
    /\ Doing(c) = "AUTH" /\ r.result = "AUTH_OK" =>
          authenticated' /\ current_session_id' = r.session_id

LEMMA AnswerAuth ==
    ASSUME IInv, NetType, NEW c \in Clients, Asks(c), Doing(c) = "AUTH",
           ServerStep(c), ~Accept(c), ~ConnectionLost(c)
    PROVE  \E r : Answer(c, r)
<1> DEFINE req == AuthReq(Username[c], EncodeToken(Username[c]))
<1>1. req.type = "AUTH_REQ" /\ req.ok
    BY DEF AuthReq
<1> HIDE DEF req
<1>2. Head(inbox[c]) = req
    BY RequestFacts DEF Asks, req
<1>3. HandleAuth(c) /\ c \in Conns
    BY <1>1, <1>2, HandlerOf, NetworkAssumption
<1>4. now \in 0..MaxTime
    BY DEF IInv, TypeOK
<1>5. peer' = peer
    BY <1>3 DEF HandleAuth
<1>6. CASE Authentic(req)
  <2> DEFINE r == AuthResp("AUTH_OK", SessionIdAt[now])
  <2>1. PICK outcome \in Outcomes(c) :
           /\ authenticated' = TRUE /\ current_session_id' = SessionIdAt[now]
           /\ Emit(c, <<r>>)
           /\ Conclude(c, outcome, outcome = "failed")
      BY <1>2, <1>3, <1>6 DEF HandleAuth
  <2>2. Expected(c, r) /\ r.session_id = SessionIdAt[now]
      BY <1>4 DEF Expected, AuthResp
  <2> HIDE DEF r
  <2>3. Replied(c, r) /\ GoesOn(c)
      BY <2>1, SentOutcome DEF Asks, Awaits
  <2>4. Answer(c, r)
      BY <1>5, <2>1, <2>2, <2>3 DEF Answer
  <2> QED BY <2>4
<1>7. CASE ~Authentic(req)
  <2> DEFINE r == AuthResp("AUTH_FAILED", 0)
  <2>1. PICK outcome \in Outcomes(c) :
           Emit(c, <<r>>) /\ Conclude(c, outcome, outcome = "failed")
      BY <1>2, <1>3, <1>7 DEF HandleAuth
  <2>2. Expected(c, r) /\ r.result # "AUTH_OK"
      BY DEF Expected, AuthResp
  <2> HIDE DEF r
  <2>3. Replied(c, r) /\ GoesOn(c)
      BY <2>1, SentOutcome DEF Asks, Awaits
  <2>4. Answer(c, r)
      BY <1>5, <2>2, <2>3 DEF Answer
  <2> QED BY <2>4
<1> QED BY <1>6, <1>7

LEMMA AnswerPing ==
    ASSUME NetType, NEW c \in Clients, Asks(c), Doing(c) = "PING",
           ServerStep(c), ~Accept(c), ~ConnectionLost(c)
    PROVE  \E r : Answer(c, r)
<1> DEFINE req == Ping(step[c] - 1)
           r == Pong(step[c] - 1)
<1>1. req.type = "PING" /\ req.ok /\ req.seq = step[c] - 1 /\ Expected(c, r)
    BY DEF Ping, Expected
<1> HIDE DEF req
<1>2. Head(inbox[c]) = req
    BY RequestFacts DEF Asks, req
<1>3. HandlePing(c) /\ c \in Conns
    BY <1>1, <1>2, HandlerOf, NetworkAssumption
<1>4. PICK outcome \in Outcomes(c) :
         Emit(c, <<r>>) /\ Conclude(c, outcome, outcome = "failed")
    BY <1>1, <1>2, <1>3 DEF HandlePing
<1> HIDE DEF r
<1>5. Replied(c, r) /\ GoesOn(c)
    BY <1>4, SentOutcome DEF Asks, Awaits
<1>6. Answer(c, r)
    BY <1>1, <1>3, <1>5 DEF Answer, HandlePing
<1> QED BY <1>6

\* The session a client asks in is the one the server is in.
LEMMA AnswerData ==
    ASSUME NetType, NEW c \in Clients, Client(c), Asks(c), Doing(c) = "DATA",
           ServerStep(c), ~Accept(c), ~ConnectionLost(c)
    PROVE  \E r : Answer(c, r)
<1> DEFINE req == DataReq(session_id[c], ResourceAt(step[c]))
<1>1. /\ req.type = "DATA_REQ" /\ req.ok /\ req.session_id = session_id[c]
      /\ req.resource_id = ResourceAt(step[c])
    BY DEF DataReq
<1> HIDE DEF req
<1>2. Head(inbox[c]) = req
    BY RequestFacts DEF Asks, req
<1>3. HandleDataReq(c) /\ c \in Conns
    BY <1>1, <1>2, HandlerOf, NetworkAssumption
<1>4. InSession(req)
  <2>1. step[c] > 1
      BY DoingFacts, ScriptFacts
  <2> QED BY <1>1, <2>1 DEF Client, Agree, Asks, InSession
<1>5. DataReply(req) = DataAt(step[c])
    BY <1>1, <1>4, ResourceFacts DEF DataReply
<1> DEFINE r == DataAt(step[c])
<1>6. PICK outcome \in Outcomes(c) :
         Emit(c, <<r>>) /\ Conclude(c, outcome, outcome = "failed")
    BY <1>2, <1>3, <1>5 DEF HandleDataReq
<1>7. Expected(c, r)
    BY DEF Expected
<1> HIDE DEF r
<1>8. Replied(c, r) /\ GoesOn(c)
    BY <1>6, SentOutcome DEF Asks, Awaits
<1>9. Answer(c, r)
    BY <1>3, <1>7, <1>8 DEF Answer, HandleDataReq
<1> QED BY <1>9

LEMMA ServerAnswers ==
    ASSUME IInv, NetType, NEW c \in Clients, Client(c), Asks(c),
           ServerStep(c), ~Accept(c), ~ConnectionLost(c)
    PROVE  \E r : Answer(c, r)
<1>1. Doing(c) # "GOODBYE"
    BY DEF Client, Sockets, Asks, Awaits
<1> QED BY <1>1, DoingFacts, AnswerAuth, AnswerPing, AnswerData

-----------------------------------------------------------------------------
(***************************************************************************)
(* The steps of the server.                                                *)
(***************************************************************************)
SameClients == UNCHANGED clientVars

\* What the step leaves of a connection it is not about.
Untouched(d) ==
    /\ peer'[d] = peer[d] /\ outbox'[d] = outbox[d]
    /\ Held(d)' => Held(d) /\ inbox'[d] = inbox[d]
    /\ Waits(d)' => Waits(d)
    /\ d = served' => d = served /\ UNCHANGED session
    /\ running' => running /\ (Held(d) => Held(d)')

LEMMA ServerKeeps ==
    ASSUME AllClients, SameClients, NEW d \in Clients, Untouched(d)
    PROVE  Client(d)'
<1>1. /\ cpc'[d] = cpc[d] /\ step'[d] = step[d] /\ session_id'[d] = session_id[d]
      /\ got'[d] = got[d] /\ exit'[d] = exit[d]
    BY DEF SameClients, clientVars
<1> QED BY <1>1, ClientKept DEF AllClients, Untouched

\* The server, at work on one connection, leaves the others alone, unless it
\* ends.
LEMMA OthersUntouched ==
    ASSUME IInv, NEW s \in Conns, ServerStep(s), NEW d \in Conns, d # s
    PROVE  Untouched(d)
<1>1. TcpTypes(Request, Reply)
    BY DEF IInv, TypeOK
<1>2. CASE Accept(s)
  <2>1. TcpAccept(s) /\ served' = s /\ UNCHANGED <<running, peer, inbox, outbox>>
      BY <1>2 DEF Accept, TcpAccept
  <2>2. (Waits(d)' => Waits(d)) /\ (Held(d)' <=> Held(d))
      BY <1>1, <2>1, AcceptWaits
  <2> QED BY <2>1, <2>2 DEF Untouched
<1>3. CASE ConnectionLost(s) \/ Leave(s)
  <2>1. s = served /\ CloseClient(s) /\ UNCHANGED <<peer, outbox>>
      BY <1>3 DEF ConnectionLost, TcpLost, Leave, Receives
  <2>2. Conclude(s, "sent", TRUE)
      BY <2>1 DEF Conclude
  <2> QED BY <1>1, <2>1, <2>2, OthersAfter DEF Untouched
<1>4. CASE Handler(s)
  <2>1. PICK reply \in Reply : \E type, outcome, leave :
           Receives(s, type) /\ Emit(s, <<reply>>) /\ Conclude(s, outcome, leave)
      BY <1>4, HandlerReply DEF IInv
  <2>2. UNCHANGED peer /\ s = served
      BY <1>4, <2>1, HandlerReply DEF IInv, Receives
  <2>3. outbox'[d] = outbox[d]
      BY <1>1, <2>1 DEF Emit, TcpTypes
  <2> QED BY <1>1, <2>1, <2>2, <2>3, OthersAfter DEF Untouched
<1> QED BY <1>2, <1>3, <1>4 DEF ServerStep, Handler

LEMMA OwnAccept ==
    ASSUME IInv, NetType, NEW c \in Clients, Client(c), Accept(c), SameClients
    PROVE  Client(c)'
<1>1. /\ running /\ running' = running /\ served' = c /\ TcpAccept(c) /\ c \in Conns
      /\ UNCHANGED <<peer, inbox, outbox>>
    BY NetworkAssumption DEF Accept, TcpAccept
<1>2. Waits(c) /\ Held(c) /\ Held(c)'
    BY <1>1, AcceptWaits, HeldIs DEF IInv, TypeOK, Held
<1>3. cpc[c] \in {"send", "recv"} /\ step[c] = 1 /\ outbox[c] = <<>>
    BY <1>2 DEF Client, Waiting
<1>4. /\ UNCHANGED <<cpc, step, session_id, got, exit>> /\ (Awaits(c)' <=> Awaits(c))
      /\ Doing(c)' = Doing(c) /\ RequestOf(c)' = RequestOf(c)
    BY <1>1 DEF SameClients, clientVars, Awaits, Doing, RequestOf
<1>5. Sockets(c)'
    BY <1>1, <1>2, <1>3, <1>4 DEF Client, Sockets
<1>6. Waiting(c)' /\ Named(c)' /\ Agree(c)' /\ Lasting(c)'
    BY <1>1, <1>2, <1>3, <1>4 DEF Waiting, Named, Agree, Lasting
<1>7. Complete(c)'
    BY <1>1, <1>4 DEF Client, Complete
<1> QED BY <1>5, <1>6, <1>7 DEF Client

\* The server closes on a client that has ended its session.
LEMMA OwnClosed ==
    ASSUME IInv, NetType, NEW c \in Clients, Client(c), c = served, CloseClient(c),
           UNCHANGED <<peer, outbox>>, SameClients, cpc[c] \notin {"send", "recv"}
    PROVE  Client(c)'
<1>1. ~Waits(c)' /\ ~Held(c)' /\ c # served' /\ running' = running
    BY NetworkAssumption, ServiceAssumption DEF CloseClient, IInv, Queue, Waits, Held
<1>2. UNCHANGED <<cpc, step, session_id, got, exit>> /\ Doing(c)' = Doing(c)
    BY DEF SameClients, clientVars, Doing
<1>3. Sockets(c)'
    BY <1>1, <1>2 DEF Client, Sockets
<1>4. Waiting(c)' /\ Agree(c)' /\ Lasting(c)'
    BY <1>1, <1>2 DEF Client, Waiting, Agree, Lasting
<1>5. Named(c)' /\ Complete(c)'
    BY <1>1, <1>2 DEF Client, Named, Made, Complete
<1> QED BY <1>3, <1>4, <1>5 DEF Client

LEMMA OwnAnswer ==
    ASSUME IInv, NetType, NEW c \in Clients, Client(c), Asks(c), NEW r, Answer(c, r), SameClients
    PROVE  Client(c)'
<1>1. UNCHANGED <<cpc, step, session_id, got, exit>> /\ Doing(c)' = Doing(c)
    BY DEF SameClients, clientVars, Doing
<1>2. inbox \in [Conns -> Seq(Request)] /\ outbox \in [Conns -> Seq(Reply)] /\ c \in Conns
    BY NetworkAssumption DEF IInv, TypeOK, TcpTypes
<1>3. /\ outbox'[c] = <<r>> /\ inbox'[c] = <<>> /\ <<r>> # <<>> /\ <<r>>[1] = r
      /\ Len(<<r>>) = 1
      /\ UNCHANGED <<running, served, backlog, peer>>
    BY <1>2 DEF Answer, Replied, GoesOn
<1>4. cpc[c] = "recv" /\ c = served /\ Held(c)' /\ ~Waits(c)' /\ exit[c] = "none"
    BY <1>2, <1>3 DEF Asks, Awaits, Held, IInv, Queue, Waits, Client, Complete
<1>5. Expected(c, r)'
    BY <1>1 DEF Answer, Expected
<1>6. Sockets(c)'
  <2>1. ~Awaits(c)' /\ outbox'[c][1] = r /\ Len(outbox'[c]) = 1
      BY <1>3 DEF Awaits
  <2>2. Expected(c, outbox[c][1])'
      BY <1>5, <2>1 DEF Expected
  <2>3. (peer'[c] = "open" <=> cpc'[c] \in {"send", "recv", "close"}) /\ Doing(c)' # "GOODBYE"
      BY <1>1, <1>3, <1>4 DEF Client, Sockets
  <2> QED BY <1>1, <1>3, <1>4, <2>1, <2>2, <2>3 DEF Sockets
<1>7. Waiting(c)' /\ Lasting(c)'
    BY <1>1, <1>4 DEF Waiting, Lasting
<1>8. Named(c)' /\ Complete(c)'
    BY <1>1, <1>3 DEF Client, Named, Made, Complete
<1>9. Agree(c)'
  <2>1. CASE Doing(c) = "AUTH"
    <3>1. step[c] = 1
        BY <2>1, DoingFacts
    <3> QED BY <1>1, <1>3, <2>1, <3>1 DEF Answer, Agree
  <2>2. CASE Doing(c) # "AUTH"
      BY <1>1, <1>4, <2>2 DEF Answer, Client, Agree, session
  <2> QED BY <2>1, <2>2
<1> QED BY <1>6, <1>7, <1>8, <1>9 DEF Client

LEMMA ClientsServer ==
    ASSUME IInv, NetType, AllClients, NEW s \in Conns, ServerStep(s), SameClients
    PROVE  AllClients'
<1>1. \A d \in Clients : d # s => Client(d)'
    BY OthersUntouched, ServerKeeps, NetworkAssumption
<1>2. ASSUME s \in Clients
      PROVE  Client(s)'
  <2>1. Client(s)
      BY <1>2 DEF AllClients
  <2>2. CASE Accept(s)
      BY <1>2, <2>1, <2>2, OwnAccept
  <2>3. CASE ConnectionLost(s)
    <3>1. s = served /\ CloseClient(s) /\ UNCHANGED <<peer, outbox>> /\ peer[s] # "open"
        BY <2>3 DEF ConnectionLost, TcpLost, EndOfStream
    <3>2. cpc[s] \notin {"send", "recv"}
        BY <2>1, <3>1 DEF Client, Sockets
    <3> QED BY <1>2, <2>1, <3>1, <3>2, OwnClosed
  <2>4. CASE ~Accept(s) /\ ~ConnectionLost(s)
    <3>1. running /\ s = served /\ inbox[s] # <<>>
        BY <2>4, HandlerOf
    <3>2. CASE Asks(s)
      <4>1. PICK r : Answer(s, r)
          BY <1>2, <2>1, <2>4, <3>2, ServerAnswers
      <4> QED BY <1>2, <2>1, <3>2, <4>1, OwnAnswer
    <3>3. CASE exit[s] = "0" /\ Head(inbox[s]) = Goodbye
      <4>1. Leave(s)
          BY <2>4, <3>3, HandlerOf DEF Goodbye
      <4>2. CloseClient(s) /\ UNCHANGED <<peer, outbox>>
          BY <4>1 DEF Leave
      <4>3. cpc[s] \notin {"send", "recv"}
          BY <2>1, <3>3 DEF Client, Complete
      <4> QED BY <1>2, <2>1, <3>1, <4>2, <4>3, OwnClosed
    <3> QED BY <1>2, <2>1, <3>1, <3>2, <3>3, AsksOrGone
  <2> QED BY <2>2, <2>3, <2>4
<1> QED BY <1>1, <1>2 DEF AllClients

LEMMA ClientsStop ==
    ASSUME AllClients, StopServer, SameClients
    PROVE  AllClients'
<1>1. /\ running' = FALSE /\ served' = NoConn /\ backlog' = <<>>
      /\ UNCHANGED <<peer, outbox>> /\ DOMAIN <<>> = {}
    BY DEF StopServer, TcpStop, Die
<1>2. ASSUME NEW d \in Clients
      PROVE  Untouched(d)
    BY <1>1, NetworkAssumption, ServiceAssumption DEF Untouched, Held, Waits
<1> QED BY <1>2, ServerKeeps DEF AllClients

\* A second passes.
LEMMA ClientsTick ==
    ASSUME AllClients, UNCHANGED <<tcp, session>>, SameClients
    PROVE  AllClients'
<1>1. ASSUME NEW d \in Clients
      PROVE  Untouched(d)
    BY DEF Untouched, Held, Waits, tcp
<1> QED BY <1>1, ServerKeeps DEF AllClients

-----------------------------------------------------------------------------
(***************************************************************************)
(* The steps of the clients and of the strangers.                          *)
(***************************************************************************)

\* A peer touches no connection but its own.
LEMMA PeerUntouched ==
    ASSUME IInv, NEW c \in Conns,
           \/ Connect(c) \/ TakeReply(c) \/ Hangup(c) \/ UNCHANGED vars
           \/ \E req : Submit(c, req),
           NEW d \in Conns, d # c
    PROVE  Untouched(d)
<1>1. /\ peer \in [Conns -> {"open", "closed"}] /\ inbox \in [Conns -> Seq(Request)]
      /\ outbox \in [Conns -> Seq(Reply)]
    BY DEF IInv, TypeOK, TcpTypes
<1>2. CASE Connect(c)
  <2>1. TcpConnect(c) /\ UNCHANGED <<running, served>> /\ UNCHANGED session
      BY <1>2 DEF Connect, TcpConnect
  <2>2. Waits(d)' <=> Waits(d)
      BY <2>1, ConnectWaits DEF IInv, TypeOK
  <2>3. peer'[d] = peer[d] /\ inbox'[d] = inbox[d] /\ outbox'[d] = outbox[d]
      BY <1>1, <2>1 DEF TcpConnect
  <2>4. Held(d)' <=> Held(d)
      BY <2>1, <2>2 DEF Held, Waits
  <2> QED BY <2>1, <2>2, <2>3, <2>4 DEF Untouched
<1>3. CASE TakeReply(c)
    BY <1>1, <1>3 DEF TakeReply, TcpTakeReply, Untouched, Waits, Held
<1>4. CASE Hangup(c)
    BY <1>1, <1>4 DEF Hangup, TcpHangup, Untouched, Waits, Held
<1>5. CASE UNCHANGED vars
    BY <1>5 DEF vars, tcp, Untouched, Waits, Held
<1>6. ASSUME NEW req, Submit(c, req)
      PROVE  Untouched(d)
    BY <1>1, <1>6 DEF Submit, TcpSubmit, Untouched, Waits, Held
<1> QED BY <1>2, <1>3, <1>4, <1>5, <1>6

LEMMA ClientsStranger ==
    ASSUME IInv, AllClients, NEW c \in Strangers, PeerStep(c), SameClients
    PROVE  AllClients'
<1>1. ASSUME NEW d \in Clients
      PROVE  Untouched(d)
    BY PeerUntouched, NetworkAssumption DEF PeerStep, Strangers
<1> QED BY <1>1, ServerKeeps DEF AllClients

\* A step of the program of c moves the program of c, within its script, and
\* no other.
Moves(c) ==
    /\ \A d \in Clients : d # c =>
            /\ cpc'[d] = cpc[d] /\ step'[d] = step[d] /\ exit'[d] = exit[d]
            /\ session_id'[d] = session_id[d] /\ got'[d] = got[d]
    /\ cpc' \in [Clients -> {"start", "send", "recv", "close", "done"}]
    /\ step' \in [Clients -> Nat] /\ step'[c] \in 1..Len(Script)
    /\ exit' \in [Clients -> {"none", "0", "1", "killed"}]
    /\ session_id' \in [Clients -> Nat]
    /\ got' \in [Clients -> SUBSET Reply]

\* Where a phase that is over leaves the program.
LEMMA Advanced ==
    ASSUME NetType, NEW c \in Clients, Advance(c)
    PROVE  /\ \/ /\ step[c] < Last
                 /\ cpc' = [cpc EXCEPT ![c] = "send"]
                 /\ step' = [step EXCEPT ![c] = @ + 1] /\ exit' = exit
              \/ /\ step[c] = Last
                 /\ cpc' = [cpc EXCEPT ![c] = "close"]
                 /\ exit' = [exit EXCEPT ![c] = "0"] /\ step' = step
<1>1. step[c] \in 1..Last /\ Last \in Nat /\ Len(Script) = Last
    BY DoingFacts
<1> QED BY <1>1 DEF Advance, AtEnd

LEMMA ScriptMoved ==
    ASSUME NetType, NEW c \in Clients,
           \/ Advance(c) \/ GiveUp(c)
           \/ /\ cpc' \in {[cpc EXCEPT ![c] = pc] : pc \in {"send", "recv", "done"}}
              /\ UNCHANGED step
              /\ UNCHANGED exit \/ exit' \in {[exit EXCEPT ![c] = e] : e \in {"1", "killed"}}
    PROVE  /\ \A d \in Clients : d # c =>
                 cpc'[d] = cpc[d] /\ step'[d] = step[d] /\ exit'[d] = exit[d]
           /\ cpc' \in [Clients -> {"start", "send", "recv", "close", "done"}]
           /\ step' \in [Clients -> Nat] /\ step'[c] \in 1..Len(Script)
           /\ exit' \in [Clients -> {"none", "0", "1", "killed"}]
<1>1. step[c] \in 1..Last /\ Last \in Nat /\ Len(Script) = Last
    BY DoingFacts
<1>2. CASE Advance(c)
  <2>1. \/ /\ step[c] < Last
           /\ cpc' = [cpc EXCEPT ![c] = "send"]
           /\ step' = [step EXCEPT ![c] = @ + 1] /\ exit' = exit
        \/ /\ step[c] = Last
           /\ cpc' = [cpc EXCEPT ![c] = "close"]
           /\ exit' = [exit EXCEPT ![c] = "0"] /\ step' = step
      BY <1>2, Advanced
  <2>2. CASE /\ step[c] < Last
             /\ cpc' = [cpc EXCEPT ![c] = "send"]
             /\ step' = [step EXCEPT ![c] = @ + 1] /\ exit' = exit
    <3>1. step[c] + 1 \in 1..Last
        BY <1>1, <2>2
    <3>2. step' \in [Clients -> Nat] /\ step'[c] = step[c] + 1
          /\ \A d \in Clients : d # c => step'[d] = step[d]
        BY <1>1, <2>2 DEF NetType
    <3> QED BY <1>1, <2>2, <3>1, <3>2 DEF NetType
  <2>3. CASE /\ step[c] = Last
             /\ cpc' = [cpc EXCEPT ![c] = "close"]
             /\ exit' = [exit EXCEPT ![c] = "0"] /\ step' = step
      BY <1>1, <2>3 DEF NetType
  <2> QED BY <2>1, <2>2, <2>3
<1>3. CASE GiveUp(c)
    BY <1>1, <1>3 DEF GiveUp, NetType
<1>4. CASE /\ cpc' \in {[cpc EXCEPT ![c] = pc] : pc \in {"send", "recv", "done"}}
           /\ UNCHANGED step
           /\ UNCHANGED exit \/ exit' \in {[exit EXCEPT ![c] = e] : e \in {"1", "killed"}}
  <2>1. PICK pc \in {"send", "recv", "done"} : cpc' = [cpc EXCEPT ![c] = pc]
      BY <1>4
  <2>2. PICK e \in {"1", "killed"} : exit' = exit \/ exit' = [exit EXCEPT ![c] = e]
      BY <1>4
  <2> QED BY <1>1, <1>4, <2>1, <2>2 DEF NetType
<1> QED BY <1>2, <1>3, <1>4

\* The reply is the only one, and it is read.
LEMMA ReceiveFacts ==
    ASSUME IInv, NEW c \in Clients, Client(c), ClientReceive(c)
    PROVE  /\ cpc[c] = "recv" /\ peer[c] = "open" /\ outbox[c] # <<>>
           /\ Head(outbox[c]) = outbox[c][1] /\ Expected(c, outbox[c][1])
           /\ outbox'[c] = <<>>
           /\ UNCHANGED <<running, backlog, served, peer, inbox>> /\ UNCHANGED session
           /\ (Held(c) => inbox[c] = <<>>) /\ ~Waits(c) /\ exit[c] = "none"
           /\ Doing(c) # "GOODBYE"
<1>1. /\ cpc[c] = "recv" /\ peer[c] = "open" /\ outbox[c] # <<>>
      /\ outbox'[c] = Tail(outbox[c]) /\ outbox[c] \in Seq(Reply)
      /\ UNCHANGED <<running, backlog, served, peer, inbox>> /\ UNCHANGED session
    BY NetworkAssumption DEF ClientReceive, TakeReply, TcpTakeReply, IInv, TypeOK, TcpTypes
<1>2. Len(outbox[c]) <= 1 /\ Expected(c, outbox[c][1]) /\ exit[c] = "none"
      /\ Doing(c) # "GOODBYE"
    BY <1>1 DEF Client, Sockets, Complete
<1>3. Tail(outbox[c]) = <<>>
    BY <1>1, <1>2, TailOfOne
<1>4. Head(outbox[c]) = outbox[c][1]
    BY <1>1, HeadTailProperties
<1>5. Held(c) => inbox[c] = <<>>
    BY <1>1, <1>2 DEF Client, Sockets, Awaits
<1>6. ~Waits(c)
    BY <1>1 DEF Client, Waiting
<1> QED BY <1>1, <1>2, <1>3, <1>4, <1>5, <1>6

\* A reply to AUTH: an identifier the clock makes, or the 0 of a refusal.
LEMMA AuthReplyFacts ==
    ASSUME NEW c \in Clients, Doing(c) = "AUTH", NEW r, Expected(c, r)
    PROVE  /\ r.type = "AUTH_RESP" /\ r.session_id \in Nat
           /\ r.result = "AUTH_OK" => Made(r.session_id)
<1>1. \/ r = AuthResp("AUTH_FAILED", 0)
      \/ \E t \in 0..MaxTime : r = AuthResp("AUTH_OK", SessionIdAt[t])
    BY DEF Expected
<1>2. CASE r = AuthResp("AUTH_FAILED", 0)
    BY <1>2 DEF AuthResp
<1>3. ASSUME NEW t \in 0..MaxTime, r = AuthResp("AUTH_OK", SessionIdAt[t])
      PROVE  r.type = "AUTH_RESP" /\ r.session_id \in Nat /\ Made(r.session_id)
    BY <1>3, ClockAssumption DEF AuthResp, Made
<1> QED BY <1>1, <1>2, <1>3

LEMMA ClientMoves ==
    ASSUME IInv, NetType, NEW c \in Clients, Client(c), ClientStep(c)
    PROVE  Moves(c)
<1>1. ASSUME UNCHANGED <<session_id, got>>,
             \/ Advance(c) \/ GiveUp(c)
             \/ /\ cpc' \in {[cpc EXCEPT ![c] = pc] : pc \in {"send", "recv", "done"}}
                /\ UNCHANGED step
                /\ UNCHANGED exit \/ exit' \in {[exit EXCEPT ![c] = e] : e \in {"1", "killed"}}
      PROVE  Moves(c)
    BY <1>1, ScriptMoved DEF Moves, NetType
<1>2. CASE ClientReceive(c)
  <2>1. /\ \A d \in Clients : d # c =>
              cpc'[d] = cpc[d] /\ step'[d] = step[d] /\ exit'[d] = exit[d]
        /\ cpc' \in [Clients -> {"start", "send", "recv", "close", "done"}]
        /\ step' \in [Clients -> Nat] /\ step'[c] \in 1..Len(Script)
        /\ exit' \in [Clients -> {"none", "0", "1", "killed"}]
    <3>1. Advance(c) \/ GiveUp(c)
        BY <1>2 DEF ClientReceive, ReadAuth, ReadAnswer
    <3> QED BY <3>1, ScriptMoved
  <2>2. CASE ReadAuth(c, Head(outbox[c]))
    <3>1. Head(outbox[c]).session_id \in Nat
        BY <1>2, <2>2, ReceiveFacts, AuthReplyFacts DEF ReadAuth
    <3>2. /\ session_id' \in [Clients -> Nat] /\ UNCHANGED got
          /\ \A d \in Clients : d # c => session_id'[d] = session_id[d]
        BY <2>2, <3>1 DEF ReadAuth, NetType
    <3> QED BY <2>1, <3>2 DEF Moves, NetType
  <2>3. CASE ReadAnswer(c, Head(outbox[c]))
    <3>1. Head(outbox[c]) \in Reply
        BY <1>2, FirstElement, ReceiveFacts, NetworkAssumption DEF IInv, TypeOK, TcpTypes
    <3>2. /\ UNCHANGED session_id /\ got' \in [Clients -> SUBSET Reply]
          /\ \A d \in Clients : d # c => got'[d] = got[d]
        BY <2>3, <3>1 DEF ReadAnswer, NetType
    <3> QED BY <2>1, <3>2 DEF Moves, NetType
  <2> QED BY <1>2, <2>2, <2>3 DEF ClientReceive
<1>3. CASE ~ClientReceive(c)
  <2>1. UNCHANGED <<session_id, got>>
      BY <1>3 DEF ClientStep, ClientConnect, ClientRefused, ClientSend, ClientSendLost,
                  ClientReceiveLost, ClientClose
  <2>2. \/ Advance(c) \/ GiveUp(c)
        \/ /\ cpc' \in {[cpc EXCEPT ![c] = pc] : pc \in {"send", "recv", "done"}}
           /\ UNCHANGED step
           /\ UNCHANGED exit \/ exit' \in {[exit EXCEPT ![c] = e] : e \in {"1", "killed"}}
      BY <1>3 DEF ClientStep, ClientConnect, ClientRefused, ClientSend, ClientSendLost,
                  ClientReceiveLost, ClientClose, Fail
  <2> QED BY <1>1, <2>1, <2>2
<1> QED BY <1>2, <1>3

LEMMA ClientIsPeer ==
    ASSUME NetType, NEW c \in Clients, Client(c), ClientStep(c)
    PROVE  /\ PeerStep(c) \/ UNCHANGED vars
           /\ Connect(c) \/ TakeReply(c) \/ Hangup(c) \/ UNCHANGED vars
              \/ \E req : Submit(c, req)
<1>1. RequestOf(c) \in Requests[c]
    BY RequestSendable DEF Client
<1>2. CASE ClientSend(c)
    BY <1>1, <1>2 DEF ClientSend, PeerStep
<1>3. CASE ~ClientSend(c)
    BY <1>3 DEF ClientStep, ClientConnect, ClientRefused, ClientSendLost, ClientReceive,
                ClientReceiveLost, ClientClose, PeerStep
<1> QED BY <1>2, <1>3

\* A server that has been stopped owes c nothing.
LEMMA Orphan ==
    ASSUME NEW c \in Clients, ~running', ~Held(c)', c # served',
           (peer'[c] = "open" <=> cpc'[c] \in {"send", "recv", "close"}),
           outbox'[c] = <<>>, cpc'[c] # "start",
           cpc'[c] = "recv" => Doing(c)' # "GOODBYE",
           (exit'[c] = "none" <=> cpc'[c] \in {"send", "recv"}), Named(c)'
    PROVE  Client(c)'
<1>1. Len(<<>>) = 0 /\ ~Waits(c)'
    BY DEF Held, Waits
<1> QED BY <1>1 DEF Client, Sockets, Waiting, Agree, Lasting, Complete

LEMMA OwnConnect ==
    ASSUME IInv, NetType, NEW c \in Clients, Client(c), ClientConnect(c)
    PROVE  Client(c)'
<1>1. /\ cpc[c] = "start" /\ cpc'[c] = "send" /\ UNCHANGED <<step, session_id, got, exit>>
      /\ step[c] = 1
    BY DEF ClientConnect, NetType, Client, Waiting
<1>2. /\ TcpConnect(c) /\ running /\ running' = running /\ served' = served /\ ~Held(c)
      /\ c \in Conns
      /\ peer'[c] = "open" /\ inbox'[c] = <<>> /\ outbox'[c] = <<>> /\ Len(<<>>) = 0
    BY NetworkAssumption DEF ClientConnect, Connect, TcpConnect, IInv, TypeOK, TcpTypes
<1>3. Held(c)' /\ c # served'
  <2>1. Waits(c)'
      BY <1>2, ConnectWaits DEF IInv, TypeOK
  <2> QED BY <1>2, <2>1 DEF Held, Waits
<1>4. exit[c] = "none" /\ ~Awaits(c)'
    BY <1>1 DEF Client, Complete, Awaits
<1>5. Sockets(c)'
    BY <1>1, <1>2, <1>3, <1>4 DEF Sockets
<1>6. Waiting(c)' /\ Named(c)' /\ Agree(c)' /\ Lasting(c)'
    BY <1>1, <1>2, <1>3 DEF Waiting, Named, Agree, Lasting
<1>7. Complete(c)'
    BY <1>1, <1>2 DEF Client, Complete
<1> QED BY <1>5, <1>6, <1>7 DEF Client

LEMMA OwnRefused ==
    ASSUME IInv, NetType, NEW c \in Clients, Client(c), ClientRefused(c)
    PROVE  Client(c)'
<1>1. /\ cpc[c] = "start" /\ cpc'[c] = "done" /\ exit'[c] = "1" /\ ~running
      /\ UNCHANGED <<step, session_id, got>>
      /\ UNCHANGED <<running, backlog, served, peer, inbox, outbox>> /\ UNCHANGED session
    BY DEF ClientRefused, NetType, vars, tcp
<1>2. /\ peer[c] # "open" /\ outbox[c] = <<>> /\ ~Waits(c) /\ Len(<<>>) = 0 /\ step[c] = 1
      /\ (Held(c) => inbox[c] = <<>>) /\ exit[c] = "none" /\ Doing(c)' = Doing(c)
    BY <1>1 DEF Client, Sockets, Waiting, Complete, Awaits, Doing
<1>3. (Held(c)' <=> Held(c)) /\ ~Waits(c)' /\ ~Awaits(c)'
    BY <1>1, <1>2 DEF Held, Waits, Awaits
<1>4. Sockets(c)'
    BY <1>1, <1>2, <1>3 DEF Sockets
<1>5. Waiting(c)' /\ Named(c)' /\ Agree(c)' /\ Lasting(c)'
    BY <1>1, <1>2, <1>3 DEF Waiting, Named, Agree, Lasting
<1>6. Complete(c)'
    BY <1>1 DEF Complete
<1> QED BY <1>4, <1>5, <1>6 DEF Client

LEMMA OwnSend ==
    ASSUME IInv, NetType, NEW c \in Clients, Client(c), ClientSend(c)
    PROVE  Client(c)'
<1>1. /\ cpc[c] = "send" /\ Held(c) /\ peer[c] = "open"
      /\ inbox'[c] = Append(inbox[c], RequestOf(c))
      /\ UNCHANGED <<running, backlog, served, peer, outbox>> /\ UNCHANGED session
      /\ UNCHANGED <<session_id, got>>
    BY NetworkAssumption DEF ClientSend, Submit, TcpSubmit, IInv, TypeOK, TcpTypes
<1>2. /\ inbox[c] = <<>> /\ outbox[c] = <<>> /\ Len(<<>>) = 0 /\ exit[c] = "none"
      /\ \A r : Append(<<>>, r) = <<r>>
    BY <1>1 DEF Client, Sockets, Awaits, Complete
<1>3. (Held(c)' <=> Held(c)) /\ (Waits(c)' <=> Waits(c)) /\ inbox'[c] = <<RequestOf(c)>>
    BY <1>1, <1>2 DEF Held, Waits
<1>4. CASE Doing(c) # "GOODBYE"
  <2>1. cpc'[c] = "recv" /\ UNCHANGED <<step, exit>>
      BY <1>4 DEF ClientSend, AfterSend, NetType
  <2>2. Doing(c)' = Doing(c) /\ RequestOf(c)' = RequestOf(c) /\ Awaits(c)'
      BY <1>1, <1>2, <2>1 DEF Doing, RequestOf, Awaits
  <2>3. Sockets(c)'
      BY <1>1, <1>2, <1>3, <1>4, <2>1, <2>2 DEF Sockets
  <2>4. Waiting(c)' /\ Lasting(c)'
      BY <1>1, <1>3, <2>1 DEF Client, Waiting, Lasting
  <2>5. Named(c)' /\ Agree(c)'
      BY <1>1, <2>1, <2>2 DEF Client, Named, Made, Agree, session
  <2>6. Complete(c)'
      BY <1>1, <1>2, <2>1 DEF Client, Complete
  <2> QED BY <2>3, <2>4, <2>5, <2>6 DEF Client
<1>5. CASE Doing(c) = "GOODBYE"
  <2>1. step[c] = Last /\ Len(Script) = Last /\ Last >= 4 /\ Last \in Nat
      BY <1>5, DoingFacts
  <2>2. Advance(c)
      BY <1>5 DEF ClientSend, AfterSend
  <2>3. cpc'[c] = "close" /\ exit'[c] = "0" /\ step' = step
      BY <2>1, <2>2, Advanced DEF NetType
  <2>4. inbox'[c] = <<Goodbye>> /\ ~Awaits(c)' /\ Doing(c)' = Doing(c)
      BY <1>3, <1>5, <2>3, RequestFacts DEF Awaits, Doing
  <2>5. Sockets(c)'
      BY <1>1, <1>2, <2>3, <2>4 DEF Sockets
  <2>6. ~Waits(c)'
      BY <1>3, <2>1 DEF Client, Waiting
  <2>7. Waiting(c)' /\ Lasting(c)'
      BY <2>3, <2>6 DEF Waiting, Lasting
  <2>8. Named(c)' /\ Agree(c)'
      BY <1>1, <2>3, <2>4 DEF Client, Named, Made, Agree, session
  <2>9. Complete(c)'
      BY <1>1, <1>2, <2>1, <2>3 DEF Client, Complete
  <2> QED BY <2>5, <2>7, <2>8, <2>9 DEF Client
<1> QED BY <1>4, <1>5

\* What becomes of a program whose server has gone.
LEMMA FailFacts ==
    ASSUME NetType, NEW c \in Clients, Fail(c), UNCHANGED session_id, Named(c), exit[c] = "none"
    PROVE  /\ cpc'[c] \in {"send", "close"} /\ Named(c)'
           /\ (exit'[c] = "none" <=> cpc'[c] = "send")
<1>1. CASE Doing(c) = "AUTH"
    BY <1>1 DEF Fail, GiveUp, NetType, Named, Made
<1>2. CASE Doing(c) # "AUTH"
  <2>1. /\ cpc'[c] \in {"send", "close"}
        /\ (exit'[c] = "none" <=> cpc'[c] = "send")
      BY <1>2, Advanced DEF Fail, NetType
  <2>2. step[c] > 1
      BY <1>2, DoingFacts
  <2> QED BY <2>1, <2>2 DEF Named, Made
<1> QED BY <1>1, <1>2

LEMMA OwnSendLost ==
    ASSUME IInv, NetType, NEW c \in Clients, Client(c), ClientSendLost(c)
    PROVE  Client(c)'
<1>1. /\ cpc[c] = "send" /\ ~Held(c) /\ peer[c] = "open" /\ outbox[c] = <<>>
      /\ exit[c] = "none" /\ Named(c) /\ UNCHANGED session_id
    BY DEF ClientSendLost, Client, Sockets, Complete
<1>2. ~running
    BY <1>1 DEF Client, Lasting
<1>3. UNCHANGED <<running, served, backlog>>
    BY DEF ClientSendLost, vars, tcp, Hangup, TcpHangup
<1>4. ~running' /\ ~Held(c)' /\ c # served'
    BY <1>1, <1>2, <1>3 DEF Held
<1>5. CASE AfterSend(c) = "recv" /\ cpc' = [cpc EXCEPT ![c] = "recv"]
           /\ UNCHANGED <<vars, step, exit>>
  <2>1. cpc'[c] = "recv" /\ Doing(c)' # "GOODBYE" /\ exit'[c] = "none"
        /\ peer'[c] = "open" /\ outbox'[c] = <<>>
      BY <1>1, <1>5 DEF AfterSend, Doing, NetType, vars, tcp
  <2>2. Named(c)'
      BY <1>1, <1>5 DEF Named, Made
  <2> QED BY <1>4, <2>1, <2>2, Orphan
<1>6. CASE Fail(c) /\ UNCHANGED vars
  <2>1. /\ cpc'[c] \in {"send", "close"} /\ Named(c)'
        /\ (exit'[c] = "none" <=> cpc'[c] = "send")
      BY <1>1, <1>6, FailFacts
  <2>2. peer'[c] = "open" /\ outbox'[c] = <<>>
      BY <1>1, <1>6 DEF vars, tcp
  <2> QED BY <1>4, <2>1, <2>2, Orphan
<1>7. CASE cpc' = [cpc EXCEPT ![c] = "done"] /\ exit' = [exit EXCEPT ![c] = "killed"]
           /\ Hangup(c) /\ UNCHANGED step
  <2>1. cpc'[c] = "done" /\ exit'[c] = "killed" /\ peer'[c] # "open" /\ outbox'[c] = <<>>
      BY <1>7, NetworkAssumption DEF NetType, Hangup, TcpHangup, IInv, TypeOK, TcpTypes
  <2>2. Named(c)'
      BY <1>1, <1>7 DEF Named, Made
  <2> QED BY <1>4, <2>1, <2>2, Orphan
<1> QED BY <1>5, <1>6, <1>7 DEF ClientSendLost

LEMMA OwnReceiveLost ==
    ASSUME IInv, NetType, NEW c \in Clients, Client(c), ClientReceiveLost(c)
    PROVE  Client(c)'
<1>1. /\ cpc[c] = "recv" /\ ~Held(c) /\ peer[c] = "open" /\ outbox[c] = <<>>
      /\ exit[c] = "none" /\ Named(c) /\ UNCHANGED session_id /\ Fail(c)
    BY DEF ClientReceiveLost, Client, Sockets, Complete
<1>2. ~running
    BY <1>1 DEF Client, Lasting
<1>3. UNCHANGED <<running, served, backlog, peer, outbox>>
    BY DEF ClientReceiveLost, vars, tcp
<1>4. ~running' /\ ~Held(c)' /\ c # served'
    BY <1>1, <1>2, <1>3 DEF Held
<1>5. /\ cpc'[c] \in {"send", "close"} /\ Named(c)'
      /\ (exit'[c] = "none" <=> cpc'[c] = "send")
    BY <1>1, FailFacts
<1> QED BY <1>1, <1>3, <1>4, <1>5, Orphan

LEMMA OwnClose ==
    ASSUME IInv, NetType, NEW c \in Clients, Client(c), ClientClose(c)
    PROVE  Client(c)'
<1>1. /\ cpc[c] = "close" /\ cpc'[c] = "done" /\ UNCHANGED <<step, session_id, got, exit>>
      /\ UNCHANGED <<running, backlog, served, inbox>> /\ UNCHANGED session
      /\ peer'[c] = "closed" /\ outbox'[c] = <<>> /\ Len(<<>>) = 0
    BY NetworkAssumption
       DEF ClientClose, Hangup, TcpHangup, NetType, IInv, TypeOK, TcpTypes
<1>2. (Held(c)' <=> Held(c)) /\ (Waits(c)' <=> Waits(c)) /\ ~Awaits(c) /\ ~Awaits(c)'
    BY <1>1 DEF Held, Waits, Awaits
<1>3. Sockets(c)'
    BY <1>1, <1>2 DEF Client, Sockets
<1>4. Waiting(c)' /\ Lasting(c)'
    BY <1>1, <1>2 DEF Client, Waiting, Lasting
<1>5. Named(c)' /\ Agree(c)'
    BY <1>1 DEF Client, Named, Made, Agree, session
<1>6. Complete(c)'
    BY <1>1 DEF Client, Complete
<1> QED BY <1>3, <1>4, <1>5, <1>6 DEF Client

\* A client that has read its reply is in the next phase.
LEMMA NextPhase ==
    ASSUME IInv, NetType, NEW c \in Clients, Client(c), ClientReceive(c), Advance(c),
           Named(c)', got'[c] = got[c] \cup (IF Doing(c) = "DATA" THEN {outbox[c][1]} ELSE {}),
           c = served => authenticated /\ current_session_id = session_id'[c]
    PROVE  Client(c)'
<1>1. /\ cpc[c] = "recv" /\ peer[c] = "open" /\ outbox[c] # <<>>
      /\ Expected(c, outbox[c][1]) /\ outbox'[c] = <<>> /\ Len(<<>>) = 0
      /\ UNCHANGED <<running, backlog, served, peer, inbox>> /\ UNCHANGED session
      /\ (Held(c) => inbox[c] = <<>>) /\ ~Waits(c) /\ exit[c] = "none"
      /\ Doing(c) # "GOODBYE"
    BY ReceiveFacts
<1>2. /\ step[c] \in 1..Last - 1 /\ Last \in Nat /\ PINGS \in Nat
    BY <1>1, DoingFacts, ScriptFacts
<1>3. cpc'[c] = "send" /\ step'[c] = step[c] + 1 /\ exit'[c] = "none"
    BY <1>1, <1>2, Advanced DEF NetType
<1>4. (Held(c)' <=> Held(c)) /\ ~Waits(c)' /\ ~Awaits(c)'
    BY <1>1, <1>3 DEF Held, Waits, Awaits
<1>5. Sockets(c)'
    BY <1>1, <1>3, <1>4 DEF Sockets
<1>6. Waiting(c)' /\ Agree(c)'
    BY <1>1, <1>3, <1>4 DEF Waiting, Agree, session
<1>7. Lasting(c)'
    BY <1>1, <1>4 DEF Client, Lasting
<1>8. Complete(c)'
  <2>1. running => got[c] = DataBefore(step[c])
      BY <1>1 DEF Client, Complete
  <2>2. running => got'[c] = DataBefore(step[c] + 1)
    <3>1. CASE Doing(c) = "DATA"
      <4>1. step[c] \in PINGS + 2..Last - 1 /\ outbox[c][1] = DataAt(step[c])
          BY <1>1, <3>1, DoingFacts DEF Expected
      <4> QED BY <2>1, <3>1, <4>1, DataFacts
    <3>2. CASE Doing(c) # "DATA"
      <4>1. step[c] \in 1..PINGS + 1
          BY <1>2, <3>2, DoingFacts
      <4> QED BY <2>1, <3>2, <4>1, DataFacts
    <3> QED BY <3>1, <3>2
  <2>3. (DataBefore(step[c]))' = DataBefore(step[c] + 1)
      BY <1>3 DEF DataBefore, DataAt
  <2> QED BY <1>1, <1>3, <2>2, <2>3 DEF Complete
<1> QED BY <1>5, <1>6, <1>7, <1>8 DEF Client

LEMMA OwnReceive ==
    ASSUME IInv, NetType, NEW c \in Clients, Client(c), ClientReceive(c)
    PROVE  Client(c)'
<1> DEFINE r == outbox[c][1]
<1>1. /\ cpc[c] = "recv" /\ peer[c] = "open" /\ outbox[c] # <<>>
      /\ Head(outbox[c]) = r /\ Expected(c, r) /\ outbox'[c] = <<>> /\ Len(<<>>) = 0
      /\ UNCHANGED <<running, backlog, served, peer, inbox>> /\ UNCHANGED session
      /\ (Held(c) => inbox[c] = <<>>) /\ ~Waits(c) /\ exit[c] = "none"
    BY ReceiveFacts
<1>2. step[c] \in Nat /\ (Doing(c) = "AUTH" <=> step[c] = 1)
    BY DoingFacts
<1>3. CASE ReadAuth(c, r)
  <2>1. Doing(c) = "AUTH" /\ step[c] = 1 /\ got' = got
      BY <1>2, <1>3 DEF ReadAuth
  <2>2. r.type = "AUTH_RESP" /\ (r.result = "AUTH_OK" => Made(r.session_id))
      BY <1>1, <2>1, AuthReplyFacts
  <2>3. session_id'[c] = IF r.result = "AUTH_OK" THEN r.session_id ELSE 0
      BY <1>3, <2>2 DEF ReadAuth, NetType
  <2>4. CASE session_id'[c] = 0
    <3>1. cpc'[c] = "close" /\ exit'[c] = "1" /\ step' = step
        BY <1>3, <2>4 DEF ReadAuth, GiveUp, NetType
    <3>2. (Held(c)' <=> Held(c)) /\ ~Waits(c)' /\ ~Awaits(c)'
        BY <1>1, <3>1 DEF Held, Waits, Awaits
    <3>3. Sockets(c)'
        BY <1>1, <3>1, <3>2 DEF Sockets
    <3>4. Waiting(c)' /\ Named(c)' /\ Agree(c)' /\ Lasting(c)'
        BY <1>1, <2>1, <3>1, <3>2 DEF Waiting, Named, Agree, Lasting
    <3>5. Complete(c)'
        BY <3>1 DEF Complete
    <3> QED BY <3>3, <3>4, <3>5 DEF Client
  <2>5. CASE session_id'[c] # 0
    <3>1. Advance(c) /\ r.result = "AUTH_OK" /\ session_id'[c] = r.session_id
        BY <1>3, <2>3, <2>5 DEF ReadAuth
    <3>2. Named(c)'
        BY <2>2, <2>5, <3>1 DEF Named, Made
    <3>3. c = served => authenticated /\ current_session_id = session_id'[c]
        BY <1>1, <2>1, <3>1 DEF Client, Agree
    <3>4. got'[c] = got[c] \cup (IF Doing(c) = "DATA" THEN {r} ELSE {})
        BY <2>1
    <3> QED BY <3>1, <3>2, <3>3, <3>4, NextPhase
  <2> QED BY <2>4, <2>5
<1>4. CASE ReadAnswer(c, r)
  <2>1. Advance(c) /\ step[c] > 1 /\ session_id' = session_id
      BY <1>2, <1>4, DoingFacts DEF ReadAnswer
  <2>2. got'[c] = got[c] \cup (IF Doing(c) = "DATA" THEN {r} ELSE {})
      BY <1>4 DEF ReadAnswer, NetType
  <2>3. Named(c)'
      BY <2>1 DEF Client, Named, Made
  <2>4. c = served => authenticated /\ current_session_id = session_id'[c]
      BY <2>1 DEF Client, Agree
  <2> QED BY <2>1, <2>2, <2>3, <2>4, NextPhase
<1> QED BY <1>1, <1>3, <1>4 DEF ClientReceive

LEMMA ClientsStep ==
    ASSUME IInv, NetType, AllClients, NEW c \in Clients, ClientStep(c)
    PROVE  NetType' /\ AllClients'
<1>1. Client(c) /\ c \in Conns
    BY NetworkAssumption DEF AllClients
<1>2. Moves(c)
    BY <1>1, ClientMoves
<1>3. NetType'
  <2>1. \A d \in Clients : step'[d] \in 1..Len(Script)
      BY <1>2 DEF Moves, NetType
  <2> QED BY <1>2, <2>1 DEF Moves, NetType
<1>4. Client(c)'
    BY <1>1, OwnConnect, OwnRefused, OwnSend, OwnSendLost, OwnReceive, OwnReceiveLost,
       OwnClose DEF ClientStep
<1>5. ASSUME NEW d \in Clients, d # c
      PROVE  Client(d)'
  <2>1. Untouched(d)
      BY <1>1, <1>5, ClientIsPeer, PeerUntouched, NetworkAssumption
  <2>2. Client(d)
      BY DEF AllClients
  <2> QED BY <1>2, <1>5, <2>1, <2>2, ClientKept DEF Moves, Untouched
<1> QED BY <1>3, <1>4, <1>5 DEF AllClients

LEMMA NetStep ==
    ASSUME NetType, AllClients, [NetNext]_netVars
    PROVE  [Next]_vars
<1>1. ASSUME NEW c \in Conns, ServerStep(c)
      PROVE  Next
    BY <1>1 DEF Next
<1>2. ASSUME NEW c \in Clients, ClientStep(c)
      PROVE  [Next]_vars
    BY <1>2, ClientIsPeer, NetworkAssumption DEF AllClients, Next
<1>3. ASSUME NEW c \in Strangers, PeerStep(c)
      PROVE  Next
    BY <1>3 DEF Strangers, Next
<1>4. Tick \/ StopServer => Next
    BY DEF Next
<1>5. UNCHANGED netVars => UNCHANGED vars
    BY DEF netVars
<1> QED BY <1>1, <1>2, <1>3, <1>4, <1>5 DEF NetNext, ServerMoves

LEMMA NetInitial == NetInit => NetInv
<1> SUFFICES ASSUME NetInit PROVE NetInv
    OBVIOUS
<1>1. IInv
    BY IInvInit DEF NetInit
<1>2. NetType
  <2>1. 1 \in 1..Len(Script) /\ 1 \in Nat
      BY ScriptFacts DEF Last
  <2> QED BY <2>1 DEF NetInit, NetType
<1>3. ASSUME NEW c \in Clients
      PROVE  Client(c)
  <2>1. /\ cpc[c] = "start" /\ step[c] = 1 /\ got[c] = {} /\ exit[c] = "none"
        /\ peer[c] = "closed" /\ outbox[c] = <<>> /\ inbox[c] = <<>> /\ Len(<<>>) = 0
        /\ backlog = <<>> /\ DOMAIN <<>> = {} /\ served = NoConn
      BY <1>3, NetworkAssumption DEF NetInit, Init, TcpInit
  <2>2. c # served /\ ~Waits(c) /\ ~Held(c) /\ ~Awaits(c)
      BY <2>1, NetworkAssumption, ServiceAssumption DEF Waits, Held, Awaits
  <2>3. Sockets(c) /\ Waiting(c)
      BY <2>1, <2>2 DEF Sockets, Waiting
  <2>4. Named(c) /\ Agree(c) /\ Lasting(c)
      BY <2>1, <2>2 DEF Named, Agree, Lasting
  <2>5. Complete(c)
      BY <2>1, DataFacts DEF Complete
  <2> QED BY <2>3, <2>4, <2>5 DEF Client
<1> QED BY <1>1, <1>2, <1>3 DEF NetInv, AllClients

LEMMA NetInductive == NetInv /\ [NetNext]_netVars => NetInv'
<1> SUFFICES ASSUME NetInv, [NetNext]_netVars PROVE NetInv'
    OBVIOUS
<1>1. IInv /\ NetType /\ AllClients
    BY DEF NetInv
<1>2. IInv'
    BY <1>1, NetStep, IInvNext
<1>3. ASSUME SameClients
      PROVE  NetType'
    BY <1>1, <1>3 DEF SameClients, clientVars, NetType
<1>4. ASSUME NEW c \in Conns, ServerStep(c), SameClients
      PROVE  AllClients'
    BY <1>1, <1>4, ClientsServer
<1>5. ASSUME NEW c \in Clients, ClientStep(c)
      PROVE  NetType' /\ AllClients'
    BY <1>1, <1>5, ClientsStep
<1>6. ASSUME NEW c \in Strangers, PeerStep(c), SameClients
      PROVE  AllClients'
    BY <1>1, <1>6, ClientsStranger
<1>7. ASSUME Tick \/ StopServer, SameClients
      PROVE  AllClients'
    BY <1>1, <1>7, ClientsTick, ClientsStop DEF Tick
<1>8. ASSUME UNCHANGED netVars
      PROVE  SameClients /\ AllClients'
  <2>1. SameClients /\ UNCHANGED <<tcp, session>>
      BY <1>8 DEF netVars, vars, SameClients
  <2> QED BY <1>1, <2>1, ClientsTick
<1>9. NetType' /\ AllClients'
    BY <1>3, <1>4, <1>5, <1>6, <1>7, <1>8 DEF NetNext, ServerMoves, SameClients
<1> QED BY <1>2, <1>9 DEF NetInv

-----------------------------------------------------------------------------
(***************************************************************************)
(* The theorems.                                                           *)
(***************************************************************************)

\* Where each client stands tells what is in its sockets, what the server
\* holds of its session, and what it has read (client.c:249-309).
THEOREM NetInvariant == NetSpec => []NetInv
BY NetInitial, NetInductive, PTL DEF NetSpec

LEMMA NetComplete == ASSUME NetInv PROVE SuccessIsComplete
<1> SUFFICES ASSUME NEW c \in Clients
             PROVE  /\ running /\ exit[c] = "0" =>
                         got[c] = {DataResp(r) : r \in 0..NUM_RESOURCES - 1}
                                     \cup {Error("RESOURCE")}
                    /\ Held(c) /\ peer[c] = "closed" => inbox[c] \in {<<>>, <<Goodbye>>}
    BY DEF SuccessIsComplete
<1>1. Client(c)
    BY DEF NetInv, AllClients
<1>2. Len(Script) = Last
    BY ScriptFacts
<1>3. running /\ exit[c] = "0" => got[c] = DataBefore(Last)
    BY <1>1, <1>2 DEF Client, Complete
<1>4. peer[c] = "closed" => ~Awaits(c)
    BY <1>1 DEF Client, Sockets, Awaits
<1>5. Held(c) /\ peer[c] = "closed" => inbox[c] \in {<<>>, <<Goodbye>>}
    BY <1>1, <1>4 DEF Client, Sockets
<1> QED BY <1>3, <1>5, DataFacts

(***************************************************************************)
(* A client that reports success has read every resource and the refusal   *)
(* of the one that does not exist, and none of them leaves the server a    *)
(* request whose reply could end it (client.c:225-228, 281-304), for every *)
(* number of clients and strangers and whatever the strangers send.        *)
(***************************************************************************)
THEOREM CompleteSuccess == NetSpec => []SuccessIsComplete
BY NetInvariant, NetComplete, PTL

(***************************************************************************)
(* Among its clients and strangers the server still sends data only to the *)
(* session that asks, never under an identifier that has been replaced,    *)
(* and one reply to each request in order: the composition is a behaviour  *)
(* of the server module (server.c:149-154, 190, 227-263).                  *)
(***************************************************************************)
THEOREM NetSafety == NetSpec => [](DataFromOwnSession /\ OldIdRefused /\ InStep)
<1>1. NetInit => Init
    BY DEF NetInit
<1>2. NetInv /\ [NetNext]_netVars => [Next]_vars
    BY NetStep DEF NetInv
<1>3. NetSpec => Spec
    BY <1>1, <1>2, NetInvariant, PTL DEF NetSpec, Spec
<1> QED BY <1>3, OwnSession, LatestOnly, Pipelined, PTL
=============================================================================
