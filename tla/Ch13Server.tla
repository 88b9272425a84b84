----------------------------- MODULE Ch13Server -----------------------------
(***************************************************************************)
(* The GCRP server of chapter 13 (binaries/ch13-network/server.c) and any  *)
(* peers.  What a client has become is kept in two globals of the process, *)
(* current_session_id and authenticated, which handle_client resets before *)
(* it reads a client's first frame.  A session identifier is made of the   *)
(* clock: time(NULL) ^ 0xCAFEBABE.                                         *)
(***************************************************************************)
EXTENDS Ch13Protocol, TcpService

CONSTANTS
    Requests,       \* Requests[c]: what the peer of c may send
    MaxTime,        \* bound of the clock
    SessionIdAt     \* SessionIdAt[t]: (uint32_t)(t ^ 0xCAFEBABE)

ASSUME RequestsAssumption == Requests \in [Conns -> SUBSET Request]
ASSUME ClockAssumption == MaxTime \in Nat /\ SessionIdAt \in [0..MaxTime -> Nat]

VARIABLES
    current_session_id,
    authenticated,
    now,            \* the clock, in seconds
    granted         \* history: identifiers issued on c, for its peer

session == <<current_session_id, authenticated>>
vars == <<tcp, session, now, granted>>

Init ==
    /\ TcpInit
    /\ current_session_id = 0
    /\ authenticated = FALSE
    /\ now = 0
    /\ granted = [c \in Conns |-> {}]

Tick ==
    /\ now < MaxTime
    /\ now' = now + 1
    /\ UNCHANGED <<tcp, session, granted>>

-----------------------------------------------------------------------------
(***************************************************************************)
(* Peers.                                                                  *)
(***************************************************************************)
Connect(c) ==
    /\ TcpConnect(c)
    /\ granted' = [granted EXCEPT ![c] = {}]
    /\ UNCHANGED <<session, now>>

Submit(c, req) == TcpSubmit(c, req) /\ UNCHANGED <<session, now, granted>>

TakeReply(c) == TcpTakeReply(c) /\ UNCHANGED <<session, now, granted>>

Hangup(c) ==
    /\ TcpHangup(c)
    /\ granted' = [granted EXCEPT ![c] = {}]
    /\ UNCHANGED <<session, now>>

-----------------------------------------------------------------------------
(***************************************************************************)
(* The server.  A definition whose name begins with Bug is a wrong variant *)
(* of the definition that follows it; no specification uses it.            *)
(***************************************************************************)

\* The flag of the client before is left.
BugFreshSession == current_session_id' = 0 /\ UNCHANGED authenticated

\* handle_client's first assignments.
FreshSession == current_session_id' = 0 /\ authenticated' = FALSE

Accept(c) == TcpAccept(c) /\ FreshSession /\ UNCHANGED <<now, granted>>

\* recv_packet fails: the end of the stream, or a frame it refuses.
ConnectionLost(c) == TcpLost(c) /\ UNCHANGED <<session, now, granted>>

\* No reply: a frame recv_packet refuses, a payload its handler finds too
\* short, and GOODBYE all lead to the close.
Leave(c) ==
    /\ \/ Receives(c, "BAD_FRAME")
       \/ Receives(c, "GOODBYE")
       \/ \E type \in {"AUTH_REQ", "PING", "DATA_REQ"} :
              Receives(c, type) /\ ~Head(inbox[c]).ok
    /\ CloseClient(c)
    /\ UNCHANGED <<session, peer, outbox, asked, now, granted>>

\* handle_auth: the globals change before the reply is sent; a refusal leaves
\* an earlier authentication of the same client as it is.
HandleAuth(c) ==
    /\ Receives(c, "AUTH_REQ") /\ Head(inbox[c]).ok
    /\ IF Authentic(Head(inbox[c]))
       THEN /\ current_session_id' = SessionIdAt[now]
            /\ authenticated' = TRUE
            /\ granted' = [granted EXCEPT ![c] =
                              IF peer[c] = "open" THEN @ \cup {SessionIdAt[now]} ELSE @]
            /\ Emit(c, <<AuthResp("AUTH_OK", SessionIdAt[now])>>)
       ELSE /\ Emit(c, <<AuthResp("AUTH_FAILED", 0)>>)
            /\ UNCHANGED <<session, granted>>
    /\ \E outcome \in Outcomes(c) : Conclude(c, outcome, outcome = "failed")
    /\ UNCHANGED <<peer, asked, now>>

HandlePing(c) ==
    /\ Receives(c, "PING") /\ Head(inbox[c]).ok
    /\ Emit(c, <<Pong(Head(inbox[c]).seq)>>)
    /\ \E outcome \in Outcomes(c) : Conclude(c, outcome, outcome = "failed")
    /\ UNCHANGED <<session, peer, asked, now, granted>>

\* The identifier of the request is not compared.
BugInSession(req) == authenticated

InSession(req) == authenticated /\ req.session_id = current_session_id

Exists(r) == r < NUM_RESOURCES

DataReply(req) ==
    CASE ~InSession(req) -> Error("SESSION")
      [] InSession(req) /\ ~Exists(req.resource_id) -> Error("RESOURCE")
      [] OTHER -> DataResp(req.resource_id)

HandleDataReq(c) ==
    /\ Receives(c, "DATA_REQ") /\ Head(inbox[c]).ok
    /\ Emit(c, <<DataReply(Head(inbox[c]))>>)
    /\ \E outcome \in Outcomes(c) : Conclude(c, outcome, outcome = "failed")
    /\ UNCHANGED <<session, peer, asked, now, granted>>

\* An unknown type is dropped without a word.
BugUnknownReplies == <<>>

UnknownReplies == <<Error("TYPE")>>

\* handle_client's default case does not look at what send_packet returns.
HandleUnknown(c) ==
    /\ Receives(c, "UNKNOWN_TYPE")
    /\ Emit(c, UnknownReplies)
    /\ \E outcome \in Outcomes(c) : Conclude(c, outcome, FALSE)
    /\ UNCHANGED <<session, peer, asked, now, granted>>

StopServer == TcpStop /\ UNCHANGED <<session, now, granted>>

-----------------------------------------------------------------------------
ServerStep(c) ==
    \/ Accept(c) \/ ConnectionLost(c) \/ Leave(c) \/ HandleAuth(c)
    \/ HandlePing(c) \/ HandleDataReq(c) \/ HandleUnknown(c)

PeerStep(c) ==
    \/ Connect(c) \/ TakeReply(c) \/ Hangup(c)
    \/ \E req \in Requests[c] : Submit(c, req)

Next == Tick \/ StopServer \/ \E c \in Conns : ServerStep(c) \/ PeerStep(c)

Spec == Init /\ [][Next]_vars

-----------------------------------------------------------------------------
(***************************************************************************)
(* Properties.                                                             *)
(***************************************************************************)
TypeOK ==
    /\ TcpTypes(Request, Reply)
    /\ current_session_id \in Nat
    /\ authenticated \in BOOLEAN
    /\ now \in 0..MaxTime
    /\ granted \in [Conns -> SUBSET Nat]

(***************************************************************************)
(* A resource is only ever sent to a peer that was itself granted the very *)
(* identifier its request carries, on the connection the request came on:  *)
(* neither the flag nor the identifier of an earlier client is left to the *)
(* one accepted after it, the identifier 0 of a client that has not        *)
(* authenticated opens nothing, and no order of pipelined requests gets    *)
(* around AUTH (server.c:149-154, 190, 227-228).                           *)
(***************************************************************************)
DataFromOwnSession ==
    \A c \in Conns : peer[c] = "open" =>
        /\ c = served /\ authenticated => current_session_id \in granted[c]
        /\ \A i \in DOMAIN outbox[c] \cap DOMAIN asked[c] :
              outbox[c][i].type = "DATA_RESP" => asked[c][i].session_id \in granted[c]

(***************************************************************************)
(* One identifier at a time: after an AUTH_OK, and until the next, what is *)
(* answered with data carries the identifier of that AUTH_OK; one that the *)
(* same connection was granted before is refused (server.c:150, 190).      *)
(***************************************************************************)
OldIdRefused ==
    \A c \in Conns : \A i, j \in DOMAIN outbox[c] \cap DOMAIN asked[c] :
        /\ i < j
        /\ outbox[c][i].type = "AUTH_RESP" /\ outbox[c][i].result = "AUTH_OK"
        /\ \A k \in i + 1..j - 1 : outbox[c][k].type # "AUTH_RESP"
        /\ outbox[c][j].type = "DATA_RESP"
        => asked[c][j].session_id = outbox[c][i].session_id

(***************************************************************************)
(* Replies keep step with pipelined requests: the n-th reply a peer has    *)
(* not read answers its n-th pending request, in kind and in its sequence  *)
(* or resource number, and while the connection is held the requests       *)
(* beyond those are the ones the server has not read (server.c:234-263).   *)
(***************************************************************************)
InStep ==
    \A c \in Conns : peer[c] = "open" =>
        LET n == Len(outbox[c])
            m == Len(asked[c])
        IN  /\ n <= m
            /\ \A i \in 1..n : Answers(outbox[c][i], asked[c][i])
            /\ Held(c) => inbox[c] = SubSeq(asked[c], n + 1, m)
=============================================================================
