----------------------------- MODULE Ch20Server -----------------------------
(***************************************************************************)
(* The token service of chapter 20 (binaries/ch20-network/server.c) and    *)
(* any peers.  A client that authenticates is handed a token, the same in  *)
(* every session; it opens commands only while the flag authenticated is   *)
(* set, which handle_client resets when it begins and the token is not.    *)
(* The handlers ignore what send_message returns, and two kinds of frames  *)
(* get no answer at all.                                                   *)
(*                                                                         *)
(* An ECHO request is one whose arg_len is the length of its arguments.    *)
(***************************************************************************)
EXTENDS TcpService

CONSTANTS
    Users, Hashes,            \* what AUTH_REQ may carry
    VALID_USER, VALID_HASH,
    Tokens,
    Cleared,                  \* the token of all zero bytes
    Generated,                \* what generate_token computes from its fixed seed
    Args,                     \* arguments of an ECHO
    Requests                  \* Requests[c]: what the peer of c may send

ASSUME CredentialsAssumption ==
    /\ VALID_USER \in Users /\ VALID_HASH \in Hashes
    /\ {Cleared, Generated} \subseteq Tokens

-----------------------------------------------------------------------------
(***************************************************************************)
(* Frames.                                                                 *)
(***************************************************************************)
Commands == {"LIST_FILES", "READ_FILE", "GET_INFO", "OTHER"}

AuthReq(user, hash) == [type |-> "AUTH_REQ", ok |-> TRUE, user |-> user, hash |-> hash]
CmdReq(token, cmd) == [type |-> "CMD_REQ", ok |-> TRUE, token |-> token, cmd |-> cmd]
EchoReq(token, args) ==
    [type |-> "CMD_REQ", ok |-> TRUE, token |-> token, cmd |-> "ECHO", args |-> args]
Short(type) == [type |-> type, ok |-> FALSE]
Ping == [type |-> "PING"]
Disconnect == [type |-> "DISCONNECT"]
UnknownType == [type |-> "UNKNOWN_TYPE"]
BadFrame == [type |-> "BAD_FRAME"]  \* magic, version, length or checksum is wrong

Request ==
    [type : {"AUTH_REQ"}, ok : {TRUE}, user : Users, hash : Hashes]
    \cup [type : {"CMD_REQ"}, ok : {TRUE}, token : Tokens, cmd : Commands]
    \cup [type : {"CMD_REQ"}, ok : {TRUE}, token : Tokens, cmd : {"ECHO"}, args : Args]
    \cup {Short("AUTH_REQ"), Short("CMD_REQ"), Ping, Disconnect, UnknownType, BadFrame}

ASSUME RequestsAssumption == Requests \in [Conns -> SUBSET Request]

AuthResp(success, token) == [type |-> "AUTH_RESP", success |-> success, token |-> token]
Output(cmd) == [type |-> "CMD_RESP", status |-> "OK", cmd |-> cmd]
Echoed(args) == [type |-> "CMD_RESP", status |-> "OK", cmd |-> "ECHO", args |-> args]
CmdError(text) == [type |-> "CMD_RESP", status |-> text]
Pong == [type |-> "PONG"]

Reply ==
    [type : {"AUTH_RESP"}, success : BOOLEAN, token : Tokens]
    \cup [type : {"CMD_RESP"}, status : {"OK"}, cmd : Commands \ {"OTHER"}]
    \cup [type : {"CMD_RESP"}, status : {"OK"}, cmd : {"ECHO"}, args : Args]
    \cup [type : {"CMD_RESP"}, status : {"NOT_AUTH", "UNKNOWN_CMD"}]
    \cup {Pong}

\* Nothing is sent for these, and the connection goes on.
Silent(req) == req \in {Short("CMD_REQ"), UnknownType}

Valid(req) == req.ok /\ req.user = VALID_USER /\ req.hash = VALID_HASH

\* A reply that may answer a request.
Answers(reply, req) ==
    CASE req.type = "AUTH_REQ" ->
            reply.type = "AUTH_RESP" /\ (reply.success <=> Valid(req))
      [] req.type = "CMD_REQ" ->
            /\ reply.type = "CMD_RESP"
            /\ reply.status = "OK" => reply.cmd = req.cmd
            /\ reply.status = "OK" /\ req.cmd = "ECHO" => reply.args = req.args
      [] req.type = "PING" -> reply = Pong
      [] OTHER -> FALSE

-----------------------------------------------------------------------------
VARIABLES
    session_token,
    authenticated,
    admitted       \* history: an AUTH_RESP of success was sent on c, to its peer

session == <<session_token, authenticated>>
vars == <<tcp, session, admitted>>

Init ==
    /\ TcpInit
    /\ session_token = Cleared
    /\ authenticated = FALSE
    /\ admitted = [c \in Conns |-> FALSE]

(***************************************************************************)
(* Peers.                                                                  *)
(***************************************************************************)
Connect(c) ==
    /\ TcpConnect(c)
    /\ admitted' = [admitted EXCEPT ![c] = FALSE]
    /\ UNCHANGED session

\* A peer waits for no answer to a silent request.
SubmitSilent(c, req) ==
    /\ peer[c] = "open" /\ Held(c)
    /\ Len(inbox[c]) < Window
    /\ inbox' = [inbox EXCEPT ![c] = Append(@, req)]
    /\ UNCHANGED <<running, backlog, served, peer, outbox, asked>>

Submit(c, req) ==
    /\ IF Silent(req) THEN SubmitSilent(c, req) ELSE TcpSubmit(c, req)
    /\ UNCHANGED <<session, admitted>>

TakeReply(c) == TcpTakeReply(c) /\ UNCHANGED <<session, admitted>>

Hangup(c) ==
    /\ TcpHangup(c)
    /\ admitted' = [admitted EXCEPT ![c] = FALSE]
    /\ UNCHANGED session

-----------------------------------------------------------------------------
(***************************************************************************)
(* The server.  A definition whose name begins with Bug is a wrong variant *)
(* of the definition that follows it; no specification uses it.            *)
(***************************************************************************)

\* handle_client's first assignment; the token stays.
FreshSession == authenticated' = FALSE /\ UNCHANGED session_token

Accept(c) == TcpAccept(c) /\ FreshSession /\ UNCHANGED admitted

\* recv_message comes to the end of the stream.
ConnectionLost(c) == TcpLost(c) /\ UNCHANGED <<session, admitted>>

\* recv_message refuses a frame, or DISCONNECT.
Leave(c) ==
    /\ Receives(c, "BAD_FRAME") \/ Receives(c, "DISCONNECT")
    /\ CloseClient(c)
    /\ UNCHANGED <<session, peer, outbox, asked, admitted>>

\* An unknown type is reported to the client, as in chapters 13 and 23.
BugDrop(c) ==
    /\ Receives(c, "UNKNOWN_TYPE")
    /\ Emit(c, <<CmdError("UNKNOWN_CMD")>>)
    /\ \E outcome \in Outcomes(c) : Conclude(c, outcome, FALSE)
    /\ UNCHANGED <<session, peer, asked, admitted>>

\* A command too short for its header, or an unknown type.
Drop(c) ==
    /\ \/ Receives(c, "CMD_REQ") /\ ~Head(inbox[c]).ok
       \/ Receives(c, "UNKNOWN_TYPE")
    /\ inbox' = [inbox EXCEPT ![c] = Tail(@)]
    /\ UNCHANGED <<running, backlog, served, session, peer, outbox, asked, admitted>>

\* A handler sends its reply; whether that worked is not looked at.
Respond(c, reply) ==
    /\ Emit(c, <<reply>>)
    /\ \E outcome \in Outcomes(c) : Conclude(c, outcome, FALSE)
    /\ UNCHANGED <<peer, asked>>

\* A failed attempt takes nothing back from a client that was authenticated.
HandleAuth(c) ==
    /\ Receives(c, "AUTH_REQ")
    /\ IF Valid(Head(inbox[c]))
       THEN /\ session_token' = Generated
            /\ authenticated' = TRUE
            /\ admitted' = [admitted EXCEPT ![c] = peer[c] = "open"]
            /\ Respond(c, AuthResp(TRUE, Generated))
       ELSE /\ Respond(c, AuthResp(FALSE, Cleared))
            /\ UNCHANGED <<session, admitted>>

\* A command is let through on its token alone.
BugAllowed(req) == req.token = session_token

Allowed(req) == authenticated /\ req.token = session_token

CmdReply(req) ==
    CASE ~Allowed(req) -> CmdError("NOT_AUTH")
      [] Allowed(req) /\ req.cmd = "OTHER" -> CmdError("UNKNOWN_CMD")
      [] Allowed(req) /\ req.cmd = "ECHO" -> Echoed(req.args)
      [] OTHER -> Output(req.cmd)

HandleCmd(c) ==
    /\ Receives(c, "CMD_REQ") /\ Head(inbox[c]).ok
    /\ Respond(c, CmdReply(Head(inbox[c])))
    /\ UNCHANGED <<session, admitted>>

HandlePing(c) ==
    /\ Receives(c, "PING")
    /\ Respond(c, Pong)
    /\ UNCHANGED <<session, admitted>>

StopServer == TcpStop /\ UNCHANGED <<session, admitted>>

-----------------------------------------------------------------------------
ServerStep(c) ==
    \/ Accept(c) \/ ConnectionLost(c) \/ Leave(c) \/ Drop(c)
    \/ HandleAuth(c) \/ HandleCmd(c) \/ HandlePing(c)

PeerStep(c) ==
    \/ Connect(c) \/ TakeReply(c) \/ Hangup(c)
    \/ \E req \in Requests[c] : Submit(c, req)

Next == StopServer \/ \E c \in Conns : ServerStep(c) \/ PeerStep(c)

Spec == Init /\ [][Next]_vars

-----------------------------------------------------------------------------
(***************************************************************************)
(* Properties.                                                             *)
(***************************************************************************)
TypeOK ==
    /\ TcpTypes(Request, Reply)
    /\ session_token \in Tokens
    /\ authenticated \in BOOLEAN
    /\ admitted \in [Conns -> BOOLEAN]

(***************************************************************************)
(* A command does its work only on a connection that was itself told of a  *)
(* successful AUTH: the token, which is the same for every client and is   *)
(* still in session_token when the next one comes, opens nothing by itself *)
(* (server.c:148-158, 196-201).                                            *)
(***************************************************************************)
CommandsAfterOwnAuth ==
    \A c \in Conns : peer[c] = "open" =>
        /\ c = served /\ authenticated => admitted[c] /\ session_token = Generated
        /\ \A i \in DOMAIN outbox[c] :
              outbox[c][i].type = "CMD_RESP" /\ outbox[c][i].status # "NOT_AUTH"
                  => admitted[c]

\* The requests of q after the n-th are, in order, the frames of b that get an
\* answer: at says where in b each of them is.
Unanswered(q, n, b) ==
    \E at \in [n + 1..Len(q) -> DOMAIN b] :
        /\ \A i, j \in n + 1..Len(q) : i < j => at[i] < at[j]
        /\ \A i \in n + 1..Len(q) : b[at[i]] = q[i]
        /\ \A k \in DOMAIN b : ~Silent(b[k]) <=> \E i \in n + 1..Len(q) : at[i] = k

(***************************************************************************)
(* Frames without an answer do not shift the others: the n-th reply a peer *)
(* has not read answers its n-th pending request that is not silent, and   *)
(* while the connection is held the rest of those are, in order, what the  *)
(* server has not read (server.c:121-224).                                 *)
(***************************************************************************)
InStep ==
    \A c \in Conns : peer[c] = "open" =>
        LET n == Len(outbox[c]) IN
        /\ n <= Len(asked[c])
        /\ \A i \in 1..n : Answers(outbox[c][i], asked[c][i])
        /\ Held(c) => Unanswered(asked[c], n, inbox[c])
=============================================================================
