---------------------------- MODULE Ch13Protocol ----------------------------
(***************************************************************************)
(* GCRP, the protocol of chapter 13 (binaries/ch13-network/protocol.h).    *)
(*                                                                         *)
(* A frame is a record with its type and the fields the handlers read; ok  *)
(* is FALSE when the payload is shorter than the structure it stands for.  *)
(***************************************************************************)
EXTENDS Integers, Sequences

CONSTANTS
    Byte,           \* values of a byte
    Masked,         \* Masked[b]: b XOR GCRP_AUTH_KEY
    NameLen,        \* length of the fields username and token
    NUM_RESOURCES

ASSUME ProtocolAssumption ==
    /\ 0 \in Byte
    /\ Masked \in [Byte -> Byte]
    /\ NameLen \in Nat \ {0}
    /\ NUM_RESOURCES \in 1..255

\* The field username up to its first zero byte, and the field token.
Usernames == {u \in Seq(Byte \ {0}) : Len(u) <= NameLen}
Tokens == [1..NameLen -> Byte]

\* The client's token: the rest of the field is left zero.
EncodeToken(user) ==
    [i \in 1..NameLen |-> IF i <= Len(user) THEN Masked[user[i]] ELSE 0]

\* Only the bytes of the name are compared.
VerifyToken(user, token) == \A i \in 1..Len(user) : Masked[user[i]] = token[i]

-----------------------------------------------------------------------------
\* Requests.
AuthReq(user, token) ==
    [type |-> "AUTH_REQ", ok |-> TRUE, user |-> user, token |-> token]
Ping(seq) == [type |-> "PING", ok |-> TRUE, seq |-> seq]
DataReq(sid, r) ==
    [type |-> "DATA_REQ", ok |-> TRUE, session_id |-> sid, resource_id |-> r]
Short(type) == [type |-> type, ok |-> FALSE]
Goodbye == [type |-> "GOODBYE"]
UnknownType == [type |-> "UNKNOWN_TYPE"]
BadFrame == [type |-> "BAD_FRAME"]     \* wrong magic, or too long a payload

Request ==
    [type : {"AUTH_REQ"}, ok : {TRUE}, user : Usernames, token : Tokens]
    \cup [type : {"PING"}, ok : {TRUE}, seq : Nat]
    \cup [type : {"DATA_REQ"}, ok : {TRUE}, session_id : Nat, resource_id : 0..255]
    \cup {Short("AUTH_REQ"), Short("PING"), Short("DATA_REQ")}
    \cup {Goodbye, UnknownType, BadFrame}

\* Replies.
AuthResp(result, sid) ==
    [type |-> "AUTH_RESP", result |-> result, session_id |-> sid]
Pong(seq) == [type |-> "PONG", seq |-> seq]
DataResp(r) == [type |-> "DATA_RESP", resource_id |-> r]
Error(text) == [type |-> "ERROR", text |-> text]

Reply ==
    [type : {"AUTH_RESP"}, result : {"AUTH_OK", "AUTH_FAILED"}, session_id : Nat]
    \cup [type : {"PONG"}, seq : Nat]
    \cup [type : {"DATA_RESP"}, resource_id : 0..NUM_RESOURCES - 1]
    \cup [type : {"ERROR"}, text : {"SESSION", "RESOURCE", "TYPE"}]

\* handle_auth's test of a request of full length.
Authentic(req) == req.user # <<>> /\ VerifyToken(req.user, req.token)

\* A reply that may answer a request.
Answers(reply, req) ==
    CASE req.type = "AUTH_REQ" ->
            reply.type = "AUTH_RESP" /\ (reply.result = "AUTH_OK" <=> Authentic(req))
      [] req.type = "PING" -> reply = Pong(req.seq)
      [] req.type = "DATA_REQ" ->
            reply \in {DataResp(req.resource_id), Error("SESSION"), Error("RESOURCE")}
      [] req.type = "UNKNOWN_TYPE" -> reply = Error("TYPE")
      [] OTHER -> FALSE
=============================================================================
