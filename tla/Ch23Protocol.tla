---------------------------- MODULE Ch23Protocol ----------------------------
(***************************************************************************)
(* Vocabulary of the chapter 23 protocol, shared by the server (server.c)  *)
(* and its clients: the frames, and the XOR that covers the password.      *)
(*                                                                         *)
(* A frame is a record.  Its header is reduced to what the receiver's      *)
(* parser can tell apart: a wrong magic byte, a length over MAX_PAYLOAD,   *)
(* a type.  A payload keeps only the fields the handlers look at.          *)
(***************************************************************************)
EXTENDS Integers, Sequences

CONSTANTS
    Names,             \* the user names a client may present
    Users,             \* the user names of user_db
    Password,          \* Password[u]: the password user_db holds for u
    FileCount,         \* number of entries of file_db
    CHALLENGE_LEN,     \* bytes of a challenge (8 in the code)
    MAX_PASS_LEN,      \* longest password a frame can carry (255 in the code)
    MAX_AUTH_RETRIES   \* failed AUTH requests that end a session (3 in the code)

(***************************************************************************)
(* A byte is represented by one of its bits: the XOR acts on every bit of  *)
(* a byte in the same way, and nothing else is computed from the bytes.    *)
(***************************************************************************)
Byte == {0, 1}

Challenges == [0..CHALLENGE_LEN - 1 -> Byte]

Secrets == UNION {[0..n - 1 -> Byte] : n \in 0..MAX_PASS_LEN}

ASSUME ProtocolAssumption ==
    /\ Users \subseteq Names
    /\ CHALLENGE_LEN \in Nat \ {0}
    /\ MAX_PASS_LEN \in Nat
    /\ MAX_AUTH_RETRIES \in Nat \ {0}
    /\ FileCount \in Nat
    /\ Password \in [Users -> Secrets]

\* data[i] ^= challenge[i % CHALLENGE_LEN], in place over the whole password.
XorWithChallenge(data, challenge) ==
    [i \in DOMAIN data |-> IF data[i] = challenge[i % CHALLENGE_LEN] THEN 0 ELSE 1]

(***************************************************************************)
(* Requests.                                                               *)
(***************************************************************************)
BadMagic     == [type |-> "BAD_MAGIC"]
TooLarge     == [type |-> "TOO_LARGE"]
UnknownType  == [type |-> "UNKNOWN_TYPE"]
QuitReq      == [type |-> "QUIT_REQ"]
HelloReq(ok) == [type |-> "HELLO_REQ", ok |-> ok]
AuthReq(name, secret) ==
    [type |-> "AUTH_REQ", ok |-> TRUE, name |-> name, secret |-> secret]
MalformedAuth == [type |-> "AUTH_REQ", ok |-> FALSE]
CmdReq(cmd, args) == [type |-> "CMD_REQ", ok |-> TRUE, cmd |-> cmd, args |-> args]
EmptyCmd     == [type |-> "CMD_REQ", ok |-> FALSE]

Commands == {"PING", "LIST", "READ", "INFO", "OTHER"}

AuthReqs == [type : {"AUTH_REQ"}, ok : {TRUE}, name : Names, secret : Secrets]
CmdReqs  == [type : {"CMD_REQ"}, ok : {TRUE}, cmd : Commands, args : Seq(0..255)]

Request ==
    {BadMagic, TooLarge, UnknownType, QuitReq, HelloReq(TRUE), HelloReq(FALSE),
     MalformedAuth, EmptyCmd} \cup AuthReqs \cup CmdReqs

(***************************************************************************)
(* Replies.  The payload of a CMD_RESP is named by what determines it: the *)
(* command, and for READ the first argument byte, the index of the file.   *)
(***************************************************************************)
Carried(req) ==
    [cmd |-> req.cmd,
     index |-> IF req.cmd = "READ" THEN SubSeq(req.args, 1, 1) ELSE <<>>]

Welcome(challenge) == [type |-> "HELLO_RESP", challenge |-> challenge]
AuthResp(status)   == [type |-> "AUTH_RESP", status |-> status]
CmdOk(req)         == [type |-> "CMD_RESP", status |-> "OK", content |-> Carried(req)]
CmdFail            == [type |-> "CMD_RESP", status |-> "FAIL"]
Bye                == [type |-> "QUIT_RESP"]
Error(code)        == [type |-> "ERROR", code |-> code]

ErrorCodes == {"BAD_MAGIC", "BAD_TYPE", "WRONG_STATE", "AUTH_FAIL", "BAD_CMD",
               "PAYLOAD_TOO_LARGE"}

Contents == [cmd : Commands, index : Seq(0..255)]

Reply ==
    {CmdFail, Bye}
    \cup [type : {"HELLO_RESP"}, challenge : Challenges]
    \cup [type : {"AUTH_RESP"}, status : {"OK", "FAIL"}]
    \cup [type : {"CMD_RESP"}, status : {"OK"}, content : Contents]
    \cup [type : {"ERROR"}, code : ErrorCodes]

\* A reply has the request's type with bit 7 set, or is an ERROR.
ResponseType ==
    [HELLO_REQ |-> "HELLO_RESP", AUTH_REQ |-> "AUTH_RESP",
     CMD_REQ |-> "CMD_RESP", QUIT_REQ |-> "QUIT_RESP"]

\* The reply is one a client may take for the answer to req.
Answers(reply, req) ==
    \/ reply.type = "ERROR"
    \/ /\ req.type \in DOMAIN ResponseType
       /\ reply.type = ResponseType[req.type]
       /\ "content" \in DOMAIN reply => reply.content = Carried(req)
=============================================================================
