----------------------------- MODULE Ch23Server -----------------------------
(***************************************************************************)
(* binaries/ch23-network/server.c: the handlers of a session, on top of    *)
(* the frame of TcpService, and any set of peers connected to the server.  *)
(***************************************************************************)
EXTENDS Ch23Protocol, TcpService

CONSTANT Requests  \* Requests[c]: the requests the peer of c may send

ASSUME RequestsAssumption == Requests \in [Conns -> SUBSET Request]

VARIABLES
    state,         \* session_t.state
    challenge,     \* session_t.challenge
    auth_retries,  \* session_t.auth_retries
    presented,     \* history: the AUTH requests handled on c, for its peer
    welcomed,      \* history: the challenges sent on c, to its peer
    refused        \* history: the number of AUTH_RESP FAIL sent on c

session == <<state, challenge, auth_retries>>
history == <<presented, welcomed, refused>>
vars == <<tcp, session, history>>

ZeroChallenge == [i \in 0..CHALLENGE_LEN - 1 |-> 0]

Init ==
    /\ TcpInit
    /\ state = "CONNECTED"
    /\ challenge = ZeroChallenge
    /\ auth_retries = 0
    /\ presented = [c \in Conns |-> {}]
    /\ welcomed = [c \in Conns |-> {}]
    /\ refused = [c \in Conns |-> 0]

-----------------------------------------------------------------------------
(***************************************************************************)
(* Peers.                                                                  *)
(***************************************************************************)
Connect(c) ==
    /\ TcpConnect(c)
    /\ presented' = [presented EXCEPT ![c] = {}]
    /\ welcomed' = [welcomed EXCEPT ![c] = {}]
    /\ refused' = [refused EXCEPT ![c] = 0]
    /\ UNCHANGED session

Submit(c, req) == TcpSubmit(c, req) /\ UNCHANGED <<session, history>>

TakeReply(c) == TcpTakeReply(c) /\ UNCHANGED <<session, history>>

Hangup(c) ==
    /\ TcpHangup(c)
    /\ presented' = [presented EXCEPT ![c] = {}]
    /\ welcomed' = [welcomed EXCEPT ![c] = {}]
    /\ UNCHANGED <<session, refused>>

-----------------------------------------------------------------------------
(***************************************************************************)
(* The server.  A definition whose name begins with Bug is a wrong variant *)
(* of the definition that follows it; no specification uses it.            *)
(***************************************************************************)

\* The memset of the session forgets the state.
BugFreshSession ==
    /\ UNCHANGED state
    /\ challenge' = ZeroChallenge
    /\ auth_retries' = 0

\* memset(&sess, 0, sizeof(sess)).
FreshSession ==
    /\ state' = "CONNECTED"
    /\ challenge' = ZeroChallenge
    /\ auth_retries' = 0

\* AUTH does not wait for HELLO.
BugStateFor ==
    [HELLO_REQ |-> "CONNECTED", AUTH_REQ |-> "CONNECTED", CMD_REQ |-> "AUTHENTICATED"]

\* The state in which a handler accepts its request.
StateFor ==
    [HELLO_REQ |-> "CONNECTED", AUTH_REQ |-> "HELLO_DONE", CMD_REQ |-> "AUTHENTICATED"]

\* accept(), then handle_client's memset of the session.
Accept(c) == TcpAccept(c) /\ FreshSession /\ UNCHANGED history

\* proto_recv reads the end of the stream, and handle_client leaves its loop.
ConnectionLost(c) == TcpLost(c) /\ UNCHANGED <<session, history>>

\* proto_recv refuses a frame: it reports the error and handle_client leaves.
RefuseFrame(c) ==
    /\ \/ Receives(c, "BAD_MAGIC") /\ Emit(c, <<Error("BAD_MAGIC")>>)
       \/ Receives(c, "TOO_LARGE") /\ Emit(c, <<Error("PAYLOAD_TOO_LARGE")>>)
    /\ \E outcome \in Outcomes(c) : Conclude(c, outcome, TRUE)
    /\ UNCHANGED <<session, peer, asked, history>>

\* A request in a state that does not allow it: ERR_WRONG_STATE ends the session.
RefuseState(c) ==
    /\ \E type \in DOMAIN StateFor : Receives(c, type) /\ state # StateFor[type]
    /\ Emit(c, <<Error("WRONG_STATE")>>)
    /\ \E outcome \in Outcomes(c) : Conclude(c, outcome, TRUE)
    /\ UNCHANGED <<session, peer, asked, history>>

\* handle_hello: the state moves only when the WELCOME has been sent.
HandleHello(c) ==
    /\ Receives(c, "HELLO_REQ") /\ state = StateFor["HELLO_REQ"]
    /\ \E outcome \in Outcomes(c) :
        \/ /\ ~Head(inbox[c]).ok
           /\ Emit(c, <<Error("BAD_TYPE")>>)
           /\ Conclude(c, outcome, TRUE)
           /\ UNCHANGED <<session, welcomed>>
        \/ /\ Head(inbox[c]).ok
           /\ \E ch \in Challenges :
               /\ challenge' = ch
               /\ Emit(c, <<Welcome(ch)>>)
               /\ welcomed' = [welcomed EXCEPT ![c] =
                                  IF peer[c] = "open" THEN @ \cup {ch} ELSE @]
           /\ state' = IF outcome = "sent" THEN "HELLO_DONE" ELSE state
           /\ Conclude(c, outcome, outcome = "failed")
           /\ UNCHANGED auth_retries
    /\ UNCHANGED <<peer, asked, presented, refused>>

\* handle_auth on a payload whose lengths do not fit: no attempt is counted.
RejectMalformedAuth(c) ==
    /\ Receives(c, "AUTH_REQ") /\ state = StateFor["AUTH_REQ"]
    /\ ~Head(inbox[c]).ok
    /\ Emit(c, <<Error("AUTH_FAIL")>>)
    /\ \E outcome \in Outcomes(c) : Conclude(c, outcome, TRUE)
    /\ UNCHANGED <<session, peer, asked, history>>

\* The password is not compared.
BugMatches(req) == req.name \in Users

\* The search of user_db, after the XOR has been undone.
Matches(req) ==
    \E u \in Users :
        req.name = u /\ XorWithChallenge(req.secret, challenge) = Password[u]

\* One attempt too many.
BugLastTry(retries) == retries > MAX_AUTH_RETRIES

LastTry(retries) == retries >= MAX_AUTH_RETRIES

\* handle_auth: the state or the counter moves before the reply is sent.
HandleAuth(c) ==
    /\ Receives(c, "AUTH_REQ") /\ state = StateFor["AUTH_REQ"]
    /\ Head(inbox[c]).ok
    /\ presented' = [presented EXCEPT ![c] =
                        IF peer[c] = "open" THEN @ \cup {Head(inbox[c])} ELSE @]
    /\ \E outcome \in Outcomes(c) :
        \/ /\ Matches(Head(inbox[c]))
           /\ state' = "AUTHENTICATED"
           /\ Emit(c, <<AuthResp("OK")>>)
           /\ Conclude(c, outcome, outcome = "failed")
           /\ UNCHANGED <<auth_retries, refused>>
        \/ /\ ~Matches(Head(inbox[c]))
           /\ auth_retries' = auth_retries + 1
           /\ refused' = [refused EXCEPT ![c] = @ + 1]
           /\ IF LastTry(auth_retries')
              THEN /\ Emit(c, <<AuthResp("FAIL"), Error("AUTH_FAIL")>>)
                   /\ Conclude(c, outcome, TRUE)
              ELSE /\ Emit(c, <<AuthResp("FAIL")>>)
                   /\ Conclude(c, outcome, outcome = "failed")
           /\ UNCHANGED state
    /\ UNCHANGED <<challenge, peer, asked, welcomed>>

\* handle_command on an empty payload ends the session.
RejectEmptyCommand(c) ==
    /\ Receives(c, "CMD_REQ") /\ state = StateFor["CMD_REQ"]
    /\ ~Head(inbox[c]).ok
    /\ Emit(c, <<Error("BAD_CMD")>>)
    /\ \E outcome \in Outcomes(c) : Conclude(c, outcome, TRUE)
    /\ UNCHANGED <<session, peer, asked, history>>

\* handle_cmd_read serves a file when the first argument is one of its indices.
Readable(req) == req.args # <<>> /\ Head(req.args) < FileCount

CommandReply(req) ==
    IF req.cmd = "READ" /\ ~Readable(req) THEN CmdFail ELSE CmdOk(req)

\* handle_command, and the handle_cmd_* it dispatches to.
HandleCommand(c) ==
    /\ Receives(c, "CMD_REQ") /\ state = StateFor["CMD_REQ"]
    /\ Head(inbox[c]).ok
    /\ \E outcome \in Outcomes(c) :
        \/ /\ Head(inbox[c]).cmd = "OTHER"
           /\ Emit(c, <<Error("BAD_CMD")>>)
           /\ Conclude(c, outcome, FALSE)
        \/ /\ Head(inbox[c]).cmd # "OTHER"
           /\ Emit(c, <<CommandReply(Head(inbox[c]))>>)
           /\ Conclude(c, outcome, outcome = "failed")
    /\ UNCHANGED <<session, peer, asked, history>>

\* handle_quit, in any state; the loop sees STATE_DISCONNECTED and closes.
HandleQuit(c) ==
    /\ Receives(c, "QUIT_REQ")
    /\ state' = "DISCONNECTED"
    /\ Emit(c, <<Bye>>)
    /\ \E outcome \in Outcomes(c) : Conclude(c, outcome, TRUE)
    /\ UNCHANGED <<challenge, auth_retries, peer, asked, history>>

\* A frame of an unknown type is dropped without a word.
BugUnknownReplies == <<>>

UnknownReplies == <<Error("BAD_TYPE")>>

\* handle_client's default case: reported, and the loop goes on.
HandleUnknown(c) ==
    /\ Receives(c, "UNKNOWN_TYPE")
    /\ Emit(c, UnknownReplies)
    /\ \E outcome \in Outcomes(c) : Conclude(c, outcome, FALSE)
    /\ UNCHANGED <<session, peer, asked, history>>

StopServer == TcpStop /\ UNCHANGED <<session, history>>

-----------------------------------------------------------------------------
ServerStep(c) ==
    \/ Accept(c) \/ ConnectionLost(c) \/ RefuseFrame(c) \/ RefuseState(c)
    \/ HandleHello(c) \/ RejectMalformedAuth(c) \/ HandleAuth(c)
    \/ RejectEmptyCommand(c) \/ HandleCommand(c) \/ HandleQuit(c)
    \/ HandleUnknown(c)

PeerStep(c) ==
    \/ Connect(c) \/ TakeReply(c) \/ Hangup(c)
    \/ \E req \in Requests[c] : Submit(c, req)

Next == StopServer \/ \E c \in Conns : ServerStep(c) \/ PeerStep(c)

Spec == Init /\ [][Next]_vars

\* The server's loop runs: it handles what it has received.
FairSpec == Spec /\ WF_vars(\E c \in Conns : ServerStep(c))

-----------------------------------------------------------------------------
(***************************************************************************)
(* Properties.                                                             *)
(***************************************************************************)
States == {"CONNECTED", "HELLO_DONE", "AUTHENTICATED", "DISCONNECTED"}

TypeOK ==
    /\ TcpTypes(Request, Reply)
    /\ state \in States
    /\ challenge \in Challenges
    /\ auth_retries \in 0..MAX_AUTH_RETRIES
    /\ presented \in [Conns -> SUBSET AuthReqs]
    /\ welcomed \in [Conns -> SUBSET Challenges]
    /\ refused \in [Conns -> Nat]

\* On c the peer has presented the password of a user of user_db, covered
\* with a challenge it was sent on that same connection.
Proven(c) ==
    \E req \in presented[c], ch \in welcomed[c], u \in Users :
        req.name = u /\ req.secret = XorWithChallenge(Password[u], ch)

(***************************************************************************)
(* The result of a command is only ever sent on a connection that has      *)
(* itself proven a password of user_db: nothing of the session of an       *)
(* earlier client (state, challenge) is left to the one accepted after it, *)
(* and no order of pipelined requests reaches the handlers of commands     *)
(* around HELLO and AUTH (server.c:464, 523-526).                          *)
(***************************************************************************)
DataOnlyAfterProof ==
    \A c \in Conns : peer[c] = "open" =>
        /\ c = served /\ state = "AUTHENTICATED" => Proven(c)
        /\ \A i \in DOMAIN outbox[c] : outbox[c][i].type = "CMD_RESP" => Proven(c)

(***************************************************************************)
(* "Max 3 tentatives par session": the session's counter is the number of  *)
(* refusals of this very connection, and the refusal that reaches the      *)
(* limit is the last thing the connection hears (server.c:354-364).        *)
(***************************************************************************)
RetryLimit ==
    \A c \in Conns :
        /\ refused[c] <= MAX_AUTH_RETRIES
        /\ refused[c] = MAX_AUTH_RETRIES => ~Held(c)
        /\ c = served => auth_retries = refused[c]

(***************************************************************************)
(* Replies keep step with pipelined requests: the n-th reply a peer has    *)
(* not read answers its n-th pending request, and while the connection is  *)
(* served the requests beyond those are exactly the ones the server has    *)
(* not read.  The only unpaired reply is the ERROR that follows the last   *)
(* refusal, on a connection the server has closed (server.c:358-364).      *)
(***************************************************************************)
InStep ==
    \A c \in Conns : peer[c] = "open" =>
        LET n == Len(outbox[c])
            m == Len(asked[c])
        IN  /\ \A i \in 1..n : i <= m => Answers(outbox[c][i], asked[c][i])
            /\ Held(c) => n <= m /\ inbox[c] = SubSeq(asked[c], n + 1, m)
            /\ n > m => /\ n = m + 1 /\ ~Held(c)
                        /\ outbox[c][n] = Error("AUTH_FAIL")
                        /\ refused[c] = MAX_AUTH_RETRIES

(***************************************************************************)
(* The service as its clients see it: Ch23Gate.                            *)
(***************************************************************************)
Phase(c) ==
    CASE c = served -> (CASE state = "CONNECTED" -> "admitted"
                          [] state = "HELLO_DONE" -> "greeted"
                          [] state = "AUTHENTICATED" -> "trusted"
                          [] OTHER -> "parted")
      [] c # served /\ Held(c) -> "waiting"
      [] ~Held(c) /\ peer[c] = "open" -> "parted"
      [] OTHER -> "away"

Gate == INSTANCE Ch23Gate WITH
            phase <- [c \in Conns |-> Phase(c)],
            refusals <- refused,
            Limit <- MAX_AUTH_RETRIES

\* Every step of the server and its peers is a step of the gate, or none.
ImplementsGate == Gate!Spec
=============================================================================
