----------------------------- MODULE Ch20Network ----------------------------
(***************************************************************************)
(* The token service with its client program (binaries/ch20-network/       *)
(* client.c) among strangers, peers that send anything.  The client sends  *)
(* one request after the other and looks only at the result of AUTH: what  *)
(* it receives it takes for the answer to what it has just sent.           *)
(***************************************************************************)
EXTENDS Ch20Server

CONSTANTS
    Clients,    \* the connections of the client program
    ClientHash  \* compute_password_hash of the client's password

\* The hash the client computes is the one the server was built with.
ASSUME ClientAssumption == Clients \subseteq Conns /\ ClientHash = VALID_HASH

\* A client is a peer that may send what its program sends.
ASSUME ScriptAssumption ==
    \A c \in Clients :
        {AuthReq(VALID_USER, ClientHash), Ping, Disconnect}
            \cup {CmdReq(Generated, cmd) : cmd \in {"GET_INFO", "LIST_FILES", "READ_FILE"}}
            \subseteq Requests[c]

VARIABLES
    cpc,        \* where the client program stands
    step,       \* the step of main it is at
    token,      \* the token it has copied
    got,        \* history: the steps whose recv_message gave their own answer
    exit        \* what the process returns: 0 or 1, "killed" by SIGPIPE, or "none"

clientVars == <<cpc, step, token, got, exit>>
netVars == <<vars, clientVars>>

NetInit ==
    /\ Init
    /\ cpc = [c \in Clients |-> "start"]
    /\ step = [c \in Clients |-> 1]
    /\ token = [c \in Clients |-> Cleared]
    /\ got = [c \in Clients |-> {}]
    /\ exit = [c \in Clients |-> "none"]

-----------------------------------------------------------------------------
Script == <<"AUTH", "GET_INFO", "LIST_FILES", "READ_FILE", "PING", "DISCONNECT">>

Doing(c) == Script[step[c]]

\* The token is not copied from the reply.
BugRequestOf(c) ==
    CASE Doing(c) = "AUTH" -> AuthReq(VALID_USER, ClientHash)
      [] Doing(c) = "PING" -> Ping
      [] Doing(c) = "DISCONNECT" -> Disconnect
      [] OTHER -> CmdReq(Cleared, Doing(c))

RequestOf(c) ==
    CASE Doing(c) = "AUTH" -> AuthReq(VALID_USER, ClientHash)
      [] Doing(c) = "PING" -> Ping
      [] Doing(c) = "DISCONNECT" -> Disconnect
      [] OTHER -> CmdReq(token[c], Doing(c))

\* What the client prints is what it says it is.
OwnAnswer(c, reply) ==
    CASE Doing(c) = "AUTH" -> reply.type = "AUTH_RESP"
      [] Doing(c) = "PING" -> reply = Pong
      [] OTHER -> reply = Output(Doing(c))

\* The client closes before it has read its PONG.
BugAfterSend(c) == IF Doing(c) \in {"PING", "DISCONNECT"} THEN "close" ELSE "recv"

AfterSend(c) == IF Doing(c) = "DISCONNECT" THEN "close" ELSE "recv"

Finish(c, where, code) ==
    /\ cpc' = [cpc EXCEPT ![c] = where]
    /\ exit' = [exit EXCEPT ![c] = code]
    /\ UNCHANGED step

NextStep(c) ==
    /\ cpc' = [cpc EXCEPT ![c] = "send"]
    /\ step' = [step EXCEPT ![c] = @ + 1]
    /\ UNCHANGED exit

\* What send_message returns is ignored: the client goes on to its recv.
AfterRequest(c) ==
    \/ AfterSend(c) = "close" /\ Finish(c, "close", "0")
    \/ AfterSend(c) = "recv" /\ cpc' = [cpc EXCEPT ![c] = "recv"] /\ UNCHANGED <<step, exit>>

-----------------------------------------------------------------------------
ClientConnect(c) ==
    /\ cpc[c] = "start"
    /\ Connect(c)
    /\ cpc' = [cpc EXCEPT ![c] = "send"]
    /\ UNCHANGED <<step, token, got, exit>>

\* connect() finds no server.
ClientRefused(c) ==
    /\ cpc[c] = "start"
    /\ ~running
    /\ Finish(c, "done", "1")
    /\ UNCHANGED <<vars, token, got>>

ClientSend(c) ==
    /\ cpc[c] = "send"
    /\ Submit(c, RequestOf(c))
    /\ AfterRequest(c)
    /\ UNCHANGED <<token, got>>

\* The server has closed: the send may seem to work, fail, or end the client.
ClientSendLost(c) ==
    /\ cpc[c] = "send"
    /\ ~Held(c)
    /\ \/ AfterRequest(c) /\ UNCHANGED vars
       \/ Finish(c, "done", "killed") /\ Hangup(c)
    /\ UNCHANGED <<token, got>>

\* AUTH is given up on success = 0, nothing else on anything.
ClientReceive(c) ==
    /\ cpc[c] = "recv"
    /\ TakeReply(c)
    /\ LET reply == Head(outbox[c]) IN
        /\ got' = IF OwnAnswer(c, reply) THEN [got EXCEPT ![c] = @ \cup {Doing(c)}] ELSE got
        /\ IF Doing(c) = "AUTH"
           THEN /\ token' = [token EXCEPT ![c] = reply.token]
                /\ IF reply.success THEN NextStep(c) ELSE Finish(c, "close", "1")
           ELSE NextStep(c) /\ UNCHANGED token

\* recv() returns the end of the stream or ECONNRESET.
ClientReceiveLost(c) ==
    /\ cpc[c] = "recv"
    /\ outbox[c] = <<>> /\ ~Held(c)
    /\ IF Doing(c) = "AUTH" THEN Finish(c, "close", "1") ELSE NextStep(c)
    /\ UNCHANGED <<vars, token, got>>

ClientClose(c) ==
    /\ cpc[c] = "close"
    /\ Hangup(c)
    /\ cpc' = [cpc EXCEPT ![c] = "done"]
    /\ UNCHANGED <<step, token, got, exit>>

ClientStep(c) ==
    \/ ClientConnect(c) \/ ClientRefused(c) \/ ClientSend(c) \/ ClientSendLost(c)
    \/ ClientReceive(c) \/ ClientReceiveLost(c) \/ ClientClose(c)

Strangers == Conns \ Clients

ServerMoves == \E c \in Conns : ServerStep(c) /\ UNCHANGED clientVars

NetNext ==
    \/ ServerMoves
    \/ \E c \in Clients : ClientStep(c)
    \/ \E c \in Strangers : PeerStep(c) /\ UNCHANGED clientVars
    \/ StopServer /\ UNCHANGED clientVars

(***************************************************************************)
(* The server's loop and each client run on; a stranger and the operator   *)
(* do as they please.                                                      *)
(***************************************************************************)
NetSpec ==
    /\ NetInit /\ [][NetNext]_netVars
    /\ WF_netVars(ServerMoves)
    /\ \A c \in Clients : WF_netVars(ClientStep(c))

-----------------------------------------------------------------------------
(***************************************************************************)
(* Properties.                                                             *)
(***************************************************************************)
(***************************************************************************)
(* The client, which checks nothing after AUTH, still prints each answer   *)
(* under its own heading, and all of them: while the server is alive,      *)
(* whatever strangers did to it before, a client that ends has exit code 0 *)
(* and the answers of all its steps.  It leaves nothing behind that the    *)
(* server would have to answer, so that it is never the client that makes  *)
(* SIGPIPE end the server: when it closes, at most the DISCONNECT is on    *)
(* its way (client.c:124-190).                                             *)
(***************************************************************************)
ServedInFull ==
    \A c \in Clients :
        /\ running /\ cpc[c] = "done" =>
              /\ exit[c] = "0"
              /\ got[c] = {Script[i] : i \in 1..Len(Script) - 1}
        /\ Held(c) /\ peer[c] = "closed" => inbox[c] \in {<<>>, <<Disconnect>>}

(***************************************************************************)
(* A client ends, unless a stranger stays for ever: the frames the server  *)
(* drops in silence never leave both ends waiting, nor does anything a     *)
(* stranger leaves in its socket (server.c:148-149, 218-220).              *)
(***************************************************************************)
ClientsEnd ==
    (\A c \in Strangers : <>[](peer[c] = "closed")) => <>(\A c \in Clients : cpc[c] = "done")
=============================================================================
