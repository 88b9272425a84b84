----------------------------- MODULE Ch13Network ----------------------------
(***************************************************************************)
(* The GCRP server with its client (binaries/ch13-network/client.c): an    *)
(* authentication, PINGS heartbeats, every resource and one that does not  *)
(* exist, and a GOODBYE that nothing answers.  Only the first phase looks  *)
(* at its result: main drops what do_ping, do_request_data and do_goodbye  *)
(* return.  Among the clients are strangers, peers that send anything.     *)
(***************************************************************************)
EXTENDS Ch13Server

CONSTANTS
    Clients,    \* the connections of the client program
    Username,   \* Username[c]: the name client c is started with, cut to its field
    PINGS,      \* heartbeats of main: 3
    NoResource  \* the resource that does not exist: 99

ASSUME NetworkAssumption ==
    /\ Clients \subseteq Conns
    /\ Username \in [Clients -> {u \in Usernames : Len(u) < NameLen}]
    /\ PINGS \in Nat
    /\ NoResource \in NUM_RESOURCES..255

\* What main sends, whatever the second of its session, its peer may send.
ASSUME ScriptAssumption ==
    \A c \in Clients :
        /\ {AuthReq(Username[c], EncodeToken(Username[c])), Goodbye} \subseteq Requests[c]
        /\ \A seq \in 1..PINGS : Ping(seq) \in Requests[c]
        /\ \A t \in 0..MaxTime, r \in 0..NUM_RESOURCES - 1 \cup {NoResource} :
              DataReq(SessionIdAt[t], r) \in Requests[c]

VARIABLES
    cpc,        \* where the client program stands
    step,       \* the step of main it is at
    session_id, \* do_authenticate's result
    got,        \* history: replies to DATA_REQ the client has read
    exit        \* what the process returns: 0 or 1, "killed" by SIGPIPE, or "none"

clientVars == <<cpc, step, session_id, got, exit>>
netVars == <<vars, clientVars>>

NetInit ==
    /\ Init
    /\ cpc = [c \in Clients |-> "start"]
    /\ step = [c \in Clients |-> 1]
    /\ session_id = [c \in Clients |-> 0]
    /\ got = [c \in Clients |-> {}]
    /\ exit = [c \in Clients |-> "none"]

-----------------------------------------------------------------------------
\* main: the phases, one request after the other.
Script ==
    <<"AUTH">> \o [i \in 1..PINGS |-> "PING"] \o [i \in 1..NUM_RESOURCES + 1 |-> "DATA"]
        \o <<"GOODBYE">>

Doing(c) == Script[step[c]]

\* The loop begins at 1.
BugResourceAt(n) ==
    IF n - PINGS - 1 < NUM_RESOURCES THEN n - PINGS - 1 ELSE NoResource

\* The loop's r, then the resource that does not exist.
ResourceAt(n) ==
    IF n - PINGS - 2 < NUM_RESOURCES THEN n - PINGS - 2 ELSE NoResource

\* What do_authenticate, do_ping, do_request_data and do_goodbye send.
RequestOf(c) ==
    CASE Doing(c) = "AUTH" -> AuthReq(Username[c], EncodeToken(Username[c]))
      [] Doing(c) = "PING" -> Ping(step[c] - 1)
      [] Doing(c) = "DATA" -> DataReq(session_id[c], ResourceAt(step[c]))
      [] Doing(c) = "GOODBYE" -> Goodbye

\* do_ping goes on without its PONG.
BugAfterSend(c) ==
    CASE Doing(c) = "PING" -> "send" [] Doing(c) = "GOODBYE" -> "close" [] OTHER -> "recv"

AfterSend(c) == IF Doing(c) = "GOODBYE" THEN "close" ELSE "recv"

\* "Impossible de s'authentifier. Abandon."
GiveUp(c) ==
    /\ cpc' = [cpc EXCEPT ![c] = "close"]
    /\ exit' = [exit EXCEPT ![c] = "1"]
    /\ UNCHANGED step

AtEnd(c) == step[c] = Len(Script)

\* The step after this one; a session that has begun ends with exit code 0.
Advance(c) ==
    \/ /\ AtEnd(c)
       /\ cpc' = [cpc EXCEPT ![c] = "close"]
       /\ exit' = [exit EXCEPT ![c] = "0"]
       /\ UNCHANGED step
    \/ /\ ~AtEnd(c)
       /\ cpc' = [cpc EXCEPT ![c] = "send"]
       /\ step' = [step EXCEPT ![c] = @ + 1]
       /\ UNCHANGED exit

\* A send or a recv fails: nothing after the first phase looks at it.
Fail(c) == IF Doing(c) = "AUTH" THEN GiveUp(c) ELSE Advance(c)

-----------------------------------------------------------------------------
ClientConnect(c) ==
    /\ cpc[c] = "start"
    /\ Connect(c)
    /\ cpc' = [cpc EXCEPT ![c] = "send"]
    /\ UNCHANGED <<step, session_id, got, exit>>

\* connect() finds no server.
ClientRefused(c) ==
    /\ cpc[c] = "start"
    /\ ~running
    /\ cpc' = [cpc EXCEPT ![c] = "done"]
    /\ exit' = [exit EXCEPT ![c] = "1"]
    /\ UNCHANGED <<vars, step, session_id, got>>

ClientSend(c) ==
    /\ cpc[c] = "send"
    /\ Submit(c, RequestOf(c))
    /\ IF AfterSend(c) = "recv"
       THEN cpc' = [cpc EXCEPT ![c] = "recv"] /\ UNCHANGED <<step, exit>>
       ELSE Advance(c)
    /\ UNCHANGED <<session_id, got>>

\* The server has closed: the send is answered by a RST, or meets one and
\* fails, or raises SIGPIPE, whose default action ends the client.
ClientSendLost(c) ==
    /\ cpc[c] = "send"
    /\ ~Held(c)
    /\ \/ /\ AfterSend(c) = "recv"
          /\ cpc' = [cpc EXCEPT ![c] = "recv"]
          /\ UNCHANGED <<vars, step, exit>>
       \/ Fail(c) /\ UNCHANGED vars
       \/ /\ cpc' = [cpc EXCEPT ![c] = "done"]
          /\ exit' = [exit EXCEPT ![c] = "killed"]
          /\ Hangup(c)
          /\ UNCHANGED step
    /\ UNCHANGED <<session_id, got>>

\* do_authenticate hands back the identifier, and main takes 0 for a refusal.
ReadAuth(c, reply) ==
    /\ Doing(c) = "AUTH"
    /\ session_id' = [session_id EXCEPT ![c] =
                         IF reply.type = "AUTH_RESP" /\ reply.result = "AUTH_OK"
                         THEN reply.session_id ELSE 0]
    /\ IF session_id'[c] = 0 THEN GiveUp(c) ELSE Advance(c)
    /\ UNCHANGED got

\* do_ping compares neither the type nor the sequence number; do_request_data
\* prints the data or the error.
ReadAnswer(c, reply) ==
    /\ Doing(c) # "AUTH"
    /\ got' = IF Doing(c) = "DATA" THEN [got EXCEPT ![c] = @ \cup {reply}] ELSE got
    /\ Advance(c)
    /\ UNCHANGED session_id

ClientReceive(c) ==
    /\ cpc[c] = "recv"
    /\ TakeReply(c)
    /\ ReadAuth(c, Head(outbox[c])) \/ ReadAnswer(c, Head(outbox[c]))

\* recv() returns the end of the stream or ECONNRESET.
ClientReceiveLost(c) ==
    /\ cpc[c] = "recv"
    /\ outbox[c] = <<>> /\ ~Held(c)
    /\ Fail(c)
    /\ UNCHANGED <<vars, session_id, got>>

ClientClose(c) ==
    /\ cpc[c] = "close"
    /\ Hangup(c)
    /\ cpc' = [cpc EXCEPT ![c] = "done"]
    /\ UNCHANGED <<step, session_id, got, exit>>

ClientStep(c) ==
    \/ ClientConnect(c) \/ ClientRefused(c) \/ ClientSend(c) \/ ClientSendLost(c)
    \/ ClientReceive(c) \/ ClientReceiveLost(c) \/ ClientClose(c)

Strangers == Conns \ Clients

ServerMoves == \E c \in Conns : ServerStep(c) /\ UNCHANGED clientVars

NetNext ==
    \/ ServerMoves
    \/ \E c \in Clients : ClientStep(c)
    \/ \E c \in Strangers : PeerStep(c) /\ UNCHANGED clientVars
    \/ (Tick \/ StopServer) /\ UNCHANGED clientVars

(***************************************************************************)
(* The server's loop and each client run on; nothing obliges the clock of  *)
(* the model, a stranger or the operator to do anything.                   *)
(***************************************************************************)
NetSpec ==
    /\ NetInit /\ [][NetNext]_netVars
    /\ WF_netVars(ServerMoves)
    /\ \A c \in Clients : WF_netVars(ClientStep(c))

-----------------------------------------------------------------------------
(***************************************************************************)
(* Properties.                                                             *)
(***************************************************************************)
(***************************************************************************)
(* A client that reports success has all it asked for: while the server    *)
(* has not been stopped, exit code 0 means every resource was received and *)
(* the one that does not exist was refused as such, whatever the sessions  *)
(* before and after it did to the server's globals, and though they may    *)
(* share the second of its identifier.  And it is never the client that    *)
(* makes SIGPIPE end the server: all that can be on its way when it closes *)
(* is the GOODBYE, which nothing answers (client.c:225-228, 281-304;       *)
(* server.c:182-216, 253-255).                                             *)
(***************************************************************************)
SuccessIsComplete ==
    \A c \in Clients :
        /\ running /\ exit[c] = "0" =>
              got[c] = {DataResp(r) : r \in 0..NUM_RESOURCES - 1} \cup {Error("RESOURCE")}
        /\ Held(c) /\ peer[c] = "closed" => inbox[c] \in {<<>>, <<Goodbye>>}

(***************************************************************************)
(* Every client ends, unless a stranger stays for ever, in the queue of a  *)
(* server that takes one at a time (listen(server_sock, 1), server.c:297), *)
(* and when the server is stopped.                                         *)
(***************************************************************************)
EveryClientEnds ==
    (\A c \in Strangers : <>[](peer[c] = "closed")) => <>(\A c \in Clients : cpc[c] = "done")
=============================================================================
