----------------------------- MODULE TcpService -----------------------------
(***************************************************************************)
(* The frame the network servers of the repository have in common (chapter *)
(* 13, 20 and 23): a single-threaded process with a listening socket that  *)
(* accepts one connection, serves it until its loop is left, closes it and *)
(* accepts the next; and the peers at the other ends.                      *)
(*                                                                         *)
(* A server action takes one frame out of the served connection and runs   *)
(* the whole handler: the state change, the replies, and the close that    *)
(* follows when handle_client leaves its loop.  Peers may pipeline: they   *)
(* may send their next requests before they read a reply.                  *)
(*                                                                         *)
(* A connection is known to the server while it waits in the accept queue  *)
(* or is the one being served; in any other state its server end is        *)
(* closed.  A slot of Conns is used again once both ends are closed.       *)
(***************************************************************************)
EXTENDS Integers, Sequences

CONSTANTS
    Conns,         \* connection slots
    NoConn,        \* no connection is being served
    Window,        \* bound: requests of a connection without their reply
    Backlog        \* length of the accept queue: the argument of listen()

ASSUME ServiceAssumption ==
    /\ NoConn \notin Conns
    /\ Window \in Nat \ {0}
    /\ Backlog \in Nat \ {0}

VARIABLES
    running,       \* the server process is alive
    backlog,       \* accept queue of the listening socket
    served,        \* the connection handle_client works on
    peer,          \* peer[c]: the peer's end of c is "open" or "closed"
    inbox,         \* inbox[c]: requests sent on c, not yet read by the server
    outbox,        \* outbox[c]: replies sent on c, not yet read by the peer
    asked          \* history: requests of c whose reply the peer has not read

tcp == <<running, backlog, served, peer, inbox, outbox, asked>>

TcpTypes(Req, Rep) ==
    /\ running \in BOOLEAN
    /\ backlog \in Seq(Conns)
    /\ served \in Conns \cup {NoConn}
    /\ peer \in [Conns -> {"open", "closed"}]
    /\ inbox \in [Conns -> Seq(Req)]
    /\ outbox \in [Conns -> Seq(Rep)]
    /\ asked \in [Conns -> Seq(Req)]

\* The server's end of c is open.
Held(c) == c = served \/ \E i \in DOMAIN backlog : backlog[i] = c

TcpInit ==
    /\ running = TRUE
    /\ backlog = <<>>
    /\ served = NoConn
    /\ peer = [c \in Conns |-> "closed"]
    /\ inbox = [c \in Conns |-> <<>>]
    /\ outbox = [c \in Conns |-> <<>>]
    /\ asked = [c \in Conns |-> <<>>]

-----------------------------------------------------------------------------
(***************************************************************************)
(* Peers.                                                                  *)
(***************************************************************************)

\* connect(): the handshake completes while the accept queue has room.
TcpConnect(c) ==
    /\ running
    /\ peer[c] = "closed" /\ ~Held(c)
    /\ Len(backlog) < Backlog
    /\ backlog' = Append(backlog, c)
    /\ peer' = [peer EXCEPT ![c] = "open"]
    /\ inbox' = [inbox EXCEPT ![c] = <<>>]
    /\ outbox' = [outbox EXCEPT ![c] = <<>>]
    /\ asked' = [asked EXCEPT ![c] = <<>>]
    /\ UNCHANGED <<running, served>>

\* send(): the frame reaches the server's socket while the server's end is open.
TcpSubmit(c, req) ==
    /\ peer[c] = "open" /\ Held(c)
    /\ Len(asked[c]) < Window
    /\ inbox' = [inbox EXCEPT ![c] = Append(@, req)]
    /\ asked' = [asked EXCEPT ![c] = Append(@, req)]
    /\ UNCHANGED <<running, backlog, served, peer, outbox>>

\* recv(): the peer reads the next reply.
TcpTakeReply(c) ==
    /\ peer[c] = "open"
    /\ outbox[c] # <<>>
    /\ outbox' = [outbox EXCEPT ![c] = Tail(@)]
    /\ asked' = [asked EXCEPT ![c] = IF @ = <<>> THEN @ ELSE Tail(@)]
    /\ UNCHANGED <<running, backlog, served, peer, inbox>>

\* close(), or the end of the peer's process; what it sent stays readable.
TcpHangup(c) ==
    /\ peer[c] = "open"
    /\ peer' = [peer EXCEPT ![c] = "closed"]
    /\ outbox' = [outbox EXCEPT ![c] = <<>>]
    /\ asked' = [asked EXCEPT ![c] = <<>>]
    /\ UNCHANGED <<running, backlog, served, inbox>>

-----------------------------------------------------------------------------
(***************************************************************************)
(* The server's side.  A definition whose name begins with Bug is a wrong  *)
(* variant of the definition that follows it; no specification uses it.    *)
(***************************************************************************)

\* accept() of the oldest connection in the queue.
TcpAccept(c) ==
    /\ running
    /\ served = NoConn
    /\ backlog # <<>> /\ c = Head(backlog)
    /\ served' = c
    /\ backlog' = Tail(backlog)
    /\ UNCHANGED <<running, peer, inbox, outbox, asked>>

\* A frame of this type is what the server reads next from its client.
Receives(c, type) ==
    /\ running
    /\ c = served
    /\ inbox[c] # <<>>
    /\ Head(inbox[c]).type = type

(***************************************************************************)
(* What becomes of a handler's replies.  A send on a connection whose peer *)
(* has closed may still succeed (the answer is a RST that comes later),    *)
(* may fail, and may raise SIGPIPE, which no server ignores or handles:    *)
(* the process ends, and with it every connection it held.                 *)
(***************************************************************************)
Outcomes(c) == IF peer[c] = "open" THEN {"sent"} ELSE {"sent", "failed", "killed"}

Emit(c, replies) ==
    outbox' = [outbox EXCEPT ![c] = IF peer[c] = "open" THEN @ \o replies ELSE @]

\* close(client_fd): what the peer had sent and nobody read is discarded.
CloseClient(c) ==
    /\ served' = NoConn
    /\ inbox' = [inbox EXCEPT ![c] = <<>>]
    /\ UNCHANGED <<running, backlog>>

\* The kernel closes every connection of a process that ends.
Die ==
    /\ running' = FALSE
    /\ served' = NoConn
    /\ backlog' = <<>>
    /\ inbox' = [c \in Conns |-> <<>>]

\* handle_client after a handler: the loop goes on or the connection closes.
Conclude(c, outcome, leave) ==
    \/ /\ outcome = "killed"
       /\ Die
    \/ /\ outcome # "killed" /\ leave
       /\ CloseClient(c)
    \/ /\ outcome # "killed" /\ ~leave
       /\ inbox' = [inbox EXCEPT ![c] = Tail(@)]
       /\ UNCHANGED <<running, served, backlog>>

\* recv() returning 0 is not taken for an end.
BugEndOfStream(c) == FALSE

\* recv() returns 0: all is read and the peer has closed.
EndOfStream(c) == inbox[c] = <<>> /\ peer[c] = "closed"

\* The read of a frame comes to the end of the stream: "Connection lost".
TcpLost(c) ==
    /\ running
    /\ c = served
    /\ EndOfStream(c)
    /\ CloseClient(c)
    /\ UNCHANGED <<peer, outbox, asked>>

\* The operator ends the process (Ctrl-C, or the kill of a Makefile's test).
TcpStop ==
    /\ running
    /\ Die
    /\ UNCHANGED <<peer, outbox, asked>>

-----------------------------------------------------------------------------
(***************************************************************************)
(* A client that is gone does not keep the server: whatever it had left in *)
(* the socket, handle_client comes to the end of the stream, or to a send  *)
(* that fails, and the connection is closed (ch23-network/server.c:529-560,*)
(* ch13-network/server.c:234-267).                                         *)
(***************************************************************************)
LostClientReleased ==
    \A c \in Conns : (c = served /\ peer[c] = "closed") ~> (c # served \/ peer[c] = "open")
=============================================================================
