----------------------------- MODULE Ch23Network ----------------------------
(***************************************************************************)
(* The chapter 23 server together with the clients of the repository:      *)
(*   "demo"    binaries/ch23-network/client.c, one demonstration session;  *)
(*   "full"    solutions/ch23-checkpoint-client.py, full_session;          *)
(*   "testall" the same file, test_all_credentials: one short session per  *)
(*             account, one after the other.                               *)
(* A client sends a request, waits for its reply, and goes on or gives up; *)
(* what it does of an error or of a lost connection differs from client to *)
(* client and from phase to phase.                                         *)
(*                                                                         *)
(* The later connections of a "testall" client use the slot of the earlier *)
(* one: the server, which takes one client at a time, has come to the end  *)
(* of the earlier one whenever it serves the later one.                    *)
(***************************************************************************)
EXTENDS Ch23Server

CONSTANTS
    Script,     \* Script[c]: the program client c runs
    Logins,     \* Logins[c]: the accounts it uses, one per session
    DemoReads   \* the files client.c asks for: indices 0 to DemoReads - 1

ASSUME NetworkAssumption ==
    /\ Script \in [Conns -> {"demo", "full", "testall"}]
    /\ \A c \in Conns :
        /\ Logins[c] \in Seq([name : Names, password : Secrets]) \ {<<>>}
        /\ Script[c] # "testall" => Len(Logins[c]) = 1
    /\ DemoReads \in Nat

VARIABLES
    cpc,      \* where the client program stands
    step,     \* the step of its script it is at
    turn,     \* the account it uses
    key,      \* the challenge of the HELLO_RESP
    verdict   \* no session of the client has failed so far

clientVars == <<cpc, step, turn, key, verdict>>
netVars == <<vars, clientVars>>

NetInit ==
    /\ Init
    /\ cpc = [c \in Conns |-> "start"]
    /\ step = [c \in Conns |-> 1]
    /\ turn = [c \in Conns |-> 1]
    /\ key = [c \in Conns |-> ZeroChallenge]
    /\ verdict = [c \in Conns |-> TRUE]

-----------------------------------------------------------------------------
(***************************************************************************)
(* The scripts.                                                            *)
(***************************************************************************)
Reads(n) == [i \in 1..n |-> "READ"]

\* The session of client.c and of full_session, with n files to read.
ReadingSession(n) ==
    <<"HELLO", "AUTH", "PING", "INFO", "LIST">> \o Reads(n) \o <<"QUIT">>

\* The number of files the script of c asks for.
FilesRead(c) ==
    CASE Script[c] = "demo" -> DemoReads
      [] Script[c] = "full" -> FileCount
      [] Script[c] = "testall" -> 0

Steps(c) ==
    IF Script[c] = "testall"
    THEN <<"HELLO", "AUTH", "PING", "QUIT">>
    ELSE ReadingSession(FilesRead(c))

Doing(c) == Steps(c)[step[c]]

\* do_handshake, do_auth, do_command and do_quit build the request of a step.
RequestOf(c) ==
    CASE Doing(c) = "HELLO" -> HelloReq(TRUE)
      [] Doing(c) = "AUTH" ->
            AuthReq(Logins[c][turn[c]].name,
                    XorWithChallenge(Logins[c][turn[c]].password, key[c]))
      [] Doing(c) = "QUIT" -> QuitReq
      [] Doing(c) = "READ" -> CmdReq("READ", <<step[c] - 6>>)
      [] OTHER -> CmdReq(Doing(c), <<>>)

\* The server module lets the peer of c send every request of its script.
ASSUME ScriptAssumption ==
    \A c \in Conns :
        /\ {HelloReq(TRUE), QuitReq} \subseteq Requests[c]
        /\ \A cmd \in {"PING", "INFO", "LIST"} : CmdReq(cmd, <<>>) \in Requests[c]
        /\ \A i \in 0..FilesRead(c) - 1 : CmdReq("READ", <<i>>) \in Requests[c]
        /\ \A t \in DOMAIN Logins[c], ch \in Challenges :
              AuthReq(Logins[c][t].name, XorWithChallenge(Logins[c][t].password, ch))
                  \in Requests[c]

\* None of the programs tries a second password in a session, and the refusal
\* of the first is not the last one the server grants (3 in the code).
ASSUME RetriesAssumption == MAX_AUTH_RETRIES > 1

\* A reply on which the client gives the session up.
GivesUpOn(c, reply) ==
    CASE Doing(c) = "HELLO" -> reply.type # "HELLO_RESP"
      [] Doing(c) = "AUTH" -> reply # AuthResp("OK")
      [] Doing(c) = "QUIT" -> FALSE
      [] OTHER -> Script[c] # "demo" /\ reply.type # "CMD_RESP"

\* run_demo_session drops what do_command and do_quit return, and tests only
\* the phases below; the Python client raises EOFError in any phase.
GivesUpOnLoss(c) == Script[c] # "demo" \/ Doing(c) \in {"HELLO", "AUTH", "LIST"}

Abort(c) ==
    /\ cpc' = [cpc EXCEPT ![c] = "close"]
    /\ verdict' = [verdict EXCEPT ![c] = FALSE]
    /\ UNCHANGED <<step, turn>>

MoreSteps(c) == step[c] < Len(Steps(c))

\* The next step, or the end of the session; ok is what test_all_credentials
\* notes of its PING.
Advance(c, ok) ==
    /\ verdict' = [verdict EXCEPT ![c] = @ /\ ok]
    /\ IF MoreSteps(c)
       THEN /\ cpc' = [cpc EXCEPT ![c] = "send"]
            /\ step' = [step EXCEPT ![c] = @ + 1]
       ELSE /\ cpc' = [cpc EXCEPT ![c] = "close"]
            /\ UNCHANGED step
    /\ UNCHANGED turn

\* Another session of the script, or the end of the program.
NextSession(c) ==
    IF turn[c] < Len(Logins[c])
    THEN /\ cpc' = [cpc EXCEPT ![c] = "start"]
         /\ turn' = [turn EXCEPT ![c] = @ + 1]
    ELSE /\ cpc' = [cpc EXCEPT ![c] = "done"]
         /\ UNCHANGED turn

-----------------------------------------------------------------------------
\* connect() succeeds.
ClientConnect(c) ==
    /\ cpc[c] = "start"
    /\ Connect(c)
    /\ cpc' = [cpc EXCEPT ![c] = "send"]
    /\ step' = [step EXCEPT ![c] = 1]
    /\ UNCHANGED <<turn, key, verdict>>

\* connect() finds no server: the session fails before it begins.
ClientRefused(c) ==
    /\ cpc[c] = "start"
    /\ ~running
    /\ NextSession(c)
    /\ verdict' = [verdict EXCEPT ![c] = FALSE]
    /\ UNCHANGED <<vars, step, key>>

\* QUIT does not wait for its BYE.
BugAfterSend(c) == IF Doing(c) = "QUIT" THEN "close" ELSE "recv"

AfterSend(c) == "recv"

ClientSend(c) ==
    /\ cpc[c] = "send"
    /\ Submit(c, RequestOf(c))
    /\ cpc' = [cpc EXCEPT ![c] = AfterSend(c)]
    /\ UNCHANGED <<step, turn, key, verdict>>

\* The server has closed: the send is answered by a RST, or finds one.  The
\* C client has the default action of SIGPIPE, Python ignores it.
ClientSendLost(c) ==
    /\ cpc[c] = "send"
    /\ ~Held(c)
    /\ \/ /\ cpc' = [cpc EXCEPT ![c] = "recv"]
          /\ UNCHANGED <<vars, step, turn, verdict>>
       \/ /\ IF GivesUpOnLoss(c) THEN Abort(c) ELSE Advance(c, TRUE)
          /\ UNCHANGED vars
       \/ /\ Script[c] = "demo"
          /\ cpc' = [cpc EXCEPT ![c] = "done"]
          /\ verdict' = [verdict EXCEPT ![c] = FALSE]
          /\ Hangup(c)
          /\ UNCHANGED <<step, turn>>
    /\ UNCHANGED key

ClientReceive(c) ==
    /\ cpc[c] = "recv"
    /\ TakeReply(c)
    /\ LET reply == Head(outbox[c]) IN
        /\ IF GivesUpOn(c, reply)
           THEN Abort(c)
           ELSE Advance(c, Script[c] = "testall" /\ Doing(c) = "PING" => reply # CmdFail)
        /\ key' = IF reply.type = "HELLO_RESP"
                  THEN [key EXCEPT ![c] = reply.challenge] ELSE key

\* recv() returns the end of the stream or ECONNRESET.
ClientReceiveLost(c) ==
    /\ cpc[c] = "recv"
    /\ outbox[c] = <<>> /\ ~Held(c)
    /\ IF GivesUpOnLoss(c) THEN Abort(c) ELSE Advance(c, TRUE)
    /\ UNCHANGED <<vars, key>>

ClientClose(c) ==
    /\ cpc[c] = "close"
    /\ Hangup(c)
    /\ NextSession(c)
    /\ UNCHANGED <<step, key, verdict>>

ClientStep(c) ==
    \/ ClientConnect(c) \/ ClientSend(c) \/ ClientReceive(c) \/ ClientClose(c)
    \/ ClientRefused(c) \/ ClientSendLost(c) \/ ClientReceiveLost(c)

ServerMoves == \E c \in Conns : ServerStep(c) /\ UNCHANGED clientVars

NetNext == ServerMoves \/ (\E c \in Conns : ClientStep(c)) \/ (StopServer /\ UNCHANGED clientVars)

(***************************************************************************)
(* The server's loop and each client program run on; nothing obliges the   *)
(* operator to stop the server.                                            *)
(***************************************************************************)
NetSpec ==
    /\ NetInit /\ [][NetNext]_netVars
    /\ WF_netVars(ServerMoves)
    /\ \A c \in Conns : WF_netVars(ClientStep(c))

-----------------------------------------------------------------------------
(***************************************************************************)
(* Properties.                                                             *)
(***************************************************************************)
ValidLogin(login) ==
    \E u \in Users : login.name = u /\ login.password = Password[u]

\* The step that ends a session with success reads the BYE.
CompletesWithBye(c) ==
    cpc[c] = "recv" /\ cpc'[c] = "close" /\ verdict'[c] =>
        outbox[c] # <<>> /\ Head(outbox[c]) = Bye

(***************************************************************************)
(* A client's verdict is the truth about its accounts, whatever the other  *)
(* clients do before it, behind it or with a wrong password: while the     *)
(* server has not been stopped, a client program that ends reports success *)
(* exactly when every account it used is one of user_db; and stopped or    *)
(* not, the Python client reports a session complete only on reading the   *)
(* BYE (client.c:386-440, ch23-checkpoint-client.py:437-457, 464-615,      *)
(* server.c:320-368).                                                      *)
(***************************************************************************)
VerdictIsTruth ==
    /\ [](\A c \in Conns : running /\ cpc[c] = "done" =>
             (verdict[c] <=> \A t \in DOMAIN Logins[c] : ValidLogin(Logins[c][t])))
    /\ [][\A c \in Conns : Script[c] # "demo" => CompletesWithBye(c)]_netVars

(***************************************************************************)
(* The two hand-written ends of the protocol agree: no order of their      *)
(* steps makes the server send one of these clients an ERROR, and none of  *)
(* them, those that give up included, closes with a request still on its   *)
(* way, which the server would answer to a client that is gone, where      *)
(* SIGPIPE would end it (server.c:147, 181-193; client.c:495;              *)
(* ch23-checkpoint-client.py:489-492).                                     *)
(***************************************************************************)
NoProtocolError ==
    \A c \in Conns :
        /\ \A i \in DOMAIN outbox[c] : outbox[c][i].type # "ERROR"
        /\ Held(c) /\ peer[c] = "closed" => inbox[c] = <<>>

(***************************************************************************)
(* "Test PASSED -- session completed successfully" (Makefile:163): what    *)
(* the exit code of client.c is taken for.                                 *)
(***************************************************************************)
DemoCompletesWithBye ==
    [][\A c \in Conns : Script[c] = "demo" => CompletesWithBye(c)]_netVars

(***************************************************************************)
(* Every client program ends, even when it connects behind others, when    *)
(* they give up, and when the server is stopped under it: no two of them   *)
(* wait for each other (server.c:616-629, client.c:107-139).               *)
(***************************************************************************)
EveryClientEnds == <>(\A c \in Conns : cpc[c] = "done")

=============================================================================
