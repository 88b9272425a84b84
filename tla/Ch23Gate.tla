------------------------------ MODULE Ch23Gate ------------------------------
(***************************************************************************)
(* What the chapter 23 server promises, without sockets, frames or a       *)
(* process: visitors wait, are admitted one at a time, are greeted, and    *)
(* are trusted only after a greeting and at most Limit - 1 refusals.       *)
(***************************************************************************)
EXTENDS Integers

CONSTANTS Conns, Limit

VARIABLES
    phase,      \* where each visitor stands
    refusals    \* refusals each visitor has met during its visit

gateVars == <<phase, refusals>>

Inside == {"admitted", "greeted", "trusted"}

Init ==
    /\ phase = [c \in Conns |-> "away"]
    /\ refusals = [c \in Conns |-> 0]

Move(c, from, to) == phase[c] = from /\ phase' = [phase EXCEPT ![c] = to]

Arrive(c) ==
    /\ Move(c, "away", "waiting")
    /\ refusals' = [refusals EXCEPT ![c] = 0]

Admit(c) ==
    /\ \A d \in Conns : phase[d] \notin Inside
    /\ Move(c, "waiting", "admitted")
    /\ UNCHANGED refusals

Greet(c) == Move(c, "admitted", "greeted") /\ UNCHANGED refusals

Grant(c) == Move(c, "greeted", "trusted") /\ UNCHANGED refusals

Refuse(c) ==
    /\ phase[c] = "greeted"
    /\ refusals' = [refusals EXCEPT ![c] = @ + 1]
    /\ \/ refusals'[c] < Limit /\ UNCHANGED phase
       \/ \E to \in {"parted", "away"} : Move(c, "greeted", to)

\* The visit ends; the visitor may still be at the door, or be gone.
Part(c) ==
    /\ \E from \in Inside, to \in {"parted", "away"} : Move(c, from, to)
    /\ UNCHANGED refusals

Leave(c) == Move(c, "parted", "away") /\ UNCHANGED refusals

\* The house closes, perhaps while it refuses a visitor: every visit ends.
Collapse ==
    /\ phase' \in [Conns -> {"away", "parted"}]
    /\ \A c \in Conns : phase[c] \in {"away", "parted"} => phase'[c] = phase[c]
    /\ \/ UNCHANGED refusals
       \/ \E c \in Conns : /\ phase[c] = "greeted"
                           /\ refusals' = [refusals EXCEPT ![c] = @ + 1]

Next == Collapse \/
    \E c \in Conns :
        \/ Arrive(c) \/ Admit(c) \/ Greet(c) \/ Grant(c) \/ Refuse(c)
        \/ Part(c) \/ Leave(c)

Spec == Init /\ [][Next]_gateVars
=============================================================================
