------------------------------- MODULE MCCh22 -------------------------------
(***************************************************************************)
(* Instance of Ch22Pipeline for TLC: the repository's three plugins, a     *)
(* second name of one of them, one with the priority of a host's           *)
(* processor, one that fails, and files that cannot be loaded.             *)
(***************************************************************************)
EXTENDS Ch22Pipeline, TLC

CONSTANTS alpha, beta, gamma, link, twin, broken, text_file, no_elf, bare, none

MCPlugin ==
    LET Made(op, priority) == [loads |-> "created", op |-> op, priority |-> priority]
        Not(why) == [loads |-> why, op |-> "error", priority |-> 0]
    IN  (alpha :> Made("rot13", 30)) @@ (beta :> Made("xor", 50))
        @@ (gamma :> Made("leet", 40)) @@ (twin :> Made("rot13", 20))
        @@ (broken :> Made("error", 30)) @@ (text_file :> Made("error", 0))
        @@ (no_elf :> Not("no dlopen")) @@ (bare :> Not("no symbols"))
        @@ (none :> Not("no instance"))

MCLibrary == [e \in Entries |-> IF e = link THEN alpha ELSE e]

MCDirectories ==
    {{}, {alpha, beta, gamma}, {alpha, link, gamma}, {beta, none, text_file},
     {twin, no_elf, bare}, {alpha, broken}}

MCInputs ==
    {<<>>, <<Lower(0), Lower(1)>>, <<Upper(2), Space, Lower(3)>>,
     <<Lower(0), Lower(2), Space, Lower(1)>>,
     <<Lower(0), Lower(1), Space, Lower(2), Digit(7), Lower(3)>>,
     <<Space, Lower(1), Lower(3), Space, Space, Lower(0), Lower(2)>>}

MCLeetDigits == (0 :> 4) @@ (1 :> 3)
=============================================================================
