------------------------------- MODULE MCCh35 -------------------------------
(***************************************************************************)
(* Instance of Ch35Tools for TLC: two files of one name in two directories *)
(* and one of another.                                                     *)
(***************************************************************************)
EXTENDS Ch35Tools, TLC

Fn(value, size, bind) == [type |-> "STT_FUNC", value |-> value, size |-> size, bind |-> bind]
Raise == [type |-> "raise"]

\* Sections on either side of 7.00 once rounded, a small one, one without a name.
Sections(debug) ==
    <<[name |-> "", debug |-> FALSE, entropy |-> 7900, size |-> 99],
      [name |-> ".text", debug |-> FALSE, entropy |-> 7004, size |-> 99],
      [name |-> ".packed", debug |-> FALSE, entropy |-> 7006, size |-> 65],
      [name |-> ".small", debug |-> FALSE, entropy |-> 7900, size |-> 64]>>
    \o IF debug THEN <<[name |-> ".debug_info", debug |-> TRUE, entropy |-> 5000, size |-> 99]>>
       ELSE <<>>

Table ==
    <<Fn(0, 4, "STB_GLOBAL"), Fn(1, 0, "STB_LOCAL"), Fn(2, 4, "STB_LOCAL"), Fn(3, 9, "STB_GLOBAL"),
      Fn(4, 4, "STB_WEAK"), Fn(5, 1, "STB_LOCAL"), Fn(6, 2, "STB_LOCAL"), Fn(7, 9, "STB_GLOBAL")>>

Rich ==
    [size |-> 2, magic |-> TRUE, lief |-> TRUE, pie |-> TRUE, nx |-> TRUE, relro |-> TRUE,
     dynamic |-> <<"DF_1_NOW", "raise">>, libraries |-> 2, static |-> 8,
     imports |-> {"SHA256", "accept4", "puts", "__stack_chk_fail"},
     sections |-> Sections(TRUE), symbols |-> Table, rules |-> {"sha256"}]

Stripped ==
    [Rich EXCEPT !.size = 1, !.static = 0, !.symbols = <<>>, !.dynamic = <<"raise", "BIND_NOW">>,
                 !.imports = {"sprintf"}, !.sections = Sections(FALSE), !.rules = {"raise"}]

\* A symbol table pyelftools cannot read to its end.
Damaged == [Rich EXCEPT !.symbols = SubSeq(Table, 1, 4) \o <<Raise>>, !.dynamic = <<>>]

\* lief cannot parse it.
Cut == [Rich EXCEPT !.lief = FALSE, !.symbols = <<Raise>>]

Text == [Cut EXCEPT !.magic = FALSE]

MCContent ==
    ("rich" :> Rich) @@ ("stripped" :> Stripped) @@ ("damaged" :> Damaged)
    @@ ("cut" :> Cut) @@ ("text" :> Text)

MCOrder == <<"a/x", "b/x", "b/y">>
MCNameOf == ("a/x" :> <<"x">>) @@ ("b/x" :> <<"x">>) @@ ("b/y" :> <<"y">>)

Tree(ax, bx, by) == ("a/x" :> ax) @@ ("b/x" :> bx) @@ ("b/y" :> by)

MCTrees ==
    {Tree("rich", "stripped", Absent), Tree("cut", "damaged", "text")}

MCScripts == <<"export", "crypto">>

\* "old" is a binary there once was; notes is nobody's.
MCJsonOrder ==
    <<<<"notes">>, <<"old", "functions">>, <<"report">>, <<"x">>, <<"x", "crypto">>,
      <<"x", "functions">>, <<"y">>, <<"y", "crypto">>>>

NoOutput == [f \in {MCJsonOrder[i] : i \in DOMAIN MCJsonOrder} |-> Absent]

MCOldOutputs ==
    {[NoOutput EXCEPT ![<<"notes">>] = [kind |-> "list"]],
     [NoOutput EXCEPT ![<<"notes">>] = Json("crypto", <<"x">>, "text"),
                      ![<<"report">>] = Broken,
                      ![<<"old", "functions">>] = Json("functions", <<"old">>, "rich"),
                      ![<<"x", "functions">>] = Json("functions", <<"x">>, "text")]}
=============================================================================
