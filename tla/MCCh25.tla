------------------------------- MODULE MCCh25 -------------------------------
(***************************************************************************)
(* Instance of Ch25Tools for TLC: files of one base name in two            *)
(* directories, an empty one, one longer than the key, a name that begins  *)
(* with its suffix, one in capitals, one that is not ASCII, and a path     *)
(* that does not open.                                                     *)
(***************************************************************************)
EXTENDS Ch25Tools, TLC

File(name, data) ==
    [name |-> [i \in DOMAIN name |-> Part(name[i])], data |-> [i \in DOMAIN data |-> Byte(data[i])]]

MCFiles ==
    ("a.txt" :> File(<<"a", "txt">>, <<1, 2, 3>>))
    @@ ("dir/a.txt" :> File(<<"a", "txt">>, <<2>>))
    @@ (".txt" :> File(<<"txt">>, <<>>))
    @@ ("b.TXT" :> File(<<"b", "TXT">>, <<3, 0>>))
    @@ ("accent" :> File(<<"accent">>, <<1>>))

MCLists ==
    {<<"a.txt", "dir/a.txt">>, <<".txt", "b.TXT">>, <<"accent", "a.txt">>,
     <<"a.txt", "missing">>, <<"a.txt", ".txt", "b.TXT">>}

MCDemo ==
    <<NewRecord(1, <<Part("b"), Part("txt")>>, <<Byte(1)>>),
      NewRecord(3, <<Part("b"), Part("meta")>>, <<Byte(0), Byte(3)>>)>>

MCTestRecords ==
    {<<>>, <<NewRecord(1, <<Part("a"), Part("txt")>>, <<>>), NewRecord(2, <<>>, <<Byte(2), Byte(3)>>)>>}

MCKey == <<2, 1>>

MCAsNumber ==
    ("magic" :> 3) @@ ("flags" :> 1) @@ ("author" :> 2) @@ ("part" :> 0)
    @@ ("byte" :> 1) @@ ("crc16" :> 2) @@ ("crc32" :> 9)

MCAppended == {Byte(0), Mark("CRFE")}

MCDamaged ==
    {Num(0), Num(1), Num(3), Mark("other"), Author("other"), Part("txt"), Part("z"), Byte(0),
     Crc16(<<>>), Crc32(<<>>)}
    \cup {Flags(f) : f \in SUBSET {"xor", "footer"}}
=============================================================================
