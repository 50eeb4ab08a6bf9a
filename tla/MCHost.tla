------------------------------- MODULE MCHost -------------------------------
(* The instance of Host.  The command lines are every one of two           *)
(* arguments, of one for each case of the parsers; every one of three      *)
(* about links, of a file and a -tvs; and longer ones with a -tvs.         *)
EXTENDS Host

Option(text) == <<text, "", "">>
Arguments ==
  {Option(l) : l \in {"h", "p", "c", "i", "j", "x", "e", "M", "z"}}
  \cup {<<"m", n, "">> : n \in {"", "3", "64", "65", "x"}}
  \cup {<<"l", n, "">> : n \in {"", "d", "w"}}
  \cup {<<"d", n, "">> : n \in {"", "a", "r", "f", "l", "L", "P", "M"}}
  \cup {<<"s", f, "">> : f \in {"", "forth.sym", "bad.sym", "none.sym"}}
  \cup {<<"b", a, "">> : a \in {"", "RPP", "FACE", "START"}}
  \cup {<<"r", d, "">> : d \in {"root", "none"}}
  \cup {<<"t", "vs", "">>, <<"t", "x", "">>}
  \cup {<<"L", "0", "M">>, <<"L", "4", "F">>, <<"L", "0", "Q">>, <<"L", "1", "">>}
  \cup {<<"T", "0", "">>, <<"T", "x", "dev">>}
  \cup {<<"", f, "">> : f \in {"rom", "hello", "world"}}
LinkArguments ==
  {<<"t", "vs", "">>, <<"L", "0", "F">>, <<"L", "1", "T">>, <<"L", "2", "S">>,
   <<"T", "0", "dev">>, <<"T", "1", "dev">>, <<"T", "1", "usb">>, <<"", "hello", "">>}
TvsFirst == {<<<<"t", "vs", "">>, <<"", "hello", "">>>>, <<<<"T", "0", "dev">>, <<"t", "vs", "">>>>}
SetUp == <<<<"s", "forth.sym", "">>, Option("e"), <<"b", "RPP", "">>, <<"b", "FACE", "">>>>
Few == {<<>>, SetUp}
       \cup {<<a, b>> : a, b \in Arguments}
       \cup {<<a, b, c>> : a, b, c \in LinkArguments}
       \cup {Front \o <<a, b, c>> : Front \in TvsFirst, a, b, c \in LinkArguments}
TheFiles == {"rom", "hello"}
TheReadable == {"rom"}
TheDirectories == {"root"}
UpTo64 == {"64"}
TheNumbers == {"3", "64", "65"}
Hexadecimal == [text \in {"FACE"} |-> 64206]
TheSymbols ==
  [file \in {"forth.sym", "bad.sym"} |->
     IF file = "bad.sym" THEN <<<<"SPP", 4>>, <<"RPP", 0>>>>
     ELSE <<<<"SPP", 1>>, <<"RPP", 2>>, <<"FACE", 3>>, <<"SPP", 4>>>>]

(* Programs for the monitor: prefixed instructions, the ones that change   *)
(* the flags, breakpoints, jumps and a loop, and unknown operations.       *)
Bytes(fs) == [k \in 1 .. Len(fs) |-> Function[fs[k][1]] + fs[k][2]]
EnterFpu == <<<<"pfix", 2>>, <<"ldc", 3>>, <<"pfix", 10>>, <<"opr", 11>>>>
Allocate == <<<<"nfix", 0>>, <<"ajw", 14>>>>
Op(high, low) == <<<<"pfix", high>>, <<"opr", low>>>>
Loop == Op(12, 0) \o <<<<"nfix", 0>>, <<"j", 11>>>>
Nothing(n) == [k \in 1 .. n |-> 0]

(* Programs that leave room for the context of a breakpoint, which they    *)
(* jump over, of a process of either priority that breaks to the first;    *)
(* and one that does not, and is changed by the breakpoint.                *)
Word(n) == <<n, 0, 0, 0>>
Room(w, ip) == <<Function.j + 9, 0>> \o Word(w) \o Word(ip)
TheCodes ==
  {Bytes(EnterFpu \o Allocate \o Op(12, 1) \o Op(12, 2)),
   Bytes(<<<<"j", 1>>, <<"ajw", 2>>, <<"ldc", 5>>>> \o Op(11, 2) \o Loop) \o Nothing(1),
   Bytes(<<<<"pfix", 1>>, <<"nfix", 2>>, <<"ldc", 3>>>> \o Op(7, 10) \o Op(15, 15)) \o Nothing(3),
   Room(69, 47) \o Bytes(Op(11, 3) \o <<<<"j", 0>>, <<"ldc", 1>>, <<"ajw", 3>>>> \o Op(11, 1) \o Op(12, 2)),
   Room(68, 45) \o Bytes(Op(11, 1) \o <<<<"ldc", 1>>>> \o Op(11, 1)),
   Bytes(Op(11, 1)) \o Word(69) \o Word(42) \o Bytes(<<<<"nfix", 0>>, <<"j", 6>>>>)}
TheFlags == {{"TerminateOnMemViol"}, {"Monitor", "DisRegs"}}
TheBreakpoints == {36}
TheLooks == {<<>>, <<33, 8>>}
TheWorkspaces == {<<>>}
=============================================================================
