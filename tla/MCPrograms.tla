----------------------------- MODULE MCPrograms -----------------------------
(* The instance of Programs and Bootstrap: words of eight bits and bytes   *)
(* of two.  RAM is 128 to 215, ROM is 80 to 127.                           *)
EXTENDS Bootstrap
RomBytes == [i \in 0 .. 51 |-> (i + i \div 4) % 4]
HeapBytes == [i \in 0 .. 3 |-> 3]
Moved == {78, 96, 122, 126, 160, 163, 165, 212, 214}
LengthsMoved == {0, 1, 3, 5, 40, 130}
WordsStored == {0, 1, 27, 114, 228, 255}
AddressesStored == {144, 145, 190, 212}
FiveBytes == <<1, 2, 3, 0, 2>>
EveryProgram == AllPrograms \cup BootFiles
=============================================================================
