----------------------------- MODULE Bootstrap -----------------------------
(***************************************************************************)
(* Tools/bin2boot.cpp: the boot file made of a program, that is a boot     *)
(* loader, the program's size and the program; and what the loader does    *)
(* with it once the CPU has booted from link 0.                            *)
(*                                                                         *)
(* The loader and the size are what the length byte counts; the program is *)
(* left on the link for the loader to read.                                *)
(***************************************************************************)
EXTENDS Programs

ASSUME BootstrapAssumption == MemStart % 4 = 0 /\ MemStart > 0

(* The loader, given the address of the size and, for ReadCode, its own.   *)
(* It keeps what start left in the registers, gives the queues, flags and  *)
(* links their initial values, reads the program to the address after its  *)
(* size, and goes there with the workspace after it, in whole words.       *)
(* Below MemStart the models have the words of link 0 and no more.         *)
SaveRegisters ==
  <<I("ajw", -8), I("stl", 6), I("stl", 5), I("stl", 4),
    I("ldl", 4), I("ldnlp", (Link0Output - Link0Input) \div 4), I("stl", 3)>>
NotProcessAt(a) == <<O("mint"), I("ldc", a), I("stnl", 0)>>
Initialise ==
  <<O("mint"), O("sthf"), O("mint"), O("stlf"),
    I("ldc", 0), O("sttimer"), O("testerr"), O("clrhalterr"), O("fptesterr")>>
  \o NotProcessAt(Link0Input) \o NotProcessAt(Link0Output)
ReadCode(sizeAt, here) ==
  <<I("ldc", sizeAt + 4), I("ldl", 4), I("ldc", sizeAt - (here + 4)), O("ldpi"), I("ldnl", 0), O("in")>>
SetWorkspace(sizeAt) ==
  <<I("ldc", sizeAt), I("ldnl", 0), I("adc", sizeAt + 4), I("ldc", -4), O("and"),
    I("ldc", 1), O("or"), O("gajw")>>
Execute(sizeAt) == <<I("ldc", sizeAt + 4), O("gcall")>>

Zeroes(n) == [i \in 1 .. n |-> <<"byte", 0>>]
loaderCode(sizeAt) ==
  LET before == SaveRegisters \o Initialise
  IN before \o ReadCode(sizeAt, MemStart + Len(before)) \o SetWorkspace(sizeAt) \o Execute(sizeAt)
bootloader ==
  LET length    == Len(loaderCode(0))
      aligned   == WordAlign(length)
      workspace == 28
  IN loaderCode(MemStart + aligned + workspace) \o Zeroes(aligned - length) \o Zeroes(workspace)

(* A size with its most significant byte first. *)
toBigEndian(w) == [i \in 1 .. 4 |-> <<"byte", byteOf(w, 4 - i)>>]
toLittleEndian(w) == [i \in 1 .. 4 |-> <<"byte", byteOf(w, i - 1)>>]

(* The file for a program of n bytes, which are the first that come down   *)
(* the link and which, executed, are a terminate.                          *)
CodeStart == MemStart + Len(bootloader) + 4
bin2boot(n) ==
  LET image == bootloader \o toLittleEndian(n)
  IN [a \in MemStart - 1 .. CodeStart |->
        IF a < MemStart THEN <<"length", Len(image)>>
        ELSE IF a = CodeStart THEN O("terminate")
        ELSE image[a - MemStart + 1]]
BootFiles == {bin2boot(n) : n \in 0 .. Len(Input) + 1}

-----------------------------------------------------------------------------
(* Properties.                                                             *)
Entered == Ended /\ r.IPtr = CodeStart + 1

(* bin2boot.cpp:24-31 - a program is executed when all of its bytes, and   *)
(* no more, have been read to the address after the loader, the loader is  *)
(* as it was loaded, the links are free, and the process is of low         *)
(* priority; one whose bytes do not all come is not executed.  The         *)
(* workspace of one of whole words is just after it.  It is not after one  *)
(* of any other length, although the comment says that it is after each:   *)
(* its first word is the one that the program's last bytes are in.         *)
LoadsAfterItself ==
  \A n \in 0 .. Len(Input) + 1 : program = bin2boot(n) =>
    /\ Stopped => (Entered <=> n <= Len(Input))
    /\ Entered =>
         /\ \A i \in 1 .. n : ByteNow(CodeStart + i - 1) = Input[i]
         /\ r.input = SubSeq(Input, n + 1, Len(Input))
         /\ \A a \in MemStart .. CodeStart - 1 : program[a][1] = "byte" /\ a >= CodeStart - 4 =>
              ByteNow(a) = program[a][2]
         /\ {getWord(r, Link0Output), getWord(r, Link0Input)} = {SignBit}
         /\ r.Wdesc % 4 = 1
         /\ n % 4 = 0 => Wdesc_WPtr(r.Wdesc) = CodeStart + n
=============================================================================
