------------------------------ MODULE Programs ------------------------------
(***************************************************************************)
(* Programs for Interpreter, and what they do.  A program is in ROM from   *)
(* myROMStart, where the jump at ResetCode takes it, and makes itself a    *)
(* workspace near the top of RAM.                                          *)
(***************************************************************************)
EXTENDS Interpreter

CONSTANTS
  Workspace,    \* where the workspace is
  MaxSum,       \* bound: the sums that there is RAM for, and one more
  MaxCount,     \* bound: how often a loop is executed
  BlockAddress, BlockLength, StoredWord, WordAddress   \* bounds: operands of programs

(* Instructions with and without an operand.                               *)
I(name, o) == <<name, wrap(o)>>
O(name) == <<name, 0>>
Text(code) ==
  [a \in (myROMStart .. myROMStart + Len(code) - 1) \cup {ResetCode} |->
     IF a = ResetCode THEN I("j", myROMStart - (ResetCode + 1)) ELSE code[a - myROMStart + 1]]
Begin == <<I("ldc", Workspace), O("gajw")>>

-----------------------------------------------------------------------------
(* The sum of the numbers to n, by a procedure that calls itself.          *)
SumTo(n) ==
  Text(Begin \o <<I("ldc", n), I("call", 2), I("stl", 1), O("terminate"),
       (* procedure *) I("ldl", 1), I("cj", 5), I("ldl", 1), I("adc", -1), I("call", -5),
                       I("ldl", 1), O("add"), O("ret")>>)

(* A loop that copies n bytes, or one byte when n is 0.  Its index and     *)
(* count are local words 1 and 2.                                          *)
LoopCopy(from, to, n) ==
  Text(Begin \o <<I("ldc", 0), I("stl", 1), I("ldc", n), I("stl", 2),
       (* loop *) I("ldl", 1), I("ldc", from), O("bsub"), O("lb"),
                  I("ldl", 1), I("ldc", to), O("bsub"), O("sb"),
                  I("ldlp", 1), I("ldc", 11), O("lend"),
       O("terminate")>>)

Move(from, to, n) ==
  Text(<<I("ldc", from), I("ldc", to), I("ldc", n), O("move"), O("terminate")>>)

(* A word written to link 0 by out, by outword and byte by byte, and a     *)
(* last byte that the other end does not take.                             *)
WordOut(w, a) ==
  LET byteOut(i) == <<I("ldc", Link0Output), I("ldc", a + i), O("lb"), O("outbyte")>>
  IN Text(<<I("ldc", w), I("ldc", a), I("stnl", 0),
            I("ldc", a), I("ldc", Link0Output), I("ldc", 4), O("out"),
            I("ldc", Link0Output), I("ldc", a), I("ldnl", 0), O("outword")>>
          \o byteOut(0) \o byteOut(1) \o byteOut(2) \o byteOut(3) \o byteOut(0))

(* n bytes from link 0 and back to it.                                     *)
Echo(a, n) ==
  Text(<<I("ldc", a), I("ldc", Link0Input), I("ldc", n), O("in"),
         I("ldc", a), I("ldc", Link0Output), I("ldc", n), O("out"), O("terminate")>>)

(* A general call to the second instruction after it, which is another and *)
(* comes back; the program then starts again.                              *)
Restarting ==
  Text(Begin \o <<I("ldc", Workspace), O("resetch"), I("stl", 1), O("timerenableh"),
                  O("ldpri"), O("sthb"), O("ldpri"), O("stlb"), O("testhardchan"), O("marker"),
                  I("ldc", EQ_memtop), O("emuquery"), O("ldpri"), O("rev"), I("stl", 2),
                  I("ldc", 2), O("ldpi"), O("gcall"), O("start"), O("gcall")>>)

AllPrograms ==
  {Restarting} \cup {SumTo(n) : n \in 0 .. MaxSum + 1}
    \cup {LoopCopy(f, t, n) : f \in BlockAddress, t \in BlockAddress, n \in 0 .. MaxCount}
    \cup {Move(f, t, n) : f \in BlockAddress, t \in BlockAddress, n \in BlockLength}
    \cup {WordOut(w, a) : w \in StoredWord, a \in WordAddress}
    \cup {Echo(a, n) : a \in WordAddress, n \in 0 .. Len(Input) + 1}

-----------------------------------------------------------------------------
(* Properties: what is in RAM and on the link when a program has stopped.  *)
Stopped == ~Running
Ended == Stopped /\ wrap(r.IPtr - 1) \in DOMAIN program /\ program[wrap(r.IPtr - 1)] = O("terminate")
ByteNow(a) == getByte(r, a)
ByteThen(a) == IF InRAM(a) THEN InitialRAM[a - InternalMemStart] ELSE getByte(r, a)
Block(a, n) == {wrap(a + i) : i \in 0 .. n - 1}
UnchangedOutside(addresses) ==
  \A a \in InternalMemStart .. myMemEnd - 1 : a \notin addresses => ByteNow(a) = ByteThen(a)

(* cpu.cpp:815, 827, 1348 - a procedure that calls itself finds its        *)
(* argument, and its caller's, whatever it has called since.               *)
SumsToN ==
  Ended => \A n \in 0 .. MaxSum :
    program = SumTo(n) => getWord(r, Workspace + 4) = (n * (n + 1)) \div 2

(* cpu.cpp:1020 - a loop is executed as often as its count says, and once  *)
(* when it says 0; the index goes up, from one execution to the next.      *)
LoopsCount ==
  Ended => \A f, t \in BlockAddress, n \in 0 .. MaxCount :
    LET times == IF n = 0 THEN 1 ELSE n
        outside == (Block(f, times) \cup Block(t, times)) \cap Block(Workspace, 12) = {}
    IN program = LoopCopy(f, t, n) /\ outside =>
         /\ getWord(r, Workspace + 4) = times - 1
         /\ getWord(r, Workspace + 8) = wrap(n - times)
         /\ Block(f, times) \cap Block(t, times) = {} =>
              \A i \in 0 .. times - 1 : InRAM(t + i) => ByteNow(t + i) = ByteThen(f + i)
         /\ UnchangedOutside(Block(t, times) \cup Block(Workspace, 12))

(* cpu.cpp:1074 - a move copies a block and touches nothing else; it does  *)
(* not copy one block onto another that it shares addresses with; it stops *)
(* where either block leaves memory.  Blocks that go past the highest      *)
(* address are not asked about: there an overlap is missed.                *)
MovesCopy ==
  Stopped => \A f, t \in BlockAddress, n \in BlockLength :
    LET Good(i) == isLegalMemory(wrap(f + i)) /\ InRAM(wrap(t + i))
        apart == Block(f, n) \cap Block(t, n) = {}
        copied == {i \in 0 .. n - 1 : apart /\ \A k \in 0 .. i : Good(k)}
    IN program = Move(f, t, n) /\ f + n < Modulus /\ t + n < Modulus =>
         /\ \A i \in copied : ByteNow(wrap(t + i)) = ByteThen(wrap(f + i))
         /\ UnchangedOutside({wrap(t + i) : i \in copied})

(* memory.cpp:303, 358, link.cpp:76 - the bytes of a word are written to a *)
(* link in one order, that of the words in memory, by out, by outword, and *)
(* by lb and outbyte, and from whatever address.                           *)
WordsLittleEndian ==
  Stopped => \A w \in StoredWord, a \in WordAddress :
    program = WordOut(w, a)
      => LET bytes == [i \in 1 .. 4 |-> byteOf(w, i - 1)] IN r.output = bytes \o bytes \o bytes

(* cpu.cpp:1139, 1207 - bytes go from a link to memory and from memory to  *)
(* a link in order; when the link ends early nothing is sent.              *)
EchoesInOrder ==
  Stopped => \A a \in WordAddress, n \in 0 .. Len(Input) + 1 :
    program = Echo(a, n)
      => r.output = IF n <= Len(Input) THEN SubSeq(Input, 1, n) ELSE <<>>

(* cpu.cpp:815, 1020, 1088 to 1327, 1348 - programs that call themselves   *)
(* and programs that loop compute what they say, and bytes come and go in  *)
(* order: those of words, and those of messages.                           *)
Computes == SumsToN /\ LoopsCount /\ WordsLittleEndian /\ EchoesInOrder
=============================================================================
