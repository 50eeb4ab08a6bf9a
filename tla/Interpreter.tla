----------------------------- MODULE Interpreter -----------------------------
(***************************************************************************)
(* Emulator/cpu.cpp: CPU::emulate interpreting a program that boots from   *)
(* ROM or from link 0, with the instructions that use memory, the IPtr,    *)
(* the workspace or a link, and those of Instructions.                     *)
(*                                                                         *)
(* The program is one process.  An instruction has one address, with its   *)
(* prefixes, and is not to be found among the bytes of memory; bytes that  *)
(* are loaded with a program and are no instructions are.  Queues, timers, *)
(* channels in memory and breakpoints are not in this module: storing a    *)
(* queue's registers or the clock takes a word from the stack.             *)
(***************************************************************************)
EXTENDS Instructions, Memory, Sequences

CONSTANTS
  Programs,     \* programs to run: the instruction and operand at each address,
                \* or <<"byte", b>>; before one to be booted from link 0, its
                \* length, <<"length", n>>
  Input,        \* what the other end of link 0 writes, after a program that is
                \* loaded from there, before it closes
  Takes,        \* how many bytes it reads before it closes
  ResetCode, Link0Output,
  EQ_memtop,    \* what emuquery is asked for
  Undefined,    \* what start leaves in Creg
  MaxFrames     \* bound: calls that have not returned

VARIABLES
  program,
  frames   \* history: for each call that has not returned, where it was
interpreterVars == <<vars, program, frames>>

(* Wdesc is a workspace's address with the priority in bit 0.              *)
Wdesc_WPtr(w) == w - (w % 4)
Local(s, o) == wrap(Wdesc_WPtr(s.Wdesc) + o * 4)
NonLocal(s, o) == wrap(s.Areg + o * 4)
Jump(s, o) == [s EXCEPT !.IPtr = wrap(@ + o)]
Loaded(s, a) == [read(s, a) EXCEPT !.Areg = getWord(s, a)]
Pushed(s, a) == PUSH(read(s, a), getWord(s, a))

-----------------------------------------------------------------------------
(* Functions.  A j -2, the loop of one instruction, is not taken.          *)
j(s, o) == IF o = wrap(-2) THEN s ELSE Jump(s, o)

(* A cj that drops what it has tested whether it jumps or not. *)
cj_pops(s, o) == IF s.Areg = 0 THEN DROP(Jump(s, o)) ELSE DROP(s)
cj(s, o) == IF s.Areg = 0 THEN Jump(s, o) ELSE DROP(s)
ldlp(s, o) == PUSH(s, Local(s, o))
ldl(s, o) == Pushed(s, Local(s, o))
stl(s, o) == DROP(setWord(s, Local(s, o), s.Areg))
ldnl(s, o) == Loaded(s, NonLocal(s, o))
stnl(s, o) == [setWord(s, NonLocal(s, o), s.Breg) EXCEPT !.Areg = s.Creg]
ajw(s, o) == [s EXCEPT !.Wdesc = wrap(@ + o * 4)]

call(s, o) ==
  LET lower == [s EXCEPT !.Wdesc = wrap(@ - 16)]
      saved == setWord(setWord(setWord(setWord(lower,
                 Local(lower, 0), s.IPtr),
                 Local(lower, 1), s.Areg),
                 Local(lower, 2), s.Breg),
                 Local(lower, 3), s.Creg)
  IN Jump([saved EXCEPT !.Areg = s.IPtr, !.Breg = s.Creg], o)

(* A ret that gives back the three words of arguments only. *)
ret_short(s) ==
  [read(s, Local(s, 0)) EXCEPT !.IPtr = getWord(s, Local(s, 0)), !.Wdesc = wrap(@ + 12)]
ret(s) ==
  [read(s, Local(s, 0)) EXCEPT !.IPtr = getWord(s, Local(s, 0)), !.Wdesc = wrap(@ + 16)]

(* Operations.                                                             *)
gcall(s) == [s EXCEPT !.Areg = s.IPtr, !.IPtr = s.Areg]
gajw(s) == [s EXCEPT !.Areg = s.Wdesc, !.Wdesc = Wdesc_WPtr(s.Areg) + (s.Wdesc % 4)]
ldpi(s) == [s EXCEPT !.Areg = wrap(@ + s.IPtr)]
ldpri(s) == PUSH(s, s.Wdesc % 2)

(* A lend that loops while the count is not used up. *)
lend_count(s) ==
  LET count == getWord(s, wrap(s.Breg + 4))
      less  == setWord(s, wrap(s.Breg + 4), wrap(count - 1))
  IN IF count > 0
     THEN Jump(setWord(less, s.Breg, wrap(getWord(less, s.Breg) + 1)), -s.Areg)
     ELSE less
lend(s) ==
  LET count == getWord(s, wrap(s.Breg + 4))
      less  == setWord(read(s, wrap(s.Breg + 4)), wrap(s.Breg + 4), wrap(count - 1))
  IN IF count > 1
     THEN Jump(setWord(read(less, s.Breg), s.Breg, wrap(getWord(less, s.Breg) + 1)), -s.Areg)
     ELSE less

(* A block that begins inside the other is not copied. *)
Begins(a, b, len) == b <= a /\ a < wrap(b + len)

(* A move that looks for one of the two overlaps. *)
move_upwards(s) ==
  IF Begins(s.Breg, s.Creg, s.Areg) THEN s ELSE blockCopy(s, s.Areg, s.Creg, s.Breg)
move(s) ==
  IF Begins(s.Breg, s.Creg, s.Areg) \/ Begins(s.Creg, s.Breg, s.Areg)
  THEN s ELSE blockCopy(s, s.Areg, s.Creg, s.Breg)

lb(s) == [read(s, s.Areg) EXCEPT !.Areg = getByte(s, s.Areg)]
sb(s) == setByte(s, s.Areg, s.Breg % ByteValues)
resetch(s) == [setWord(read(s, s.Areg), s.Areg, SignBit) EXCEPT !.Areg = getWord(s, s.Areg)]
emuquery(s) ==
  IF s.Areg = EQ_memtop THEN PUSH(s, myMemEnd) ELSE PUSH(SET_FLAGS(s, "BadInstruction"), SignBit)
terminate(s) == SET_FLAGS(s, "Terminate")
sthf(s) == DROP(s)
stlf(s) == DROP(s)
sthb(s) == DROP(s)
stlb(s) == DROP(s)
sttimer(s) == DROP(s)

(* Those that the emulator knows, and does nothing for.                    *)
unimplementedTest == {"testhardchan", "testldd", "teststd", "testlde", "testste"}
timerSwitch == {"timerdisableh", "timerdisablel", "timerenableh", "timerenablel"}
marker(s) == s

(* start.  A program that is booted from a link is loaded at MemStart; its *)
(* workspace is the first word after it.  In the models only one booted    *)
(* from ROM executes start.                                                *)
myBootFromROM == MemStart - 1 \notin DOMAIN program
startROM(s) ==
  [s EXCEPT !.Areg = s.IPtr, !.Breg = s.Wdesc, !.Creg = Undefined,
            !.IPtr = ResetCode, !.Wdesc = MemStart + 1]
bootLen == program[MemStart - 1][2]
WordAlign(a) == Wdesc_WPtr(wrap(a + 3))
bootFromLink0(s) ==
  LET image == [i \in 0 .. bootLen - 1 |->
                  LET code == program[MemStart + i] IN IF code[1] = "byte" THEN code[2] ELSE 0]
  IN Stored(s, MemStart, image)
startLink(s) ==
  [bootFromLink0(s) EXCEPT !.Areg = MemStart, !.Breg = s.Wdesc, !.Creg = Link0Input,
                           !.IPtr = MemStart, !.Wdesc = WordAlign(MemStart + bootLen) + 1]
start(s) == IF myBootFromROM THEN startROM(s) ELSE startLink(s)

-----------------------------------------------------------------------------
(* The link.  A byte is passed at a time, and when the other end does not  *)
(* take it, or has none, the link's exception stops the emulator.          *)
Sent(s, b) ==
  IF Len(s.output) < Takes THEN [s EXCEPT !.output = Append(@, b)]
                           ELSE SET_FLAGS(s, "Terminate")
outbyte(s) == Sent(s, s.Areg % ByteValues)
writeWord(s, w) ==
  LET sent[i \in 0 .. 4] == IF i = 0 THEN s ELSE Sent(sent[i - 1], byteOf(w, i - 1))
  IN sent[4]
outword(s) == writeWord(s, s.Areg)
out(s) ==
  LET sent[i \in 0 .. s.Areg] ==
        IF i = 0 THEN s
        ELSE LET a == wrap(s.Creg + i - 1) IN
             IF Len(s.output) + i - 1 > Takes THEN sent[i - 1]
             ELSE Sent(read(sent[i - 1], a), getByte(sent[i - 1], a))
  IN sent[s.Areg]

(* TVSLink's readByte: what is left of its files, and at the end of them an *)
(* exception.                                                              *)
Received(s, a) ==
  IF s.input = <<>> THEN SET_FLAGS(s, "Terminate")
  ELSE [setByte(s, a, Head(s.input)) EXCEPT !.input = Tail(@)]

(* An in that stores from the end of the buffer downwards. *)
in_backwards(s) ==
  LET got[i \in 0 .. s.Areg] ==
        IF i = 0 THEN s ELSE Received(got[i - 1], wrap(s.Creg + s.Areg - i))
  IN got[s.Areg]
in(s) ==
  LET got[i \in 0 .. s.Areg] ==
        IF i = 0 THEN s ELSE Received(got[i - 1], wrap(s.Creg + i - 1))
  IN got[s.Areg]

-----------------------------------------------------------------------------
(* interpret: fetch, execute.  Where there is no code, or no memory, is a  *)
(* byte of 0, which is j 0.                                                *)
Fetched == [read(r, r.IPtr) EXCEPT !.IPtr = wrap(@ + 1)]
Code ==
  IF r.IPtr \in DOMAIN program /\ program[r.IPtr][1] \notin {"byte", "length"} THEN program[r.IPtr] ELSE <<"j", 0>>

(* A direct function has an operand; an operation is known by its code.    *)
Direct(name, f(_, _)) == Code[1] = name /\ Executes(f(Fetched, Code[2]))
Indirect(name, f(_)) == Code[1] = name /\ Executes(f(Fetched))

Calls ==
  /\ Len(frames) < MaxFrames
  /\ Direct("call", call)
  /\ frames' = Append(frames, [IPtr |-> Fetched.IPtr, Wdesc |-> r.Wdesc])
Returns ==
  /\ Indirect("ret", ret)
  /\ frames' = IF frames = <<>> THEN frames ELSE SubSeq(frames, 1, Len(frames) - 1)

Jumps ==
  \/ Direct("j", j) \/ Direct("cj", cj)
  \/ Indirect("gcall", gcall) \/ Indirect("lend", lend)
  \/ myBootFromROM /\ Indirect("start", start)
Accesses ==
  \/ Direct("ldl", ldl) \/ Direct("stl", stl)
  \/ Direct("ldnl", ldnl) \/ Direct("stnl", stnl)
  \/ Indirect("lb", lb) \/ Indirect("sb", sb)
  \/ Indirect("move", move) \/ Indirect("resetch", resetch)
Addresses ==
  \/ Direct("ldlp", ldlp) \/ Direct("ajw", ajw)
  \/ Indirect("gajw", gajw) \/ Indirect("ldpi", ldpi)
  \/ Indirect("ldpri", ldpri) \/ Indirect("emuquery", emuquery)
Communicates ==
  \/ r.Breg = Link0Output
       /\ (Indirect("outbyte", outbyte) \/ Indirect("outword", outword) \/ Indirect("out", out))
  \/ r.Breg = Link0Input /\ Indirect("in", in)
OnTheStack ==
  \/ Direct("ldc", ldc) \/ Direct("adc", adc) \/ Direct("ldnlp", ldnlp)
  \/ Indirect("add", add) \/ Indirect("bsub", bsub) \/ Indirect("rev", rev)
  \/ Indirect("and", and) \/ Indirect("or", or) \/ Indirect("mint", mint)
Resets ==
  \/ Indirect("sthf", sthf) \/ Indirect("stlf", stlf) \/ Indirect("sttimer", sttimer)
  \/ Indirect("sthb", sthb) \/ Indirect("stlb", stlb) \/ Indirect("marker", marker)
  \/ Code[1] \in unimplementedTest \cup timerSwitch /\ Executes(Fetched)
  \/ Indirect("testerr", testerr) \/ Indirect("clrhalterr", clrhalterr)
  \/ Indirect("fptesterr", fptesterr)

InterpreterInit ==
  /\ program \in Programs
  /\ \E flags \in {{}, {"TerminateOnMemViol"}} :
     r = start([Areg |-> 0, Breg |-> 0, Creg |-> Undefined, flags |-> flags,
                IPtr |-> 0, Wdesc |-> 0, ram |-> InitialRAM, highest |-> InternalMemStart,
                input |-> Input, output |-> <<>>])
  /\ Oreg = 0
  /\ frames = <<>>

InterpreterNext ==
  \/ Calls /\ UNCHANGED program
  \/ Returns /\ UNCHANGED program
  \/ (Jumps \/ Accesses \/ Addresses \/ Communicates \/ OnTheStack \/ Resets
       \/ Indirect("terminate", terminate))
       /\ UNCHANGED <<program, frames>>

InterpreterSpec == InterpreterInit /\ [][InterpreterNext]_interpreterVars
-----------------------------------------------------------------------------
(* Properties.                                                             *)

(* The words of an active call, below the workspace that it left.          *)
Saved(f) == wrap(Wdesc_WPtr(f.Wdesc) - 16)
InMemory(f) == InternalMemStart <= Saved(f) /\ wrap(Saved(f) + 16) <= myMemEnd

AllInMemory == \A i \in DOMAIN frames : InMemory(frames[i])

(* cpu.cpp:815, 1348 - however deep the calls are, ret goes back to where  *)
(* the last of them was and to the workspace that it left, as long as the  *)
(* workspaces stay in RAM.                                                 *)
ReturnsToCaller ==
  [][Len(frames') < Len(frames) /\ AllInMemory
       => LET f == frames[Len(frames)] IN r'.IPtr = f.IPtr /\ r'.Wdesc = f.Wdesc]_interpreterVars
=============================================================================
