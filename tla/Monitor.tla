------------------------------- MODULE Monitor -------------------------------
(***************************************************************************)
(* Emulator/cpu.cpp: the fetching of instructions by CPU::interpret, the   *)
(* breakpoints, and CPU::monitor, which a user lists, looks and steps      *)
(* with.                                                                   *)
(*                                                                         *)
(* An instruction is executed as far as the monitor shows it: where it     *)
(* goes, the workspace's size, Areg after an ldc, and the flags.  The      *)
(* programs are a process and the one that its breakpoints change to; they *)
(* execute no functions but those of Execute, and of the other operations  *)
(* none that changes Areg, Wdesc, the IPtr or the memory they are in.  A   *)
(* command whose reply is the state of the registers changes nothing and   *)
(* is left out, as is the input's end, after which monitor loops.          *)
(***************************************************************************)
EXTENDS Integers, Sequences, Bitwise, Disassembler

CONSTANTS
  Modulus,      \* of a WORD32
  MemStart,     \* where a program begins, and code from where
  Codes,        \* programs, sequences of bytes
  StartWdesc,
  StartFlags,   \* the flags that the command line can leave
  Breakpoints,  \* the addresses that b+ and b- are given
  Looks,        \* what di, db and dw are given: <<>>, an address, or that and a length
  Workspaces,   \* what w is given, <<>> or a number of words
  MaxCommands,  \* bound: commands that stay in the monitor
  LastFetch     \* bound: a program that goes beyond this address is not followed

(* A breakpoint finds its words, of either priority, in the program.       *)
ASSUME CodesAssumption == MemStart + 10 < Modulus /\ \A c \in Codes : Len(c) >= 10

DebugLevel == {"Disasm", "DisRegs"}     \* two bits: both are Debug_OprCodes

VARIABLES
  code,         \* the memory from MemStart that the program was loaded into
  cpu,          \* IPtr, Oreg, Areg, Wdesc, flags, InstructionStartIPtr, LastAjwInBytes
  BreakpointAddresses,
  at,           \* where the next di, and the next db, dw or w, look, and how far
  prompting,    \* in monitor, which asks for a command
  shown,        \* what the last command, or the disassembly of an instruction, showed
  left,         \* history: an instruction was fetched and left by g
  commands      \* history: how many were given
monitorVars ==
  <<code, cpu, BreakpointAddresses, at, prompting, shown, left, commands>>

Wrap(n) == n % Modulus
AsSigned(w) == IF w >= Modulus \div 2 THEN w - Modulus ELSE w
Shift(n) == Wrap(n * 16)
Complement(w) == Modulus - 1 - w

InCode(a) == a - MemStart + 1 \in DOMAIN code
getInstruction(a) == IF InCode(a) THEN code[a - MemStart + 1] ELSE 0
FunctionOf(b) == b - (b % 16)
DataOf(b) == b % 16
Prefixes == {Function.pfix, Function.nfix}

-----------------------------------------------------------------------------
(* Listing.  An instruction is its address, its length and what it is      *)
(* called; one that has not ended after maxlen bytes is not listed.        *)

(* An nfix listed with its complement after the shift. *)
listedNfix_late(cOreg) == Complement(Shift(cOreg))
listedNfix(cOreg) == Shift(Complement(cOreg))
disassembleRange(addr, maxlen) ==
  LET Line(s, b) ==
        [addr |-> s.oprStart, len |-> s.clen + 1,
         text |-> IF FunctionOf(b) = Function.opr THEN disassembleIndirectOperation(s.cOreg + DataOf(b), 0)
                  ELSE disassembleDirectOperation(FunctionOf(b), s.cOreg + DataOf(b))]
      after[n \in 0 .. maxlen] ==
        IF n = 0 THEN [lines |-> <<>>, oprStart |-> addr, clen |-> 0, cOreg |-> 0]
        ELSE LET s == after[n - 1]
                 b == getInstruction(Wrap(addr + n - 1))
             IN CASE FunctionOf(b) = Function.pfix ->
                       [s EXCEPT !.clen = @ + 1, !.cOreg = Shift(@ + DataOf(b))]
                  [] FunctionOf(b) = Function.nfix ->
                       [s EXCEPT !.clen = @ + 1, !.cOreg = listedNfix(@ + DataOf(b))]
                  [] OTHER ->
                       [lines |-> Append(s.lines, Line(s, b)),
                        oprStart |-> Wrap(addr + n), clen |-> 0, cOreg |-> 0]
  IN after[maxlen].lines
(* A length that counts instructions, not their bytes. *)
TotalLength_lines(lines) == Len(lines)
TotalLength(lines) ==
  LET total[n \in 0 .. Len(lines)] == IF n = 0 THEN 0 ELSE total[n - 1] + lines[n].len
  IN total[Len(lines)]

(* The instruction just fetched, c being the registers then: shown from    *)
(* Debug_Disasm on, and from Debug_OprCodes on each prefix as well.        *)
disassembleCurrInstruction(c) ==
  LET b == getInstruction(Wrap(c.IPtr - 1))
      instruction == FunctionOf(b)
      whole == DebugLevel \subseteq c.flags
      addr  == IF whole THEN Wrap(c.IPtr - 1) ELSE c.InstructionStartIPtr
      text  == IF instruction = Function.opr THEN disassembleIndirectOperation(c.Oreg, c.Areg)
               ELSE disassembleDirectOperation(instruction, c.Oreg)
  IN IF whole \/ (c.flags \cap DebugLevel # {} /\ instruction \notin Prefixes)
     THEN <<addr, text>> ELSE <<>>

(* hexDump: rows of up to 16 bytes; hexDumpWords: of up to four words, the *)
(* bytes after the last whole one left out.  A length is signed.           *)
ByteShown(a) == IF InCode(a) THEN <<getInstruction(a)>> ELSE <<>>
WordShown(a) == IF InCode(a) THEN [k \in 1 .. 4 |-> getInstruction(Wrap(a + k - 1))] ELSE <<>>
Smaller(a, b) == IF a < b THEN a ELSE b
Rows(len) == IF AsSigned(len) > 0 THEN 0 .. (len - 1) \div 16 ELSE {}
hexDump(addr, len) ==
  [row \in Rows(len) |->
     [offset |-> Wrap(addr + 16 * row),
      bytes |-> [x \in 0 .. Smaller(16, len - 16 * row) - 1 |-> ByteShown(Wrap(addr + 16 * row + x))]]]
hexDumpWords(addr, len) ==
  [row \in Rows(len) |->
     [offset |-> Wrap(addr + 16 * row),
      words |-> [x \in 0 .. Smaller(16, len - 16 * row) \div 4 - 1 |->
                   WordShown(Wrap(addr + 16 * row + 4 * x))]]]
-----------------------------------------------------------------------------
(* interpret: the fetch, and what executing the instruction does that the  *)
(* monitor can see.  c has been fetched.                                   *)
Fetched ==
  LET b == getInstruction(cpu.IPtr)
  IN [cpu EXCEPT !.IPtr = Wrap(@ + 1), !.Oreg = @ | DataOf(b),
        !.flags = IF InCode(cpu.IPtr) \/ "TerminateOnMemViol" \notin @ THEN @ ELSE @ \cup {"Terminate"}]
With(c, f) == [c EXCEPT !.flags = @ \cup f]
Without(c, f) == [c EXCEPT !.flags = @ \ f]

(* A word is four bytes, the lowest first.  One that is beyond the modulus *)
(* is the highest address, where, as there, no program is.                 *)
Bytes4(a) == [k \in 1 .. 4 |-> getInstruction(a + k - 1)]
getWord(a) ==
  LET b == Bytes4(a) IN IF b[3] = 0 /\ b[4] = 0 THEN Smaller(b[1] + 256 * b[2], Modulus - 1) ELSE Modulus - 1
setWord(a, v) ==
  [k \in DOMAIN code |->
     LET n == MemStart + k - 1 - a
     IN CASE n = 0 -> v % 256 [] n = 1 -> v \div 256 [] n \in {2, 3} -> 0 [] OTHER -> code[k]]

(* The context that a breakpoint changes to, and leaves its own in, is two *)
(* words where programs begin; that of low priority overlaps the other.    *)
BreakpointContext(c) == IF c.Wdesc % 2 = 0 THEN MemStart ELSE MemStart + 2
swapContextForBreakpointInstruction(c) ==
  [With(c, {"BreakpointInstruction"}) EXCEPT
     !.Wdesc = getWord(BreakpointContext(c)), !.IPtr = getWord(BreakpointContext(c) + 4)]
ContextLeft(c) ==
  LET a == BreakpointContext(c)
  IN [k \in DOMAIN code |-> IF MemStart + k - 1 < a + 4 THEN setWord(a, c.Wdesc)[k] ELSE setWord(a + 4, c.IPtr)[k]]
toggleDisassembly(c, also) ==
  IF c.flags \cap DebugLevel # {} THEN Without(c, DebugLevel \cup also) ELSE With(c, DebugLevel \cup also)

jump(c) ==
  LET stops == IF c.Oreg = 0 /\ "TVS" \in c.flags THEN With(c, {"Terminate"}) ELSE c
  IN IF c.Oreg = 0 /\ "J0Break" \in c.flags THEN swapContextForBreakpointInstruction(stops)
     ELSE IF c.Oreg = Modulus - 2 THEN c
     ELSE [stops EXCEPT !.IPtr = Wrap(@ + c.Oreg)]
adjustWorkspace(c) ==
  [c EXCEPT !.LastAjwInBytes = Wrap(c.Oreg * 4), !.Wdesc = Wrap(@ + c.Oreg * 4)]
enterFloatingPoint(c) ==
  CASE c.Areg = FpEntry.fpuseterr -> With(c, {"FErrorFlag"})
    [] c.Areg = FpEntry.fpuclrerr -> Without(c, {"FErrorFlag"})
    [] OTHER -> With(c, {"Terminate"})
toggleMonitor(c) == IF "Monitor" \in c.flags THEN Without(c, {"Monitor"}) ELSE With(c, {"Monitor"})
operate(c) ==
  CASE c.Oreg = EmulatorOperation.togglemonitor -> toggleMonitor(c)
    [] c.Oreg = EmulatorOperation.toggledisasm -> toggleDisassembly(c, {"ReadWriteData", "LinkComms"})
    [] c.Oreg = EmulatorOperation.terminate -> With(c, {"Terminate"})
    [] c.Oreg = T805Operation.break -> swapContextForBreakpointInstruction(c)
    [] c.Oreg = T805Operation.setj0break -> With(c, {"J0Break"})
    [] c.Oreg = T805Operation.clrj0break -> Without(c, {"J0Break"})
    [] c.Oreg = FpOperation.fpentry -> enterFloatingPoint(c)
    [] disassembleIndirectInstName(c.Oreg, 0) = "?indirect?" -> With(c, {"Terminate"})
    [] OTHER -> c

InstructionOf(c) == FunctionOf(getInstruction(Wrap(c.IPtr - 1)))
Breaks(c) ==
  \/ InstructionOf(c) = Function.j /\ c.Oreg = 0 /\ "J0Break" \in c.flags
  \/ InstructionOf(c) = Function.opr /\ c.Oreg = T805Operation.break

(* The end of interpret clears Oreg, and the next instruction starts here. *)
Finished(c) == [c EXCEPT !.Oreg = 0, !.InstructionStartIPtr = c.IPtr]
Execute(c) ==
  LET f == InstructionOf(c)
  IN CASE f = Function.pfix -> [c EXCEPT !.Oreg = Shift(@)]
       [] f = Function.nfix -> [c EXCEPT !.Oreg = Shift(Complement(@))]
       [] f = Function.j -> Finished(jump(c))
       [] f = Function.ajw -> Finished(adjustWorkspace(c))
       [] f = Function.ldc -> Finished([c EXCEPT !.Areg = c.Oreg])
       [] f = Function.opr -> Finished(operate(c))

Executes(c) ==
  /\ cpu' = Execute(c)
  /\ code' = IF Breaks(c) THEN ContextLeft(c) ELSE code
  /\ left' = (left /\ InstructionOf(c) \in Prefixes)

hitBreakpoint == "BreakpointInstruction" \in cpu.flags \/ cpu.IPtr \in BreakpointAddresses
Interpreting == ~prompting /\ "Terminate" \notin cpu.flags /\ cpu.IPtr <= LastFetch
Stops == hitBreakpoint \/ "Monitor" \in cpu.flags
ShownAtFetch ==
  [kind |-> "ci", line |-> IF Fetched.flags \cap (DebugLevel \cup {"Monitor"}) # {}
                           THEN disassembleCurrInstruction(Fetched) ELSE <<>>]
Interpret ==
  /\ Interpreting /\ ~Stops
  /\ Executes(Fetched)
  /\ UNCHANGED <<BreakpointAddresses, at, prompting, shown, commands>>
Prompt ==
  /\ Interpreting /\ Stops
  /\ cpu' = IF hitBreakpoint THEN Without(With(Fetched, {"Monitor"}), {"BreakpointInstruction"})
            ELSE Fetched
  /\ shown' = ShownAtFetch
  /\ prompting' = TRUE
  /\ UNCHANGED <<code, BreakpointAddresses, at, left, commands>>

-----------------------------------------------------------------------------
(* monitor: one command.                                                   *)
Step ==
  /\ prompting /\ prompting' = FALSE
  /\ Executes(cpu)
  /\ UNCHANGED <<BreakpointAddresses, at, shown, commands>>

(* The instruction that was fetched is not executed.                       *)
Leaves(c) ==
  /\ prompting /\ prompting' = FALSE
  /\ cpu' = c
  /\ UNCHANGED <<code, BreakpointAddresses, at, shown, commands>>
Go == Leaves(Without(cpu, {"Monitor"})) /\ left' = TRUE
Quit == Leaves(With(cpu, {"Terminate"})) /\ UNCHANGED left

Command ==
  /\ prompting /\ commands < MaxCommands /\ commands' = commands + 1
  /\ UNCHANGED <<code, prompting, left>>
Shows(what) == shown' = what /\ UNCHANGED <<cpu, BreakpointAddresses>>

(* Listing an address that is not memory is an access to it.               *)
Disassemble ==
  \E a \in Looks :
    LET addr  == IF a = <<>> THEN at.disasm ELSE a[1]
        len   == IF Len(a) = 2 THEN a[2] ELSE at.disasmLen
        lines == disassembleRange(addr, len)
        legal == \A n \in 0 .. len - 1 : InCode(Wrap(addr + n))
    IN /\ Command
       /\ shown' = [kind |-> "di", given |-> a, from |-> addr, lines |-> lines]
       /\ cpu' = IF legal \/ "TerminateOnMemViol" \notin cpu.flags THEN cpu ELSE With(cpu, {"Terminate"})
       /\ at' = [at EXCEPT !.disasm = Wrap(addr + TotalLength(lines)), !.disasmLen = len]
       /\ UNCHANGED BreakpointAddresses

Dump(kind, dump(_, _)) ==
  \E a \in Looks :
    LET addr == IF a = <<>> THEN at.data ELSE a[1]
        len  == IF Len(a) = 2 THEN a[2] ELSE at.dataLen
    IN /\ Command
       /\ Shows([kind |-> kind, given |-> a, from |-> addr, len |-> len, rows |-> dump(addr, len)])
       /\ at' = [at EXCEPT !.data = Wrap(addr + len), !.dataLen = len]
DumpBytes == Dump("db", hexDump)
DumpWords == Dump("dw", hexDumpWords)

(* The workspace: as many words as were last allocated or, since that is   *)
(* by a negative ajw, none at all.  A following db or dw has its length.   *)
DumpWorkspace ==
  \E n \in Workspaces :
    LET addr == cpu.Wdesc - (cpu.Wdesc % 4)
        len  == IF n = <<>> THEN cpu.LastAjwInBytes ELSE Wrap(n[1] * 4)
    IN /\ Command
       /\ Shows([kind |-> "w", rows |-> hexDumpWords(addr, len)])
       /\ at' = [at EXCEPT !.data = addr, !.dataLen = len]

ShowCurrent ==
  /\ Command
  /\ Shows([kind |-> "ci", line |-> disassembleCurrInstruction(cpu)])
  /\ UNCHANGED at
addBreakpoint ==
  \E a \in Breakpoints : Command /\ BreakpointAddresses' = BreakpointAddresses \cup {a} /\ UNCHANGED <<cpu, at, shown>>
removeBreakpoint ==
  \E a \in Breakpoints : Command /\ BreakpointAddresses' = BreakpointAddresses \ {a} /\ UNCHANGED <<cpu, at, shown>>
ToggleDisassembly ==
  /\ Command
  /\ cpu' = toggleDisassembly(cpu, {"ReadWriteData"})
  /\ UNCHANGED <<BreakpointAddresses, at, shown>>

MonitorInit ==
  /\ code \in Codes
  /\ \E flags \in StartFlags :
       cpu = [IPtr |-> MemStart, Oreg |-> 0, Areg |-> 0, Wdesc |-> StartWdesc, flags |-> flags,
              InstructionStartIPtr |-> MemStart, LastAjwInBytes |-> 16]
  /\ BreakpointAddresses \in SUBSET Breakpoints
  /\ at = [disasm |-> MemStart, disasmLen |-> 64, data |-> MemStart, dataLen |-> 64]
  /\ prompting = FALSE /\ left = FALSE /\ commands = 0
  /\ shown = [kind |-> "none"]

MonitorNext ==
  \/ Interpret \/ Prompt \/ Step \/ Go \/ Quit
  \/ Disassemble \/ DumpBytes \/ DumpWords \/ DumpWorkspace
  \/ ShowCurrent \/ addBreakpoint \/ removeBreakpoint \/ ToggleDisassembly
-----------------------------------------------------------------------------
(* Properties.                                                             *)
Listed(addr) == disassembleRange(addr, 8)[1]
SameText(text, listed) == text = listed \/ listed = <<"?fp?">>

(* An instruction that c is at the end of, as it is executed, is the one   *)
(* that a di of its address lists just before; a listing cannot know what  *)
(* fpentry will find in Areg.                                              *)
AsListed(c) ==
  InstructionOf(c) \notin Prefixes =>
    LET line == Listed(c.InstructionStartIPtr)
    IN /\ line.len = Wrap(c.IPtr - c.InstructionStartIPtr)
       /\ SameText(IF InstructionOf(c) = Function.opr THEN disassembleIndirectOperation(c.Oreg, c.Areg)
                    ELSE disassembleDirectOperation(InstructionOf(c), c.Oreg), line.text)
Executing == IF prompting THEN cpu ELSE Fetched

(* cpu.cpp:367, 691, 708 - what is executed is what is listed, wherever    *)
(* the program came from, however often it stopped between an              *)
(* instruction's prefixes, and when a breakpoint has left its context over *)
(* the code; and at the prompt the instruction shown is that too.  Not for *)
(* the instruction after one that was left by g: g leaves the fetched one  *)
(* unexecuted and its bits in Oreg, where they are or-ed into the next's   *)
(* operand, although help has it continue (593).                           *)
ListedAsExecuted ==
  /\ [][Interpret \/ Step => left \/ AsListed(Executing)]_monitorVars
  /\ [](prompting /\ ~left /\ shown.kind = "ci" /\ shown.line # <<>> /\ InstructionOf(cpu) \notin Prefixes =>
           SameText(shown.line[2], Listed(cpu.InstructionStartIPtr).text))

(* Where what was shown ends.                                              *)
LastRow(rows) == rows[CHOOSE row \in DOMAIN rows : row + 1 \notin DOMAIN rows]
Counted(f) == IF DOMAIN f = {} THEN 0 ELSE 1 + (CHOOSE x \in DOMAIN f : x + 1 \notin DOMAIN f)
EndShown(look) ==
  CASE look.kind = "di" ->
         IF look.lines = <<>> THEN look.from
         ELSE LET last == look.lines[Len(look.lines)] IN Wrap(last.addr + last.len)
    [] look.kind = "db" -> LET row == LastRow(look.rows) IN Wrap(row.offset + Counted(row.bytes))
    [] look.kind = "dw" -> LET row == LastRow(look.rows) IN Wrap(row.offset + 4 * Counted(row.words))
Whole(look) == look.kind = "di" \/ (AsSigned(look.len) > 0 /\ (look.kind = "dw" => look.len % 4 = 0))

(* cpu.cpp:610, 624, 634, memory.cpp:519, 565 - a di, db or dw without an  *)
(* address goes on where the one before it ended, with nothing left out    *)
(* and nothing shown twice, a part of an instruction included; of words,   *)
(* when they are whole.                                                    *)
LooksJoin ==
  [][\A kind \in {"di", "db", "dw"} :
       commands' # commands /\ {shown.kind, shown'.kind} = {kind} /\ shown' # shown
         => (shown'.given = <<>> /\ Whole(shown) => shown'.from = EndShown(shown))]_monitorVars
=============================================================================
