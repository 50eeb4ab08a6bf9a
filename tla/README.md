# Verifying Parachute's links, scheduler and IServer

Parachute is a transputer emulator: a CPU that interprets transputer code, links that carry bytes between
transputers or between a transputer and a host, and an IServer that answers a transputer's requests for files,
the console and the clock. This directory holds TLA+ models of the parts whose correctness depends on the order
in which things happen or on arithmetic at its edges, the TLC runs that check them and the TLAPS proofs of what matters most.

    tlc -config <cfg> <module>      one run; PROJECT.json lists them with the properties of each
    tlapm <module>                  the proofs: HostLinkProofs, GPIOAsyncLinkProofs, AsyncLinkProofs, CpuSchedulerProofs,
                                    CpuMessagesProofs, EmuServerProofs, InstructionsProofs, LinkReflectorProofs

## The system

| Component | State | Operations | Interacts with |
|---|---|---|---|
| CPU (`Emulator/cpu.cpp`) | registers, HiHead/HiTail/LoHead/LoTail, clocks, flags | `interpret`, one instruction a call; `emulate`, `start` | memory (calls), links (blocking calls), the IServer through link 0 |
| Memory (`Emulator/memory.cpp`) | bytes, cycle count, highest address used | get and set of bytes, words, blocks | called by the CPU and by boot |
| Boot (`Emulator/boot.cpp`) | the length read | peek, poke, boot | reads and writes link 0, writes memory |
| InMemoryLink (`Shared/inmemorylink.cpp`) | two byte registers with a flag | `readByte`, `writeByte` polling | the CPU thread and the IServer thread of the EmuServer |
| GPIOAsyncLink (`Shared/gpioasynclink.cpp`) | sender, receiver and pin state machines; status word; send and receive registers | clock tick; `writeDataAsync`, `writeComplete`, `readDataAsync`, `readComplete`, `resetLink` | the peer's wire; a clock interrupt; its caller, which polls |
| Other links (`fifolink`, `namedpipelink`, `ttylink`, `tvslink`, ...) | file descriptors | `readByte`, `writeByte` | the operating system |
| IServer (`IServer/server`) | frame buffer, table of open streams, counters | `processFrame` and a handler for each request | the link (calls), the host's files |
| EmuServer (`EmuServer/emuserver.cpp`) | CPU, IServer and the link pair | boot, frame loop, exit, join; SIGINT | two threads |
| RingBuffer (`Shared/ringbuffer.cpp`) | buffer, head, tail | push, pop, clear | nothing yet |
| Pico link programs (`Pico/`) | transfer states shared with a timer interrupt; debouncer | main loops and interrupt handlers | a GPIOAsyncLink |
| Pico USB (`PicoUSBCDC/`) | knock state, connections, FIFOs of two ports | polling loops; TinyUSB's callbacks | the emulator's link 0 and log |
| Boot file (`Tools/bin2boot.cpp`) | - | loader, size, program | executed by the CPU after boot |
| Emulator and IServer programs (`temulate.cpp`, `iserver.cpp`) | a link each | start, end, SIGINT | the link's constructor and destructor |
| Command lines (`temulate.cpp`, `iserver.cpp`, `emuserver.cpp`, `linkfactory.cpp`) | options, symbols, link types and names | the program's reader, then `LinkFactory`'s of the same arguments | they choose the links, what is loaded and what the transputer's program is given |
| Monitor and disassembler (`cpu.cpp`, `disasm.cpp`) | breakpoints, flags, addresses to go on at | listing, dumps, step, go, breakpoints | stops `interpret` between the fetch of an instruction and its execution |
| IServer client, utilities | - | sequential | - |

### What makes each one correct, and what is hard about it

* **InMemoryLink** - two threads poll two flags. No byte may be lost, repeated or changed, in any interleaving;
  a read and a write that face each other must both return.
* **GPIOAsyncLink** - both directions share the sender: acks go out between data bytes, and every decision (send
  the next byte, report the write complete, time out) is taken from flags that an ack arriving at any bit of any
  frame may change. The wires must stay in step; a write must be complete exactly when all its bytes have been
  acknowledged; no timeout without cause; nothing stored outside a reader's buffer; every write must end.
* **CPU scheduler** - linked lists threaded through workspace words that several instructions write; a rendezvous
  that either side may reach first; a count that several branches decrement. A process must be in one place, run
  from where it left, get the message sent to it, and not be forgotten.
* **EmuServer and IServer** - request and response over two one-byte registers: frames must stay aligned, neither
  thread may wait for the other for ever, and exit must end both.
* **Platform** - stream ids are slots of a table: a closed one must not be used, a reused one must not be confused.
* **FIFO links** - two programs make, open and remove the same two names, in any order of their system calls, and
  either may be killed and started again.
* **Reflector and harness** - a timer interrupt and a main loop test and set the same two variables; a button
  changes what both do.
* **Instructions** - each is sequential, with the edges at overflow, at the sign, at the widths of shifts and at the
  ends of memory; sequences of them (double words, calls, loops, boot) must compose.
* **Command lines** - two readers, written apart, must agree which arguments are options and which are names; what is
  not an option must reach the program, and the last option about a link must have it.
* **Monitor** - it stops in the middle of an instruction, changes flags that the execution of it also changes, and lists
  instructions by reading them again. What is listed must be what is executed, and listings must join.
* **FrameCodec, RingBuffer** - sequential, with edges at an odd or extreme size, when full and when empty.

## Plan

In order of importance; what is done has a module named below.

1. `ByteChannel`, `InMemoryLink` and their proofs. *Done.*
2. `OversampledTxRxPin`, `GPIOAsyncLink`, `AsyncLink`: the wire protocol. *Done*, with `GPIOAsyncLinkProofs` and
   `AsyncLinkProofs`.
3. `CpuScheduler` and its proofs; `MessageArrives` from them; the ALT. *Done.* Next: timer input and the link channels.
4. `EmuServer`: the boot protocol of `boot.cpp`, the frame loop and the exit sequence, over links that are one-byte
   channels, and its proofs. *Done.*
5. `ProtocolHandler` with `FrameCodec` and `Platform`, and the abstract `FileService` that they implement. *Done, as
   operators that `EmuServer` uses, and `ImplementsFileService` as a theorem.*
6. `Words`, `Instructions` and their proofs; `Memory`, `Interpreter`, `Programs`, `Bootstrap`. *Done.* Next:
   what a call saves, as a theorem.
7. `Debouncer`, `LinkReflector` and its proof. *Done.*
8. `FIFOLink`, `UsbSerial`, `Options`, `Disassembler` with `Monitor`, and `Host`, which joins them with `InMemoryLink`. *Done*, `Connected`
   as a theorem in `HostLinkProofs`.
9. What `DumpeForthDiagnostics` keeps of the words being executed; the clock and the flags as numbers, for `testlds`.

## What the modules model

### ByteChannel and InMemoryLink

`ByteChannel` is the abstract promise: a channel that holds at most one byte, first in first out. `InMemoryLink` has an
action for each call (`CallReadByte`, `CallWriteByte`) and for the successful attempt of each loop (`read_maybe`,
`write_maybe`, atomic because the register's mutex is held). A failed attempt changes nothing and is a stutter. `resetLink`
is empty in the code and absent here.

### OversampledTxRxPin, GPIOAsyncLink and AsyncLink

`GPIOAsyncLink` has one end: a record of the members of one object with its sender, receiver and pin. An operator has the name of
the method it models and maps the record before a call to the record after it, with everything the call goes on to call.
`AsyncLink` is two ends on crossed wires; its actions are the clock tick of an end (`Clock`) and the calls of its API. All of
them hold the end's mutex in the code, so they interleave whole. Shift registers are sequences of the bits left or received. A
tick of one end is followed by one of the other, as in `MultipleAsyncLinkClocker`: clocks that drift are outside the model.

Histories: `framed` and `received` (bytes put on and taken off the wire), `stored`, `acks`, and each client's `toSend`.

### Debouncer and LinkReflector

One Pico runs the link harness (`picolinkharness`), the other the reflector (`picolinkreflect`), which sends every message back,
by itself or, after its button has been pressed, a byte for each press. The two ends are `GPIOAsyncLink`s. A clock interrupt
debounces the button, ticks the link and moves messages along; it runs between two steps of main, on the same core, and is one
step. Main looks at the two variables it shares with the interrupt one access at a time, and holds what it has read in
`main.case`. Locals that the code does not initialise start with any value (`Uninitialised`). Main takes at least one step between two interrupts
(`main.polled`), which come every few microseconds; without that it would execute nothing at all.

### FIFOLink, UsbSerial and Host

`FIFOLink` is an emulator and an IServer, each a sequence of system calls (`side[s].next`), one a step: `Stat`, `Mkfifo`, `Check` and
`Open` for each name, then reads and writes, then `Close` and `Unlink`. Either can be killed before any of them (`Dies`); the IServer
can be interrupted, and cleans up whatever it was doing; a failure to start removes the FIFOs when it is the IServer's and
leaves them when it is the emulator's, whose main does not delete the CPU. A name stands for the FIFO it was made
for: after it has been removed the same name can be another FIFO while the first is still open. An interrupt during the
destructor, which would run it twice, is left out.

`UsbSerial` is an emulator on a Pico: it waits for the knock, and then reads and writes its link and writes its log.
TinyUSB's callbacks are made from `usb_poll`, so they are steps of a program that is in one of the loops that call it. How full the
FIFOs of the two ports are is all that is told of them. TinyUSB sends what is written without being told to flush, here. The host may
report the lines of either port at any time, changed or as they were: the callback acts on every report.

`Host` is what a user meets: one of the three links, a command line, or the monitor. They share no state, and a behaviour is of one.

### Options

`Options` is the start of the three programs. An argument is a letter and what follows it; a step is one argument, an action for each
case of the readers' switches: first the program's own, then `LinkFactory`'s for the same arguments, then the links made and
initialised, or the end with an exit code. Texts are values that are numbers, hexadecimal or symbols as the constants say. The
host's part is what exists: files, directories, what is readable. Opening a FIFO or a terminal may fail. The build is for Linux.

### Disassembler and Monitor

`Disassembler` is the tables of `opcodes.h` and `disasm.cpp`: each instruction's code and the name it is listed by. `Monitor` fetches
bytes and follows prefixes as `interpret` does, and executes an instruction as far as the monitor shows it: jumps, `ajw`, the flags,
Areg for `fpentry`, breakpoints. A breakpoint changes to the context in the memory at MemStart, or two bytes further for a process of
low priority, and leaves its own there: `code` is that memory and changes with it. The monitor's commands that change something are
actions; the others only print. Dumps are rows of what is shown, as `Memory` makes them. The history `left` is that an instruction was
fetched and left by `g`.

### CpuScheduler

A process is its descriptor; a workspace's words used for scheduling (`W_IPTR`, `W_LINK`, `W_POINTER`, `W_TEMP`) are variables
indexed by workspace. Calls and `ajw` move the workspace pointer within a process's own memory; the model takes the
descriptor a process deschedules with as fixed. Each action is one instruction followed by the end of `interpret`: `schedule` of
the process it woke, `deschedule` of its own when required, `quantum`. The clocks are abstracted: after any instruction of a
low priority process its quantum may be found to have expired. An instruction address is the workspace whose code it is and
a position in a loop.

Programs are inputs. They keep occam's rules (one reader and one writer for a channel; start only what is not running; one
endp for each branch) and otherwise execute anything. The first instructions they execute set the list heads, which start as
0xDEADF00D.

A process that must wait, stop or end while the list of its own priority is empty is not descheduled (cpu.cpp:2259): it runs on,
and from there nothing can be promised. The history variable `ranOn` records it. Properties that cannot hold after it say so,
and `MayRunOn = FALSE` cuts those behaviours off in runs of such properties, which loses nothing.

Since `deschedule` only looks at the list of the running process's priority, and the boot process is of low priority, no high
priority process ever runs without the `j 0` breakpoint swap. Processes scheduled at high priority are in the runs: they stay
on their list.

### Alternative

`Alternative` adds to the processes of `CpuScheduler` the instructions of an ALT: `alt` or `talt`, an enabling for each guard, `altwt` or
`taltwt`, a disabling for each guard, `altend`. `W_ALTSTATE` is the word `W_POINTER`, so that an ALT and an `in` use the same word, and
`out` to a channel that an ALT has enabled takes the state of the ALT for an address. The time of a timer guard may be found to have
come or not. `taltwt` ends the emulator when no guard is ready and no time is set; otherwise it goes on at once, as in the code.

### Words and Instructions

`Words` has the words of any even width, in two's complement. `Instructions` has the registers, Oreg and the flags, and an operator for
each instruction that uses no more; `Next` executes any of them, with any operand, and `past` keeps what came before, so that the
properties can speak of two instructions in a row. What the code computes with C++'s 64-bit integers is computed with integers.

### Memory, Interpreter, Programs and Bootstrap

`Memory` is RAM at the bottom of the address space and ROM at its top, byte by byte, with what lies in the heap beyond the array:
the code takes the address one past the end for legal. `Interpreter` has the state as one record `r` (registers, IPtr, Wdesc, RAM,
flags, what came and what went on link 0) and one action for each kind of instruction, those of `Instructions` among them; an
instruction with its prefixes has one address. A memory violation ends the emulation or not, as `-x` says. When a link
throws, the emulation ends; `Received` is the TVS link, which throws at the end of its files. Instructions that store the
queues' registers or the clock take a word from the stack and no more.

`Programs` are what is run: sums by recursion until RAM is used up, loops that copy, block moves, words and bytes to the link, and
messages echoed. `Bootstrap` is the boot file that `bin2boot` makes: a loader, the size, the program. It is loaded by `Boot` from link 0 and
reads the program from the link to behind itself. Code is in ROM, except for a booted loader: of that, only the bytes of data are in
RAM. The history `frames` has the calls that have not returned.

### Platform, ProtocolHandler, FileService and EmuServer

`Platform` has the stream table as a record `[myFiles, disk]` and an operator for each call, which yields the call's possible
outcomes: the platform after it, the exception or "none", and what it returns. Files are byte sequences. What
`std::fstream` does is modelled from its use here: the combinations of mode bits that open, make or empty a file, reading and writing
at a position or at the end, a failed state that is never cleared. The host may accept any part of what is written. Closing never fails.

`ProtocolHandler` has an operator for each request handler, from the frame in the buffer and a platform to the
bytes put and the platform after. The bytes are real: little-endian words, string lengths, padding; so
a frame that is misaligned in the code is misaligned here. Values wider than TLC's integers are compared as bytes. On Linux the open
mode that the bits of a request are added to is not initialised: it starts as any of `Uninitialised`. A read goes straight into the
transaction buffer of 512 bytes, without a test of its size; the calls of the model are ones that fit there (`ReadFits`, in
`RequestAssumption`), since what a longer one overwrites is not in the model.

`EmuServer` composes them with the two threads. The variables `server` and `cpu` each hold what a thread is doing, the
bytes it has still to write and those it has read; every byte written and every byte read is a step, so the threads
interleave as they do over the polled registers. A link holds the byte written and not yet read: what `ByteChannel` promises,
and `HostLinkProofs` proves, without the histories. `start` is `Boot::start`; after it the boot code reads the rest of the
boot file and a program runs. The program is any that makes well-formed calls one at a time (isproto.h:30 says that the
client library guarantees it) and does not open a file that it already has open. It may send a bad frame size with nothing
behind it. `terminate` is the instruction, which the program may execute between calls. `answer` is a history variable: what
`RequestResponse` has put in the frame, until the program has read the whole of it.

`FileService` is what a program may rely on: a call is served at one instant between its start and its return; an open
gives a handle that was not in use; reads and writes go on from the handle's position in its file; what is refused changes
nothing; the short read is at the end of the file. The mode of an open file may have bits that nobody asked for (`Garbage`), and then it
promises what `std::fstream` does with them. It knows no frames, slots or links. `EmuServer` implements it with
`handles` the slots that hold file streams.

## Runs

| Run | What it shows | Bounds |
|---|---|---|
| `host_links` | Two threads: `NothingLost`: what was written is what was read and the register; `ImplementsChannel`: each direction refines `ByteChannel`; `CallsMeet`: facing calls return. Two programs: `Connected`: they are at the two ends of the same FIFOs. A Pico: `KnockHeard`: a terminal on the log that goes on reporting its lines is heard, whatever either port reported before; `LogWriteEnds`: a line of the log ends although its terminal is closed in the middle. A command line: `LinksAsAsked`: both readers agree, and the last option about a link has it. The monitor: `ListedAsExecuted`, `LooksJoin`. | 2 byte values, 3 bytes each way: one more than the register and the call hold; FIFOs of 1 byte, any number of starts, interrupts and kills; USB FIFOs of 2, log writes of up to 3; every command line of 2 arguments, of 3 about links, and longer ones with a `-tvs`; 6 programs of prefixed instructions, jumps, loops and breakpoints of either priority, one of which its breakpoint overwrites, followed to address `LastFetch`, with `MaxCommands` = 2 commands that stay in the monitor |
| `alink_oneway` | One end writes, the other reads, the writer may reset. `CompleteAfterAck`, `NoTimeout`, and `WriteEnds` under fairness. | 4 samples, 1 data bit; 2 writes of 1 or 2 bytes; 1 reset |
| `alink_duplex` | Both ends write, starting at any sample of each other's frames, with the real 16 samples and 8 bits. `WiresInStep`, `CompleteWhenReceived`, `ImplementsChannel`. | one write of 2 bytes at each end |
| `alink_timeout` | A counterexample: a timeout although every byte has been acknowledged (gpioasynclink.h:137). | real numbers, one byte each |
| `cpu_scheduler` | `EachInOnePlace`, `ListsAreQueues`, `ResumesWhereLeft`, `MessageArrives`, `JoinWhenAllEnded`. | 3 workspaces, 2 channels between two of them, 3 messages, 1 restart, loops of 2 instructions |
| `cpu_lost_process` | A counterexample: at the end of its quantum a process is put on no list (cpu.cpp:2266). | same |
| `cpu_waiter_runs` | A counterexample: a process that waits runs on (cpu.cpp:2249). | same, with `MayRunOn` |
| `emuserver` | `StreamsOK`: streams agree with files. `LoadsWhole`: boot code, pokes and the rest of the boot file arrive. `ImplementsFileService`. `Answered` and `ExitCarriesCode` under fairness. | 4 slots, so 2 for files once stderr is closed; 4 frames out of 24 different calls, one of them the longest read there can be, and 3 bad sizes, one of them 0; 4 values of the open mode that is not initialised; a file of 2 bytes and one that does not exist; 2 pokes, 2 bytes of code, 2 of rest |
| `cpu_instructions` | Any sequence of instructions: `SumsExact` and `ProductsExact` (the integers' result or an error; of long products and quotients too), `DoubleLengthExact`, `ExtendsAndChecks`, `BitsKept` (shifts by any count, beyond the word's width too, are shifts by one repeated), `OperandsLoad`. | words of 3 bits; the last few instructions; every value of every register |
| `cpu_alternative` | A counterexample: an ALT goes on with no branch selected (cpu.cpp:1699). | two writers, an ALT of both and an ALT of a skip and a time |
| `cpu_programs` | `ReturnsToCaller`; `Computes`: recursion, loops, words and messages; `MovesCopy`, also across the ends of RAM and of ROM; `LoadsAfterItself`: a boot file loads its program whole, and the workspace of one of whole words is just after it. | words of 8 bits, bytes of 2; 88 bytes of RAM, 48 of ROM; 5 bytes of input, 12 of output; sums to 4 and until RAM is used up; boot files of 0 to 6 bytes |
| `pico_reflect` | `Reflects`: what comes back is what was sent; `NeverStuck`: the reflector is in a state its cases know. | 4 samples, 1 data bit; a message of 1 or 2 bytes, or a reset and a byte; the button used up to 3 times |

Why the bounds are enough. A link holds at most one byte in a frame and one enqueued, so two bytes each way meet every
combination of frames; the scaled instance keeps the order of events within a bit (the vote in the middle of it) and is small
enough for liveness; the real numbers are used wherever the arithmetic of the resynchronisation matters. Three processes are
the least with which one waits, one is queued and one runs, and with which two branches join in a third; a second message on a
channel finds the words that the first left behind. Four calls can open, close, open and use a slot, or fill the table and find
it full; a read can meet the end of the file, or not; and a program that has been answered after every call it could make
is where it was, except for its files. Three bits are the least with which a word has two bits beside its sign, and all pairs of them
are tried. Eight bits are enough for addresses of a RAM with a stack, a ROM and both ends, and 4 values of a byte for the order
of the bytes of a word to show. A press and a release of the button, at any tick, take the reflector through its states, and a
third use meets it in the middle of a transfer. Two programs have two names and four descriptors between them, so six FIFOs
are all there can be, and the run has no bound on how often either is started. Two arguments are an option and one that changes what
it means; three about links are one, another that overrides it and a third link; behind a `-tvs` are as many as it takes, and one
more. The monitor's programs have every kind of instruction that it treats apart, and each is stopped, listed and stepped at every
byte. `acks` stops counting at `AckBound`, above what any run reaches without
a reset. The two message values are interchangeable, and `cpu_scheduler` uses that symmetry; it checks no liveness.

`CHECK_DEADLOCK FALSE` is set where callers may have nothing left to do once they have made their bounded number of calls.
The CPU never stops interpreting, and deadlock is checked there.

### Fairness

* `InMemoryLink`: the loops of `readByte` and `writeByte` never give up, so each successful attempt is weakly fair. Calls are not:
  a thread need not make another.
* `AsyncLink`: the clock of each end is weakly fair, as a timer interrupt is; `writeComplete` is, because its caller polls it.
  No other call is.
* `EmuServer`: both threads go on when they can, as operating system threads do: reads and writes of bytes, and serving a
  request, are weakly fair. A request that reads the console is not, since no one need type, and calls and `terminate` are not,
  since a program need not make them.
* `UsbSerial`: the loops that wait for the knock and that write the log go on, as the one thread does; a user whose terminal is
  connected to the log types return until it is heard, for it is the user that the wait is for; and a terminal that stays open takes
  what it is sent. What else the host has to go on doing, or to stop, the two properties say themselves (`GoesOnReporting`,
  `LeftAlone`).
* `FIFOLink`, `Options`, `Monitor`, `CpuScheduler`, `Instructions`, `Interpreter`, `LinkReflector`: none; their properties are safety properties.

## Proofs

Each module of proofs has, for each operator of the model, a lemma that says what the operator does to the invariant, and then one step
for each action.

### Links

`HostLinkProofs` proves, for any set of bytes and any bound, `TypeCorrect`, `NoByteLost` and `Refinement` of `InMemoryLink`.
`NothingLost` is inductive with the types: an attempt moves one byte between the register and a history. The refinement maps a
direction's `write_maybe` to `Accept`, its `read_maybe` to `Take` and all else to a stutter.

It also proves `Connects`: the two programs on FIFOs are at the two ends of the same ones, for any bytes and capacity, however
often either is started, interrupted or killed. `FIFOInv` is `Connected` with what makes it inductive: the FIFOs a name stands for or
has stood for are of that name alone, and hold bytes of the side that writes that name (`Of`); until a name has been removed since a program started,
its descriptors are of the FIFOs that the names stand for (`Current`); a program has open what its place in the constructor
or the destructor says (`HasOpened`). `NewFifo` shows that the six FIFOs never run out: there are four descriptors and two names, and a
FIFO is made only when its name stands for none. `FIFOSpec` is the part of `Host` that the theorem is about.

`GPIOAsyncLinkProofs` is about one end: the types of its record are kept by every operator, and so is `InStep`, the relation between a sender,
the wire and the receiver at its other end: where the sender is in a frame, by sample, the receiver is in the same frame or has not yet
voted on its start bit. `InStepTick` is the step: the sender ticks, and then the receiver. It needs `VoteAt + 1 < Samples` (`PinAssumption`;
8 and 16 in the code): the majority vote must be over before the next bit is on the wire. `SentOK`, `Received` and `Owed` follow a
byte from the sender's queue to the reader's buffer, and count the acks that are owed for it.

`AsyncLinkProofs` joins two ends, for any number of samples, bits and bytes:

* `TypeCorrect`, and `ReceiversInStep`: what a receiver has taken off the wire is what the other sender put on, except for the frame that is on
  the wire. `WireOK` has, of each direction, `InStep`, and what the queue, the buffer and the counts of acks hold; `HeardAll` says that the clock
  ticks the ends in turn, so that a receiver may be one sample behind.
* `CompletionMeansReceipt`: a write is complete only when the other end has received all its bytes, also when both ends write; and
  `WiresImplementChannel`, that each direction refines `ByteChannel` when no one resets, with what is framed for what is accepted
  and what is received for what is taken.
* With one end writing, `NoWriterTimesOut`: the ack of a byte is heard `2 * SecondVote` ticks into the byte's frame, which is
  before its end, and `Timely` bounds the two ends' clocks against each other (`Writer`, `Acker`) from `PinAssumption` alone; and
  `CompletionMeansAck`. The history `acks` stops counting at `AckBound`, so the latter assumes what the run has: that the
  messages of all writes have no more than `AckBound` bytes. With both ends writing these two are false (see below).

### CPU

`CpuSchedulerProofs` proves `TypeCorrect`, for any number of workspaces, channels and messages, with a lemma for each of
`schedule`, `dropHead`, `continue` and `deschedule` and one for each way an instruction ends. It assumes no more than
`SchedulerAssumption`.

The lists, the places and the joins are proved together, from the inductive invariant `IInv`: the types and, until a process runs
on, `Places`. None of its parts is inductive alone. `schedule` keeps the lists queues only if the process it is given is on no
list (`ScheduleOK`), which for the one in a channel is `OnePlace`; taking the head (`DropOK`) needs that no process is
queued twice, or the list would lose the link of the second; `startp` of a fresh join and `endp` of the last branch put a process
in the registers or on a list whose state only `Joins` knows; and `Joins` needs `Fresh`, that a workspace no process has used is
a branch of nothing. `Descheduled`, `Waiting`, `Scheduled`, `Woken` and `Gone` say what each way of ending an instruction does to
the places; `StartpJoins` and `EndpJoins` what the counts do; `PlacesStep` has a case for each instruction. From `IInv` follow
`ListsCorrect`, `PlacesCorrect` and `JoinsCorrect`, for any number of processes, channels and messages.

`ResumesCorrect` adds `Left` to it: the process in the registers is at its own next instruction, the saved IPtr of every other that is
running or stopped is its next instruction, and a workspace no process has used has none but the first. It needs
`Places`, for the process taken from a list must be one whose saved IPtr is current.

`CpuMessagesProofs` adds `MessageArrives` to those: `MInv` is `IInv` and, until a process runs on, `Meets(c)` for every channel `c`: who is in
it, if anyone, what its descriptor and address say, and how many messages each end has done. It assumes that a channel's reader and
writer are two workspaces (`ChannelAssumption`), and needs of `Places` only that a process that executes is not one that waits.

`InstructionsProofs` proves, for words of any width, `TypeCorrect`, `SumsCorrect`, `ProductsCorrect` and `DoubleLengthCorrect`. Wrapping is the difficulty: no prover
here does arithmetic modulo a variable, so `WrapNone`, `WrapAbove` and `WrapBelow` say what it does to what is at most one modulus off;
from them follow what the sum and the difference of two words are (`SumOfWords`, `DifferenceOfWords`), the carry and the borrow
(`CarryOut`, `BorrowOut`), and that the sign of the high half decides whether a double word overflows (`HighHalfDecides`). The
assumptions on the constants are `WordAssumption` and `BitsAssumption`: a modulus twice the sign bit, and bit operators that yield words.

Products are more than one modulus off. No prover here divides by a variable either, so `DivModFacts` and `DivModUnique` say what a quotient and a
remainder are, and `DivDecides` when two pairs are the same. From them: a product's word is the integers' product unless an error is
set (`MulDecides`), the two words of a long product are the product (`LongFacts`), and a long quotient and remainder are those of
the integers whenever no error is set (`QuotientFacts`).

### EmuServer

`EmuServerProofs` proves `StreamsCorrect`, `BootLoads` and `ServesCalls`, for any files, calls, pokes and boot file. `PlatformOK` is `StreamsOK` with the
types of the stream table; every operator of `Platform` and every handler of `ProtocolHandler` keeps it. `Protocol` says, for each
phase of the two threads (`Loading`, `Running`, `SendingBad`, `Calling`, `Arriving`, `Serving`, `Returning`, `Ending`), which bytes of the call
and of its answer are written, which are in the link and which are read, so that what the server has in its buffer is the call
that the program made: a handler is never given a frame that no program sends. `Poking` and `Coding` count the bytes of the boot
protocol in the same way, and give `LoadsWhole`.

The assumptions are `BootFileAssumption` (a length that a byte holds and that no poke or peek has, code that fits in memory, pokes of words that neither the
code nor other pokes use), `DiskAssumption` (files are of bytes),
`RequestAssumption` (the calls are well formed, which isproto.h:30 asks of a program, and no read is larger than the buffer), `BadSizeAssumption`, `KeyAssumption`, and that
what stands for no stream and for no answer is neither (`NullptrAssumption`, `NoAnswerAssumption`).

`ServesCalls` is that `EmuServer` implements `FileService`. Two things are needed beyond `Protocol` (`ServiceInv`). Only streams from
stderr's slot up are ever files (`ConsoleOnly`), so that the keys and the characters put leave the files alone. And while an answer is
on its way, what the program will understand of the frame being carried is `answer` (`AnswerOK`), so that a call returns what it
was served and no part of another answer. `Effect` says what each request does to the handles and files, from the bytes of the
frame to the bytes of the answer (`RequestHas`), and is what `FileService` lets the call do (`EffectServes`); REQ_PUTS, which writes
twice, does so because two writes one after the other are one of both parts (`OverOver`), at the end of the file too. `RequestResponse` is then `Serve`, reading
the last byte is `Return`, and every other step but `Call` changes nothing that the program sees. The theorem
is for any set `Uninitialised` of what the open mode may start with: `FileService` has it as its `Garbage`, so that what it
promises of a file opened with bits that nobody asked for is only what is done with such a file (see below).

The proof of the protocol found the model at fault: its `readFrame` passed a frame size of 0 to `requestResponse`, and the code refuses
it (protocolhandler.cpp:140-163). The model now does, and the run tries it.

### Reflector

`LinkReflectorProofs` proves `ReflectorGoesOn`, that `NeverStuck` holds whatever is sent, whatever the link does and however the button is used. The
state that main holds from its last look at `g_state` can differ from `g_state` by then. `IInv` says by how much: to go from
REFLECT_SLOWLY round to REFLECT takes a press and a release, which two interrupts see, and before each of them main has taken
a step (`TwoSteps`, `OneStep`), so that what it holds is at most one state old (`InSilence`, `InReflect`).

### What is only model-checked

* Liveness under fairness: `WriteEnds`, `Answered`, `ExitCarriesCode`, `CallsMeet`, `KnockHeard`,
  `LogWriteEnds`.
* What a recursive function computes for every input: the programs of `Programs` (`Computes`, `MovesCopy`, `ReturnsToCaller`) and
  `LoadsAfterItself`; the two readers of a command line (`LinksAsAsked`), whose agreement is by induction over the arguments;
  `ListedAsExecuted`, which follows prefixes; shifts, reversals and sign extension bit by bit (`BitsKept`,
  `ExtendsAndChecks`, `OperandsLoad`), which need the powers of two.
* `Reflects`: the transfers of two links at once, with a main loop and an interrupt at either end.

## Disagreements found

Four runs show the code doing other than its comments say; PROJECT.json quotes both.

* A send can time out although the ack of its byte was heard: entering SENDING_ACK forgets it. When both ends write, a send can also be
  complete without its ack (gpioasynclink.cpp:739-743, 800-804, against the comment at 275-277); `CompleteAfterAck` is checked and proved
  with one end writing.
* A process descheduled at the end of its quantum is lost.
* A process waiting on a channel runs on when nothing else of its priority is ready.
* An ALT selects no branch, whatever guards are ready, and goes on at an address that is none of theirs.

Also seen while modelling, and not the subject of a run:

* Links. A byte received with no read started is acknowledged and dropped; one that comes between the last of a read and
  `readComplete` is stored past the buffer, and the remaining length wraps (gpioasynclink.cpp:402, 498). `resetLink` leaves the pin
  at its level and ready-to-send clear. ACK_TIMEOUT is left only by `resetLink`. The overrun error cannot happen, because the
  data available bit is cleared in the call that sets it. The comment at gpioasynclink.cpp:253-270 has acks sent only if there
  is room; they are sent always.
* Reflector. A press may make it send a byte twice (a lost update of `g_rw_state`). After a failed write, `resetLink` with a read
  outstanding leaves it waiting for ever. In SLOWLY a write that fails resets the link each time round until the button
  is used. The harness's `sb` and `sk` end when either the write or the read is done (lines 80, 128).
* FIFO links. A program that ends late removes the FIFOs of the two that have started since. Two that start together can
  fail with EEXIST, and the IServer then removes the FIFOs that the emulator has made. Bytes that a killed program left
  are read by its successor. An end of file is never seen.
* USB. A report of the link's port without DTR, though that port was never opened, undoes the connection of the log, and a knock
  (cdc_app.cpp:84-86): the emulator, which says that it waits until the log is read (temulate.cpp:425), does not hear the user until
  the terminal reports its lines again. `KnockHeard` is about one that does, and says nothing of one that does not. A failed read of the host's TTY link returns the byte 0 (ttylink.cpp, `readByte`).
* IServer. Closing a file that was read to its end answers an error, though it is closed (platform.cpp:393, 225-228, against
  platform.h:96). On Linux the mode
  of REQ_OPEN is made from an uninitialised variable (protocolhandler.cpp:370): what was there can make a file that is opened for input
  one that is written or emptied, against the test OpenInputCannotBeWrittenTo (testprotocolhandler.cpp:546). A read of more than
  507 bytes goes beyond the transaction buffer (protocolhandler.cpp:465-466). REQ_PUTS is answered
  with success however much was written; nothing can be opened for APPEND; at exit the server waits for a program that never
  executes `terminate`.
* CPU. `tin` stores the time and never sleeps; `taltwt` is unfinished and ends the emulator; `fptesterr` does not clear
  (cpu.cpp:1760); `fpchkerr` clears a pending error flag; `testhalterr` and `testj0break` push the flag's mask, not 1; `sb` does not drop;
  `move` misses an overlap when a block goes past the highest address; a breakpoint swaps at MemStart and MemStart + 2.
* Command lines. A `-tvs` followed by `-L0F` leaves the emulator running a validation program over a FIFO. `-da` and `-dr` together
  make the level of `-do`. iserver keeps `-L` and `-T` for the transputer's program too, although its usage lists them as its own and
  says that what it does not understand is stored (iserver.cpp:58, 161-168), so no property says what is given to the program; temulate takes no notice of an option it does not have; the comment on `-b` (temulate.cpp:255)
  denies a breakpoint at a symbol whose name is a hexadecimal number, which is the one it sets.
* Starting. An empty ROM file loads: the test of its address (memory.cpp:106) cannot fail, because the end of RAM is not
  set yet. A TVS link's `initialise` never throws, although it is written to (tvslink.cpp:38): a missing program is an end of file.
* Monitor. `g` is listed as "continue interpretation" (cpu.cpp:593): it skips the instruction that was fetched, and the low half of
  that is or-ed into the operand of the next (cpu.cpp:682-684, 712, 725), which executes as other than is listed. `ListedAsExecuted` is
  about every instruction but that one. `dw` takes a length in bytes, its help says
  words. `w` without a length takes the last `ajw`, negative after an allocation: it shows nothing, and the next `db` or `dw` goes
  back. At the input's end it asks for ever. `t` clears whatever level is set. `ci` without a level, or a breakpoint, shows
  nothing before the prompt. Listing counts memory cycles, and with `-x` ends the emulation beyond memory.
* bin2boot. With a program whose length is not a multiple of four, the workspace is over its last bytes (bin2boot.cpp:130-137,
  against 29-30 and 186-187); `LoadsAfterItself` has it just after one of whole words, and of no other. The size word is counted in the loader's length byte (27-28, 232).

## Not modelled

* Of the CPU: timer input and the clocks, link channels among the scheduler's processes, floating point (unimplemented in the
  code but for its flags), cycle counts, `testlds` and `teststs`, what `saveh` and `savel` store, eForth's diagnostics, how registers
  are shown.
* Of memory and boot: the contents of a ROM file, peeks.
* Of the links: named pipes and COM ports, which read and write one file of the operating system and are Windows'; a TTY link but
  for its bytes and whether it opens; null and stub links, which do nothing; the adapter program of the Pico, whose main loop
  is empty; flushing and descriptors of USB, and the reset to its bootloader that closing a port at 1200 baud asks for.
* Of the IServer: reads of more than the transaction buffer holds; text mode, and the `noreplace` bit of the newest C++ libraries
  among those that an open mode may start with.
* The IServer client, whose protocol is older than the server's. `RingBuffer`, which nothing but its tests uses: no part of the
  system has it, so there is no behaviour of the system that it could change.
* Logging, file name utilities, terminal input and tests: input, output, formatting and tables.

What the plan has left is listed above and in PROJECT.json under `components`.
