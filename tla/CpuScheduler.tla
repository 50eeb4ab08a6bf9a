---------------------------- MODULE CpuScheduler ----------------------------
(***************************************************************************)
(* Emulator/cpu.cpp: how CPU::interpret runs several processes.            *)
(*                                                                         *)
(* A process is known by its descriptor (Wdesc): the address of its        *)
(* workspace and its priority.  One process is in the registers; those     *)
(* ready to run are on a list for each priority, from HiHead or LoHead     *)
(* through the W_LINK words of their workspaces to HiTail or LoTail; one   *)
(* that waits to communicate is in the word of the channel.  An action is  *)
(* one interpreted instruction: its own case of the switch, then, as at    *)
(* the end of interpret, the schedule it asks for, the deschedule it       *)
(* requires, and the check of the quantum.                                 *)
(*                                                                         *)
(* Programs are any that keep occam's rules: a channel has one reader and  *)
(* one writer, a process is started when it is not running already, and    *)
(* each branch of a parallel ends once with endp.  A process's code is a   *)
(* loop of Positions instructions.  Messages between processes only: the   *)
(* link channels, ALT, timers and the j 0 breakpoint are not in this       *)
(* module, and without the breakpoint no high priority process ever runs.  *)
(***************************************************************************)
EXTENDS Integers, Sequences, FiniteSets

CONSTANTS
  Workspace,      \* workspace addresses
  Initial,        \* the workspace of the process that the boot starts
  Channel,        \* channel addresses
  Reader, Writer, \* which workspace's process uses each end of a channel
  Message,        \* what can be sent
  Positions,      \* bound: instructions in a process's loop
  MaxMessages,    \* bound: messages output on, and input from, a channel
  MaxRestarts,    \* bound: runp of stopped processes
  MayRunOn,       \* bound: FALSE leaves out what follows the first time a process
                  \* waits or ends with no other of its priority ready
  NotProcess,     \* NotProcess_p, the end of a list and an idle channel
  Unset           \* a word or register that nothing has been stored in

Priority == {0, 1}                     \* 0 is high
Descriptor == Workspace \X Priority
WPtr(d) == d[1]
Pri(d) == d[2]

ASSUME SchedulerAssumption ==
  /\ IsFiniteSet(Workspace) /\ Initial \in Workspace
  /\ Reader \in [Channel -> Workspace] /\ Writer \in [Channel -> Workspace]
  /\ Positions \in Nat /\ Positions > 0
  /\ MaxMessages \in [Channel -> Nat] /\ MaxRestarts \in Nat
  /\ MayRunOn \in BOOLEAN
  /\ NotProcess \notin Descriptor /\ Unset \notin Descriptor /\ Unset # NotProcess
  /\ Unset \notin Message /\ Unset \notin Workspace /\ Unset \notin Workspace \X (Channel \cup {"temp"})

(* A process does not communicate with itself, and W_TEMP is no channel's  *)
(* buffer.                                                                 *)
ASSUME ChannelAssumption ==
  /\ \A c \in Channel : Reader[c] # Writer[c]
  /\ "temp" \notin Channel

Code == Workspace \X (0 .. Positions - 1)   \* instruction addresses
Temp == "temp"                              \* W_TEMP, word 0 of a workspace
Address == Workspace \X (Channel \cup {Temp})

VARIABLES
  Wdesc, IPtr, DeschedulePending,
  lists,      \* head and tail registers and W_LINK words; and, as a history,
              \* queue: the descriptors scheduled and not yet run, in order
  W_IPTR, W_POINTER,   \* words of the descheduled processes' workspaces
  channel,    \* the word of each channel
  memory,     \* the messages in the processes' buffers and W_TEMP words
  count,      \* word 1 of a joining workspace: branches yet to end
  program,    \* what the program knows of each workspace: see Init
  at,         \* history: the instruction each process is to execute next
  outs, ins,  \* history: messages output on a channel, number input from it
  ranOn       \* history: a process that had to wait or end has run on

memoryVars == <<W_POINTER, channel, memory, count>>
vars == <<Wdesc, IPtr, DeschedulePending, lists, W_IPTR, memoryVars,
          program, at, outs, ins, ranOn>>

Init ==
  /\ Wdesc = <<Initial, 1>>
  /\ IPtr = <<Initial, 0>>
  /\ DeschedulePending = FALSE
  /\ lists = [ head |-> [p \in Priority |-> Unset], tail |-> [p \in Priority |-> Unset],
               link |-> [w \in Workspace |-> Unset],
               queue |-> [p \in Priority |-> <<>>] ]
  /\ W_IPTR = [w \in Workspace |-> <<w, 0>>]        \* for whatever is there
  /\ W_POINTER = [w \in Workspace |-> Unset]
  /\ channel = [c \in Channel |-> NotProcess]
  /\ memory = [a \in Address |-> Unset]
  /\ count = [w \in Workspace |-> 0]
  /\ program = [ state |-> [w \in Workspace |-> IF w = Initial THEN "live" ELSE "free"],
                 join |-> [w \in Workspace |-> Unset],  \* where its branch is to join
                 restarts |-> 0 ]
  /\ at = [w \in Workspace |-> <<w, 0>>]
  /\ outs = [c \in Channel |-> <<>>]
  /\ ins = [c \in Channel |-> 0]
  /\ ranOn = FALSE

-----------------------------------------------------------------------------
(* The end of interpret.                                                   *)

(* A schedule that leaves the tail register behind. *)
schedule_tailKept(l, d) ==
  LET p == Pri(d)
      linked == [l.link EXCEPT ![WPtr(d)] = NotProcess]
      empty == l.head[p] = NotProcess
  IN [ head |-> IF empty THEN [l.head EXCEPT ![p] = d] ELSE l.head,
       tail |-> IF empty THEN [l.tail EXCEPT ![p] = d] ELSE l.tail,
       link |-> IF empty THEN linked ELSE [linked EXCEPT ![WPtr(l.tail[p])] = d],
       queue |-> [l.queue EXCEPT ![p] = Append(@, d)] ]

(* The process with descriptor d goes to the back of the list of its       *)
(* priority.                                                               *)
schedule(l, d) ==
  LET p == Pri(d)
      linked == [l.link EXCEPT ![WPtr(d)] = NotProcess]
      empty == l.head[p] = NotProcess
  IN [ head |-> IF empty THEN [l.head EXCEPT ![p] = d] ELSE l.head,
       tail |-> [l.tail EXCEPT ![p] = d],
       link |-> IF empty THEN linked ELSE [linked EXCEPT ![WPtr(l.tail[p])] = d],
       queue |-> [l.queue EXCEPT ![p] = Append(@, d)] ]

(* What taking the first process of priority p leaves.                     *)
dropHead(l, p) ==
  [ l EXCEPT !.head[p] = l.link[WPtr(l.head[p])],
             !.queue[p] = IF @ = <<>> THEN @ ELSE Tail(@) ]

(* The quantum can have expired only while a low priority process runs.    *)
quantum(wdesc, pending) ==
  \E expired \in BOOLEAN : DeschedulePending' = (pending \/ (expired /\ Pri(wdesc) = 1))

(* The instruction is over and the registers hold wdesc and ip.            *)
continue(l, wdesc, ip, saved, pending) ==
  /\ lists' = l
  /\ Wdesc' = wdesc
  /\ IPtr' = ip
  /\ W_IPTR' = saved
  /\ quantum(wdesc, pending)

(* A deschedule that does not store the IPtr of the process it leaves. *)
deschedule_forgets(l, ip, saved) ==
  LET p    == Pri(Wdesc)
      next == l.head[p]
  IN IF next = NotProcess THEN continue(l, Wdesc, ip, saved, FALSE)
     ELSE continue(dropHead(l, p), next, saved[WPtr(next)], saved, FALSE)

(* DescheduleRequired: with the list of its priority empty the process     *)
(* keeps the CPU; else it is left, and the first of the list is run.       *)
deschedule(l, ip, saved) ==
  LET p      == Pri(Wdesc)
      next   == l.head[p]
      stored == [saved EXCEPT ![WPtr(Wdesc)] = ip]
  IN IF next = NotProcess THEN continue(l, Wdesc, ip, saved, FALSE)
     ELSE continue(dropHead(l, p), next, stored[WPtr(next)], stored, FALSE)

QueuesSet == \A p \in Priority : lists.head[p] # Unset

(* Straight-line code; and the instruction leaves the process waiting,     *)
(* stopped or ended, and so requires a deschedule.                         *)
RunsOn == lists.head[Pri(Wdesc)] = NotProcess
Following == <<IPtr[1], (IPtr[2] + 1) % Positions>>
Proceeds(l, saved) ==
  /\ continue(l, Wdesc, Following, saved, DeschedulePending)
  /\ at' = [at EXCEPT ![WPtr(Wdesc)] = Following]
  /\ UNCHANGED ranOn
Leaves ==
  /\ RunsOn => MayRunOn
  /\ deschedule(lists, Following, W_IPTR)
  /\ at' = [at EXCEPT ![WPtr(Wdesc)] = Following]
  /\ ranOn' = (ranOn \/ RunsOn)

Me == WPtr(Wdesc)

-----------------------------------------------------------------------------
(* The instructions.                                                       *)

(* Any instruction that touches nothing of this module.                    *)
other ==
  /\ Proceeds(lists, W_IPTR)
  /\ UNCHANGED <<memoryVars, program, outs, ins>>

(* sthf and stlf: the program empties both lists before all else.          *)
storeFront(p) ==
  /\ lists.head[p] = Unset
  /\ Proceeds([lists EXCEPT !.head[p] = NotProcess], W_IPTR)
  /\ UNCHANGED <<memoryVars, program, outs, ins>>

(* An in that waits without leaving where the message is to go. *)
inWaits_nowhere(c) ==
  /\ QueuesSet /\ Me = Reader[c] /\ ins[c] < MaxMessages[c]
  /\ channel[c] = NotProcess
  /\ channel' = [channel EXCEPT ![c] = Wdesc]
  /\ ins' = [ins EXCEPT ![c] = @ + 1]
  /\ Leaves
  /\ UNCHANGED <<W_POINTER, memory, count, program, outs>>

(* in: first at the rendezvous, it leaves where the message is to go and   *)
(* its descriptor in the channel, and waits.                               *)
inWaits(c) ==
  /\ QueuesSet /\ Me = Reader[c] /\ ins[c] < MaxMessages[c]
  /\ channel[c] = NotProcess
  /\ W_POINTER' = [W_POINTER EXCEPT ![Me] = <<Me, c>>]
  /\ channel' = [channel EXCEPT ![c] = Wdesc]
  /\ ins' = [ins EXCEPT ![c] = @ + 1]
  /\ Leaves
  /\ UNCHANGED <<memory, count, program, outs>>

(* An in that does not reset the channel. *)
inProceeds_notReset(c) ==
  /\ QueuesSet /\ Me = Reader[c] /\ ins[c] < MaxMessages[c]
  /\ channel[c] # NotProcess
  /\ memory' = [memory EXCEPT ![<<Me, c>>] = memory[W_POINTER[WPtr(channel[c])]]]
  /\ ins' = [ins EXCEPT ![c] = @ + 1]
  /\ Proceeds(schedule(lists, channel[c]), W_IPTR)
  /\ UNCHANGED <<W_POINTER, channel, count, program, outs>>

(* in: the writer waits there, and is scheduled.                           *)
inProceeds(c) ==
  /\ QueuesSet /\ Me = Reader[c] /\ ins[c] < MaxMessages[c]
  /\ channel[c] # NotProcess
  /\ memory' = [memory EXCEPT ![<<Me, c>>] = memory[W_POINTER[WPtr(channel[c])]]]
  /\ channel' = [channel EXCEPT ![c] = NotProcess]
  /\ ins' = [ins EXCEPT ![c] = @ + 1]
  /\ Proceeds(schedule(lists, channel[c]), W_IPTR)
  /\ UNCHANGED <<W_POINTER, count, program, outs>>

(* An outbyte that leaves the address an out would. *)
outWaits_elsewhere(c, m, area) ==
  /\ QueuesSet /\ Me = Writer[c] /\ Len(outs[c]) < MaxMessages[c]
  /\ channel[c] = NotProcess
  /\ memory' = [memory EXCEPT ![<<Me, area>>] = m]
  /\ W_POINTER' = [W_POINTER EXCEPT ![Me] = <<Me, c>>]
  /\ channel' = [channel EXCEPT ![c] = Wdesc]
  /\ outs' = [outs EXCEPT ![c] = Append(@, m)]
  /\ Leaves
  /\ UNCHANGED <<count, program, ins>>

(* out leaves where its message is; outbyte and outword put the message in *)
(* W_TEMP and leave where that is.                                         *)
outWaits(c, m, area) ==
  /\ QueuesSet /\ Me = Writer[c] /\ Len(outs[c]) < MaxMessages[c]
  /\ channel[c] = NotProcess
  /\ memory' = [memory EXCEPT ![<<Me, area>>] = m]
  /\ W_POINTER' = [W_POINTER EXCEPT ![Me] = <<Me, area>>]
  /\ channel' = [channel EXCEPT ![c] = Wdesc]
  /\ outs' = [outs EXCEPT ![c] = Append(@, m)]
  /\ Leaves
  /\ UNCHANGED <<count, program, ins>>

(* out, outbyte and outword: the reader waits there, and is scheduled.     *)
outProceeds(c, m) ==
  /\ QueuesSet /\ Me = Writer[c] /\ Len(outs[c]) < MaxMessages[c]
  /\ channel[c] # NotProcess
  /\ memory' = [memory EXCEPT ![W_POINTER[WPtr(channel[c])]] = m]
  /\ channel' = [channel EXCEPT ![c] = NotProcess]
  /\ outs' = [outs EXCEPT ![c] = Append(@, m)]
  /\ Proceeds(schedule(lists, channel[c]), W_IPTR)
  /\ UNCHANGED <<W_POINTER, count, program, ins>>

(* startp of workspace w as a branch that is to join at workspace j, where *)
(* the program keeps the number of branches.                               *)
startp(w, j) ==
  /\ QueuesSet /\ w # j /\ program.state[w] = "free"
  /\ \/ program.join[Me] = j
     \/ program.join[Me] = Unset /\ program.state[j] = "free"
  /\ count' = [count EXCEPT ![j] = IF @ = 0 THEN 2 ELSE @ + 1]
  /\ program' = [program EXCEPT !.state[w] = "live", !.state[j] = "joining",
                                !.join[w] = j, !.join[Me] = j]
  /\ Proceeds(schedule(lists, <<w, Pri(Wdesc)>>), [W_IPTR EXCEPT ![w] = <<w, 0>>])
  /\ UNCHANGED <<W_POINTER, channel, memory, outs, ins>>

(* endp of a branch that is not the last, and of the last, which goes on   *)
(* as the process of the joining workspace.                                *)
endpWaits ==
  LET j == program.join[Me]
  IN /\ QueuesSet /\ j # Unset
     /\ count[j] # 1
     /\ count' = [count EXCEPT ![j] = @ - 1]
     /\ program' = [program EXCEPT !.state[Me] = "ended", !.join[Me] = Unset]
     /\ Leaves
     /\ UNCHANGED <<W_POINTER, channel, memory, outs, ins>>

(* An endp that tests the count it has stored. *)
endpJoins_early ==
  LET j == program.join[Me]
  IN /\ QueuesSet /\ j # Unset
     /\ count[j] \in {1, 2}
     /\ count' = [count EXCEPT ![j] = @ - 1]
     /\ program' = [program EXCEPT !.state[Me] = "ended", !.join[Me] = Unset,
                                   !.state[j] = "live"]
     /\ continue(lists, <<j, Pri(Wdesc)>>, <<j, 0>>, W_IPTR, DeschedulePending)
     /\ UNCHANGED <<W_POINTER, channel, memory, at, outs, ins, ranOn>>

endpJoins ==
  LET j == program.join[Me]
  IN /\ QueuesSet /\ j # Unset
     /\ count[j] = 1
     /\ count' = [count EXCEPT ![j] = @ - 1]
     /\ program' = [program EXCEPT !.state[Me] = "ended", !.join[Me] = Unset,
                                   !.state[j] = "live"]
     /\ continue(lists, <<j, Pri(Wdesc)>>, <<j, 0>>, W_IPTR, DeschedulePending)
     /\ UNCHANGED <<W_POINTER, channel, memory, at, outs, ins, ranOn>>

(* stopp stores the IPtr itself, whether or not there is another process   *)
(* to run.                                                                 *)
stopp ==
  /\ QueuesSet
  /\ program' = [program EXCEPT !.state[Me] = "stopped"]
  /\ RunsOn => MayRunOn
  /\ deschedule(lists, Following, [W_IPTR EXCEPT ![Me] = Following])
  /\ at' = [at EXCEPT ![Me] = Following]
  /\ ranOn' = (ranOn \/ RunsOn)
  /\ UNCHANGED <<memoryVars, outs, ins>>

(* runp of a process whose first IPtr the program has stored, or of one    *)
(* that has stopped, at either priority.                                   *)
runp(w, p) ==
  /\ QueuesSet
  /\ \/ /\ program.state[w] = "free"
        /\ program' = [program EXCEPT !.state[w] = "live"]
        /\ Proceeds(schedule(lists, <<w, p>>), [W_IPTR EXCEPT ![w] = <<w, 0>>])
     \/ /\ program.state[w] = "stopped" /\ program.restarts < MaxRestarts
        /\ program' = [program EXCEPT !.state[w] = "live", !.restarts = @ + 1]
        /\ Proceeds(schedule(lists, <<w, p>>), W_IPTR)
  /\ UNCHANGED <<memoryVars, outs, ins>>

(* j, and lend: a deschedule that is pending is required now.              *)
jump(n) ==
  LET ip == <<IPtr[1], n>>
  IN /\ QueuesSet
     /\ IF DeschedulePending THEN deschedule(lists, ip, W_IPTR)
                             ELSE continue(lists, Wdesc, ip, W_IPTR, FALSE)
     /\ at' = [at EXCEPT ![Me] = ip]
     /\ UNCHANGED <<memoryVars, program, outs, ins, ranOn>>

Next ==
  \/ other
  \/ \E p \in Priority : storeFront(p)
  \/ \E c \in Channel : inWaits(c) \/ inProceeds(c)
  \/ \E c \in Channel, m \in Message : \E area \in {c, Temp} : outWaits(c, m, area)
  \/ \E c \in Channel, m \in Message : outProceeds(c, m)
  \/ \E w, j \in Workspace : startp(w, j)
  \/ endpWaits
  \/ endpJoins
  \/ stopp
  \/ \E w \in Workspace, p \in Priority : runp(w, p)
  \/ \E n \in 0 .. Positions - 1 : jump(n)

Spec == Init /\ [][Next]_vars
-----------------------------------------------------------------------------
(* Where a process is.                                                     *)
QueuedIn(l, w) == \E p \in Priority : \E i \in DOMAIN l.queue[p] : WPtr(l.queue[p][i]) = w
InQueue(w) == QueuedIn(lists, w)
WaitsOn(w, c) == channel[c] # NotProcess /\ WPtr(channel[c]) = w
Waits(w) == \E c \in Channel : WaitsOn(w, c)

Lists ==
  [ head : [Priority -> Descriptor \cup {NotProcess, Unset}],
    tail : [Priority -> Descriptor \cup {Unset}],
    link : [Workspace -> Descriptor \cup {NotProcess, Unset}],
    queue : [Priority -> Seq(Descriptor)] ]

Program ==
  [ state : [Workspace -> {"free", "live", "stopped", "joining", "ended"}],
    join : [Workspace -> Workspace \cup {Unset}],
    restarts : 0 .. MaxRestarts ]

(* The types; and that the registers are those of the process in them.     *)
TypeOK ==
  /\ Wdesc \in Descriptor
  /\ IPtr \in Code
  /\ DeschedulePending \in BOOLEAN
  /\ lists \in Lists
  /\ W_IPTR \in [Workspace -> Code]
  /\ W_POINTER \in [Workspace -> Address \cup {Unset}]
  /\ channel \in [Channel -> Descriptor \cup {NotProcess}]
  /\ \A c \in Channel : channel[c] # NotProcess => W_POINTER[WPtr(channel[c])] # Unset
  /\ memory \in [Address -> Message \cup {Unset}]
  /\ count \in [Workspace -> Int]
  /\ program \in Program
  /\ at \in [Workspace -> Code]
  /\ outs \in [Channel -> Seq(Message)]
  /\ ins \in [Channel -> Nat]
  /\ ranOn \in BOOLEAN

(* A process is in one place: in the registers, once on one of the lists,  *)
(* or in the word of one channel; and it is one that is running, so that   *)
(* no process is scheduled twice or scheduled when it has stopped.         *)
NoneTwice(l) ==
  \A p, q \in Priority : \A i \in DOMAIN l.queue[p], j \in DOMAIN l.queue[q] :
    WPtr(l.queue[p][i]) = WPtr(l.queue[q][j]) => p = q /\ i = j
OnePlace ==
  /\ ~InQueue(Me) /\ ~Waits(Me) /\ program.state[Me] = "live"
  /\ \A w \in Workspace : /\ InQueue(w) \/ Waits(w) => program.state[w] = "live"
                          /\ ~(InQueue(w) /\ Waits(w))
  /\ \A w \in Workspace : \A c, d \in Channel : WaitsOn(w, c) /\ WaitsOn(w, d) => c = d
EachInOnePlace == ~ranOn => OnePlace /\ NoneTwice(lists)

(* Each list, followed from its head register through the W_LINK words, is *)
(* the processes of its priority in the order in which they were scheduled,*)
(* and the tail register holds the last of them.                           *)
ListOf(l, p) ==
  LET q == l.queue[p]
  IN /\ \A i \in DOMAIN q : Pri(q[i]) = p
     /\ q = <<>> => l.head[p] \in {NotProcess, Unset}
     /\ q # <<>> => l.head[p] = q[1] /\ l.tail[p] = q[Len(q)]
     /\ \A i \in DOMAIN q :
          l.link[WPtr(q[i])] = IF i = Len(q) THEN NotProcess ELSE q[i + 1]
ListsAreQueues == ~ranOn => \A p \in Priority : ListOf(lists, p)

(* A process that is not running resumes at the instruction after the last *)
(* it executed.                                                            *)
ResumesWhereLeft ==
  ~ranOn => /\ IPtr = at[Me]
            /\ \A w \in Workspace : InQueue(w) \/ Waits(w) => W_IPTR[w] = at[w]

(* A process that is past an in has in its buffer the message of the out   *)
(* that matches it, and a process past an out has been answered: neither   *)
(* end is more than the one message it waits with ahead of the other.      *)
MessageArrives ==
  ~ranOn => \A c \in Channel :
    LET readerWaits == WaitsOn(Reader[c], c)
        writerWaits == WaitsOn(Writer[c], c)
    IN /\ Len(outs[c]) + (IF readerWaits THEN 1 ELSE 0)
            = ins[c] + (IF writerWaits THEN 1 ELSE 0)
       /\ ins[c] > 0 /\ ~readerWaits => memory[<<Reader[c], c>>] = outs[c][ins[c]]

(* The process that a parallel ends in goes on only when every branch has  *)
(* ended: the count is that of the branches left, and while there are any  *)
(* the process is not running.                                             *)
Branches(j) == {w \in Workspace : program.join[w] = j}
Joins ==
  \A j \in Workspace :
    /\ count[j] = Cardinality(Branches(j))
    /\ program.state[j] = "joining" <=> Branches(j) # {}
JoinWhenAllEnded == ~ranOn => Joins

(* cpu.cpp:2266 - a process that is descheduled at the end of its quantum  *)
(* is added to the relevant scheduling list, so that no running process is *)
(* lost.                                                                   *)
NoProcessLost ==
  ~ranOn => \A w \in Workspace :
    program.state[w] = "live" => w = Me \/ InQueue(w) \/ Waits(w)

(* cpu.cpp:2249 - an in, out, outword or outbyte deschedules the process   *)
(* while it waits for another, so that no process runs that waits.         *)
WaiterStops == ~Waits(Me)
=============================================================================
