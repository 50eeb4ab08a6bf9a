----------------------------- MODULE Alternative -----------------------------
(***************************************************************************)
(* Emulator/cpu.cpp: a process that takes the first message to come on any *)
(* of several channels, among the processes of CpuScheduler, or that goes  *)
(* on at a time.                                                           *)
(*                                                                         *)
(* W_ALTSTATE is the word W_POINTER: a process in an ALT has its state     *)
(* where one in an in has the address of its buffer, and both put their    *)
(* descriptor in the channel.  The clock and the times of guards are left  *)
(* out: a time may be found to have come or not.                           *)
(***************************************************************************)
EXTENDS CpuScheduler

CONSTANTS
  Guards,         \* each workspace's ALT: channels it reads, "skip" and "time"
  Enabling_p, Ready_p, Waiting_p, TimeNotSet_p, NoneSelected_o

AltState == {Enabling_p, Ready_p, Waiting_p}

(* The five values are not addresses.                                      *)
VARIABLES
  W_TLINK,  \* of each process: has an alt time been set?
  exited,   \* the emulator has ended itself
  phase,    \* where each process is in the instructions of its ALT; in the
            \* end, what altend took for the branch selected
  todo      \* the guards it has yet to enable or disable
altVars == <<vars, W_TLINK, exited, phase, todo>>
timerVars == <<W_TLINK, exited>>

(* The instructions of an ALT are executed in order.                       *)
From(this) == QueuesSet /\ phase[Me] = this
Timed == "time" \in Guards[Me]
Goes(next, guards) ==
  /\ phase' = [phase EXCEPT ![Me] = next]
  /\ todo' = [todo EXCEPT ![Me] = guards]
AltIs(state) == W_POINTER' = [W_POINTER EXCEPT ![Me] = state]
SelectedIs(offset) == memory' = [memory EXCEPT ![<<Me, Temp>>] = offset]
Selected == memory[<<Me, Temp>>]

alt ==
  /\ From("none") /\ Guards[Me] # {} /\ ~Timed /\ Goes("enabling", Guards[Me])
  /\ AltIs(Enabling_p)
  /\ Proceeds(lists, W_IPTR)
  /\ UNCHANGED <<channel, memory, count, program, outs, ins>>

(* A guard whose condition is false is enabled and disabled with no effect;*)
(* the programs here have none.  A ready guard is one whose channel has    *)
(* another process waiting.                                                *)
enbc(c) ==
  /\ From("enabling") /\ c \in todo[Me] /\ Goes("enabling", todo[Me] \ {c})
  /\ channel' = IF channel[c] = NotProcess THEN [channel EXCEPT ![c] = Wdesc] ELSE channel
  /\ IF channel[c] \in {NotProcess, Wdesc} THEN UNCHANGED W_POINTER ELSE AltIs(Ready_p)
  /\ Proceeds(lists, W_IPTR)
  /\ UNCHANGED <<memory, count, program, outs, ins>>

enbs(true) ==
  /\ From("enabling") /\ "skip" \in todo[Me] /\ Goes("enabling", todo[Me] \ {"skip"})
  /\ IF true THEN AltIs(Ready_p) ELSE UNCHANGED W_POINTER
  /\ Proceeds(lists, W_IPTR)
  /\ UNCHANGED <<channel, memory, count, program, outs, ins>>

altwt ==
  /\ From("enabling") /\ todo[Me] = {} /\ ~Timed /\ Goes("disabling", Guards[Me])
  /\ SelectedIs(NoneSelected_o)
  /\ IF W_POINTER[Me] = Ready_p
     THEN Proceeds(lists, W_IPTR) /\ UNCHANGED W_POINTER
     ELSE AltIs(Waiting_p) /\ Leaves
  /\ UNCHANGED <<channel, count, program, outs, ins>>

(* What disc and diss take for a branch that may be selected.              *)
MaySelect == Selected = Ready_p
disc(c) ==
  /\ From("disabling") /\ c \in todo[Me] /\ Goes("disabling", todo[Me] \ {c})
  /\ IF channel[c] # NotProcess /\ MaySelect THEN SelectedIs(c) ELSE UNCHANGED memory
  /\ Proceeds(lists, W_IPTR)
  /\ UNCHANGED <<W_POINTER, channel, count, program, outs, ins>>

diss(true) ==
  /\ From("disabling") /\ "skip" \in todo[Me] /\ Goes("disabling", todo[Me] \ {"skip"})
  /\ IF true /\ MaySelect THEN SelectedIs("skip") ELSE UNCHANGED memory
  /\ Proceeds(lists, W_IPTR)
  /\ UNCHANGED <<W_POINTER, channel, count, program, outs, ins>>

(* altend adds W_TEMP to the IPtr.                                         *)
altend ==
  /\ From("disabling") /\ todo[Me] = {} /\ Goes(Selected, {})
  /\ Proceeds(lists, W_IPTR)
  /\ UNCHANGED <<memoryVars, program, outs, ins>>

(* The ALT with a time. *)
talt ==
  /\ From("none") /\ Timed /\ Goes("enabling", Guards[Me])
  /\ AltIs(Enabling_p)
  /\ W_TLINK' = [W_TLINK EXCEPT ![Me] = TimeNotSet_p]
  /\ Proceeds(lists, W_IPTR)
  /\ UNCHANGED <<channel, memory, count, program, outs, ins, exited>>

enbt ==
  /\ From("enabling") /\ "time" \in todo[Me] /\ Goes("enabling", todo[Me] \ {"time"})
  /\ W_TLINK' = [W_TLINK EXCEPT ![Me] = Enabling_p]
  /\ Proceeds(lists, W_IPTR)
  /\ UNCHANGED <<memoryVars, program, outs, ins, exited>>

(* It is never descheduled: with no guard ready and no time set, as when   *)
(* the condition of the time is false, the emulator exits.                 *)
taltwt ==
  /\ From("enabling") /\ todo[Me] \subseteq {"time"} /\ Timed /\ Goes("disabling", Guards[Me])
  /\ SelectedIs(Enabling_p)
  /\ exited' = (W_POINTER[Me] # Ready_p /\ W_TLINK[Me] # Enabling_p)
  /\ Proceeds(lists, W_IPTR)
  /\ UNCHANGED <<W_POINTER, channel, count, program, outs, ins, W_TLINK>>

dist(come) ==
  /\ From("disabling") /\ "time" \in todo[Me] /\ Goes("disabling", todo[Me] \ {"time"})
  /\ IF come /\ MaySelect THEN SelectedIs("time") ELSE UNCHANGED memory
  /\ Proceeds(lists, W_IPTR)
  /\ UNCHANGED <<W_POINTER, channel, count, program, outs, ins, timerVars>>

(* out to a channel that an ALT has enabled: the message goes to the       *)
(* address that the state is, in the words below MemStart.                 *)
outToAlt(c, m) ==
  /\ From("none") /\ Me = Writer[c] /\ Len(outs[c]) < MaxMessages[c]
  /\ channel[c] # NotProcess /\ W_POINTER[WPtr(channel[c])] \in AltState
  /\ channel' = [channel EXCEPT ![c] = NotProcess]
  /\ outs' = [outs EXCEPT ![c] = Append(@, m)]
  /\ Proceeds(schedule(lists, channel[c]), W_IPTR)
  /\ UNCHANGED <<W_POINTER, memory, count, program, ins, phase, todo>>

(* Outside an ALT a process executes what CpuScheduler has.                *)
Ordinary ==
  \/ other
  \/ \E p \in Priority : storeFront(p)
  \/ \E c \in Channel, m \in Message :
       \/ outWaits(c, m, c)
       \/ (channel[c] # NotProcess => W_POINTER[WPtr(channel[c])] \notin AltState)
            /\ outProceeds(c, m)
  \/ \E w \in Workspace, p \in Priority : runp(w, p)

AltInit ==
  /\ Init
  /\ W_TLINK = [w \in Workspace |-> TimeNotSet_p]
  /\ exited = FALSE
  /\ phase = [w \in Workspace |-> "none"]
  /\ todo = [w \in Workspace |-> {}]

AltNext ==
  /\ ~exited
  /\ \/ /\ \/ phase[Me] = "none" /\ Ordinary /\ UNCHANGED <<phase, todo>>
           \/ \E c \in Channel, m \in Message : outToAlt(c, m)
           \/ alt \/ altwt \/ altend
           \/ \E c \in Channel : enbc(c) \/ disc(c)
           \/ enbs(TRUE) \/ diss(TRUE)
        /\ UNCHANGED timerVars
     \/ talt \/ enbt \/ taltwt
     \/ \E come \in BOOLEAN : dist(come)

AltSpec == AltInit /\ [][AltNext]_altVars
-----------------------------------------------------------------------------
(* cpu.cpp:1699 - altend goes on at the first instruction of the branch    *)
(* selected: what an ALT goes on at is one of its guards.                  *)
BranchSelected == \A w \in Workspace : phase[w] \notin {NoneSelected_o, Enabling_p}
=============================================================================
