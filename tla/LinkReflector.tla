--------------------------- MODULE LinkReflector ---------------------------
(***************************************************************************)
(* Pico/picolinkharness.cpp and Pico/picolinkreflect.cpp: the programs of  *)
(* two Picos, wired back to back.  The harness sends what its user asks it *)
(* to and waits for it to come back.  The reflector sends back what it     *)
(* receives, at once or after a while, or is silent, as a button says.     *)
(*                                                                         *)
(* On each Pico a timer interrupt ticks the link while the program runs.   *)
(* The reflector's also looks at the button, and changes g_state and       *)
(* g_rw_state, which the main loop tests and sets.  A step is an           *)
(* interrupt, a call of a link's API, or one access of those variables by  *)
(* the main loop: it holds what it has read of them in main.case.          *)
(***************************************************************************)
EXTENDS GPIOAsyncLink, Debouncer, SequencesExt

CONSTANTS
  Message,        \* what the user has sent: sequences of bytes
  MaxPresses      \* bound: how often the button is used, for each number of
                  \* bytes and resets asked for; no more than its domain are

ASSUME ReflectorAssumption ==
  /\ Message \subseteq Seq(Byte) /\ \A m \in Message : m # <<>>
  /\ 0 \in DOMAIN MaxPresses /\ \A n \in DOMAIN MaxPresses : n \in Nat /\ MaxPresses[n] \in Nat

VARIABLES
  link,        \* the link of the harness, A, and that of the reflector, B
  tx,          \* the level each drives its wire to
  turn,        \* which of them is ticked next
  harness,     \* the harness: where it is, the variables of a command, what was asked for
  main,        \* the reflector's main loop: where it is, what it has read, a1
  g_state, g_rw_state, debouncer,
  presses      \* history: how often the button has changed g_state

vars == <<link, tx, turn, harness, main, g_state, g_rw_state, debouncer, presses>>

A == "A"
B == "B"
Peer(e) == IF e = A THEN B ELSE A

(* What main's a1 may hold before it has been read into: any byte. *)
Uninitialised == [1 .. DataBits -> {0, 1}]

Init ==
  /\ link = [e \in {A, B} |-> NewLink] /\ tx = [e \in {A, B} |-> 0] /\ turn = A
  /\ harness = [pc |-> "prompt", message |-> <<>>, read |-> 0, done |-> FALSE, asked |-> 0]
  /\ \E a1 \in Uninitialised :
       main = [pc |-> "loop", case |-> <<"REFLECT", 0>>, a1 |-> a1, empty |-> FALSE, polled |-> FALSE]
  /\ g_state = "REFLECT" /\ g_rw_state = 0 /\ debouncer = NewDebouncer /\ presses = 0

-----------------------------------------------------------------------------
(* The interrupts.                                                         *)

Ticked(e) ==
  /\ turn = e /\ turn' = Peer(e)
  /\ tx' = [tx EXCEPT ![e] = Level(link[e], @)]
  /\ link' = [link EXCEPT ![e] = clock(@, tx[Peer(e)])]

HarnessTick == Ticked(A) /\ UNCHANGED <<harness, main, g_state, g_rw_state, debouncer, presses>>

NextState == [REFLECT |-> "REFLECT_SLOWLY", REFLECT_SLOWLY |-> "SILENCE", SILENCE |-> "REFLECT"]

(* A byte stored when a read has been started and nothing has been stored  *)
(* since, main.empty, is stored in a1; the next would be past it.          *)
Stores ==
  LET stored == Len(link'[B].stored) > Len(link[B].stored)
  IN main' = [main EXCEPT !.polled = FALSE, !.empty = @ /\ ~stored,
                          !.a1 = IF stored /\ main.empty THEN Last(link'[B].received) ELSE @]

(* A tick that changes the state when the button is released, and leaves   *)
(* the state within it as it is.                                           *)
ReflectorTick_kept(raw) ==
  LET d == debounce(debouncer, raw)
      released == d.keyChanged /\ ~d.keyReleased
  IN /\ main.polled \/ main.pc = "asleep"
     /\ raw => presses < MaxPresses[harness.asked]
     /\ Ticked(B) /\ Stores
     /\ debouncer' = d
     /\ g_state' = IF released THEN NextState[g_state] ELSE g_state
     /\ presses' = IF released THEN presses + 1 ELSE presses
     /\ UNCHANGED <<harness, g_rw_state>>

(* tick.  Here it looks at the button every time, in the code every        *)
(* hundredth.  main goes round its loop many times between two ticks: here *)
(* it takes a step at least, unless it sleeps.                             *)
ReflectorTick(raw) ==
  LET d == debounce(debouncer, raw)
      released == d.keyChanged /\ ~d.keyReleased
  IN /\ main.polled \/ main.pc = "asleep"
     /\ raw => presses < MaxPresses[harness.asked]
     /\ Ticked(B) /\ Stores
     /\ debouncer' = d
     /\ g_state' = IF released THEN NextState[g_state] ELSE g_state
     /\ g_rw_state' = IF released THEN 0 ELSE g_rw_state
     /\ presses' = IF released THEN presses + 1 ELSE presses
     /\ UNCHANGED harness

-----------------------------------------------------------------------------
(* The reflector's main loop.  At goes on at a place of it; Sets(n) is on  *)
(* the way to set g_rw_state to n.                                         *)

Cases == {"REFLECT"} \X (0 .. 2) \cup {"REFLECT_SLOWLY"} \X (0 .. 3)

At(pc)     == [main EXCEPT !.pc = pc, !.polled = TRUE]
Sets(n)    == [At("set") EXCEPT !.case[2] = n]
Goes(next) == main' = next /\ UNCHANGED <<link, g_rw_state>>
Calls(l, next) == link' = [link EXCEPT ![B] = l] /\ main' = next /\ UNCHANGED g_rw_state

SwitchState ==
  /\ main.pc = "loop"
  /\ Goes(IF g_state = "SILENCE" THEN At("asleep") ELSE [At("switch") EXCEPT !.case[1] = g_state])
Wake == main.pc = "asleep" /\ Goes(At("loop"))

(* A state that no case is for leaves the switch. *)
SwitchRw ==
  /\ main.pc = "switch"
  /\ LET read == <<main.case[1], g_rw_state>>
     IN Goes(IF read \in Cases THEN [At("case") EXCEPT !.case = read] ELSE At("loop"))
SetRw ==
  main.pc = "set" /\ g_rw_state' = main.case[2] /\ main' = At("loop") /\ UNCHANGED link

Case(state, n) == main.pc = "case" /\ main.case = <<state, n>>
Reads(next)     == Calls(readDataAsync(link[B], 1), [next EXCEPT !.empty = TRUE])
IfRead(next)    == IF link[B].readComplete THEN Calls(readComplete(link[B]), next) ELSE Goes(At("loop"))
IfWritten(next) == IF link[B].sendComplete THEN Calls(writeComplete(link[B]), next) ELSE Goes(At("loop"))
Writes(next)    == Calls(writeDataAsync(link[B], <<main.a1>>), IF sendDataOk(link[B]) THEN next ELSE At("reset"))
Resets          == main.pc = "reset" /\ Calls(resetLink(link[B]), At("loop"))

(* A Reflect that, after a byte has been sent, goes on as if the next had  *)
(* been read.                                                              *)
Reflect_again ==
  \/ Case("REFLECT", 0) /\ Reads(Sets(1))
  \/ Case("REFLECT", 1) /\ IfRead(At("reread"))
  \/ main.pc = "reread" /\ Reads(At("write"))
  \/ main.pc = "write" /\ Writes(Sets(2))
  \/ Case("REFLECT", 2) /\ IfWritten(At("reread"))

Reflect ==
  \/ Case("REFLECT", 0) /\ Reads(Sets(1))
  \/ Case("REFLECT", 1) /\ IfRead(At("reread"))
  \/ main.pc = "reread" /\ Reads(At("write"))
  \/ main.pc = "write" /\ Writes(Sets(2))
  \/ Case("REFLECT", 2) /\ IfWritten(Sets(1))

(* write_after_time comes sooner or later. *)
ReflectSlowly ==
  \/ Case("REFLECT_SLOWLY", 0) /\ Reads(Sets(1))
  \/ Case("REFLECT_SLOWLY", 1) /\ IfRead(Sets(2))
  \/ Case("REFLECT_SLOWLY", 2) /\ (Goes(At("loop")) \/ Writes(Sets(3)))
  \/ Case("REFLECT_SLOWLY", 3) /\ IfWritten(Sets(0))

Main ==
  /\ SwitchState \/ Wake \/ SwitchRw \/ SetRw \/ Reflect \/ ReflectSlowly \/ Resets
  /\ UNCHANGED <<tx, turn, harness, g_state, debouncer, presses>>

-----------------------------------------------------------------------------
(* The harness: send_byte for a message of one byte, send_kilobyte for a   *)
(* longer one, and rst.  The loops of both end as soon as the write, or    *)
(* the read of the last byte, is done.                                     *)

HarnessCalls(l, next) ==
  /\ link' = [link EXCEPT ![A] = l] /\ harness' = next
  /\ UNCHANGED <<tx, turn, main, g_state, g_rw_state, debouncer, presses>>
HarnessAt(pc) == [harness EXCEPT !.pc = pc]

(* The user asks for more while the bound has room for the presses so far. *)
Asked(n) ==
  LET pressed == IF debouncer.debouncedKeyPress THEN presses + 1 ELSE presses
  IN /\ harness.pc = "prompt"
     /\ harness.asked + n \in DOMAIN MaxPresses
     /\ pressed <= MaxPresses[harness.asked + n]

Send(m) ==
  /\ Asked(Len(m))
  /\ HarnessCalls(readDataAsync(link[A], 1),
       [pc |-> "write", message |-> m, read |-> 0, done |-> FALSE, asked |-> harness.asked + Len(m)])
Rst == Asked(1) /\ HarnessCalls(resetLink(link[A]), [harness EXCEPT !.asked = @ + 1])

WriteMessage ==
  /\ harness.pc = "write"
  /\ HarnessCalls(writeDataAsync(link[A], harness.message),
                  HarnessAt(IF sendDataOk(link[A]) THEN "poll write" ELSE "prompt"))

PollWrite ==
  /\ harness.pc = "poll write"
  /\ IF link[A].sendComplete
     THEN HarnessCalls(writeComplete(link[A]), [HarnessAt("poll status") EXCEPT !.done = TRUE])
     ELSE HarnessCalls(link[A], HarnessAt("poll status"))

PollStatus ==
  /\ harness.pc = "poll status"
  /\ HarnessCalls(link[A], HarnessAt(IF link[A].timeout THEN "prompt" ELSE "poll read"))

Again == HarnessAt(IF harness.done THEN "prompt" ELSE "poll write")
PollRead ==
  /\ harness.pc = "poll read"
  /\ IF ~link[A].readComplete THEN HarnessCalls(link[A], Again)
     ELSE HarnessCalls(readComplete(link[A]),
                       IF harness.read + 1 = Len(harness.message) THEN HarnessAt("prompt")
                       ELSE [HarnessAt("read again") EXCEPT !.read = @ + 1])
ReadAgain == harness.pc = "read again" /\ HarnessCalls(readDataAsync(link[A], 1), Again)

Harness ==
  \/ \E m \in Message : Send(m)
  \/ Rst \/ WriteMessage \/ PollWrite \/ PollStatus \/ PollRead \/ ReadAgain

Next == HarnessTick \/ (\E raw \in BOOLEAN : ReflectorTick(raw)) \/ Main \/ Harness

Spec == Init /\ [][Next]_vars

-----------------------------------------------------------------------------
(* picolinkreflect.cpp:163 to 176, with gpioasynclink.cpp - whatever the   *)
(* button does and whenever the next byte arrives in a1, the reflector     *)
(* sends only bytes that it has received; and until the button is used it  *)
(* sends them once each, in order, with none left out.                     *)
Reflects ==
  LET framed   == link[B].framed
      received == link[B].received
  IN /\ \A i \in DOMAIN framed : Contains(received, framed[i])
     /\ presses = 0 => IsPrefix(framed, received)

(* picolinkreflect.cpp:72, 156 to 211 - the interrupt sets g_rw_state to 0 *)
(* and main may then set it to what it was about to: the two never meet in *)
(* a state that the switch has no case for, which the reflector would not  *)
(* leave until the button is used.                                         *)
NeverStuck == main.pc = "switch" => <<main.case[1], g_rw_state>> \in Cases
=============================================================================
