------------------------ MODULE LinkReflectorProofs ------------------------
(***************************************************************************)
(* That the reflector is never stuck, for any messages, any use of the     *)
(* button and any link clock: NeverStuck.  The state that could be met is  *)
(* 3 of REFLECT_SLOWLY, which main may set after the interrupt has left    *)
(* REFLECT_SLOWLY.  The button cannot take the reflector on to REFLECT     *)
(* before it has been pressed and released, which are two interrupts, and  *)
(* main takes a step before each: enough of them to be done with it.       *)
(***************************************************************************)
EXTENDS LinkReflector, TLAPS

Pc == {"loop", "asleep", "switch", "case", "set", "reread", "write", "reset"}

(* The parts of main's variables that decide where it goes.                *)
MainOK ==
  /\ DOMAIN main = {"pc", "case", "a1", "empty", "polled"}
  /\ main.pc \in Pc
  /\ main.case \in {"REFLECT", "REFLECT_SLOWLY"} \X (0 .. 3)
  /\ main.polled \in BOOLEAN

ControlOK ==
  /\ MainOK
  /\ g_state \in {"REFLECT", "REFLECT_SLOWLY", "SILENCE"}
  /\ g_rw_state \in 0 .. 3
  /\ DOMAIN debouncer = {"debouncedKeyPress", "count", "keyChanged", "keyReleased"}
  /\ debouncer.debouncedKeyPress \in BOOLEAN

(* main is two steps, or one, from where it can no longer set state 3, or  *)
(* be where the state that it read of g_state is REFLECT_SLOWLY.           *)
TwoSteps == main.pc = "case" /\ main.case = <<"REFLECT_SLOWLY", 2>>
OneStep  == \/ main.pc = "set" /\ main.case[2] = 3
            \/ main.pc = "switch" /\ main.case[1] = "REFLECT_SLOWLY"

InSilence ==
  /\ main.pc = "switch" => g_rw_state = 0
  /\ TwoSteps => ~debouncer.debouncedKeyPress /\ ~main.polled
  /\ OneStep => ~(debouncer.debouncedKeyPress /\ main.polled)
InReflect == g_rw_state # 3 /\ ~TwoSteps /\ ~OneStep

IInv ==
  /\ ControlOK
  /\ g_state = "SILENCE" => InSilence
  /\ g_state = "REFLECT" => InReflect
  /\ main.pc = "switch" /\ main.case[1] = "REFLECT" => g_rw_state # 3

-----------------------------------------------------------------------------
LEMMA ControlInit == Init => IInv
  BY DEF Init, IInv, ControlOK, MainOK, Pc, InSilence, InReflect, TwoSteps, OneStep, NewDebouncer

(* A release is seen only of a key that was pressed.                       *)
LEMMA Debounced ==
  ASSUME NEW d, NEW raw \in BOOLEAN,
         DOMAIN d = {"debouncedKeyPress", "count", "keyChanged", "keyReleased"},
         d.debouncedKeyPress \in BOOLEAN
  PROVE  LET e == debounce(d, raw)
         IN /\ DOMAIN e = {"debouncedKeyPress", "count", "keyChanged", "keyReleased"}
            /\ e.debouncedKeyPress \in BOOLEAN
            /\ e.keyChanged /\ ~e.keyReleased => d.debouncedKeyPress /\ ~e.debouncedKeyPress
  BY DEF debounce, resetTimer

(* The interrupt leaves main where it was.                                 *)
LEMMA TickKeeps ==
  ASSUME IInv, NEW raw \in BOOLEAN, ReflectorTick(raw)
  PROVE  IInv'
<1>. DEFINE d == debounce(debouncer, raw)
            released == d.keyChanged /\ ~d.keyReleased
<1>1. /\ debouncer' = d
      /\ DOMAIN d = {"debouncedKeyPress", "count", "keyChanged", "keyReleased"}
      /\ d.debouncedKeyPress \in BOOLEAN
      /\ released => debouncer.debouncedKeyPress /\ ~d.debouncedKeyPress
  BY Debounced DEF IInv, ControlOK, ReflectorTick
<1>2. /\ MainOK' /\ main'.pc = main.pc /\ main'.case = main.case /\ ~main'.polled
      /\ main.polled \/ main.pc = "asleep"
  BY DEF IInv, ControlOK, MainOK, ReflectorTick, Stores
<1>3. /\ released => g_rw_state' = 0 /\ g_state' = NextState[g_state]
      /\ ~released => g_rw_state' = g_rw_state /\ g_state' = g_state
  BY DEF ReflectorTick
<1>. HIDE DEF d, released
<1>4. ControlOK'
  BY <1>1, <1>2, <1>3 DEF IInv, ControlOK, NextState
<1>5. ASSUME g_state' = "SILENCE" PROVE InSilence'
  BY <1>1, <1>2, <1>3, <1>5 DEF IInv, ControlOK, MainOK, NextState, InSilence, TwoSteps, OneStep
<1>6. ASSUME g_state' = "REFLECT" PROVE InReflect'
  <2>1. CASE released
    <3>1. g_state = "SILENCE"
      BY <2>1, <1>3, <1>6 DEF IInv, ControlOK, NextState
    <3>2. ~TwoSteps /\ ~OneStep
      BY <2>1, <3>1, <1>1, <1>2 DEF IInv, InSilence, TwoSteps, OneStep
    <3>. QED
      BY <2>1, <3>2, <1>2, <1>3 DEF InReflect, TwoSteps, OneStep
  <2>2. CASE ~released
    BY <2>2, <1>2, <1>3, <1>6 DEF IInv, InReflect, TwoSteps, OneStep
  <2>. QED
    BY <2>1, <2>2
<1>. QED
  BY <1>2, <1>3, <1>4, <1>5, <1>6 DEF IInv

(* What main's record is where it goes on.                                 *)
GoesTo(m, pc) ==
  /\ DOMAIN m = {"pc", "case", "a1", "empty", "polled"}
  /\ m.pc = pc /\ m.polled
  /\ m.case \in {"REFLECT", "REFLECT_SLOWLY"} \X (0 .. 3)

LEMMA GoesOn ==
  ASSUME MainOK
  PROVE  /\ \A pc : GoesTo(At(pc), pc)
         /\ \A n \in 0 .. 3 : GoesTo(Sets(n), "set") /\ Sets(n).case[2] = n
         /\ \A pc : GoesTo([At(pc) EXCEPT !.empty = TRUE], pc)
         /\ \A n \in 0 .. 3 : /\ GoesTo([Sets(n) EXCEPT !.empty = TRUE], "set")
                               /\ [Sets(n) EXCEPT !.empty = TRUE].case[2] = n
  BY DEF MainOK, At, Sets, GoesTo

(* What a step of main does to where it is, and that it takes it nearer to *)
(* the end of its pass of the loop.                                        *)
LEMMA MainKeeps ==
  ASSUME IInv, Main
  PROVE  IInv'
<1>1. UNCHANGED <<g_state, debouncer>>
  BY DEF Main
<1>2. CASE SwitchState
  <2>. main.pc = "loop" /\ g_rw_state' = g_rw_state
    BY <1>2 DEF SwitchState, Goes
  <2>1. MainOK' /\ main'.pc = (IF g_state = "SILENCE" THEN "asleep" ELSE "switch") /\ (g_state # "SILENCE" => main'.case[1] = g_state)
    BY <1>2 DEF SwitchState, Goes, At, IInv, ControlOK, MainOK, Pc
  <2>. QED
    BY <2>1, <1>1 DEF IInv, ControlOK, MainOK, InSilence, InReflect, TwoSteps, OneStep
<1>3. CASE Wake
  <2>1. MainOK' /\ main'.pc = "loop" /\ g_rw_state' = g_rw_state
    BY <1>3 DEF Wake, Goes, At, IInv, ControlOK, MainOK, Pc
  <2>. QED
    BY <2>1, <1>1 DEF IInv, ControlOK, InSilence, InReflect, TwoSteps, OneStep
<1>4. CASE SwitchRw
  <2>1. MainOK' /\ main'.pc \in {"case", "loop"} /\ g_rw_state' = g_rw_state /\ main.pc = "switch"
        /\ (main'.pc = "case" => main'.case = <<main.case[1], g_rw_state>>)
    BY <1>4 DEF SwitchRw, Goes, At, IInv, ControlOK, MainOK, Pc, Cases
  <2>. QED
    BY <2>1, <1>1 DEF IInv, ControlOK, MainOK, InSilence, InReflect, TwoSteps, OneStep
<1>5. CASE SetRw
  <2>1. MainOK' /\ main'.pc = "loop" /\ g_rw_state' = main.case[2] /\ main.pc = "set"
    BY <1>5 DEF SetRw, At, IInv, ControlOK, MainOK, Pc
  <2>. QED
    BY <2>1, <1>1 DEF IInv, ControlOK, MainOK, InSilence, InReflect, TwoSteps, OneStep
<1>6. CASE Reflect
  <2>. MainOK
    BY DEF IInv, ControlOK
  <2>1. /\ \E pc \in {"loop", "set", "reread", "write", "reset"} : GoesTo(main', pc)
        /\ (main'.pc = "set" => main'.case[2] \in 0 .. 2) /\ g_rw_state' = g_rw_state
    <3>. USE GoesOn DEF Goes, Calls, GoesTo
    <3>1. CASE Case("REFLECT", 0) /\ Reads(Sets(1))
      BY <3>1 DEF Reads
    <3>2. CASE Case("REFLECT", 1) /\ IfRead(At("reread"))
      BY <3>2 DEF IfRead
    <3>3. CASE main.pc = "reread" /\ Reads(At("write"))
      BY <3>3 DEF Reads
    <3>4. CASE main.pc = "write" /\ Writes(Sets(2))
      BY <3>4 DEF Writes
    <3>5. CASE Case("REFLECT", 2) /\ IfWritten(Sets(1))
      BY <3>5 DEF IfWritten
    <3>. QED
      BY <1>6, <3>1, <3>2, <3>3, <3>4, <3>5 DEF Reflect
  <2>2. MainOK' /\ main'.polled /\ main'.pc \in {"loop", "set", "reread", "write", "reset"}
    BY <2>1 DEF MainOK, GoesTo, Pc
  <2>. QED
    BY <2>1, <2>2, <1>1 DEF IInv, ControlOK, InSilence, InReflect, TwoSteps, OneStep
<1>7. CASE ReflectSlowly
  <2>. MainOK
    BY DEF IInv, ControlOK
  <2>1. /\ \E pc \in {"loop", "set", "reset"} : GoesTo(main', pc)
        /\ (main'.pc = "set" /\ main'.case[2] = 3 => TwoSteps) /\ g_rw_state' = g_rw_state
    <3>. USE GoesOn DEF Goes, Calls, GoesTo
    <3>1. CASE Case("REFLECT_SLOWLY", 0) /\ Reads(Sets(1))
      BY <3>1 DEF Reads
    <3>2. CASE Case("REFLECT_SLOWLY", 1) /\ IfRead(Sets(2))
      BY <3>2 DEF IfRead
    <3>3. CASE Case("REFLECT_SLOWLY", 2) /\ (Goes(At("loop")) \/ Writes(Sets(3)))
      BY <3>3 DEF Writes, Case, TwoSteps
    <3>4. CASE Case("REFLECT_SLOWLY", 3) /\ IfWritten(Sets(0))
      BY <3>4 DEF IfWritten
    <3>. QED
      BY <1>7, <3>1, <3>2, <3>3, <3>4 DEF ReflectSlowly
  <2>2. MainOK' /\ main'.polled /\ main'.pc \in {"loop", "set", "reset"}
    BY <2>1 DEF MainOK, GoesTo, Pc
  <2>. QED
    BY <2>1, <2>2, <1>1 DEF IInv, ControlOK, InSilence, InReflect, TwoSteps, OneStep
<1>8. CASE Resets
  <2>1. MainOK' /\ main'.pc = "loop" /\ g_rw_state' = g_rw_state
    BY <1>8 DEF Resets, Calls, At, IInv, ControlOK, MainOK, Pc
  <2>. QED
    BY <2>1, <1>1 DEF IInv, ControlOK, InSilence, InReflect, TwoSteps, OneStep
<1>. QED
  BY <1>2, <1>3, <1>4, <1>5, <1>6, <1>7, <1>8 DEF Main

(* A step of the harness, or of its interrupt, changes none of it.         *)
LEMMA Unchanged ==
  ASSUME IInv, UNCHANGED <<main, g_state, g_rw_state, debouncer>>
  PROVE  IInv'
  BY DEF IInv, ControlOK, MainOK, InSilence, InReflect, TwoSteps, OneStep

(* picolinkreflect.cpp:156 to 211 - the main loop never meets a state that *)
(* its switch has no case for, for any messages, timing and use of the     *)
(* button, as long as it takes a step between two interrupts.              *)
THEOREM ReflectorGoesOn == Spec => []NeverStuck
<1>1. IInv => NeverStuck
  <2>. SUFFICES ASSUME IInv, main.pc = "switch" PROVE <<main.case[1], g_rw_state>> \in Cases
    BY DEF NeverStuck
  <2>. QED
    BY DEF IInv, ControlOK, MainOK, Cases
<1>2. ASSUME IInv, [Next]_vars PROVE IInv'
  <2>1. CASE HarnessTick
    BY <1>2, <2>1, Unchanged DEF HarnessTick
  <2>2. CASE \E raw \in BOOLEAN : ReflectorTick(raw)
    BY <1>2, <2>2, TickKeeps
  <2>3. CASE Main
    BY <1>2, <2>3, MainKeeps
  <2>4. CASE Harness
    BY <1>2, <2>4, Unchanged
    DEF Harness, HarnessCalls, Send, Rst, WriteMessage, PollWrite, PollStatus, PollRead, ReadAgain
  <2>5. CASE UNCHANGED vars
    BY <1>2, <2>5, Unchanged DEF vars
  <2>. QED
    BY <1>2, <2>1, <2>2, <2>3, <2>4, <2>5 DEF Next
<1>. QED
  BY ControlInit, <1>1, <1>2, PTL DEF Spec
=============================================================================
