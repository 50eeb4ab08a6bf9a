----------------------------- MODULE Debouncer -----------------------------
(***************************************************************************)
(* Pico/debouncer.cpp: a key's state, changed when the pin has been found  *)
(* the other way at enough checks in a row.                                *)
(***************************************************************************)
EXTENDS Naturals

CONSTANTS
  PressChecks,     \* pressMsec / checkMsec, 2
  ReleaseChecks    \* releaseMsec / checkMsec, 4

ASSUME DebouncerAssumption == PressChecks \in Nat \ {0} /\ ReleaseChecks \in Nat \ {0}

NewDebouncer ==
  [debouncedKeyPress |-> FALSE, count |-> ReleaseChecks, keyChanged |-> FALSE, keyReleased |-> FALSE]

resetTimer(d) == [d EXCEPT !.count = IF d.debouncedKeyPress THEN ReleaseChecks ELSE PressChecks]

(* debounce(rawPinState); --count is 0 when count was 1. *)
debounce(d, raw) ==
  LET same == [d EXCEPT !.keyChanged = FALSE, !.keyReleased = d.debouncedKeyPress]
  IN IF raw = d.debouncedKeyPress THEN resetTimer(same)
     ELSE IF d.count > 1 THEN [same EXCEPT !.count = @ - 1]
     ELSE resetTimer([same EXCEPT !.debouncedKeyPress = raw, !.keyChanged = TRUE, !.keyReleased = raw])
=============================================================================
