-------------------------- MODULE MCLinkReflector --------------------------
(* The button is used up to three times when one byte has been asked for,  *)
(* so that the reflector is back where it began; and not at all with two,  *)
(* or with a byte and a reset of the harness's link.                       *)
EXTENDS LinkReflector

Messages == { << <<1>> >>, << <<1>>, <<0>> >> }
Presses == [n \in 0 .. 2 |-> IF n = 1 THEN 3 ELSE 0]
=============================================================================
