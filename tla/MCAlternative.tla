---------------------------- MODULE MCAlternative ----------------------------
(* The instance of Alternative: w1 sends on c1, w2 on c2, to an ALT of w3;*)
(* w2 has one of its own, of a skip and a time.                           *)
EXTENDS Alternative, TLC
CONSTANTS w1, w2, w3, c1, c2, m1, m2
BothToOne == (c1 :> w3) @@ (c2 :> w3)
TwoWriter == (c1 :> w1) @@ (c2 :> w2)
AltOfBoth == (w1 :> {}) @@ (w2 :> {"skip", "time"}) @@ (w3 :> {c1, c2})
TwoThenOne == (c1 :> 2) @@ (c2 :> 1)
=============================================================================
