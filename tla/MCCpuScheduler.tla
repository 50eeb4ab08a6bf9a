--------------------------- MODULE MCCpuScheduler ---------------------------
(* The instances of CpuScheduler.                                          *)
EXTENDS CpuScheduler, TLC
CONSTANTS w1, w2, w3, c1, c2, m1, m2

(* w1 sends to w2 on c1, w2 answers on c2, and w3 is a third process, the  *)
(* one that keeps a list from being empty, or where w1 and w2 join.        *)
TwoReader == (c1 :> w2) @@ (c2 :> w1)
TwoWriter == (c1 :> w1) @@ (c2 :> w2)
Messages == Permutations(Message)
TwoThenOne == (c1 :> 2) @@ (c2 :> 1)
=============================================================================
