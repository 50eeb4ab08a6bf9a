---------------------------- MODULE ByteChannel ----------------------------
(***************************************************************************)
(* What one direction of a Link promises its two ends: a first-in          *)
(* first-out channel that holds at most one byte.  A byte is accepted      *)
(* only when the previous one has been taken, and the bytes taken are the  *)
(* bytes accepted, in order, each once.                                    *)
(*                                                                         *)
(* This is the abstract specification that InMemoryLink implements.        *)
(***************************************************************************)
EXTENDS Naturals, Sequences

CONSTANT Byte

VARIABLES
  accepted,   \* the bytes whose writeByte has been accepted, in order
  taken       \* the bytes that readByte has returned, in order

chanVars == <<accepted, taken>>

Init == /\ accepted = <<>>
        /\ taken = <<>>

Accept(b) == /\ Len(accepted) = Len(taken)
             /\ accepted' = Append(accepted, b)
             /\ UNCHANGED taken

Take == /\ Len(taken) < Len(accepted)
        /\ taken' = Append(taken, accepted[Len(accepted)])
        /\ UNCHANGED accepted

Next == Take \/ \E b \in Byte : Accept(b)

Spec == Init /\ [][Next]_chanVars
=============================================================================
