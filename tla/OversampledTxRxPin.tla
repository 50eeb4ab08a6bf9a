------------------------- MODULE OversampledTxRxPin -------------------------
(***************************************************************************)
(* Shared/gpioasynclink.cpp, OversampledTxRxPin: the receive half of a     *)
(* link samples its pin Samples times per bit, finds the middle of the     *)
(* bits from the first rising edge of a frame, and gives the majority of   *)
(* three samples to the DataAckReceiver as the bit.                        *)
(*                                                                         *)
(* The code's numbers are Samples = 16, VoteAt = 8 and DataBits = 8; they  *)
(* are constants here so that the same text is checked at the code's       *)
(* numbers and at smaller ones.                                            *)
(***************************************************************************)
EXTENDS Integers, Sequences

CONSTANTS
  Samples,    \* samples, and ticks of the link clock, in one bit
  VoteAt,     \* m_sample_index at which the last three samples are voted on
  DataBits    \* payload bits of a data frame

(* Three samples before the vote, as in the code, and at least one after it: *)
(* a stop bit is voted on before the frame's last tick, at which its sender  *)
(* may go on to another.                                                     *)
ASSUME PinAssumption ==
  /\ Samples \in Nat /\ VoteAt \in Nat /\ DataBits \in Nat \ {0}
  /\ 2 <= VoteAt /\ VoteAt + 1 < Samples

Bit == {0, 1}
NoVote == 2               \* getRx did not complete a bit

AckSamples == 2 * Samples                    \* an ack is 1 0
DataSamples == (DataBits + 3) * Samples      \* a data frame is 1 1 data 0

(* The pin: m_resync_in_samples, m_sample_index, the first two bits voted  *)
(* since the last edge that synchronised (of m_data_bits and its length    *)
(* the code looks at no more) and the last two samples of m_data_samples,  *)
(* the later of which is m_previous_rx.                                    *)
NewPin == [resync |-> 0, index |-> 0, votes |-> <<>>, past |-> <<0, 0>>]

Decremented(n) == IF n > 0 THEN n - 1 ELSE 0

Majority(a, b, c) == IF a + b + c >= 2 THEN 1 ELSE 0

(* getRx for the sample rx: the pin afterwards and the bit it gave to the  *)
(* receiver, or NoVote.                                                    *)
getRx(pin, rx) ==
  LET edge   == pin.resync = 0 /\ pin.past[2] = 0 /\ rx = 1
      index  == IF edge THEN 0 ELSE pin.index
      votes  == IF edge THEN <<>> ELSE pin.votes
      voting == index = VoteAt
      vote   == Majority(pin.past[1], pin.past[2], rx)
      resync == IF voting /\ votes = <<1>> /\ vote = 1
                THEN DataSamples - (Samples + VoteAt + 1) + 1
                ELSE IF edge THEN AckSamples ELSE pin.resync
  IN [ pin  |-> [ resync |-> Decremented(resync),
                  index  |-> (index + 1) % Samples,
                  votes  |-> IF voting /\ Len(votes) < 2 THEN Append(votes, vote)
                                                         ELSE votes,
                  past   |-> <<pin.past[2], rx>> ],
       vote |-> IF voting THEN vote ELSE NoVote ]

Pin == [ resync : 0 .. DataSamples,
         index  : 0 .. Samples - 1,
         votes  : {<<>>} \cup {<<b>> : b \in Bit} \cup (Bit \X Bit),
         past   : Bit \X Bit ]
=============================================================================
