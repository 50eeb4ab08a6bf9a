------------------------ MODULE GPIOAsyncLinkProofs ------------------------
(***************************************************************************)
(* What the receiver at one end of a wire makes of the frames that the     *)
(* sender at the other end clocks out, for every number of samples in a    *)
(* bit, every sample that is voted on and every number of data bits.       *)
(*                                                                         *)
(* InStep relates a sender to a receiver that has sampled all that the     *)
(* sender has driven.  It holds from tick to tick (InStepTick), whatever   *)
(* frames follow one another and however long the wire is idle between.    *)
(* Then: that the members of a link keep their types; which bytes the      *)
(* receiver has when the sender starts a frame (SenderOK, Received); and   *)
(* what each call of the API does to those.                                *)
(***************************************************************************)
EXTENDS GPIOAsyncLink, SequenceTheorems, TLAPS

(* The members of a link that are the receiver's.                          *)
Receiver ==
  [ rstate : {"IDLE", "START_BIT_2", "DATA", "STOP_BIT"}, buffer : Seq(Bit), pin : Pin,
    received : Seq(Byte), framing : BOOLEAN, acks : 0 .. AckBound ]

Rx(l) == [ rstate |-> l.rstate, buffer |-> l.buffer, pin |-> l.pin,
           received |-> l.received, framing |-> l.framing, acks |-> l.acks ]

(* What bitStateReceived and receiverClock do to those members alone.      *)
Heard(r, bit) ==
  CASE r.rstate = "IDLE" -> [r EXCEPT !.rstate = IF bit = 1 THEN "START_BIT_2" ELSE @]
    [] r.rstate = "START_BIT_2" /\ bit = 1 -> [r EXCEPT !.rstate = "DATA", !.buffer = <<>>]
    [] r.rstate = "START_BIT_2" /\ bit = 0 ->
         [r EXCEPT !.rstate = "IDLE", !.acks = IF @ < AckBound THEN @ + 1 ELSE @]
    [] r.rstate = "DATA" ->
         LET buffer == Append(r.buffer, bit)
         IN [r EXCEPT !.buffer = buffer,
                      !.rstate = IF Len(buffer) = DataBits THEN "STOP_BIT" ELSE @]
    [] r.rstate = "STOP_BIT" /\ bit = 1 -> [r EXCEPT !.rstate = "IDLE", !.framing = TRUE]
    [] OTHER -> [r EXCEPT !.rstate = "IDLE", !.received = Append(@, r.buffer)]

Hear(r, rx) ==
  LET sampled == getRx(r.pin, rx)
      s       == [r EXCEPT !.pin = sampled.pin]
  IN IF sampled.vote = NoVote THEN s ELSE Heard(s, sampled.vote)

-----------------------------------------------------------------------------
(* The bits of a data frame.                                               *)
FrameBit(b, k) == IF k <= 2 THEN 1 ELSE IF k <= DataBits + 2 THEN b[k - 2] ELSE 0

LEMMA FrameFacts ==
  ASSUME NEW b \in Byte
  PROVE  /\ DataFrame(b) \in Seq(Bit) /\ Len(DataFrame(b)) = DataBits + 3
         /\ \A k \in 1 .. DataBits + 3 : DataFrame(b)[k] = FrameBit(b, k)
<1>1. b \in Seq(Bit) /\ Len(b) = DataBits
  BY PinAssumption DEF Byte
<1>2. <<1, 1>> \in Seq(Bit) /\ Len(<<1, 1>>) = 2 /\ <<0>> \in Seq(Bit) /\ Len(<<0>>) = 1
  BY DEF Bit
<1>3. /\ <<1, 1>> \o b \in Seq(Bit) /\ Len(<<1, 1>> \o b) = DataBits + 2
      /\ \A k \in 1 .. DataBits + 2 : (<<1, 1>> \o b)[k] = IF k <= 2 THEN 1 ELSE b[k - 2]
  BY <1>1, <1>2, ConcatProperties, PinAssumption
<1>. QED
  BY <1>1, <1>2, <1>3, ConcatProperties, PinAssumption DEF DataFrame, FrameBit

(* The bits voted on of a frame of which n are done with.                  *)
Voted(s, n) == n + (IF s.sampleCount > VoteAt THEN 1 ELSE 0)

(* The last byte put into a frame.                                         *)
Current(s) == s.framed[Len(s.framed)]

Quiet(r) == r.rstate = "IDLE" /\ r.pin.resync = 0 /\ r.pin.past = <<0, 0>>

(* The receiver's samples of the bit being sent.                           *)
Sampled(s, r) ==
  /\ r.pin.index = s.sampleCount
  /\ s.sampleCount >= 1 => r.pin.past[2] = s.data[1]
  /\ s.sampleCount >= 2 => r.pin.past[1] = s.data[1]

AckInStep(s, r, level) ==
  LET v == Voted(s, 2 - Len(s.data))
  IN /\ s.data \in {<<1, 0>>, <<0>>}
     /\ IF s.data = <<1, 0>> /\ s.sampleCount = 0 THEN level = 0 /\ Quiet(r)
        ELSE /\ Sampled(s, r)
             /\ r.pin.resync = Len(s.data) * Samples - s.sampleCount
             /\ v = 0 => r.pin.votes = <<>> /\ r.rstate = "IDLE"
             /\ v = 1 => r.pin.votes = <<1>> /\ r.rstate = "START_BIT_2"
             /\ v = 2 => r.pin.votes = <<1, 0>> /\ r.rstate = "IDLE"

(* What the receiver has of the frame of b when it has voted on v bits.     *)
DataStage(r, b, v) ==
  /\ v = 0 => r.pin.votes = <<>> /\ r.rstate = "IDLE"
  /\ v = 1 => r.pin.votes = <<1>> /\ r.rstate = "START_BIT_2"
  /\ v >= 2 => Len(r.pin.votes) = 2
  /\ v \in 2 .. DataBits + 1 => /\ r.rstate = "DATA" /\ Len(r.buffer) = v - 2
                                /\ \A k \in 1 .. v - 2 : r.buffer[k] = b[k]
  /\ v = DataBits + 2 => r.rstate = "STOP_BIT" /\ r.buffer = b
  /\ v = DataBits + 3 => r.rstate = "IDLE"

(* Until its second vote the receiver takes a data frame for an ack.       *)
DataInStep(s, r, level) ==
  LET b == Current(s)
      i == DataBits + 3 - Len(s.data)
      v == Voted(s, i)
  IN /\ s.framed # <<>> /\ Len(s.data) \in 1 .. DataBits + 3
     /\ \A k \in 1 .. Len(s.data) : s.data[k] = FrameBit(b, i + k)
     /\ IF v < DataBits + 3 THEN Append(r.received, b) = s.framed ELSE r.received = s.framed
     /\ IF i = 0 /\ s.sampleCount = 0 THEN level = 0 /\ Quiet(r)
        ELSE /\ Sampled(s, r) /\ DataStage(r, b, v)
             /\ r.pin.resync = (IF v < 2 THEN 2 - i ELSE Len(s.data)) * Samples - s.sampleCount

InStep(s, r, level) ==
  /\ ~r.framing
  /\ ~Sending(s) => level = 0 /\ Quiet(r) /\ r.received = s.framed
  /\ s.state = "SENDING_ACK" => AckInStep(s, r, level) /\ r.received = s.framed
  /\ s.state = "SENDING_DATA" => DataInStep(s, r, level)

-----------------------------------------------------------------------------
(* What a sender may do to the frame it is sending: at a tick; and when a  *)
(* frame may be started.                                                   *)
SameFrame(s, m) ==
  m.state = s.state /\ m.data = s.data /\ m.sampleCount = s.sampleCount /\ m.framed = s.framed

NextFrame(s, m) ==
  \/ m.state \in {"IDLE", "ACK_TIMEOUT"} /\ m.framed = s.framed
  \/ /\ m.state = "SENDING_ACK" /\ m.data = AckFrame /\ m.sampleCount = 0 /\ m.framed = s.framed
  \/ \E b \in Byte : /\ m.state = "SENDING_DATA" /\ m.data = DataFrame(b) /\ m.sampleCount = 0
                     /\ m.framed = Append(s.framed, b)

TickOfFrame(s, m) ==
  \/ ~Sending(s) /\ SameFrame(s, m)
  \/ /\ Sending(s) /\ s.sampleCount + 1 < Samples
     /\ m.state = s.state /\ m.data = s.data /\ m.framed = s.framed
     /\ m.sampleCount = s.sampleCount + 1
  \/ /\ Sending(s) /\ s.sampleCount + 1 = Samples /\ Len(s.data) > 1
     /\ m.state = s.state /\ m.data = Tail(s.data) /\ m.framed = s.framed
     /\ m.sampleCount = 0
  \/ Sending(s) /\ s.sampleCount + 1 = Samples /\ Len(s.data) = 1 /\ NextFrame(s, m)

-----------------------------------------------------------------------------
(* A sample, by where it falls.                                            *)
LEMMA NextIndex ==
  ASSUME NEW i \in 0 .. Samples - 1
  PROVE  (i + 1) % Samples = IF i + 1 = Samples THEN 0 ELSE i + 1
<1>1. CASE i + 1 = Samples
  BY <1>1, PinAssumption
<1>2. CASE i + 1 < Samples
  BY <1>2, PinAssumption
<1>. QED
  BY <1>1, <1>2, PinAssumption

LEMMA Pair ==
  ASSUME NEW a \in Bit, NEW b \in Bit
  PROVE  Append(<<a>>, b) = <<a, b>>
<1>1. <<a>> \in Seq(Bit) /\ Len(<<a>>) = 1 /\ <<a, b>> \in Seq(Bit) /\ Len(<<a, b>>) = 2
  OBVIOUS
<1>2. /\ Append(<<a>>, b) \in Seq(Bit) /\ Len(Append(<<a>>, b)) = 2
      /\ Append(<<a>>, b)[1] = a /\ Append(<<a>>, b)[2] = b
  BY <1>1, AppendProperties
<1>3. \A i \in 1 .. 2 : Append(<<a>>, b)[i] = <<a, b>>[i]
  BY <1>2
<1>. QED
  BY <1>1, <1>2, <1>3, SeqEqual

LEMMA VoteAppended ==
  ASSUME NEW v \in {<<>>} \cup {<<b>> : b \in Bit} \cup (Bit \X Bit), NEW b \in Bit, Len(v) < 2
  PROVE  Append(v, b) \in {<<>>} \cup {<<c>> : c \in Bit} \cup (Bit \X Bit)
<1>1. CASE v = <<>>
  BY <1>1
<1>2. ASSUME NEW c \in Bit, v = <<c>> PROVE Append(v, b) = <<c, b>>
  BY <1>2, Pair
<1>3. ASSUME NEW a \in Bit, NEW c \in Bit, v = <<a, c>> PROVE FALSE
  BY <1>3
<1>. QED
  BY <1>1, <1>2, <1>3

LEMMA RxType ==
  ASSUME NEW pin \in Pin, NEW rx \in Bit
  PROVE  getRx(pin, rx).pin \in Pin /\ getRx(pin, rx).vote \in {0, 1, NoVote}
<1>. DEFINE edge   == pin.resync = 0 /\ pin.past[2] = 0 /\ rx = 1
            index  == IF edge THEN 0 ELSE pin.index
            votes  == IF edge THEN <<>> ELSE pin.votes
            voting == index = VoteAt
            vote   == Majority(pin.past[1], pin.past[2], rx)
            resync == IF voting /\ votes = <<1>> /\ vote = 1
                      THEN DataSamples - (Samples + VoteAt + 1) + 1
                      ELSE IF edge THEN AckSamples ELSE pin.resync
<1>1. /\ pin.resync \in 0 .. DataSamples /\ pin.index \in 0 .. Samples - 1
      /\ pin.votes \in {<<>>} \cup {<<b>> : b \in Bit} \cup (Bit \X Bit)
      /\ pin.past \in Bit \X Bit
  BY DEF Pin
<1>2. vote \in Bit /\ pin.past[1] \in Bit /\ pin.past[2] \in Bit
  BY <1>1 DEF Majority, Bit
<1>3. index \in 0 .. Samples - 1
  BY <1>1, PinAssumption
<1>4. (index + 1) % Samples \in 0 .. Samples - 1
  BY <1>3, NextIndex, PinAssumption
<1>5. DataSamples = DataBits * Samples + 3 * Samples /\ DataBits * Samples \in Nat
  BY PinAssumption DEF DataSamples
<1>6. resync \in 0 .. DataSamples
  <2>1. resync \in {DataSamples - (Samples + VoteAt + 1) + 1, AckSamples, pin.resync}
    OBVIOUS
  <2>. HIDE DEF resync
  <2>. QED
    <3>. DEFINE d == DataBits * Samples
    <3>1. d \in Nat /\ DataSamples = d + 3 * Samples
      BY <1>5
    <3>2. Samples \in Nat /\ VoteAt \in Nat /\ VoteAt + 1 < Samples
      BY PinAssumption
    <3>. HIDE DEF d
    <3>3. DataSamples - (Samples + VoteAt + 1) + 1 \in 0 .. DataSamples
      BY <3>1, <3>2
    <3>4. AckSamples \in 0 .. DataSamples
      BY <3>1, <3>2 DEF AckSamples
    <3>. QED
      BY <1>1, <2>1, <3>3, <3>4
<1>7. Decremented(resync) \in 0 .. DataSamples
  <2>. HIDE DEF resync
  <2>. QED
    BY <1>6, <1>5, PinAssumption DEF Decremented
<1>8. (IF voting /\ Len(votes) < 2 THEN Append(votes, vote) ELSE votes)
         \in {<<>>} \cup {<<b>> : b \in Bit} \cup (Bit \X Bit)
  <2>1. votes \in {<<>>} \cup {<<b>> : b \in Bit} \cup (Bit \X Bit)
    BY <1>1
  <2>. HIDE DEF votes, voting, vote
  <2>. QED
    BY <1>2, <2>1, VoteAppended
<1>9. <<pin.past[2], rx>> \in Bit \X Bit
  BY <1>2
<1>. QED
  BY <1>2, <1>4, <1>7, <1>8, <1>9 DEF getRx, Pin, Bit

LEMMA RxQuiet ==
  ASSUME NEW pin \in Pin, pin.resync = 0, pin.past = <<0, 0>>
  PROVE  /\ getRx(pin, 0).pin.resync = 0 /\ getRx(pin, 0).pin.past = <<0, 0>>
         /\ getRx(pin, 0).vote \in {0, NoVote}
BY PinAssumption DEF Pin, getRx, Majority, Decremented, Bit

LEMMA RxEdge ==
  ASSUME NEW pin \in Pin, pin.resync = 0, pin.past = <<0, 0>>
  PROVE  /\ getRx(pin, 1).pin = [ resync |-> 2 * Samples - 1, index |-> 1, votes |-> <<>>,
                                  past |-> <<0, 1>> ]
         /\ getRx(pin, 1).vote = NoVote
<1>1. (0 + 1) % Samples = 1
  BY NextIndex, PinAssumption
<1>. QED
  BY <1>1, PinAssumption DEF Pin, getRx, Decremented, AckSamples

LEMMA RxBetween ==
  ASSUME NEW pin \in Pin, NEW rx \in Bit, pin.resync > 0, pin.index # VoteAt
  PROVE  /\ getRx(pin, rx).pin =
              [ resync |-> pin.resync - 1,
                index |-> IF pin.index + 1 = Samples THEN 0 ELSE pin.index + 1,
                votes |-> pin.votes, past |-> <<pin.past[2], rx>> ]
         /\ getRx(pin, rx).vote = NoVote
<1>1. pin.index \in 0 .. Samples - 1 /\ pin.resync \in Nat
  BY PinAssumption DEF Pin
<1>2. (pin.index + 1) % Samples = IF pin.index + 1 = Samples THEN 0 ELSE pin.index + 1
  BY <1>1, NextIndex
<1>. QED
  BY <1>1, <1>2, PinAssumption DEF getRx, Decremented

LEMMA RxVote ==
  ASSUME NEW pin \in Pin, NEW rx \in Bit, pin.resync > 0, pin.index = VoteAt, pin.past = <<rx, rx>>
  PROVE  /\ getRx(pin, rx).pin =
              [ resync |-> IF pin.votes = <<1>> /\ rx = 1
                           THEN DataSamples - (Samples + VoteAt + 1) ELSE pin.resync - 1,
                index |-> VoteAt + 1,
                votes |-> IF Len(pin.votes) < 2 THEN Append(pin.votes, rx) ELSE pin.votes,
                past |-> <<rx, rx>> ]
         /\ getRx(pin, rx).vote = rx
<1>1. pin.index \in 0 .. Samples - 1 /\ pin.resync \in Nat
  BY PinAssumption DEF Pin
<1>2. (pin.index + 1) % Samples = VoteAt + 1
  BY <1>1, NextIndex, PinAssumption
<1>3. Majority(rx, rx, rx) = rx
  BY DEF Majority, Bit
<1>4. DataSamples - (Samples + VoteAt + 1) + 1 > 0 /\ DataSamples \in Nat
  <2>1. DataSamples = DataBits * Samples + 3 * Samples /\ DataBits * Samples \in Nat
    BY PinAssumption DEF DataSamples
  <2>. QED
    BY <2>1, PinAssumption
<1>. DEFINE resync == IF pin.votes = <<1>> /\ rx = 1
                      THEN DataSamples - (Samples + VoteAt + 1) + 1 ELSE pin.resync
<1>5. Decremented(resync) = IF pin.votes = <<1>> /\ rx = 1
                            THEN DataSamples - (Samples + VoteAt + 1) ELSE pin.resync - 1
  BY <1>1, <1>4, PinAssumption DEF Decremented
<1>6. /\ getRx(pin, rx).pin =
           [ resync |-> Decremented(resync), index |-> (VoteAt + 1) % Samples,
             votes |-> IF Len(pin.votes) < 2 THEN Append(pin.votes, rx) ELSE pin.votes,
             past |-> <<rx, rx>> ]
      /\ getRx(pin, rx).vote = rx
  BY <1>3 DEF getRx
<1>. QED
  BY <1>1, <1>2, <1>5, <1>6
-----------------------------------------------------------------------------
(* The receiver's side of a tick.                                          *)
LEMMA HeardIs ==
  ASSUME NEW r, NEW bit \in Bit
  PROVE  /\ r.rstate = "IDLE" =>
              Heard(r, bit) = [r EXCEPT !.rstate = IF bit = 1 THEN "START_BIT_2" ELSE r.rstate]
         /\ r.rstate = "START_BIT_2" /\ bit = 1 =>
              Heard(r, bit) = [r EXCEPT !.rstate = "DATA", !.buffer = <<>>]
         /\ r.rstate = "START_BIT_2" /\ bit = 0 =>
              Heard(r, bit) = [r EXCEPT !.rstate = "IDLE",
                                        !.acks = IF r.acks < AckBound THEN r.acks + 1 ELSE r.acks]
         /\ r.rstate = "DATA" =>
              Heard(r, bit) =
                [r EXCEPT !.buffer = Append(r.buffer, bit),
                          !.rstate = IF Len(Append(r.buffer, bit)) = DataBits THEN "STOP_BIT" ELSE r.rstate]
         /\ r.rstate = "STOP_BIT" /\ bit = 1 =>
              Heard(r, bit) = [r EXCEPT !.rstate = "IDLE", !.framing = TRUE]
         /\ r.rstate = "STOP_BIT" /\ bit = 0 =>
              Heard(r, bit) = [r EXCEPT !.rstate = "IDLE", !.received = Append(r.received, r.buffer)]
BY DEF Heard, Bit

LEMMA HeardBits ==
  ASSUME NEW r
  PROVE  /\ r.rstate = "IDLE" => Heard(r, 1) = [r EXCEPT !.rstate = "START_BIT_2"]
         /\ r.rstate = "START_BIT_2" => Heard(r, 1) = [r EXCEPT !.rstate = "DATA", !.buffer = <<>>]
         /\ r.rstate = "START_BIT_2" =>
              Heard(r, 0) = [r EXCEPT !.rstate = "IDLE",
                                      !.acks = IF r.acks < AckBound THEN r.acks + 1 ELSE r.acks]
         /\ r.rstate = "STOP_BIT" =>
              Heard(r, 0) = [r EXCEPT !.rstate = "IDLE", !.received = Append(r.received, r.buffer)]
BY HeardIs DEF Bit

LEMMA HeardType ==
  ASSUME NEW r \in Receiver, NEW bit \in Bit, r.rstate = "STOP_BIT" => Len(r.buffer) = DataBits
  PROVE  Heard(r, bit) \in Receiver
<1>1. CASE r.rstate = "IDLE"
  <2>1. (IF bit = 1 THEN "START_BIT_2" ELSE r.rstate) \in {"IDLE", "START_BIT_2"}
    BY <1>1
  <2>2. \A x \in {"IDLE", "START_BIT_2"} : [r EXCEPT !.rstate = x] \in Receiver
    BY DEF Receiver
  <2>3. Heard(r, bit) = [r EXCEPT !.rstate = IF bit = 1 THEN "START_BIT_2" ELSE r.rstate]
    BY <1>1, HeardIs
  <2>. QED
    BY <2>1, <2>2, <2>3
<1>2. CASE r.rstate = "START_BIT_2"
  <2>1. (IF r.acks < AckBound THEN r.acks + 1 ELSE r.acks) \in 0 .. AckBound
    BY LinkAssumption DEF Receiver
  <2>2. <<>> \in Seq(Bit)
    OBVIOUS
  <2>3. /\ [r EXCEPT !.rstate = "DATA", !.buffer = <<>>] \in Receiver
        /\ [r EXCEPT !.rstate = "IDLE",
                     !.acks = IF r.acks < AckBound THEN r.acks + 1 ELSE r.acks] \in Receiver
    BY <2>1, <2>2 DEF Receiver
  <2>. QED
    BY <1>2, <2>3, HeardIs DEF Bit
<1>3. CASE r.rstate = "DATA"
  <2>1. Append(r.buffer, bit) \in Seq(Bit)
    BY DEF Receiver
  <2>2. (IF Len(Append(r.buffer, bit)) = DataBits THEN "STOP_BIT" ELSE r.rstate) \in {"DATA", "STOP_BIT"}
    BY <1>3
  <2>3. [r EXCEPT !.buffer = Append(r.buffer, bit),
                  !.rstate = IF Len(Append(r.buffer, bit)) = DataBits THEN "STOP_BIT" ELSE r.rstate]
          \in Receiver
    BY <2>1, <2>2 DEF Receiver
  <2>. QED
    <3>1. Heard(r, bit) =
            [r EXCEPT !.buffer = Append(r.buffer, bit),
                      !.rstate = IF Len(Append(r.buffer, bit)) = DataBits THEN "STOP_BIT" ELSE r.rstate]
      BY <1>3, HeardIs
    <3>. QED
      BY <2>3, <3>1
<1>4. CASE r.rstate = "STOP_BIT"
  <2>1. r.buffer \in Byte
    BY <1>4 DEF Receiver, Byte
  <2>2. Append(r.received, r.buffer) \in Seq(Byte)
    BY <2>1 DEF Receiver
  <2>3. /\ [r EXCEPT !.rstate = "IDLE", !.framing = TRUE] \in Receiver
        /\ [r EXCEPT !.rstate = "IDLE", !.received = Append(r.received, r.buffer)] \in Receiver
    BY <2>2 DEF Receiver
  <2>. QED
    BY <1>4, <2>3, HeardIs DEF Bit
<1>. QED
  BY <1>1, <1>2, <1>3, <1>4 DEF Receiver

LEMMA HearType ==
  ASSUME NEW r \in Receiver, NEW rx \in Bit, r.rstate = "STOP_BIT" => Len(r.buffer) = DataBits
  PROVE  Hear(r, rx) \in Receiver
<1>1. r.pin \in Pin
  BY DEF Receiver
<1>2. [r EXCEPT !.pin = getRx(r.pin, rx).pin] \in Receiver
  BY <1>1, RxType DEF Receiver
<1>3. \A bit \in Bit : Heard([r EXCEPT !.pin = getRx(r.pin, rx).pin], bit) \in Receiver
  BY <1>2, HeardType DEF Receiver
<1>. QED
  BY <1>1, <1>2, <1>3, RxType DEF Hear, Bit

LEMMA HearQuiet ==
  ASSUME NEW r \in Receiver, Quiet(r)
  PROVE  /\ Quiet(Hear(r, 0))
         /\ Hear(r, 0).received = r.received /\ Hear(r, 0).framing = r.framing
         /\ Hear(r, 0).acks = r.acks
<1>1. /\ getRx(r.pin, 0).pin.resync = 0 /\ getRx(r.pin, 0).pin.past = <<0, 0>>
      /\ getRx(r.pin, 0).vote \in {0, NoVote}
  BY RxQuiet DEF Receiver, Quiet
<1>2. CASE getRx(r.pin, 0).vote = NoVote
  BY <1>1, <1>2 DEF Hear, Quiet, Receiver
<1>3. CASE getRx(r.pin, 0).vote = 0
  <2>1. Hear(r, 0) = Heard([r EXCEPT !.pin = getRx(r.pin, 0).pin], 0)
    BY <1>3 DEF Hear, NoVote
  <2>. DEFINE q == [r EXCEPT !.pin = getRx(r.pin, 0).pin]
  <2>2. /\ q \in Receiver /\ q.rstate = "IDLE" /\ q.pin = getRx(r.pin, 0).pin
        /\ q.received = r.received /\ q.framing = r.framing /\ q.acks = r.acks
    <3>1. r.pin \in Pin
      BY DEF Receiver
    <3>2. getRx(r.pin, 0).pin \in Pin
      BY <3>1, RxType DEF Bit
    <3>. QED
      BY <3>2 DEF Quiet, Receiver
  <2>. HIDE DEF q
  <2>3. Hear(r, 0) = Heard(q, 0) /\ 0 \in Bit
    BY <2>1 DEF q, Bit
  <2>4. Heard(q, 0) = [q EXCEPT !.rstate = IF 0 = 1 THEN "START_BIT_2" ELSE q.rstate]
    BY <2>2, <2>3, HeardIs
  <2>. QED
    BY <1>1, <2>2, <2>3, <2>4 DEF Quiet, Receiver
<1>. QED
  BY <1>1, <1>2, <1>3

LEMMA HearEdge ==
  ASSUME NEW r \in Receiver, Quiet(r)
  PROVE  Hear(r, 1) = [r EXCEPT !.pin = [ resync |-> 2 * Samples - 1, index |-> 1,
                                          votes |-> <<>>, past |-> <<0, 1>> ]]
BY RxEdge DEF Receiver, Quiet, Hear

LEMMA HearBetween ==
  ASSUME NEW r \in Receiver, NEW rx \in Bit, r.pin.resync > 0, r.pin.index # VoteAt
  PROVE  Hear(r, rx) =
           [r EXCEPT !.pin = [ resync |-> r.pin.resync - 1,
                               index |-> IF r.pin.index + 1 = Samples THEN 0 ELSE r.pin.index + 1,
                               votes |-> r.pin.votes, past |-> <<r.pin.past[2], rx>> ]]
BY RxBetween DEF Receiver, Hear

LEMMA HearVote ==
  ASSUME NEW r \in Receiver, NEW rx \in Bit, r.pin.resync > 0, r.pin.index = VoteAt,
         r.pin.past = <<rx, rx>>
  PROVE  Hear(r, rx) =
           Heard([r EXCEPT !.pin =
             [ resync |-> IF r.pin.votes = <<1>> /\ rx = 1
                          THEN DataSamples - (Samples + VoteAt + 1) ELSE r.pin.resync - 1,
               index |-> VoteAt + 1,
               votes |-> IF Len(r.pin.votes) < 2 THEN Append(r.pin.votes, rx) ELSE r.pin.votes,
               past |-> <<rx, rx>> ]], rx)
<1>1. rx # NoVote
  BY DEF Bit, NoVote
<1>. QED
  BY <1>1, RxVote DEF Receiver, Hear

-----------------------------------------------------------------------------
(* A frame is started while the wire is quiet.                             *)
LEMMA InStepSame ==
  ASSUME NEW s, NEW m, NEW r, NEW level, SameFrame(s, m), InStep(s, r, level)
  PROVE  InStep(m, r, level)
BY DEF SameFrame, InStep, Sending, AckInStep, DataInStep, Sampled, Voted, Current

LEMMA InStepNext ==
  ASSUME NEW s \in Link, NEW m, NEW r \in Receiver, NextFrame(s, m),
         ~r.framing, Quiet(r), r.received = s.framed
  PROVE  InStep(m, r, 0)
<1>1. CASE m.state \in {"IDLE", "ACK_TIMEOUT"} /\ m.framed = s.framed
  BY <1>1 DEF InStep, Sending
<1>2. CASE /\ m.state = "SENDING_ACK" /\ m.data = AckFrame /\ m.sampleCount = 0
           /\ m.framed = s.framed
  BY <1>2 DEF InStep, Sending, AckInStep, AckFrame
<1>3. ASSUME NEW b \in Byte, m.state = "SENDING_DATA", m.data = DataFrame(b),
             m.sampleCount = 0, m.framed = Append(s.framed, b)
      PROVE  InStep(m, r, 0)
  <2>1. s.framed \in Seq(Byte)
    BY DEF Link
  <2>2. m.framed # <<>> /\ Current(m) = b
    BY <1>3, <2>1 DEF Current
  <2>3. Voted(m, 0) = 0
    BY <1>3, PinAssumption DEF Voted
  <2>4. Len(m.data) = DataBits + 3 /\ \A k \in 1 .. Len(m.data) : m.data[k] = FrameBit(b, k)
    BY <1>3, FrameFacts
  <2>. DEFINE i == DataBits + 3 - Len(m.data)
  <2>5. i = 0
    BY <2>4, PinAssumption
  <2>6. DataInStep(m, r, 0)
    BY <1>3, <2>2, <2>3, <2>4, <2>5, PinAssumption DEF DataInStep
  <2>. QED
    BY <1>3, <2>6 DEF InStep, Sending
<1>. QED
  BY <1>1, <1>2, <1>3 DEF NextFrame
-----------------------------------------------------------------------------
(* A tick of an ack frame.                                                 *)
LEMMA VotedRange ==
  ASSUME NEW s, NEW n \in Int
  PROVE  Voted(s, n) = n \/ Voted(s, n) = n + 1
BY DEF Voted

LEMMA DataStays ==
  ASSUME NEW m, NEW r, NEW q, NEW level, m.state = "SENDING_DATA",
         ~r.framing, q.framing = r.framing, DataInStep(m, q, level)
  PROVE  InStep(m, q, level)
<1>1. ~q.framing
  OBVIOUS
<1>2. Sending(m) /\ m.state # "SENDING_ACK"
  BY DEF Sending
<1>. QED
  BY <1>1, <1>2 DEF InStep

LEMMA AckStays ==
  ASSUME NEW s, NEW m, NEW r, NEW q, NEW level, m.state = "SENDING_ACK", m.framed = s.framed,
         ~r.framing, r.received = s.framed, q.received = r.received, q.framing = r.framing,
         AckInStep(m, q, level)
  PROVE  InStep(m, q, level)
<1>1. ~q.framing
  OBVIOUS
<1>2. Sending(m) /\ m.state # "SENDING_DATA"
  BY DEF Sending
<1>. QED
  BY <1>1, <1>2 DEF InStep

LEMMA AckTick ==
  ASSUME NEW s \in Link, NEW m, NEW r \in Receiver, NEW level,
         s.state = "SENDING_ACK", InStep(s, r, level), TickOfFrame(s, m)
  PROVE  InStep(m, Hear(r, s.data[1]), s.data[1])
<1>. DEFINE rx == s.data[1]
            q  == Hear(r, rx)
            c  == s.sampleCount
<1>. SUFFICES InStep(m, q, rx)
  OBVIOUS
<1>1. /\ ~r.framing /\ AckInStep(s, r, level) /\ r.received = s.framed
      /\ Sending(s) /\ c \in 0 .. Samples - 1 /\ rx \in Bit
      /\ s.data \in {<<1, 0>>, <<0>>}
  BY DEF InStep, AckInStep, Sending, Link, Bit
<1>2. /\ Len(<<1, 0>>) = 2 /\ Len(<<0>>) = 1 /\ <<1, 0>>[1] = 1 /\ <<0>>[1] = 0
      /\ Tail(<<1, 0>>) = <<0>> /\ <<1, 0>> # <<0>>
  OBVIOUS
<1>3. CASE s.data = <<1, 0>> /\ c = 0
  <2>1. Quiet(r) /\ rx = 1
    BY <1>1, <1>2, <1>3 DEF AckInStep
  <2>2. q = [r EXCEPT !.pin = [ resync |-> 2 * Samples - 1, index |-> 1,
                                votes |-> <<>>, past |-> <<0, 1>> ]]
    BY <2>1, HearEdge
  <2>3. /\ m.state = "SENDING_ACK" /\ m.data = s.data /\ m.framed = s.framed
        /\ m.sampleCount = 1
    BY <1>1, <1>3, PinAssumption DEF TickOfFrame
  <2>4. /\ q.pin = [ resync |-> 2 * Samples - 1, index |-> 1, votes |-> <<>>, past |-> <<0, 1>> ]
        /\ q.rstate = "IDLE" /\ q.received = r.received /\ q.framing = r.framing
    BY <2>1, <2>2 DEF Receiver, Quiet
  <2>. HIDE DEF q
  <2>5. AckInStep(m, q, rx)
    BY <1>2, <1>3, <2>1, <2>3, <2>4, PinAssumption DEF AckInStep, Voted, Sampled
  <2>. QED
    BY <1>1, <2>3, <2>4, <2>5, AckStays
<1>4. ASSUME ~(s.data = <<1, 0>> /\ c = 0)
      PROVE  /\ Sampled(s, r) /\ r.pin.resync = Len(s.data) * Samples - c /\ r.pin.resync > 0
             /\ Voted(s, 2 - Len(s.data)) = 0 => r.pin.votes = <<>> /\ r.rstate = "IDLE"
             /\ Voted(s, 2 - Len(s.data)) = 1 => r.pin.votes = <<1>> /\ r.rstate = "START_BIT_2"
             /\ Voted(s, 2 - Len(s.data)) = 2 => r.pin.votes = <<1, 0>> /\ r.rstate = "IDLE"
  BY <1>1, <1>2, <1>4, PinAssumption DEF AckInStep
<1>5. CASE ~(s.data = <<1, 0>> /\ c = 0) /\ c # VoteAt
  <2>1. q = [r EXCEPT !.pin = [ resync |-> r.pin.resync - 1,
                                index |-> IF r.pin.index + 1 = Samples THEN 0 ELSE r.pin.index + 1,
                                votes |-> r.pin.votes, past |-> <<r.pin.past[2], rx>> ]]
    BY <1>1, <1>4, <1>5, HearBetween DEF Sampled
  <2>2. /\ q.pin = [ resync |-> r.pin.resync - 1,
                     index |-> IF c + 1 = Samples THEN 0 ELSE c + 1,
                     votes |-> r.pin.votes, past |-> <<r.pin.past[2], rx>> ]
        /\ q.rstate = r.rstate /\ q.received = r.received /\ q.framing = r.framing
        /\ q \in Receiver
    <3>1. Voted(s, 2 - Len(s.data)) \in 0 .. 2
      <4>1. CASE s.data = <<1, 0>>
        BY <1>2, <4>1 DEF Voted
      <4>2. CASE s.data = <<0>>
        BY <1>2, <4>2 DEF Voted
      <4>. QED
        BY <1>1, <4>1, <4>2
    <3>2. r.rstate # "STOP_BIT"
      <4>. HIDE DEF q, rx, c
      <4>. QED BY <3>1, <1>4, <1>5
    <3>3. q \in Receiver
      BY <1>1, <3>2, HearType
    <3>. QED
      BY <1>4, <1>5, <2>1, <3>3 DEF Receiver, Sampled
  <2>. HIDE DEF q
  <2>3. CASE c + 1 < Samples
    <3>1. m.state = "SENDING_ACK" /\ m.data = s.data /\ m.framed = s.framed /\ m.sampleCount = c + 1
      BY <1>1, <2>3 DEF TickOfFrame
    <3>2. Voted(m, 2 - Len(m.data)) = Voted(s, 2 - Len(s.data))
      BY <1>1, <1>5, <3>1, PinAssumption DEF Voted
    <3>3. Sampled(m, q)
      BY <1>1, <1>4, <1>5, <2>2, <2>3, <3>1, PinAssumption DEF Sampled
    <3>4. q.pin.resync = Len(m.data) * Samples - m.sampleCount
      BY <1>1, <1>2, <1>4, <1>5, <2>2, <3>1, PinAssumption
    <3>5. AckInStep(m, q, rx)
      BY <1>1, <1>4, <1>5, <2>2, <3>1, <3>2, <3>3, <3>4, PinAssumption DEF AckInStep
    <3>. QED
      BY <1>1, <2>2, <3>1, <3>5, AckStays
  <2>4. CASE c + 1 = Samples /\ s.data = <<1, 0>>
    <3>1. m.state = "SENDING_ACK" /\ m.data = <<0>> /\ m.framed = s.framed /\ m.sampleCount = 0
      BY <1>1, <1>2, <2>4 DEF TickOfFrame
    <3>2. Voted(m, 2 - Len(m.data)) = 1 /\ Voted(s, 2 - Len(s.data)) = 1
      BY <1>1, <1>2, <2>4, <3>1, PinAssumption DEF Voted
    <3>3. Sampled(m, q) /\ q.pin.resync = Len(m.data) * Samples - m.sampleCount
      BY <1>1, <1>2, <1>4, <1>5, <2>2, <2>4, <3>1, PinAssumption DEF Sampled
    <3>4. AckInStep(m, q, rx)
      BY <1>2, <1>4, <1>5, <2>2, <3>1, <3>2, <3>3 DEF AckInStep
    <3>. QED
      BY <1>1, <2>2, <3>1, <3>4, AckStays
  <2>5. CASE c + 1 = Samples /\ s.data = <<0>>
    <3>1. NextFrame(s, m)
      BY <1>1, <1>2, <2>5 DEF TickOfFrame
    <3>2. Voted(s, 2 - Len(s.data)) = 2
      BY <1>1, <1>2, <2>5, PinAssumption DEF Voted
    <3>3. rx = 0 /\ r.pin.past[2] = 0 /\ r.pin.resync = 1
      BY <1>1, <1>2, <1>4, <1>5, <2>5, PinAssumption DEF Sampled
    <3>4. Quiet(q)
      BY <1>4, <1>5, <2>2, <3>2, <3>3 DEF Quiet
    <3>5. ~q.framing /\ q.received = s.framed /\ q \in Receiver
      BY <1>1, <2>2
    <3>6. InStep(m, q, 0)
      BY <3>1, <3>4, <3>5, InStepNext
    <3>. QED
      BY <3>3, <3>6
  <2>. QED
    BY <1>1, <2>3, <2>4, <2>5, PinAssumption
<1>6. CASE ~(s.data = <<1, 0>> /\ c = 0) /\ c = VoteAt
  <2>1. r.pin.past = <<rx, rx>> /\ r.pin.index = VoteAt
    <3>1. r.pin.past \in Bit \X Bit
      BY DEF Receiver, Pin
    <3>. QED
      BY <1>1, <1>4, <1>6, <3>1, PinAssumption DEF Sampled
  <2>2. /\ m.state = "SENDING_ACK" /\ m.data = s.data /\ m.framed = s.framed
        /\ m.sampleCount = VoteAt + 1
    BY <1>1, <1>6, PinAssumption DEF TickOfFrame
  <2>. DEFINE pin == [ resync |-> IF r.pin.votes = <<1>> /\ rx = 1
                                  THEN DataSamples - (Samples + VoteAt + 1) ELSE r.pin.resync - 1,
                       index |-> VoteAt + 1,
                       votes |-> IF Len(r.pin.votes) < 2 THEN Append(r.pin.votes, rx) ELSE r.pin.votes,
                       past |-> <<rx, rx>> ]
              p   == [r EXCEPT !.pin = pin]
  <2>3. q = Heard(p, rx)
    BY <1>1, <1>4, <1>6, <2>1, HearVote
  <2>4. /\ p.pin = pin /\ p.rstate = r.rstate /\ p.received = r.received
        /\ p.framing = r.framing /\ p.acks = r.acks /\ p.buffer = r.buffer
        /\ DOMAIN p = {"rstate", "buffer", "pin", "received", "framing", "acks"}
    BY DEF Receiver
  <2>. HIDE DEF p, q
  <2>5. CASE s.data = <<1, 0>>
    <3>1. rx = 1 /\ Voted(s, 2 - Len(s.data)) = 0 /\ Voted(m, 2 - Len(m.data)) = 1
      BY <1>1, <1>2, <1>6, <2>2, <2>5, PinAssumption DEF Voted
    <3>2. r.pin.votes = <<>> /\ r.rstate = "IDLE"
      BY <1>4, <1>6, <3>1
    <3>3. pin.votes = <<1>> /\ pin.resync = r.pin.resync - 1 /\ pin.index = VoteAt + 1 /\ pin.past = <<1, 1>>
      BY <3>1, <3>2
    <3>. HIDE DEF pin
    <3>4. q = [p EXCEPT !.rstate = "START_BIT_2"]
      BY <2>3, <2>4, <3>1, <3>2, HeardBits
    <3>5. q.rstate = "START_BIT_2" /\ q.pin = pin /\ q.received = r.received /\ q.framing = r.framing
      BY <2>4, <3>4
    <3>6. Sampled(m, q) /\ q.pin.resync = Len(m.data) * Samples - m.sampleCount
      BY <1>2, <1>4, <1>6, <2>2, <2>5, <3>1, <3>3, <3>5, PinAssumption DEF Sampled
    <3>7. AckInStep(m, q, rx)
      BY <1>2, <2>2, <2>5, <3>1, <3>3, <3>5, <3>6, PinAssumption DEF AckInStep
    <3>. QED
      BY <1>1, <2>2, <3>5, <3>7, AckStays
  <2>6. CASE s.data = <<0>>
    <3>1. rx = 0 /\ Voted(s, 2 - Len(s.data)) = 1 /\ Voted(m, 2 - Len(m.data)) = 2
      BY <1>1, <1>2, <1>6, <2>2, <2>6, PinAssumption DEF Voted
    <3>2. r.pin.votes = <<1>> /\ r.rstate = "START_BIT_2"
      BY <1>4, <1>6, <3>1
    <3>3. pin.votes = <<1, 0>> /\ pin.resync = r.pin.resync - 1 /\ pin.index = VoteAt + 1 /\ pin.past = <<0, 0>>
      BY <3>1, <3>2, Pair DEF Bit
    <3>. HIDE DEF pin
    <3>4. q = [p EXCEPT !.rstate = "IDLE", !.acks = IF p.acks < AckBound THEN p.acks + 1 ELSE p.acks]
      BY <2>3, <2>4, <3>1, <3>2, HeardBits
    <3>5. q.rstate = "IDLE" /\ q.pin = pin /\ q.received = r.received /\ q.framing = r.framing
      BY <2>4, <3>4
    <3>6. Sampled(m, q) /\ q.pin.resync = Len(m.data) * Samples - m.sampleCount
      BY <1>2, <1>4, <1>6, <2>2, <2>6, <3>1, <3>3, <3>5, PinAssumption DEF Sampled
    <3>7. AckInStep(m, q, rx)
      BY <1>2, <2>2, <2>6, <3>1, <3>3, <3>5, <3>6, PinAssumption DEF AckInStep
    <3>. QED
      BY <1>1, <2>2, <3>5, <3>7, AckStays
  <2>. QED
    BY <1>1, <2>5, <2>6
<1>. QED
  BY <1>3, <1>5, <1>6

-----------------------------------------------------------------------------
(* A tick of a data frame.                                                 *)
LEMMA FrameBitIs ==
  ASSUME NEW b \in Byte, NEW k \in 1 .. DataBits + 3
  PROVE  /\ FrameBit(b, k) \in Bit
         /\ k <= 2 => FrameBit(b, k) = 1
         /\ k \in 3 .. DataBits + 2 => k - 2 \in 1 .. DataBits /\ FrameBit(b, k) = b[k - 2]
         /\ k = DataBits + 3 => FrameBit(b, k) = 0
BY PinAssumption DEF FrameBit, Byte, Bit

LEMMA StageKept ==
  ASSUME NEW r, NEW q, NEW b, NEW v, DataStage(r, b, v),
         q.rstate = r.rstate, q.buffer = r.buffer, q.pin.votes = r.pin.votes
  PROVE  DataStage(q, b, v)
BY DEF DataStage

LEMMA StageVote ==
  ASSUME NEW r \in Receiver, NEW b \in Byte, NEW i \in 0 .. DataBits + 2, NEW pin,
         DataStage(r, b, i),
         pin.votes = IF Len(r.pin.votes) < 2 THEN Append(r.pin.votes, FrameBit(b, i + 1))
                                             ELSE r.pin.votes
  PROVE  LET q == Heard([r EXCEPT !.pin = pin], FrameBit(b, i + 1))
         IN /\ DataStage(q, b, i + 1) /\ q.pin = pin /\ q.framing = r.framing
            /\ q.received = IF i = DataBits + 2 THEN Append(r.received, b) ELSE r.received
<1>. DEFINE p == [r EXCEPT !.pin = pin]
            x == FrameBit(b, i + 1)
            q == Heard(p, x)
<1>1. /\ p.pin = pin /\ p.rstate = r.rstate /\ p.received = r.received
      /\ p.framing = r.framing /\ p.acks = r.acks /\ p.buffer = r.buffer
      /\ DOMAIN p = {"rstate", "buffer", "pin", "received", "framing", "acks"}
  BY DEF Receiver
<1>2. /\ x \in Bit
      /\ i <= 1 => x = 1
      /\ i = DataBits + 2 => x = 0
      /\ i \in 2 .. DataBits + 1 => i - 1 \in 1 .. DataBits /\ x = b[i - 1]
  <2>. DEFINE k == i + 1
  <2>1. k \in 1 .. DataBits + 3 /\ i = k - 1 /\ i - 1 = k - 2
    BY PinAssumption
  <2>. HIDE DEF k
  <2>2. x = FrameBit(b, k)
    BY DEF k
  <2>. HIDE DEF x
  <2>. QED
    <3>1. /\ FrameBit(b, k) \in Bit
          /\ k <= 2 => FrameBit(b, k) = 1
          /\ k \in 3 .. DataBits + 2 => k - 2 \in 1 .. DataBits /\ FrameBit(b, k) = b[k - 2]
          /\ k = DataBits + 3 => FrameBit(b, k) = 0
      BY <2>1, FrameBitIs
    <3>. QED
      BY <2>1, <2>2, <3>1, PinAssumption
<1>3. pin.votes = IF Len(r.pin.votes) < 2 THEN Append(r.pin.votes, x) ELSE r.pin.votes
  OBVIOUS
<1>. SUFFICES /\ DataStage(q, b, i + 1) /\ q.pin = pin /\ q.framing = r.framing
              /\ q.received = IF i = DataBits + 2 THEN Append(r.received, b) ELSE r.received
  OBVIOUS
<1>. HIDE DEF p, x
<1>4. CASE i = 0
  <2>1. r.rstate = "IDLE" /\ r.pin.votes = <<>> /\ x = 1
    BY <1>2, <1>4 DEF DataStage
  <2>2. q = [p EXCEPT !.rstate = "START_BIT_2"]
    BY <1>1, <2>1, HeardBits
  <2>3. pin.votes = <<1>>
    BY <1>3, <2>1
  <2>. HIDE DEF q
  <2>4. q.rstate = "START_BIT_2" /\ q.pin = pin /\ q.received = r.received /\ q.framing = r.framing
    BY <1>1, <2>2
  <2>. QED
    BY <1>4, <2>3, <2>4, PinAssumption DEF DataStage
<1>5. CASE i = 1
  <2>1. r.rstate = "START_BIT_2" /\ r.pin.votes = <<1>> /\ x = 1 /\ 1 \in Bit
    BY <1>2, <1>5 DEF DataStage, Bit
  <2>2. q = [p EXCEPT !.rstate = "DATA", !.buffer = <<>>]
    BY <1>1, <2>1, HeardBits
  <2>3. pin.votes = <<1, 1>>
    BY <1>3, <2>1, Pair
  <2>. HIDE DEF q
  <2>4. /\ q.rstate = "DATA" /\ q.buffer = <<>> /\ q.pin = pin /\ q.received = r.received
        /\ q.framing = r.framing
    BY <1>1, <2>2
  <2>5. Len(pin.votes) = 2 /\ Len(q.buffer) = 0
    BY <2>3, <2>4
  <2>6. DataStage(q, b, 2)
    <3>1. 2 \in 2 .. DataBits + 1 /\ 2 # DataBits + 2 /\ 2 # DataBits + 3 /\ 2 - 2 = 0
      BY PinAssumption
    <3>2. 1 .. 0 = {}
      OBVIOUS
    <3>3. \A k \in 1 .. 2 - 2 : q.buffer[k] = b[k]
      BY <3>1, <3>2
    <3>4. Len(q.pin.votes) = 2
      BY <2>4, <2>5
    <3>5. Len(q.buffer) = 2 - 2
      BY <2>5
    <3>. QED
      BY <2>4, <3>1, <3>3, <3>4, <3>5 DEF DataStage
  <2>. QED
    BY <1>5, <2>4, <2>6, PinAssumption
<1>6. CASE i \in 2 .. DataBits + 1
  <2>1. /\ r.rstate = "DATA" /\ Len(r.buffer) = i - 2 /\ Len(r.pin.votes) = 2
        /\ \A k \in 1 .. i - 2 : r.buffer[k] = b[k]
    BY <1>6 DEF DataStage
  <2>. DEFINE buffer == Append(p.buffer, x)
  <2>2. /\ buffer \in Seq(Bit) /\ Len(buffer) = i - 1
        /\ \A k \in 1 .. i - 1 : buffer[k] = b[k]
    <3>1. r.buffer \in Seq(Bit) /\ x \in Bit /\ buffer = Append(r.buffer, x)
      BY <1>1, <1>2 DEF Receiver
    <3>2. /\ buffer \in Seq(Bit) /\ Len(buffer) = Len(r.buffer) + 1
          /\ \A k \in 1 .. Len(r.buffer) : buffer[k] = r.buffer[k]
          /\ buffer[Len(r.buffer) + 1] = x
      BY <3>1, AppendProperties
    <3>. HIDE DEF buffer
    <3>. QED
      BY <1>2, <1>6, <2>1, <3>2
  <2>3. q = [p EXCEPT !.buffer = buffer, !.rstate = IF Len(buffer) = DataBits THEN "STOP_BIT" ELSE p.rstate]
    <3>1. p.rstate = "DATA" /\ x \in Bit
      BY <1>1, <1>2, <2>1
    <3>. QED
      BY <3>1, HeardIs
  <2>. HIDE DEF q, buffer
  <2>4. /\ q.rstate = IF Len(buffer) = DataBits THEN "STOP_BIT" ELSE "DATA"
        /\ q.buffer = buffer /\ q.pin = pin /\ q.received = r.received /\ q.framing = r.framing
    BY <1>1, <2>1, <2>3
  <2>5. i = DataBits + 1 => buffer = b
    <3>1. ASSUME i = DataBits + 1 PROVE buffer = b
      <4>1. b \in Seq(Bit) /\ Len(b) = DataBits
        BY PinAssumption DEF Byte
      <4>. QED
        BY <2>2, <3>1, <4>1, SeqEqual
    <3>. QED
      BY <3>1
  <2>6. pin.votes = r.pin.votes
    BY <1>3, <2>1
  <2>. QED
    BY <1>6, <2>1, <2>2, <2>4, <2>5, <2>6, PinAssumption DEF DataStage
<1>7. CASE i = DataBits + 2
  <2>1. r.rstate = "STOP_BIT" /\ r.buffer = b /\ Len(r.pin.votes) = 2 /\ x = 0
    BY <1>2, <1>7, PinAssumption DEF DataStage
  <2>2. q = [p EXCEPT !.rstate = "IDLE", !.received = Append(p.received, p.buffer)]
    BY <1>1, <2>1, HeardBits
  <2>. HIDE DEF q
  <2>3. /\ q.rstate = "IDLE" /\ q.pin = pin /\ q.received = Append(r.received, b)
        /\ q.framing = r.framing /\ pin.votes = r.pin.votes
    BY <1>1, <1>3, <2>1, <2>2
  <2>. QED
    BY <1>7, <2>1, <2>3, PinAssumption DEF DataStage
<1>. QED
  BY <1>4, <1>5, <1>6, <1>7, PinAssumption

LEMMA FrameTail ==
  ASSUME NEW s \in Link, NEW b \in Byte, Len(s.data) \in 2 .. DataBits + 3,
         \A k \in 1 .. Len(s.data) : s.data[k] = FrameBit(b, DataBits + 3 - Len(s.data) + k)
  PROVE  /\ Len(Tail(s.data)) = Len(s.data) - 1
         /\ \A k \in 1 .. Len(Tail(s.data)) :
               Tail(s.data)[k] = FrameBit(b, DataBits + 3 - Len(Tail(s.data)) + k)
<1>1. s.data \in Seq(Bit) /\ s.data # <<>>
  BY PinAssumption DEF Link
<1>2. /\ Len(Tail(s.data)) = Len(s.data) - 1
      /\ \A k \in 1 .. Len(Tail(s.data)) : Tail(s.data)[k] = s.data[k + 1]
  BY <1>1, HeadTailProperties
<1>3. ASSUME NEW k \in 1 .. Len(Tail(s.data))
      PROVE  Tail(s.data)[k] = FrameBit(b, DataBits + 3 - Len(Tail(s.data)) + k)
  <2>1. k + 1 \in 1 .. Len(s.data)
    BY <1>2, PinAssumption
  <2>2. s.data[k + 1] = FrameBit(b, DataBits + 3 - Len(s.data) + (k + 1))
    BY <2>1
  <2>3. DataBits + 3 - Len(s.data) + (k + 1) = DataBits + 3 - Len(Tail(s.data)) + k
    <3>. DEFINE l == Len(s.data)
                t == Len(Tail(s.data))
    <3>1. l \in Int /\ t = l - 1
      BY <1>2, PinAssumption
    <3>. HIDE DEF l, t
    <3>2. DataBits + 3 - l + (k + 1) = DataBits + 3 - t + k
      BY <3>1, PinAssumption
    <3>. QED
      BY <3>2 DEF l, t
  <2>. QED
    BY <1>2, <2>2, <2>3
<1>. QED
  BY <1>2, <1>3

LEMMA DataTick ==
  ASSUME NEW s \in Link, NEW m, NEW r \in Receiver, NEW level,
         s.state = "SENDING_DATA", InStep(s, r, level), TickOfFrame(s, m)
  PROVE  InStep(m, Hear(r, s.data[1]), s.data[1])
<1>. DEFINE rx == s.data[1]
            q  == Hear(r, rx)
            c  == s.sampleCount
            b  == Current(s)
            n  == Len(s.data)
            i  == DataBits + 3 - n
<1>. SUFFICES InStep(m, q, rx)
  OBVIOUS
<1>1. /\ ~r.framing /\ DataInStep(s, r, level) /\ Sending(s) /\ c \in 0 .. Samples - 1
      /\ s.framed \in Seq(Byte) /\ r.pin \in Pin
  BY DEF InStep, Sending, Link, Receiver
<1>2. /\ s.framed # <<>> /\ n \in 1 .. DataBits + 3 /\ i \in 0 .. DataBits + 2
      /\ \A k \in 1 .. n : s.data[k] = FrameBit(b, i + k)
  <2>1. /\ s.framed # <<>> /\ n \in 1 .. DataBits + 3
        /\ \A k \in 1 .. n : s.data[k] = FrameBit(b, i + k)
    BY <1>1 DEF DataInStep
  <2>. HIDE DEF n
  <2>2. i \in 0 .. DataBits + 2
    BY <2>1, PinAssumption
  <2>. QED
    BY <2>1, <2>2
<1>3. b \in Byte
  BY <1>1, <1>2 DEF Current
<1>4. rx = FrameBit(b, i + 1) /\ i + 1 \in 1 .. DataBits + 3
  <2>. HIDE DEF n, i, b
  <2>1. 1 \in 1 .. n
    BY <1>2, PinAssumption
  <2>. QED
    BY <1>2, <2>1, PinAssumption
<1>5. rx \in Bit
  BY <1>3, <1>4, FrameBitIs
<1>6. /\ c <= VoteAt => Voted(s, i) = i
      /\ c > VoteAt => Voted(s, i) = i + 1
  BY <1>1, <1>2, PinAssumption DEF Voted
<1>7. IF Voted(s, i) < DataBits + 3 THEN Append(r.received, b) = s.framed ELSE r.received = s.framed
  BY <1>1 DEF DataInStep
<1>8. CASE i = 0 /\ c = 0
  <2>1. Quiet(r) /\ rx = 1
    BY <1>1, <1>3, <1>4, <1>8, FrameBitIs DEF DataInStep
  <2>2. q = [r EXCEPT !.pin = [ resync |-> 2 * Samples - 1, index |-> 1,
                                votes |-> <<>>, past |-> <<0, 1>> ]]
    BY <2>1, HearEdge
  <2>3. /\ m.state = "SENDING_DATA" /\ m.data = s.data /\ m.framed = s.framed
        /\ m.sampleCount = 1
    BY <1>1, <1>8, PinAssumption DEF TickOfFrame
  <2>4. /\ q.pin = [ resync |-> 2 * Samples - 1, index |-> 1, votes |-> <<>>, past |-> <<0, 1>> ]
        /\ q.rstate = "IDLE" /\ q.received = r.received /\ q.framing = r.framing
    BY <2>1, <2>2 DEF Receiver, Quiet
  <2>. HIDE DEF q, rx, n
  <2>5. Current(m) = b /\ Len(m.data) = n /\ Voted(m, i) = 0
    BY <1>8, <2>3, PinAssumption DEF Current, Voted, n
  <2>6. Sampled(m, q)
    BY <1>4, <2>1, <2>3, <2>4 DEF Sampled, rx
  <2>7. DataStage(q, b, 0)
    BY <2>4, PinAssumption DEF DataStage
  <2>8. q.pin.resync = 2 * Samples - 1 /\ Voted(s, i) = 0
    BY <1>6, <1>8, <2>4, PinAssumption
  <2>9. DataInStep(m, q, rx)
    <3>. HIDE DEF b
    <3>1. DataBits + 3 - Len(m.data) = i
      BY <2>5
    <3>2. /\ m.framed # <<>> /\ Len(m.data) \in 1 .. DataBits + 3
          /\ \A k \in 1 .. Len(m.data) : m.data[k] = FrameBit(b, i + k)
      BY <1>2, <2>3, <2>5
    <3>3. IF Voted(m, i) < DataBits + 3 THEN Append(q.received, b) = m.framed ELSE q.received = m.framed
      BY <1>7, <2>3, <2>4, <2>5, <2>8
    <3>4. q.pin.resync = (IF Voted(m, i) < 2 THEN 2 - i ELSE Len(m.data)) * Samples - m.sampleCount
      BY <1>8, <2>3, <2>5, <2>8, PinAssumption
    <3>5. m.sampleCount # 0 /\ DataStage(q, b, Voted(m, i))
      BY <2>3, <2>5, <2>7
    <3>. HIDE DEF i
    <3>. QED
      BY <2>5, <2>6, <3>1, <3>2, <3>3, <3>4, <3>5 DEF DataInStep
  <2>. QED
    BY <1>1, <2>3, <2>4, <2>9, DataStays
<1>9. ASSUME ~(i = 0 /\ c = 0)
      PROVE  /\ Sampled(s, r) /\ DataStage(r, b, Voted(s, i))
             /\ r.pin.resync = (IF Voted(s, i) < 2 THEN 2 - i ELSE n) * Samples - c
             /\ r.pin.resync > 0
  <2>1. /\ Sampled(s, r) /\ DataStage(r, b, Voted(s, i))
        /\ r.pin.resync = (IF Voted(s, i) < 2 THEN 2 - i ELSE n) * Samples - c
    BY <1>1, <1>9 DEF DataInStep
  <2>. DEFINE k == IF Voted(s, i) < 2 THEN 2 - i ELSE n
  <2>2. k \in Nat /\ k >= 1
    <3>. HIDE DEF n, i
    <3>1. n \in Nat /\ n >= 1 /\ i \in Nat
      BY <1>2, PinAssumption
    <3>2. Voted(s, i) < 2 => i <= 1
      BY <1>1, <1>6, <3>1, PinAssumption
    <3>. QED
      BY <3>1, <3>2
  <2>. HIDE DEF k
  <2>3. k * Samples - c > 0
    BY <1>1, <2>2, PinAssumption
  <2>. QED
    BY <2>1, <2>3 DEF k
<1>. HIDE DEF n, i, b
<1>0. /\ n \in Int /\ i \in Int /\ n = DataBits + 3 - i /\ 0 <= i /\ i <= DataBits + 2
      /\ DataBits \in Int /\ DataBits >= 1
  BY <1>2, PinAssumption DEF i
<1>10. CASE ~(i = 0 /\ c = 0) /\ c # VoteAt
  <2>1. q = [r EXCEPT !.pin = [ resync |-> r.pin.resync - 1,
                                index |-> IF r.pin.index + 1 = Samples THEN 0 ELSE r.pin.index + 1,
                                votes |-> r.pin.votes, past |-> <<r.pin.past[2], rx>> ]]
    BY <1>5, <1>9, <1>10, HearBetween DEF Sampled
  <2>2. /\ q.pin = [ resync |-> r.pin.resync - 1,
                     index |-> IF c + 1 = Samples THEN 0 ELSE c + 1,
                     votes |-> r.pin.votes, past |-> <<r.pin.past[2], rx>> ]
        /\ q.rstate = r.rstate /\ q.buffer = r.buffer /\ q.received = r.received
        /\ q.framing = r.framing
    BY <1>9, <1>10, <2>1 DEF Receiver, Sampled
  <2>. HIDE DEF q
  <2>3. DataStage(q, b, Voted(s, i))
    BY <1>9, <1>10, <2>2, StageKept
  <2>4. CASE c + 1 < Samples
    <3>1. m.state = "SENDING_DATA" /\ m.data = s.data /\ m.framed = s.framed /\ m.sampleCount = c + 1
      BY <1>1, <2>4 DEF TickOfFrame
    <3>2. Voted(m, i) = Voted(s, i) /\ Current(m) = b
      BY <1>1, <1>10, <3>1, PinAssumption DEF Voted, Current, b
    <3>3. Sampled(m, q)
      BY <1>1, <1>9, <1>10, <2>2, <2>4, <3>1, PinAssumption DEF Sampled
    <3>4. q.pin.resync = (IF Voted(m, i) < 2 THEN 2 - i ELSE Len(m.data)) * Samples - m.sampleCount
      <4>. DEFINE k == (IF Voted(s, i) < 2 THEN 2 - i ELSE n) * Samples
      <4>1. r.pin.resync = k - c /\ r.pin.resync \in Nat
        BY <1>1, <1>9, <1>10 DEF Pin
      <4>2. k \in Int
        BY <1>0, PinAssumption
      <4>. HIDE DEF k
      <4>3. q.pin.resync = k - (c + 1)
        BY <1>1, <2>2, <4>1, <4>2
      <4>. QED
        BY <3>1, <3>2, <4>3 DEF k, n
    <3>5. m.sampleCount # 0
      BY <1>1, <3>1
    <3>6. DataInStep(m, q, rx)
      <4>1. DataBits + 3 - Len(m.data) = i /\ Len(m.data) = n
        BY <3>1 DEF n, i
      <4>. QED
        BY <1>2, <1>7, <2>2, <2>3, <3>1, <3>2, <3>3, <3>4, <3>5, <4>1 DEF DataInStep
    <3>. QED
      BY <1>1, <2>2, <3>1, <3>6, DataStays
  <2>5. CASE c + 1 = Samples /\ n > 1
    <3>. DEFINE j == i + 1
    <3>1. m.state = "SENDING_DATA" /\ m.data = Tail(s.data) /\ m.framed = s.framed /\ m.sampleCount = 0
      <4>1. n # 1 /\ ~(c + 1 < Samples)
        BY <1>0, <2>5, PinAssumption
      <4>. QED
        BY <1>1, <4>1 DEF TickOfFrame, n
    <3>2. /\ Len(m.data) = n - 1
          /\ \A k \in 1 .. Len(m.data) : m.data[k] = FrameBit(b, DataBits + 3 - Len(m.data) + k)
      <4>1. n \in 2 .. DataBits + 3
        BY <1>0, <2>5
      <4>2. \A k \in 1 .. n : s.data[k] = FrameBit(b, DataBits + 3 - n + k)
        BY <1>2 DEF i
      <4>. QED
        BY <1>3, <3>1, <4>1, <4>2, FrameTail DEF n
    <3>3. DataBits + 3 - Len(m.data) = j /\ Len(m.data) \in 1 .. DataBits + 3
      BY <1>0, <2>5, <3>2
    <3>4. j \in 1 .. DataBits + 2 /\ Voted(s, i) = j
      BY <1>0, <1>1, <1>6, <2>5, PinAssumption
    <3>5. Voted(m, j) = j /\ Current(m) = b
      BY <3>1, <3>4, PinAssumption DEF Voted, Current, b
    <3>6. Sampled(m, q)
      BY <1>1, <2>2, <2>5, <3>1, PinAssumption DEF Sampled
    <3>7. q.pin.resync = (IF j < 2 THEN 2 - j ELSE Len(m.data)) * Samples - m.sampleCount
      <4>. DEFINE k == IF j < 2 THEN 2 - i ELSE n
      <4>1. k \in Int /\ k - 1 = IF j < 2 THEN 2 - j ELSE Len(m.data)
        BY <1>0, <3>2
      <4>2. r.pin.resync = k * Samples - c
        BY <1>9, <1>10, <3>4
      <4>. HIDE DEF k
      <4>3. r.pin.resync - 1 = (k - 1) * Samples
        BY <1>1, <2>5, <4>1, <4>2, PinAssumption
      <4>4. (k - 1) * Samples \in Int
        BY <4>1, PinAssumption
      <4>. HIDE DEF j
      <4>5. q.pin.resync = (k - 1) * Samples - 0
        BY <2>2, <4>3, <4>4
      <4>. QED
        BY <3>1, <4>1, <4>5
    <3>8. DataStage(q, b, j)
      BY <2>3, <3>4
    <3>. HIDE DEF j
    <3>9. IF j < DataBits + 3 THEN Append(q.received, b) = m.framed ELSE q.received = m.framed
      BY <1>7, <2>2, <3>1, <3>4
    <3>10. DataInStep(m, q, rx)
      <4>1. j # 0 /\ m.framed # <<>>
        BY <1>2, <3>1, <3>4
      <4>. QED
        BY <3>2, <3>3, <3>5, <3>6, <3>7, <3>8, <3>9, <4>1 DEF DataInStep
    <3>. QED
      BY <1>1, <2>2, <3>1, <3>10, DataStays
  <2>6. CASE c + 1 = Samples /\ n = 1
    <3>1. NextFrame(s, m)
      <4>1. ~(n > 1) /\ ~(c + 1 < Samples)
        BY <1>0, <2>6, PinAssumption
      <4>. QED
        BY <1>1, <4>1 DEF TickOfFrame, n
    <3>2. i = DataBits + 2 /\ Voted(s, i) = DataBits + 3
      BY <1>0, <1>1, <1>6, <2>6, PinAssumption
    <3>3. rx = 0
      <4>1. i + 1 = DataBits + 3 /\ DataBits + 3 \in 1 .. DataBits + 3
        BY <1>0, <3>2
      <4>. QED
        BY <1>3, <1>4, <4>1, FrameBitIs
    <3>4. r.pin.resync = 1
      <4>1. r.pin.resync = n * Samples - c
        BY <1>0, <1>9, <1>10, <3>2
      <4>. QED
        BY <1>1, <2>6, <4>1, PinAssumption
    <3>5. r.pin.past[2] = 0
      <4>1. c >= 1
        BY <1>1, <2>6, PinAssumption
      <4>. QED
        BY <1>9, <1>10, <3>3, <4>1 DEF Sampled
    <3>6. q.rstate = "IDLE" /\ q.received = s.framed
      BY <1>0, <1>7, <2>2, <2>3, <3>2 DEF DataStage
    <3>7. Quiet(q)
      BY <2>2, <3>3, <3>4, <3>5, <3>6 DEF Quiet
    <3>8. q \in Receiver
      <4>1. r.rstate # "STOP_BIT"
        BY <2>2, <3>6
      <4>. QED
        BY <1>5, <4>1, HearType DEF q
    <3>9. ~q.framing
      BY <1>1, <2>2
    <3>10. InStep(m, q, 0)
      BY <3>1, <3>6, <3>7, <3>8, <3>9, InStepNext
    <3>. QED
      BY <3>3, <3>10
  <2>. QED
    BY <1>0, <1>1, <1>10, <2>4, <2>5, <2>6, PinAssumption
<1>11. CASE ~(i = 0 /\ c = 0) /\ c = VoteAt
  <2>1. r.pin.past = <<rx, rx>> /\ r.pin.index = VoteAt
    <3>1. r.pin.past \in Bit \X Bit
      BY <1>1 DEF Pin
    <3>. QED
      BY <1>1, <1>9, <1>11, <3>1, PinAssumption DEF Sampled
  <2>2. /\ m.state = "SENDING_DATA" /\ m.data = s.data /\ m.framed = s.framed
        /\ m.sampleCount = VoteAt + 1
    BY <1>1, <1>11, PinAssumption DEF TickOfFrame
  <2>. DEFINE pin == [ resync |-> IF r.pin.votes = <<1>> /\ rx = 1
                                  THEN DataSamples - (Samples + VoteAt + 1) ELSE r.pin.resync - 1,
                       index |-> VoteAt + 1,
                       votes |-> IF Len(r.pin.votes) < 2 THEN Append(r.pin.votes, rx) ELSE r.pin.votes,
                       past |-> <<rx, rx>> ]
  <2>3. q = Heard([r EXCEPT !.pin = pin], FrameBit(b, i + 1))
    BY <1>4, <1>5, <1>9, <1>11, <2>1, HearVote
  <2>4. /\ DataStage(r, b, i) /\ Voted(s, i) = i
        /\ Voted(m, i) = i + 1 /\ Current(m) = b
    <3>1. Voted(s, i) = i
      BY <1>6, <1>11, PinAssumption
    <3>2. Voted(m, i) = i + 1 /\ Current(m) = b
      BY <1>0, <2>2, PinAssumption DEF Voted, Current, b
    <3>. QED
      BY <1>9, <1>11, <3>1, <3>2
  <2>5. pin.votes = IF Len(r.pin.votes) < 2 THEN Append(r.pin.votes, FrameBit(b, i + 1)) ELSE r.pin.votes
    BY <1>4
  <2>6. /\ pin.index = VoteAt + 1 /\ pin.past = <<rx, rx>>
        /\ pin.resync = IF r.pin.votes = <<1>> /\ rx = 1
                        THEN DataSamples - (Samples + VoteAt + 1) ELSE r.pin.resync - 1
    OBVIOUS
  <2>. HIDE DEF pin, q
  <2>7. /\ DataStage(q, b, i + 1) /\ q.pin = pin /\ q.framing = r.framing
        /\ q.received = IF i = DataBits + 2 THEN Append(r.received, b) ELSE r.received
    BY <1>2, <1>3, <2>3, <2>4, <2>5, StageVote
  <2>8. Sampled(m, q)
    BY <2>2, <2>6, <2>7 DEF Sampled
  <2>9. q.pin.resync = (IF i + 1 < 2 THEN 2 - i ELSE n) * Samples - (VoteAt + 1)
    <3>1. r.pin.resync = (IF i < 2 THEN 2 - i ELSE n) * Samples - VoteAt
      BY <1>9, <1>11, <2>4
    <3>2. CASE i = 0
      <4>1. r.pin.votes = <<>>
        BY <2>4, <3>2 DEF DataStage
      <4>. QED
        BY <2>6, <2>7, <3>1, <3>2, <4>1, PinAssumption
    <3>3. CASE i = 1
      <4>1. r.pin.votes = <<1>> /\ rx = 1
        BY <1>0, <1>3, <1>4, <2>4, <3>3, FrameBitIs DEF DataStage
      <4>2. n = DataBits + 2 /\ DataSamples = DataBits * Samples + 3 * Samples
        BY <1>0, <3>3, PinAssumption DEF DataSamples
      <4>3. n * Samples = DataBits * Samples + 2 * Samples /\ DataBits * Samples \in Int
        BY <1>0, <4>2, PinAssumption
      <4>. HIDE DEF rx
      <4>. QED
        BY <2>6, <2>7, <3>3, <4>1, <4>2, <4>3, PinAssumption
    <3>4. CASE i >= 2
      <4>1. r.pin.votes # <<1>>
        BY <2>4, <3>4 DEF DataStage
      <4>2. r.pin.resync = n * Samples - VoteAt /\ n * Samples \in Int
        BY <1>0, <3>1, <3>4, PinAssumption
      <4>. QED
        BY <1>0, <2>6, <2>7, <3>4, <4>1, <4>2, PinAssumption
    <3>. QED
      BY <1>0, <3>2, <3>3, <3>4
  <2>10. DataInStep(m, q, rx)
    <3>1. m.sampleCount # 0 /\ DataBits + 3 - Len(m.data) = i /\ Len(m.data) = n
      BY <2>2, PinAssumption DEF i, n
    <3>2. IF i + 1 < DataBits + 3 THEN Append(q.received, b) = m.framed ELSE q.received = m.framed
      <4>1. Append(r.received, b) = m.framed
        BY <1>0, <1>7, <2>2, <2>4
      <4>2. i + 1 < DataBits + 3 <=> i # DataBits + 2
        BY <1>0
      <4>. QED
        BY <2>7, <4>1, <4>2
    <3>. QED
      BY <1>2, <2>2, <2>4, <2>7, <2>8, <2>9, <3>1, <3>2 DEF DataInStep
  <2>. QED
    BY <1>1, <2>2, <2>7, <2>10, DataStays
<1>. QED
  BY <1>8, <1>10, <1>11

-----------------------------------------------------------------------------
(* A tick of any sender, and what it lets the other end hear.              *)
LEMMA QuietTick ==
  ASSUME NEW s \in Link, NEW m, NEW r \in Receiver, NEW level,
         ~Sending(s), InStep(s, r, level), TickOfFrame(s, m)
  PROVE  InStep(m, Hear(r, level), level)
<1>1. /\ ~r.framing /\ level = 0 /\ Quiet(r) /\ r.received = s.framed /\ SameFrame(s, m)
  BY DEF InStep, TickOfFrame
<1>2. Quiet(Hear(r, 0)) /\ Hear(r, 0).received = r.received /\ Hear(r, 0).framing = r.framing
  BY <1>1, HearQuiet
<1>3. ~Hear(r, 0).framing
  BY <1>1, <1>2
<1>4. InStep(s, Hear(r, 0), 0)
  BY <1>1, <1>2, <1>3 DEF InStep, Sending
<1>. QED
  BY <1>1, <1>4, InStepSame

(* While the sender drives the wire the receiver keeps step with it.       *)
LEMMA InStepTick ==
  ASSUME NEW s \in Link, NEW m, NEW r \in Receiver, NEW level,
         InStep(s, r, level), TickOfFrame(s, m)
  PROVE  InStep(m, Hear(r, Level(s, level)), Level(s, level))
<1>1. CASE s.state = "SENDING_ACK"
  BY <1>1, AckTick DEF Level, Sending
<1>2. CASE s.state = "SENDING_DATA"
  BY <1>2, DataTick DEF Level, Sending
<1>3. CASE ~Sending(s)
  BY <1>3, QuietTick DEF Level
<1>. QED
  BY <1>1, <1>2, <1>3 DEF Sending

(* At the end of a data frame the other end has the byte.                  *)
LEMMA EndReceived ==
  ASSUME NEW s \in Link, NEW r, NEW level, InStep(s, r, level), s.state = "SENDING_DATA",
         s.sampleCount + 1 = Samples, Len(s.data) = 1
  PROVE  r.received = s.framed
<1>. DEFINE i == DataBits + 3 - Len(s.data)
<1>1. i = DataBits + 2 /\ s.sampleCount > VoteAt
  BY PinAssumption DEF Link
<1>2. Voted(s, i) = DataBits + 3
  BY <1>1, PinAssumption DEF Voted
<1>3. DataInStep(s, r, level)
  BY DEF InStep
<1>. QED
  BY <1>2, <1>3, PinAssumption DEF DataInStep

(* The receiver's history: a byte or an ack at a time.                     *)
LEMMA HearHistory ==
  ASSUME NEW r \in Receiver, NEW rx \in Bit
  PROVE  LET q == Hear(r, rx)
         IN /\ q.received = r.received \/ q.received = Append(r.received, r.buffer)
            /\ q.acks = IF r.rstate = "START_BIT_2" /\ q.rstate = "IDLE" /\ r.acks < AckBound
                        THEN r.acks + 1 ELSE r.acks
            /\ ~q.framing => ~r.framing
            /\ ~q.framing => StartsSeen(q) = IF r.rstate = "START_BIT_2" /\ q.rstate = "DATA"
                                            THEN StartsSeen(r) + 1 ELSE StartsSeen(r)
            /\ r.rstate = "START_BIT_2" => q.rstate \in {"START_BIT_2", "DATA", "IDLE"}
<1>. DEFINE p == [r EXCEPT !.pin = getRx(r.pin, rx).pin]
            OK(q) == /\ q.received = r.received \/ q.received = Append(r.received, r.buffer)
                     /\ q.acks = IF r.rstate = "START_BIT_2" /\ q.rstate = "IDLE" /\ r.acks < AckBound
                                 THEN r.acks + 1 ELSE r.acks
                     /\ ~q.framing => ~r.framing
                     /\ ~q.framing => StartsSeen(q) = IF r.rstate = "START_BIT_2" /\ q.rstate = "DATA"
                                                     THEN StartsSeen(r) + 1 ELSE StartsSeen(r)
                     /\ r.rstate = "START_BIT_2" => q.rstate \in {"START_BIT_2", "DATA", "IDLE"}
<1>. SUFFICES OK(Hear(r, rx))
  OBVIOUS
<1>1. p.rstate = r.rstate /\ p.received = r.received /\ p.acks = r.acks /\ p.buffer = r.buffer
      /\ p.framing = r.framing /\ r.framing \in BOOLEAN
      /\ DOMAIN p = {"rstate", "buffer", "pin", "received", "framing", "acks"}
  BY DEF Receiver
<1>2. Hear(r, rx) = p \/ \E bit \in Bit : Hear(r, rx) = Heard(p, bit)
  <2>1. getRx(r.pin, rx).vote \in {0, 1, NoVote}
    BY RxType DEF Receiver
  <2>. QED
    BY <2>1 DEF Hear, Bit
<1>. HIDE DEF p
<1>3. CASE Hear(r, rx) = p
  BY <1>1, <1>3 DEF StartsSeen
<1>4. ASSUME NEW bit \in Bit PROVE OK(Heard(p, bit))
  <2>1. r.acks \in Nat /\ AckBound \in Nat /\ Len(r.received) \in Nat
    BY LinkAssumption DEF Receiver
  <2>. DEFINE h == Heard(p, bit)
  <2>. HIDE DEF OK
  <2>2. CASE r.rstate = "IDLE"
    <3>1. h = [p EXCEPT !.rstate = IF bit = 1 THEN "START_BIT_2" ELSE p.rstate]
      <4>1. p.rstate = "IDLE" /\ bit \in Bit
        BY <1>1, <2>2
      <4>. QED
        BY <4>1, HeardIs
    <3>. HIDE DEF h
    <3>2. h.rstate \in {"IDLE", "START_BIT_2"} /\ h.received = r.received /\ h.acks = r.acks
          /\ h.framing = r.framing
      BY <1>1, <2>2, <3>1
    <3>. QED
      BY <2>2, <3>2 DEF h, OK, StartsSeen
  <2>3. CASE r.rstate = "START_BIT_2"
    <3>1. \/ h = [p EXCEPT !.rstate = "DATA", !.buffer = <<>>]
          \/ h = [p EXCEPT !.rstate = "IDLE", !.acks = IF p.acks < AckBound THEN p.acks + 1 ELSE p.acks]
      <4>1. bit = 0 \/ bit = 1
        BY DEF Bit
      <4>. QED
        BY <1>1, <2>3, <4>1, HeardBits
    <3>. HIDE DEF h
    <3>2. /\ h.received = r.received /\ h.framing = r.framing
          /\ \/ h.rstate = "DATA" /\ h.acks = r.acks
             \/ h.rstate = "IDLE" /\ h.acks = IF r.acks < AckBound THEN r.acks + 1 ELSE r.acks
      BY <1>1, <3>1
    <3>3. CASE h.rstate = "DATA"
      <4>1. h.acks = r.acks
        BY <3>2, <3>3
      <4>2. StartsSeen(h) = StartsSeen(r) + 1
        BY <2>1, <2>3, <3>2, <3>3 DEF StartsSeen
      <4>. QED
        BY <1>1, <2>3, <3>2, <3>3, <4>1, <4>2 DEF h, OK
    <3>4. CASE h.rstate = "IDLE"
      <4>1. h.acks = IF r.acks < AckBound THEN r.acks + 1 ELSE r.acks
        BY <3>2, <3>4
      <4>2. StartsSeen(h) = StartsSeen(r)
        BY <2>1, <2>3, <3>2, <3>4 DEF StartsSeen
      <4>. QED
        BY <1>1, <2>3, <3>2, <3>4, <4>1, <4>2 DEF h, OK
    <3>. QED
      BY <3>2, <3>3, <3>4
  <2>4. CASE r.rstate = "DATA"
    <3>1. h = [p EXCEPT !.buffer = Append(p.buffer, bit),
                        !.rstate = IF Len(Append(p.buffer, bit)) = DataBits THEN "STOP_BIT" ELSE p.rstate]
      <4>1. p.rstate = "DATA" /\ bit \in Bit
        BY <1>1, <2>4
      <4>. QED
        BY <4>1, HeardIs
    <3>. HIDE DEF h
    <3>2. h.rstate \in {"DATA", "STOP_BIT"} /\ h.received = r.received /\ h.acks = r.acks
          /\ h.framing = r.framing
      BY <1>1, <2>4, <3>1
    <3>. QED
      BY <2>4, <3>2 DEF h, OK, StartsSeen
  <2>5. CASE r.rstate = "STOP_BIT"
    <3>1. \/ h = [p EXCEPT !.rstate = "IDLE", !.framing = TRUE]
          \/ h = [p EXCEPT !.rstate = "IDLE", !.received = Append(p.received, p.buffer)]
      BY <1>1, <2>5, HeardIs DEF Bit
    <3>2. Len(Append(r.received, r.buffer)) = Len(r.received) + 1
      <4>1. r.received \in Seq({r.buffer} \cup Byte)
        BY DEF Receiver
      <4>. QED
        BY <4>1, AppendProperties
    <3>. HIDE DEF h
    <3>3. /\ h.rstate = "IDLE" /\ h.acks = r.acks
          /\ \/ h.framing = TRUE /\ h.received = r.received
             \/ h.framing = r.framing /\ h.received = Append(r.received, r.buffer)
      BY <1>1, <3>1
    <3>. QED
      BY <2>1, <2>5, <3>2, <3>3 DEF h, OK, StartsSeen
  <2>. QED
    BY <2>2, <2>3, <2>4, <2>5 DEF Receiver
<1>. QED
  BY <1>2, <1>3, <1>4

(* An ack is heard of an ack frame alone, and once.                        *)
LEMMA AckHeard ==
  ASSUME NEW s \in Link, NEW m, NEW r \in Receiver, NEW level,
         InStep(s, r, level), TickOfFrame(s, m),
         r.rstate = "START_BIT_2", Hear(r, Level(s, level)).rstate = "IDLE"
  PROVE  /\ s.state = "SENDING_ACK" /\ Voted(s, 2 - Len(s.data)) = 1
         /\ m.state = "SENDING_ACK" /\ Voted(m, 2 - Len(m.data)) = 2
<1>. DEFINE q == Hear(r, Level(s, level))
<1>1. r.rstate = "START_BIT_2" /\ q.rstate = "IDLE"
  OBVIOUS
<1>2. InStep(m, q, Level(s, level)) /\ s.sampleCount \in 0 .. Samples - 1
  BY InStepTick DEF Link
<1>. HIDE DEF q
<1>3. Sending(s)
  BY <1>1 DEF InStep, Quiet
<1>4. CASE s.state = "SENDING_ACK"
  <2>1. AckInStep(s, r, level) /\ s.data \in {<<1, 0>>, <<0>>}
    BY <1>4 DEF InStep, AckInStep
  <2>2. /\ Len(<<1, 0>>) = 2 /\ Len(<<0>>) = 1 /\ Tail(<<1, 0>>) = <<0>> /\ <<1, 0>> # <<0>>
        /\ <<1, 0>> # <<>> /\ <<0>> # <<>>
    OBVIOUS
  <2>3. ~(s.data = <<1, 0>> /\ s.sampleCount = 0)
    BY <1>1, <2>1 DEF AckInStep, Quiet
  <2>4. Voted(s, 2 - Len(s.data)) \in {0, 1, 2}
    <3>1. CASE s.data = <<1, 0>>
      BY <2>2, <3>1 DEF Voted
    <3>2. CASE s.data = <<0>>
      BY <2>2, <3>2 DEF Voted
    <3>. QED
      BY <2>1, <3>1, <3>2
  <2>5. Voted(s, 2 - Len(s.data)) = 1
    BY <1>1, <2>1, <2>3, <2>4 DEF AckInStep
  <2>6. CASE s.sampleCount + 1 < Samples
    <3>1. m.state = s.state /\ m.data = s.data /\ m.sampleCount = s.sampleCount + 1
      BY <1>2, <1>3, <2>6, PinAssumption DEF TickOfFrame
    <3>2. AckInStep(m, q, Level(s, level)) /\ m.sampleCount # 0
      BY <1>2, <1>4, <3>1 DEF InStep
    <3>3. Voted(m, 2 - Len(m.data)) \in {1, 2}
      BY <1>2, <2>1, <2>2, <2>5, <3>1, PinAssumption DEF Voted
    <3>4. Voted(m, 2 - Len(m.data)) = 2
      BY <1>1, <3>2, <3>3 DEF AckInStep
    <3>. QED
      BY <1>1, <1>4, <2>5, <3>1, <3>4 DEF q
  <2>7. CASE s.sampleCount + 1 = Samples /\ s.data = <<1, 0>>
    <3>1. m.state = s.state /\ m.data = <<0>> /\ m.sampleCount = 0
      BY <1>3, <2>2, <2>7, PinAssumption DEF TickOfFrame
    <3>2. AckInStep(m, q, Level(s, level)) /\ m.data # <<1, 0>>
      BY <1>2, <1>4, <2>2, <3>1 DEF InStep
    <3>3. Voted(m, 2 - Len(m.data)) = 1
      BY <2>2, <3>1, PinAssumption DEF Voted
    <3>. QED
      BY <1>1, <3>2, <3>3 DEF AckInStep
  <2>8. CASE s.sampleCount + 1 = Samples /\ s.data = <<0>>
    BY <1>2, <2>2, <2>5, <2>8, PinAssumption DEF Voted
  <2>. QED
    BY <1>2, <2>1, <2>6, <2>7, <2>8, PinAssumption
<1>5. ASSUME s.state = "SENDING_DATA" PROVE FALSE
  <2>. DEFINE n == Len(s.data)
              i == DataBits + 3 - n
              b == Current(s)
  <2>1. DataInStep(s, r, level) /\ n \in 1 .. DataBits + 3
    BY <1>5 DEF InStep, DataInStep
  <2>2. ~(i = 0 /\ s.sampleCount = 0)
    BY <1>1, <2>1 DEF DataInStep, Quiet
  <2>3. DataStage(r, b, Voted(s, i))
    BY <2>1, <2>2 DEF DataInStep
  <2>. HIDE DEF n
  <2>4. i \in Int /\ 0 <= i /\ i <= DataBits + 2 /\ n = DataBits + 3 - i /\ DataBits \in Nat /\ DataBits >= 1
    BY <2>1, PinAssumption
  <2>. HIDE DEF i, b
  <2>5. Voted(s, i) = i \/ Voted(s, i) = i + 1
    BY <2>4, VotedRange
  <2>6. Voted(s, i) = 1
    BY <1>1, <2>3, <2>4, <2>5 DEF DataStage
  <2>7. CASE s.sampleCount + 1 < Samples
    <3>1. m.state = s.state /\ m.data = s.data /\ m.sampleCount = s.sampleCount + 1
      BY <1>2, <1>3, <2>7, PinAssumption DEF TickOfFrame
    <3>2. DataInStep(m, q, Level(s, level)) /\ m.sampleCount # 0 /\ DataBits + 3 - Len(m.data) = i
      BY <1>2, <1>5, <3>1 DEF InStep, i, n
    <3>3. DataStage(q, Current(m), Voted(m, i))
      BY <3>2 DEF DataInStep
    <3>4. Voted(m, i) \in {1, 2}
      BY <1>2, <2>4, <2>6, <3>1, PinAssumption DEF Voted
    <3>. QED
      BY <1>1, <2>4, <3>3, <3>4 DEF DataStage
  <2>8. CASE s.sampleCount + 1 = Samples /\ n > 1
    <3>1. m.state = s.state /\ m.data = Tail(s.data) /\ m.sampleCount = 0
      <4>1. n # 1 /\ ~(s.sampleCount + 1 < Samples)
        BY <2>4, <2>8, PinAssumption
      <4>. QED
        BY <1>3, <4>1 DEF TickOfFrame, n
    <3>2. Len(m.data) = n - 1
      <4>1. s.data \in Seq(Bit) /\ s.data # <<>>
        BY <2>8 DEF Link, n
      <4>. QED
        BY <3>1, <4>1, HeadTailProperties DEF n
    <3>3. DataBits + 3 - Len(m.data) = i + 1 /\ i = 0
      <4>1. Voted(s, i) = i + 1
        BY <1>2, <2>4, <2>8, PinAssumption DEF Voted
      <4>. QED
        BY <2>4, <2>6, <3>2, <4>1
    <3>4. DataInStep(m, q, Level(s, level))
      BY <1>2, <1>5, <3>1 DEF InStep
    <3>5. Voted(m, 1) = 1
      BY <3>1, PinAssumption DEF Voted
    <3>6. DataStage(q, Current(m), 1)
      BY <3>3, <3>4, <3>5 DEF DataInStep
    <3>. QED
      BY <1>1, <3>6 DEF DataStage
  <2>9. CASE s.sampleCount + 1 = Samples /\ n = 1
    BY <2>4, <2>5, <2>6, <2>9
  <2>. QED
    BY <1>2, <2>4, <2>7, <2>8, <2>9, PinAssumption
<1>. QED
  BY <1>3, <1>4, <1>5 DEF Sending

-----------------------------------------------------------------------------
(* The sender of one link, with what its caller has asked to be sent and   *)
(* whether the caller is waiting.                                          *)
SenderOK(s) ==
  /\ s.state = "IDLE" => s.sending = <<>> /\ s.rts /\ ~s.send_ack /\ ~s.ack_rxed
  /\ s.state = "SENDING_ACK" =>
       s.rts /\ IF s.enqueued = <<>> THEN s.sending = <<>>
               ELSE s.sending # <<>> /\ s.enqueued = <<s.sending[1]>>
  /\ s.state = "SENDING_DATA" => s.sending # <<>>
  /\ s.state # "SENDING_ACK" => s.enqueued = <<>>
  /\ s.sendComplete => s.sending = <<>>
  /\ s.state = "ACK_TIMEOUT" => ~s.send_ack
  /\ s.timeout <=> s.state = "ACK_TIMEOUT"

SentOK(s, toSend, writing) ==
  /\ SenderOK(s)
  /\ s.state = "SENDING_DATA" => toSend = s.framed \o Tail(s.sending)
  /\ s.state \in {"IDLE", "SENDING_ACK"} => toSend = s.framed \o s.sending
  /\ s.state # "ACK_TIMEOUT" /\ s.sending # <<>> => writing
  /\ s.sendComplete => toSend = s.framed

(* The acks that the other end has yet to hear of data frames it sent.     *)
Owed(s) == IF \/ s.state = "SENDING_ACK" /\ Voted(s, 2 - Len(s.data)) < 2
              \/ s.state = "SENDING_DATA" /\ s.send_ack
           THEN 1 ELSE 0

FrameLeft(s) == Sending(s) => s.data # <<>>

(* The members of a link that are the sender's are the same in both.       *)
SameSender(l, m) ==
  /\ m.state = l.state /\ m.send_ack = l.send_ack /\ m.ack_rxed = l.ack_rxed
  /\ m.sampleCount = l.sampleCount /\ m.data = l.data /\ m.enqueued = l.enqueued
  /\ m.rts = l.rts /\ m.sendComplete = l.sendComplete /\ m.timeout = l.timeout
  /\ m.sending = l.sending /\ m.framed = l.framed

LEMMA SameSenderFacts ==
  ASSUME NEW l, NEW m, NEW toSend, NEW writing, SameSender(l, m)
  PROVE  /\ SameFrame(l, m) /\ Owed(m) = Owed(l)
         /\ FrameLeft(l) => FrameLeft(m)
         /\ SentOK(l, toSend, writing) => SentOK(m, toSend, writing)
<1>1. SameFrame(l, m)
  BY DEF SameSender, SameFrame
<1>2. Owed(m) = Owed(l)
  BY DEF SameSender, Owed, Voted
<1>3. FrameLeft(l) => FrameLeft(m)
  BY DEF SameSender, FrameLeft, Sending
<1>4. SenderOK(l) => SenderOK(m)
  BY DEF SameSender, SenderOK
<1>. QED
  BY <1>1, <1>2, <1>3, <1>4 DEF SentOK, SameSender

LEMMA AppendTail ==
  ASSUME NEW f \in Seq(Byte), NEW m \in Seq(Byte), m # <<>>
  PROVE  Append(f, m[1]) \o Tail(m) = f \o m
<1>1. /\ m[1] \in Byte /\ Tail(m) \in Seq(Byte) /\ Len(Tail(m)) = Len(m) - 1 /\ Len(m) \in Nat \ {0}
      /\ \A i \in 1 .. Len(Tail(m)) : Tail(m)[i] = m[i + 1]
  BY HeadTailProperties
<1>2. /\ Append(f, m[1]) \in Seq(Byte) /\ Len(Append(f, m[1])) = Len(f) + 1 /\ Len(f) \in Nat
      /\ \A i \in 1 .. Len(f) : Append(f, m[1])[i] = f[i]
      /\ Append(f, m[1])[Len(f) + 1] = m[1]
  BY <1>1, AppendProperties
<1>. DEFINE g == Append(f, m[1])
            u == Tail(m)
<1>3. /\ g \o u \in Seq(Byte) /\ Len(g \o u) = Len(g) + Len(u)
      /\ \A i \in 1 .. Len(g) + Len(u) : (g \o u)[i] = IF i <= Len(g) THEN g[i] ELSE u[i - Len(g)]
  BY <1>1, <1>2, ConcatProperties
<1>4. /\ f \o m \in Seq(Byte) /\ Len(f \o m) = Len(f) + Len(m)
      /\ \A i \in 1 .. Len(f) + Len(m) : (f \o m)[i] = IF i <= Len(f) THEN f[i] ELSE m[i - Len(f)]
  BY ConcatProperties
<1>5. ASSUME NEW i \in 1 .. Len(g) + Len(u) PROVE (g \o u)[i] = (f \o m)[i]
  <2>1. CASE i <= Len(f)
    BY <1>1, <1>2, <1>3, <1>4, <2>1
  <2>2. CASE i = Len(f) + 1
    BY <1>1, <1>2, <1>3, <1>4, <2>2
  <2>3. CASE i > Len(f) + 1
    <3>1. (g \o u)[i] = u[i - Len(g)] /\ i - Len(g) \in 1 .. Len(u) /\ i - Len(g) + 1 = i - Len(f)
      BY <1>1, <1>2, <1>3, <2>3
    <3>2. (f \o m)[i] = m[i - Len(f)]
      BY <1>1, <1>2, <1>4, <2>3
    <3>. QED
      BY <1>1, <3>1, <3>2
  <2>. QED
    BY <1>1, <1>2, <2>1, <2>2, <2>3
<1>6. Len(g \o u) = Len(f \o m)
  BY <1>1, <1>2, <1>3, <1>4
<1>. HIDE DEF g, u
<1>7. g \o u = f \o m
  BY <1>3, <1>4, <1>5, <1>6, SeqEqual
<1>. QED
  BY <1>7 DEF g, u

(* The members of a link that are not the sender's are the same in both.   *)
SameReceiver(l, m) ==
  /\ m.rstate = l.rstate /\ m.buffer = l.buffer /\ m.pin = l.pin
  /\ m.received = l.received /\ m.framing = l.framing /\ m.acks = l.acks
  /\ m.readComplete = l.readComplete /\ m.receiveBuffer = l.receiveBuffer
  /\ m.receiveLength = l.receiveLength /\ m.stored = l.stored

LEMMA SameReceiverFacts ==
  ASSUME NEW l, NEW m, SameReceiver(l, m)
  PROVE  Rx(m) = Rx(l) /\ StartsSeen(m) = StartsSeen(l)
BY DEF SameReceiver, Rx, StartsSeen

LEMMA FrameTypes ==
  /\ AckFrame \in Seq(Bit) /\ AckFrame # <<>> /\ 0 \in 0 .. Samples - 1
  /\ \A b \in Byte : DataFrame(b) \in Seq(Bit) /\ DataFrame(b) # <<>>
<1>1. AckFrame \in Seq(Bit) /\ AckFrame # <<>>
  BY DEF AckFrame, Bit
<1>2. ASSUME NEW b \in Byte PROVE DataFrame(b) \in Seq(Bit) /\ DataFrame(b) # <<>>
  <2>1. DataFrame(b) \in Seq(Bit) /\ Len(DataFrame(b)) = DataBits + 3
    BY FrameFacts
  <2>. QED
    BY <2>1, PinAssumption
<1>. QED
  BY <1>1, <1>2, PinAssumption

(* An ack is started by an idle sender, or in place of the next data frame. *)
LEMMA EnterSendingAck ==
  ASSUME NEW l \in Link, NEW toSend \in Seq(Byte), NEW writing,
         l.state \in {"IDLE", "SENDING_DATA"}, SentOK(l, toSend, writing)
  PROVE  LET m == enterSendingAck(l)
         IN /\ m \in Link /\ FrameLeft(m) /\ SameReceiver(l, m) /\ NextFrame(l, m)
            /\ SentOK(m, toSend, writing)
<1>. DEFINE m == enterSendingAck(l)
<1>. SUFFICES /\ m \in Link /\ FrameLeft(m) /\ SameReceiver(l, m) /\ NextFrame(l, m)
              /\ SentOK(m, toSend, writing)
  OBVIOUS
<1>1. l.sending \in Seq(Byte) /\ l.framed \in Seq(Byte) /\ l.enqueued = <<>>
  BY DEF Link, SentOK, SenderOK
<1>2. CASE l.state = "IDLE"
  <2>1. l.sending = <<>>
    BY <1>2 DEF SentOK, SenderOK
  <2>2. m = [l EXCEPT !.state = "SENDING_ACK", !.sampleCount = 0, !.data = AckFrame,
                      !.rts = TRUE, !.ack_rxed = FALSE]
    BY <2>1 DEF Link, enterSendingAck, setReadyToSend
  <2>3. m \in Link
    BY <2>2, FrameTypes DEF Link
  <2>4. /\ SameReceiver(l, m) /\ m.state = "SENDING_ACK" /\ m.data = AckFrame /\ m.sampleCount = 0
        /\ m.rts /\ m.sending = <<>> /\ m.enqueued = <<>> /\ m.framed = l.framed
        /\ m.sendComplete = l.sendComplete /\ m.timeout = l.timeout
    BY <1>1, <2>1, <2>2 DEF Link, SameReceiver
  <2>. HIDE DEF m
  <2>5. ~m.timeout /\ (m.sendComplete => toSend = m.framed) /\ toSend = m.framed \o m.sending
    BY <1>2, <2>1, <2>4 DEF SentOK, SenderOK
  <2>6. SentOK(m, toSend, writing)
    BY <2>4, <2>5 DEF SentOK, SenderOK
  <2>. QED
    BY <2>3, <2>4, <2>6, FrameTypes DEF FrameLeft, NextFrame
<1>3. ASSUME l.state = "SENDING_DATA"
      PROVE  /\ l.sending # <<>> /\ Tail(l.sending) \in Seq(Byte) /\ ~l.sendComplete /\ ~l.timeout
             /\ toSend = l.framed \o Tail(l.sending) /\ writing
  <2>1. l.sending # <<>> /\ toSend = l.framed \o Tail(l.sending)
    BY <1>3 DEF SentOK, SenderOK
  <2>4. Tail(l.sending) \in Seq(Byte)
    BY <1>1, <2>1, HeadTailProperties
  <2>2. ~l.sendComplete /\ ~l.timeout
    BY <1>3, <2>1 DEF SentOK, SenderOK
  <2>3. writing
    BY <1>3, <2>1 DEF SentOK
  <2>. QED
    BY <2>1, <2>2, <2>3, <2>4
<1>4. CASE l.state = "SENDING_DATA" /\ Tail(l.sending) = <<>>
  <2>1. m = [l EXCEPT !.state = "SENDING_ACK", !.sampleCount = 0, !.data = AckFrame,
                      !.rts = TRUE, !.sending = <<>>, !.sendComplete = TRUE, !.ack_rxed = FALSE]
    BY <1>3, <1>4 DEF Link, enterSendingAck, setReadyToSend
  <2>2. m \in Link
    <3>1. <<>> \in Seq(Byte)
      OBVIOUS
    <3>2. \A x \in Seq(Byte) :
            [l EXCEPT !.state = "SENDING_ACK", !.sampleCount = 0, !.data = AckFrame,
                      !.rts = TRUE, !.sending = x, !.sendComplete = TRUE, !.ack_rxed = FALSE] \in Link
      BY FrameTypes DEF Link
    <3>. QED
      BY <2>1, <3>1, <3>2
  <2>3. /\ SameReceiver(l, m) /\ m.state = "SENDING_ACK" /\ m.data = AckFrame /\ m.sampleCount = 0
        /\ m.rts /\ m.sending = <<>> /\ m.enqueued = <<>> /\ m.framed = l.framed /\ m.timeout = l.timeout
    BY <1>1, <2>1 DEF Link, SameReceiver
  <2>. HIDE DEF m
  <2>4. ~m.timeout /\ toSend = m.framed \o m.sending /\ toSend = m.framed
    BY <1>1, <1>3, <1>4, <2>3, ConcatEmptySeq
  <2>5. SentOK(m, toSend, writing)
    BY <2>3, <2>4 DEF SentOK, SenderOK
  <2>. QED
    BY <2>2, <2>3, <2>5, FrameTypes DEF FrameLeft, NextFrame
<1>5. CASE l.state = "SENDING_DATA" /\ Tail(l.sending) # <<>>
  <2>. DEFINE rest == Tail(l.sending)
  <2>1. rest \in Seq(Byte) /\ rest # <<>> /\ rest[1] \in Byte
    BY <1>3, <1>5
  <2>2. m = [l EXCEPT !.state = "SENDING_ACK", !.sampleCount = 0, !.data = AckFrame,
                      !.rts = TRUE, !.sending = rest, !.enqueued = <<rest[1]>>, !.ack_rxed = FALSE]
    BY <1>3, <1>5 DEF Link, enterSendingAck, setReadyToSend, sendData
  <2>. HIDE DEF rest
  <2>3. m \in Link
    <3>1. <<rest[1]>> \in {<<>>} \cup {<<b>> : b \in Byte}
      BY <2>1
    <3>2. \A x \in {<<>>} \cup {<<b>> : b \in Byte} :
            [l EXCEPT !.state = "SENDING_ACK", !.sampleCount = 0, !.data = AckFrame,
                      !.rts = TRUE, !.sending = rest, !.enqueued = x, !.ack_rxed = FALSE] \in Link
      BY <2>1, FrameTypes DEF Link
    <3>. QED
      BY <2>2, <3>1, <3>2
  <2>4. /\ SameReceiver(l, m) /\ m.state = "SENDING_ACK" /\ m.data = AckFrame /\ m.sampleCount = 0
        /\ m.rts /\ m.sending = rest /\ m.enqueued = <<rest[1]>> /\ m.framed = l.framed
        /\ m.timeout = l.timeout /\ m.sendComplete = l.sendComplete
    BY <1>1, <2>2 DEF Link, SameReceiver
  <2>. HIDE DEF m
  <2>5. ~m.timeout /\ ~m.sendComplete /\ toSend = m.framed \o m.sending /\ writing
    BY <1>3, <1>5, <2>4 DEF rest
  <2>6. SentOK(m, toSend, writing)
    BY <2>1, <2>4, <2>5 DEF SentOK, SenderOK
  <2>. QED
    BY <2>3, <2>4, <2>6, FrameTypes DEF FrameLeft, NextFrame
<1>. QED
  BY <1>2, <1>4, <1>5

(* An idle sender goes on to the next byte, or is done.                    *)
LEMMA EnterIdle ==
  ASSUME NEW l \in Link, NEW toSend \in Seq(Byte), NEW writing, Sending(l), ~(l.state = "SENDING_DATA" /\ l.send_ack),
         SentOK(l, toSend, writing), l.state = "SENDING_ACK" => l.enqueued = <<>>,
         l.state = "SENDING_DATA" => l.ack_rxed
  PROVE  LET m == enterIdle(l)
         IN /\ m \in Link /\ FrameLeft(m) /\ SameReceiver(l, m) /\ NextFrame(l, m)
            /\ SentOK(m, toSend, writing) /\ Owed(m) = 0 /\ ~m.timeout
            /\ m.state # "SENDING_ACK" /\ ~m.ack_rxed
<1>. DEFINE m == enterIdle(l)
<1>. SUFFICES /\ m \in Link /\ FrameLeft(m) /\ SameReceiver(l, m) /\ NextFrame(l, m)
              /\ SentOK(m, toSend, writing) /\ Owed(m) = 0 /\ ~m.timeout
              /\ m.state # "SENDING_ACK" /\ ~m.ack_rxed
  OBVIOUS
<1>1. l.sending \in Seq(Byte) /\ l.framed \in Seq(Byte) /\ l.enqueued = <<>>
  BY DEF Link, SentOK, SenderOK, Sending
<1>2. ~l.timeout
  BY DEF SentOK, SenderOK, Sending
<1>3. CASE l.state = "SENDING_ACK"
  <2>1. l.sending = <<>> /\ l.rts = TRUE /\ toSend = l.framed \o l.sending
    BY <1>1, <1>3 DEF SentOK, SenderOK, Link
  <2>2. CASE l.ack_rxed
    <3>1. m = [l EXCEPT !.state = "IDLE", !.send_ack = FALSE, !.ack_rxed = FALSE, !.rts = TRUE]
      BY <1>3, <2>1, <2>2 DEF Link, enterIdle, Exit, setReadyToSend
    <3>2. m \in Link
      BY <3>1 DEF Link
    <3>3. /\ SameReceiver(l, m) /\ m.state = "IDLE" /\ ~m.send_ack /\ ~m.ack_rxed /\ m.rts
          /\ m.sending = <<>> /\ m.enqueued = <<>> /\ m.framed = l.framed
          /\ m.sendComplete = l.sendComplete /\ m.timeout = l.timeout
      BY <1>1, <2>1, <3>1 DEF Link, SameReceiver
    <3>. HIDE DEF m
    <3>4. ~m.timeout /\ (m.sendComplete => toSend = m.framed) /\ toSend = m.framed \o m.sending
      BY <1>2, <2>1, <3>3 DEF SentOK, SenderOK
    <3>5. SentOK(m, toSend, writing)
      BY <3>3, <3>4 DEF SentOK, SenderOK
    <3>. QED
      BY <3>2, <3>3, <3>4, <3>5 DEF FrameLeft, NextFrame, Sending, Owed
  <2>3. CASE ~l.ack_rxed
    <3>1. m = [l EXCEPT !.state = "IDLE", !.send_ack = FALSE]
      BY <1>3, <2>1, <2>3 DEF Link, enterIdle, Exit, setReadyToSend
    <3>2. m \in Link
      BY <3>1 DEF Link
    <3>3. /\ SameReceiver(l, m) /\ m.state = "IDLE" /\ ~m.send_ack /\ ~m.ack_rxed /\ m.rts = TRUE
          /\ m.sending = <<>> /\ m.enqueued = <<>> /\ m.framed = l.framed
          /\ m.sendComplete = l.sendComplete /\ m.timeout = l.timeout
      BY <1>1, <2>1, <2>3, <3>1 DEF Link, SameReceiver
    <3>. HIDE DEF m
    <3>4. ~m.timeout /\ (m.sendComplete => toSend = m.framed) /\ toSend = m.framed \o m.sending /\ ~m.ack_rxed
      BY <1>2, <2>1, <2>3, <3>3 DEF SentOK, SenderOK
    <3>5. SentOK(m, toSend, writing)
      BY <3>3, <3>4 DEF SentOK, SenderOK
    <3>. QED
      BY <3>2, <3>3, <3>4, <3>5 DEF FrameLeft, NextFrame, Sending, Owed
  <2>. QED
    BY <2>2, <2>3
<1>4. ASSUME l.state = "SENDING_DATA"
      PROVE  /\ l.sending # <<>> /\ Tail(l.sending) \in Seq(Byte) /\ ~l.sendComplete /\ l.ack_rxed
             /\ ~l.send_ack /\ toSend = l.framed \o Tail(l.sending) /\ writing
  <2>1. l.sending # <<>> /\ toSend = l.framed \o Tail(l.sending)
    BY <1>4 DEF SentOK, SenderOK
  <2>4. Tail(l.sending) \in Seq(Byte)
    BY <1>1, <2>1, HeadTailProperties
  <2>2. ~l.sendComplete /\ l.ack_rxed /\ ~l.send_ack
    BY <1>4, <2>1 DEF SentOK, SenderOK
  <2>3. writing
    BY <1>4, <2>1 DEF SentOK
  <2>. QED
    BY <2>1, <2>2, <2>3, <2>4
<1>5. CASE l.state = "SENDING_DATA" /\ Tail(l.sending) = <<>>
  <2>1. m = [l EXCEPT !.state = "IDLE", !.ack_rxed = FALSE, !.rts = TRUE, !.sending = <<>>,
                      !.sendComplete = TRUE]
    BY <1>4, <1>5 DEF Link, enterIdle, Exit, setReadyToSend
  <2>2. m \in Link
    <3>1. <<>> \in Seq(Byte)
      OBVIOUS
    <3>. QED
      BY <2>1, <3>1 DEF Link
  <2>3. /\ SameReceiver(l, m) /\ m.state = "IDLE" /\ m.send_ack = l.send_ack /\ ~m.ack_rxed /\ m.rts
        /\ m.sending = <<>> /\ m.enqueued = <<>> /\ m.framed = l.framed /\ m.timeout = l.timeout
    BY <1>1, <2>1 DEF Link, SameReceiver
  <2>. HIDE DEF m
  <2>4. ~m.timeout /\ toSend = m.framed \o m.sending /\ toSend = m.framed /\ ~m.send_ack
    BY <1>1, <1>2, <1>4, <1>5, <2>3, ConcatEmptySeq
  <2>5. SentOK(m, toSend, writing)
    BY <2>3, <2>4 DEF SentOK, SenderOK
  <2>. QED
    BY <2>2, <2>3, <2>4, <2>5 DEF FrameLeft, NextFrame, Sending, Owed
<1>6. CASE l.state = "SENDING_DATA" /\ Tail(l.sending) # <<>>
  <2>. DEFINE rest == Tail(l.sending)
  <2>1. rest \in Seq(Byte) /\ rest # <<>> /\ rest[1] \in Byte
    BY <1>4, <1>6
  <2>2. m = [l EXCEPT !.state = "SENDING_DATA", !.ack_rxed = FALSE, !.rts = FALSE, !.sending = rest,
                      !.sampleCount = 0, !.data = DataFrame(rest[1]),
                      !.framed = Append(l.framed, rest[1])]
    <3>. DEFINE k == [l EXCEPT !.state = "IDLE", !.ack_rxed = FALSE, !.rts = TRUE, !.sending = rest]
    <3>1. m = sendData(k, rest[1])
      BY <1>4, <1>6 DEF Link, enterIdle, Exit, setReadyToSend
    <3>2. k.state = "IDLE" /\ k.rts
      BY DEF Link
    <3>3. sendData(k, rest[1]) = sendDataInternal([k EXCEPT !.ack_rxed = FALSE, !.rts = FALSE], rest[1])
      <4>. HIDE DEF k
      <4>. QED
        BY <3>2 DEF sendData
    <3>4. sendDataInternal([k EXCEPT !.ack_rxed = FALSE, !.rts = FALSE], rest[1])
            = [l EXCEPT !.state = "SENDING_DATA", !.ack_rxed = FALSE, !.rts = FALSE, !.sending = rest,
                        !.sampleCount = 0, !.data = DataFrame(rest[1]),
                        !.framed = Append(l.framed, rest[1])]
      BY DEF Link, sendDataInternal
    <3>. QED
      BY <3>1, <3>3, <3>4
  <2>. HIDE DEF rest
  <2>3. m \in Link
    <3>1. Append(l.framed, rest[1]) \in Seq(Byte)
      BY <1>1, <2>1
    <3>2. \A d \in Seq(Bit), f \in Seq(Byte) :
            [l EXCEPT !.state = "SENDING_DATA", !.ack_rxed = FALSE, !.rts = FALSE, !.sending = rest,
                      !.sampleCount = 0, !.data = d, !.framed = f] \in Link
      BY <2>1, FrameTypes DEF Link
    <3>3. DataFrame(rest[1]) \in Seq(Bit)
      BY <2>1, FrameTypes
    <3>. HIDE DEF m
    <3>. QED
      BY <2>2, <3>1, <3>2, <3>3
  <2>4. /\ SameReceiver(l, m) /\ m.state = "SENDING_DATA" /\ m.data = DataFrame(rest[1]) /\ m.sampleCount = 0
        /\ m.sending = rest /\ m.enqueued = <<>> /\ m.framed = Append(l.framed, rest[1])
        /\ m.timeout = l.timeout /\ m.sendComplete = l.sendComplete /\ m.send_ack = l.send_ack
        /\ ~m.ack_rxed
    BY <1>1, <2>2 DEF Link, SameReceiver
  <2>. HIDE DEF m
  <2>5. ~m.timeout /\ ~m.sendComplete /\ ~m.send_ack /\ writing
    BY <1>2, <1>4, <1>6, <2>4
  <2>6. toSend = m.framed \o Tail(m.sending)
    BY <1>1, <1>4, <1>6, <2>1, <2>4, AppendTail DEF rest
  <2>7. SentOK(m, toSend, writing)
    BY <2>1, <2>4, <2>5, <2>6 DEF SentOK, SenderOK
  <2>8. NextFrame(l, m) /\ FrameLeft(m)
    BY <2>1, <2>4, FrameTypes DEF FrameLeft, NextFrame
  <2>9. Owed(m) = 0
    BY <2>4, <2>5 DEF Owed
  <2>. QED
    BY <2>3, <2>4, <2>5, <2>7, <2>8, <2>9
<1>. QED
  BY <1>3, <1>5, <1>6 DEF Sending

LEMMA EnterAckTimeout ==
  ASSUME NEW l \in Link, NEW toSend, NEW writing, Sending(l), SentOK(l, toSend, writing),
         l.state = "SENDING_ACK" => l.enqueued = <<>>, l.state = "SENDING_DATA" => ~l.send_ack
  PROVE  LET m == enterAckTimeout(l)
         IN /\ m \in Link /\ FrameLeft(m) /\ SameReceiver(l, m) /\ NextFrame(l, m)
            /\ SentOK(m, toSend, writing) /\ Owed(m) = 0
<1>. DEFINE m == enterAckTimeout(l)
<1>. SUFFICES /\ m \in Link /\ FrameLeft(m) /\ SameReceiver(l, m) /\ NextFrame(l, m)
              /\ SentOK(m, toSend, writing) /\ Owed(m) = 0
  OBVIOUS
<1>1. l.enqueued = <<>>
  BY DEF SentOK, SenderOK, Sending
<1>2. m \in Link /\ SameReceiver(l, m)
  <2>1. m = [l EXCEPT !.state = "ACK_TIMEOUT", !.timeout = TRUE,
                      !.send_ack = IF l.state = "SENDING_ACK" THEN FALSE ELSE l.send_ack]
    BY DEF Link, enterAckTimeout, Exit
  <2>2. (IF l.state = "SENDING_ACK" THEN FALSE ELSE l.send_ack) \in BOOLEAN
    BY DEF Link
  <2>3. \A x \in BOOLEAN : [l EXCEPT !.state = "ACK_TIMEOUT", !.timeout = TRUE, !.send_ack = x] \in Link
    BY DEF Link
  <2>4. m \in Link
    BY <2>1, <2>2, <2>3
  <2>. QED
    BY <2>1, <2>4 DEF Link, SameReceiver
<1>3. /\ m.state = "ACK_TIMEOUT" /\ m.timeout /\ m.sending = l.sending /\ m.enqueued = l.enqueued
      /\ m.framed = l.framed /\ m.sendComplete = l.sendComplete
  BY DEF Link, enterAckTimeout, Exit
<1>4. ~m.send_ack
  <2>1. CASE l.state = "SENDING_ACK"
    BY <2>1 DEF Link, enterAckTimeout, Exit
  <2>2. CASE l.state = "SENDING_DATA"
    <3>1. m.send_ack = l.send_ack
      BY <2>2 DEF Link, enterAckTimeout, Exit
    <3>. QED
      BY <2>2, <3>1
  <2>. QED
    BY <2>1, <2>2 DEF Sending
<1>. HIDE DEF m
<1>5. (m.sendComplete => m.sending = <<>>) /\ (m.sendComplete => toSend = m.framed)
  BY <1>3 DEF SentOK, SenderOK
<1>6. SentOK(m, toSend, writing)
  BY <1>1, <1>3, <1>4, <1>5 DEF SentOK, SenderOK
<1>. QED
  BY <1>2, <1>3, <1>6 DEF FrameLeft, NextFrame, Sending, Owed

(* What follows the last bit of a frame.                                   *)
LEMMA EndOfFrame ==
  ASSUME NEW l \in Link, NEW toSend \in Seq(Byte), NEW writing, Sending(l), SentOK(l, toSend, writing)
  PROVE  LET m == endOfFrame(l)
         IN /\ m \in Link /\ FrameLeft(m) /\ SameReceiver(l, m) /\ NextFrame(l, m)
            /\ SentOK(m, toSend, writing)
            /\ Owed(m) = 0 \/ (l.state = "SENDING_DATA" /\ l.send_ack)
            /\ m.timeout => ~l.ack_rxed /\ (l.send_ack <=> l.state = "SENDING_ACK")
<1>. DEFINE m == endOfFrame(l)
<1>. SUFFICES /\ m \in Link /\ FrameLeft(m) /\ SameReceiver(l, m) /\ NextFrame(l, m)
              /\ SentOK(m, toSend, writing)
              /\ Owed(m) = 0 \/ (l.state = "SENDING_DATA" /\ l.send_ack)
              /\ m.timeout => ~l.ack_rxed /\ (l.send_ack <=> l.state = "SENDING_ACK")
  OBVIOUS
<1>1. /\ l.sending \in Seq(Byte) /\ l.framed \in Seq(Byte) /\ ~l.timeout
      /\ l.enqueued = <<>> \/ \E b \in Byte : l.enqueued = <<b>>
  BY DEF Link, SentOK, SenderOK, Sending
<1>2. ASSUME l.state = "SENDING_ACK", NEW b \in Byte, l.enqueued = <<b>>
      PROVE  /\ m \in Link /\ FrameLeft(m) /\ SameReceiver(l, m) /\ NextFrame(l, m)
             /\ SentOK(m, toSend, writing) /\ Owed(m) = 0 /\ ~m.timeout
  <2>1. /\ l.sending # <<>> /\ l.sending[1] = b /\ toSend = l.framed \o l.sending /\ writing
        /\ l.enqueued # <<>> /\ l.enqueued[1] = b
    <3>1. l.enqueued # <<>> /\ l.enqueued[1] = b
      BY <1>2
    <3>2. l.sending # <<>> /\ l.enqueued = <<l.sending[1]>> /\ toSend = l.framed \o l.sending
      BY <1>2, <3>1 DEF SentOK, SenderOK
    <3>3. writing
      BY <1>2, <3>2 DEF SentOK
    <3>. QED
      BY <3>1, <3>2, <3>3
  <2>2. ~l.sendComplete
    BY <2>1 DEF SentOK, SenderOK
  <2>3. m = [l EXCEPT !.state = "SENDING_DATA", !.send_ack = FALSE, !.ack_rxed = FALSE,
                      !.sampleCount = 0, !.data = DataFrame(b), !.framed = Append(l.framed, b),
                      !.enqueued = <<>>]
    BY <1>2, <2>1 DEF Link, endOfFrame, sendDataInternal
  <2>4. m \in Link
    <3>1. /\ DataFrame(b) \in Seq(Bit) /\ Append(l.framed, b) \in Seq(Byte)
          /\ <<>> \in {<<>>} \cup {<<x>> : x \in Byte}
      BY <1>1, FrameTypes
    <3>2. \A d \in Seq(Bit), f \in Seq(Byte), x \in {<<>>} \cup {<<y>> : y \in Byte} :
            [l EXCEPT !.state = "SENDING_DATA", !.send_ack = FALSE, !.ack_rxed = FALSE,
                      !.sampleCount = 0, !.data = d, !.framed = f, !.enqueued = x] \in Link
      BY FrameTypes DEF Link
    <3>. HIDE DEF m
    <3>. QED
      BY <2>3, <3>1, <3>2
  <2>5. /\ SameReceiver(l, m) /\ m.state = "SENDING_DATA" /\ ~m.send_ack /\ m.sampleCount = 0
        /\ m.data = DataFrame(b) /\ m.framed = Append(l.framed, b) /\ m.enqueued = <<>>
        /\ m.sending = l.sending /\ m.sendComplete = l.sendComplete /\ m.timeout = l.timeout
    BY <2>3 DEF Link, SameReceiver
  <2>. HIDE DEF m
  <2>6. ~m.timeout /\ ~m.sendComplete
    BY <1>1, <2>2, <2>5
  <2>7. toSend = m.framed \o Tail(m.sending)
    <3>1. Append(l.framed, l.sending[1]) \o Tail(l.sending) = l.framed \o l.sending
      BY <1>1, <2>1, AppendTail
    <3>. QED
      BY <2>1, <2>5, <3>1
  <2>8. SentOK(m, toSend, writing)
    BY <2>1, <2>5, <2>6, <2>7 DEF SentOK, SenderOK
  <2>9. NextFrame(l, m) /\ FrameLeft(m) /\ Owed(m) = 0
    BY <2>5, FrameTypes DEF FrameLeft, NextFrame, Owed
  <2>. QED
    BY <2>4, <2>5, <2>6, <2>8, <2>9
<1>3. CASE l.state = "SENDING_ACK" /\ l.enqueued = <<>>
  <2>1. CASE l.send_ack /\ ~l.ack_rxed
    <3>1. m = enterAckTimeout(l)
      BY <1>3, <2>1 DEF endOfFrame
    <3>. HIDE DEF m
    <3>. QED
      BY <1>3, <2>1, <3>1, EnterAckTimeout
  <2>2. CASE ~(l.send_ack /\ ~l.ack_rxed)
    <3>1. m = enterIdle(l)
      BY <1>3, <2>2 DEF endOfFrame
    <3>. HIDE DEF m
    <3>. QED
      BY <1>3, <3>1, EnterIdle
  <2>. QED
    BY <2>1, <2>2
<1>4. CASE l.state = "SENDING_DATA" /\ l.send_ack
  <2>1. m = enterSendingAck(l)
    BY <1>4 DEF endOfFrame
  <2>. HIDE DEF m
  <2>2. /\ m \in Link /\ FrameLeft(m) /\ SameReceiver(l, m) /\ NextFrame(l, m)
        /\ SentOK(m, toSend, writing)
    BY <1>4, <2>1, EnterSendingAck
  <2>3. m.state # "ACK_TIMEOUT"
    BY <2>1 DEF enterSendingAck, setReadyToSend, sendData, Link
  <2>. QED
    BY <1>4, <2>2, <2>3 DEF SentOK, SenderOK
<1>5. CASE l.state = "SENDING_DATA" /\ ~l.send_ack
  <2>1. CASE l.ack_rxed
    <3>1. m = enterIdle(l)
      BY <1>5, <2>1 DEF endOfFrame
    <3>. HIDE DEF m
    <3>. QED
      BY <1>5, <2>1, <3>1, EnterIdle
  <2>2. CASE ~l.ack_rxed
    <3>1. m = enterAckTimeout(l)
      BY <1>5, <2>2 DEF endOfFrame
    <3>. HIDE DEF m
    <3>. QED
      BY <1>5, <2>2, <3>1, EnterAckTimeout
  <2>. QED
    BY <2>1, <2>2
<1>. QED
  BY <1>1, <1>2, <1>3, <1>4, <1>5 DEF Sending

(* The sender's half of a tick.                                            *)
LEMMA SenderClock ==
  ASSUME NEW l \in Link, NEW toSend \in Seq(Byte), NEW writing, FrameLeft(l), SentOK(l, toSend, writing)
  PROVE  LET m == senderClock(l)
         IN /\ m \in Link /\ FrameLeft(m) /\ SameReceiver(l, m) /\ TickOfFrame(l, m)
            /\ SentOK(m, toSend, writing) /\ Owed(m) <= Owed(l)
            /\ m.timeout => \/ l.timeout
                            \/ /\ Sending(l) /\ l.sampleCount + 1 = Samples /\ Len(l.data) = 1
                               /\ ~l.ack_rxed /\ (l.send_ack <=> l.state = "SENDING_ACK")
<1>. DEFINE m == senderClock(l)
            c == l.sampleCount
<1>. SUFFICES /\ m \in Link /\ FrameLeft(m) /\ SameReceiver(l, m) /\ TickOfFrame(l, m)
              /\ SentOK(m, toSend, writing) /\ Owed(m) <= Owed(l)
              /\ m.timeout => \/ l.timeout
                              \/ /\ Sending(l) /\ c + 1 = Samples /\ Len(l.data) = 1
                                 /\ ~l.ack_rxed /\ (l.send_ack <=> l.state = "SENDING_ACK")
  OBVIOUS
<1>1. c \in 0 .. Samples - 1 /\ l.data \in Seq(Bit) /\ Samples \in Nat /\ Samples > 0 /\ VoteAt \in Nat
  BY PinAssumption DEF Link
<1>2. CASE ~Sending(l)
  <2>1. m = l
    BY <1>2 DEF senderClock
  <2>. HIDE DEF m
  <2>. QED
    BY <1>2, <2>1 DEF FrameLeft, SameReceiver, TickOfFrame, SameFrame, Owed
<1>3. CASE Sending(l) /\ c + 1 < Samples
  <2>1. m = [l EXCEPT !.sampleCount = c + 1]
    BY <1>3 DEF senderClock
  <2>2. m \in Link
    <3>1. c + 1 \in 0 .. Samples - 1
      BY <1>1, <1>3
    <3>2. \A x \in 0 .. Samples - 1 : [l EXCEPT !.sampleCount = x] \in Link
      BY DEF Link
    <3>. HIDE DEF m, c
    <3>. QED
      BY <2>1, <3>1, <3>2
  <2>3. /\ SameReceiver(l, m) /\ m.sampleCount = c + 1
        /\ m.state = l.state /\ m.send_ack = l.send_ack /\ m.ack_rxed = l.ack_rxed
        /\ m.data = l.data /\ m.enqueued = l.enqueued /\ m.rts = l.rts
        /\ m.sendComplete = l.sendComplete /\ m.timeout = l.timeout
        /\ m.sending = l.sending /\ m.framed = l.framed
    BY <2>1 DEF Link, SameReceiver
  <2>. HIDE DEF m
  <2>4. SenderOK(m)
    BY <2>3 DEF SentOK, SenderOK
  <2>5. SentOK(m, toSend, writing)
    BY <2>3, <2>4 DEF SentOK
  <2>6. TickOfFrame(l, m) /\ FrameLeft(m)
    BY <1>3, <2>3 DEF TickOfFrame, FrameLeft, Sending
  <2>7. Owed(m) <= Owed(l)
    <3>. DEFINE k == 2 - Len(l.data)
    <3>1. k \in Int
      BY <1>1
    <3>. HIDE DEF k
    <3>2. Voted(l, k) <= Voted(m, k) /\ Voted(l, k) \in Int /\ Voted(m, k) \in Int
      BY <1>1, <2>3, <3>1 DEF Voted
    <3>3. Voted(m, k) < 2 => Voted(l, k) < 2
      BY <3>2
    <3>. QED
      BY <2>3, <3>3 DEF Owed, k
  <2>. QED
    BY <2>2, <2>3, <2>5, <2>6, <2>7
<1>4. ASSUME Sending(l), c + 1 = Samples
      PROVE  /\ l.data # <<>> /\ Tail(l.data) \in Seq(Bit) /\ Len(Tail(l.data)) = Len(l.data) - 1
             /\ Len(l.data) \in Nat \ {0}
             /\ Tail(l.data) = <<>> <=> Len(l.data) = 1
  <2>1. l.data # <<>>
    BY <1>4 DEF FrameLeft
  <2>2. Tail(l.data) \in Seq(Bit) /\ Len(Tail(l.data)) = Len(l.data) - 1 /\ Len(l.data) \in Nat \ {0}
    BY <1>1, <2>1, HeadTailProperties
  <2>3. Tail(l.data) = <<>> <=> Len(Tail(l.data)) = 0
    BY <2>2, EmptySeq
  <2>. QED
    BY <2>1, <2>2, <2>3
<1>. DEFINE sent == [l EXCEPT !.sampleCount = 0, !.data = Tail(l.data)]
<1>5. ASSUME Sending(l), c + 1 = Samples
      PROVE  /\ m = IF sent.data = <<>> THEN endOfFrame(sent) ELSE sent
             /\ sent.data = Tail(l.data)
  BY <1>1, <1>5 DEF senderClock, Link
<1>6. ASSUME Sending(l), c + 1 = Samples
      PROVE  /\ sent \in Link /\ SameReceiver(l, sent) /\ sent.sampleCount = 0 /\ sent.state = l.state
             /\ sent.send_ack = l.send_ack /\ sent.ack_rxed = l.ack_rxed /\ sent.framed = l.framed
             /\ sent.timeout = l.timeout /\ SentOK(sent, toSend, writing)
  <2>1. sent \in Link
    BY <1>4, <1>6, FrameTypes DEF Link
  <2>2. /\ SameReceiver(l, sent) /\ sent.sampleCount = 0
        /\ sent.state = l.state /\ sent.send_ack = l.send_ack /\ sent.ack_rxed = l.ack_rxed
        /\ sent.enqueued = l.enqueued /\ sent.rts = l.rts
        /\ sent.sendComplete = l.sendComplete /\ sent.timeout = l.timeout
        /\ sent.sending = l.sending /\ sent.framed = l.framed
    BY DEF Link, SameReceiver
  <2>. HIDE DEF sent
  <2>3. SenderOK(sent)
    BY <2>2 DEF SentOK, SenderOK
  <2>4. SentOK(sent, toSend, writing)
    BY <2>2, <2>3 DEF SentOK
  <2>. QED
    BY <2>1, <2>2, <2>4
<1>. HIDE DEF m, sent
<1>7. CASE Sending(l) /\ c + 1 = Samples /\ Len(l.data) # 1
  <2>1. m = sent /\ Len(l.data) > 1 /\ sent.data = Tail(l.data)
    <3>1. Len(l.data) > 1 /\ Tail(l.data) # <<>>
      BY <1>4, <1>7
    <3>2. sent.data = Tail(l.data)
      BY <1>5, <1>7
    <3>. QED
      BY <1>5, <1>7, <3>1, <3>2
  <2>2. TickOfFrame(l, m) /\ FrameLeft(m)
    BY <1>4, <1>6, <1>7, <2>1 DEF TickOfFrame, FrameLeft
  <2>3. Owed(m) <= Owed(l)
    <3>1. Voted(l, 2 - Len(l.data)) = Voted(m, 2 - Len(m.data))
      <4>1. Len(m.data) = Len(l.data) - 1 /\ Len(l.data) \in Nat
        BY <1>4, <1>7, <2>1
      <4>2. c > VoteAt /\ ~(m.sampleCount > VoteAt)
        BY <1>1, <1>6, <1>7, <2>1, PinAssumption
      <4>. HIDE DEF c
      <4>3. Voted(l, 2 - Len(l.data)) = 2 - Len(l.data) + 1
        BY <4>1, <4>2 DEF Voted, c
      <4>4. Voted(m, 2 - Len(m.data)) = 2 - Len(m.data) + 0
        BY <4>1, <4>2 DEF Voted
      <4>. QED
        BY <4>1, <4>3, <4>4
    <3>2. m.state = l.state /\ m.send_ack = l.send_ack
      BY <1>6, <1>7, <2>1
    <3>. QED
      BY <3>1, <3>2 DEF Owed
  <2>4. m.timeout => l.timeout
    BY <1>6, <1>7, <2>1
  <2>. QED
    BY <1>6, <1>7, <2>1, <2>2, <2>3, <2>4
<1>8. CASE Sending(l) /\ c + 1 = Samples /\ Len(l.data) = 1
  <2>1. m = endOfFrame(sent) /\ Sending(sent)
    BY <1>4, <1>5, <1>6, <1>8 DEF Sending
  <2>2. /\ m \in Link /\ FrameLeft(m) /\ SameReceiver(sent, m) /\ NextFrame(sent, m)
        /\ SentOK(m, toSend, writing)
        /\ Owed(m) = 0 \/ (sent.state = "SENDING_DATA" /\ sent.send_ack)
        /\ m.timeout => ~sent.ack_rxed /\ (sent.send_ack <=> sent.state = "SENDING_ACK")
    BY <1>6, <1>8, <2>1, EndOfFrame
  <2>3. SameReceiver(l, m)
    BY <1>6, <1>8, <2>2 DEF SameReceiver
  <2>4. TickOfFrame(l, m)
    <3>1. NextFrame(l, m)
      BY <1>6, <1>8, <2>2 DEF NextFrame
    <3>. QED
      BY <1>8, <3>1 DEF TickOfFrame
  <2>5. Owed(m) <= Owed(l)
    <3>1. CASE Owed(m) = 0
      BY <3>1 DEF Owed
    <3>2. CASE l.state = "SENDING_DATA" /\ l.send_ack
      BY <3>2 DEF Owed
    <3>. QED
      BY <1>6, <1>8, <2>2, <3>1, <3>2
  <2>6. m.timeout => ~l.ack_rxed /\ (l.send_ack <=> l.state = "SENDING_ACK")
    BY <1>6, <1>8, <2>2
  <2>. QED
    BY <1>8, <2>2, <2>3, <2>4, <2>5, <2>6
<1>. QED
  BY <1>1, <1>2, <1>3, <1>7, <1>8

-----------------------------------------------------------------------------
(* What the receiver of a link asks of its sender.                         *)
Starts(l, m) == SameFrame(l, m) \/ (~Sending(l) /\ NextFrame(l, m))

LEMMA SendAck ==
  ASSUME NEW l \in Link, NEW toSend \in Seq(Byte), NEW writing, FrameLeft(l), SentOK(l, toSend, writing)
  PROVE  LET m == sendAck(l)
         IN /\ m \in Link /\ FrameLeft(m) /\ SameReceiver(l, m) /\ Starts(l, m)
            /\ SentOK(m, toSend, writing) /\ m.timeout = l.timeout
<1>. DEFINE m == sendAck(l)
<1>. SUFFICES /\ m \in Link /\ FrameLeft(m) /\ SameReceiver(l, m) /\ Starts(l, m)
              /\ SentOK(m, toSend, writing) /\ m.timeout = l.timeout
  OBVIOUS
<1>1. CASE l.state = "IDLE"
  <2>1. m = enterSendingAck(l) /\ ~Sending(l)
    BY <1>1 DEF sendAck, Sending
  <2>2. m.timeout = l.timeout
    BY <1>1, <2>1 DEF enterSendingAck, setReadyToSend, sendData, Link
  <2>. HIDE DEF m
  <2>. QED
    BY <1>1, <2>1, <2>2, EnterSendingAck DEF Starts
<1>2. CASE l.state = "SENDING_DATA"
  <2>1. m = [l EXCEPT !.send_ack = TRUE]
    BY <1>2 DEF sendAck
  <2>2. m \in Link
    BY <2>1 DEF Link
  <2>3. /\ SameReceiver(l, m) /\ m.sampleCount = l.sampleCount
        /\ m.state = l.state /\ m.ack_rxed = l.ack_rxed
        /\ m.data = l.data /\ m.enqueued = l.enqueued /\ m.rts = l.rts
        /\ m.sendComplete = l.sendComplete /\ m.timeout = l.timeout
        /\ m.sending = l.sending /\ m.framed = l.framed
    BY <2>1 DEF Link, SameReceiver
  <2>. HIDE DEF m
  <2>4. SenderOK(m)
    BY <1>2, <2>3 DEF SentOK, SenderOK
  <2>5. SentOK(m, toSend, writing)
    BY <2>3, <2>4 DEF SentOK
  <2>. QED
    BY <2>2, <2>3, <2>5 DEF Starts, SameFrame, FrameLeft, Sending
<1>3. CASE l.state \in {"SENDING_ACK", "ACK_TIMEOUT"}
  <2>1. m = l
    BY <1>3 DEF sendAck
  <2>. HIDE DEF m
  <2>. QED
    BY <2>1 DEF Starts, SameFrame, SameReceiver
<1>. QED
  BY <1>1, <1>2, <1>3 DEF Link

(* The receiver's own members are as Heard has them.                       *)
LEMMA RxReceiver ==
  ASSUME NEW l \in Link
  PROVE  Rx(l) \in Receiver
BY DEF Rx, Link, Receiver

LEMMA RxFields ==
  ASSUME NEW l
  PROVE  /\ Rx(l).rstate = l.rstate /\ Rx(l).buffer = l.buffer /\ Rx(l).pin = l.pin
         /\ Rx(l).received = l.received /\ Rx(l).framing = l.framing /\ Rx(l).acks = l.acks
BY DEF Rx

LEMMA RxEqual ==
  ASSUME NEW m \in Link, NEW q \in Receiver, m.rstate = q.rstate, m.buffer = q.buffer, m.pin = q.pin,
         m.received = q.received, m.framing = q.framing, m.acks = q.acks
  PROVE  Rx(m) = q
<1>1. \A r \in Receiver : /\ r.rstate = q.rstate /\ r.buffer = q.buffer /\ r.pin = q.pin
                         /\ r.received = q.received /\ r.framing = q.framing /\ r.acks = q.acks
                         => r = q
  BY DEF Receiver
<1>. QED
  BY <1>1, RxReceiver, RxFields

LEMMA BitStateReceived ==
  ASSUME NEW l \in Link, NEW toSend \in Seq(Byte), NEW writing, NEW bit \in Bit, FrameLeft(l),
         SentOK(l, toSend, writing), l.rstate = "STOP_BIT" => Len(l.buffer) = DataBits
  PROVE  LET m == bitStateReceived(l, bit)
         IN /\ m \in Link /\ FrameLeft(m) /\ Starts(l, m) /\ SentOK(m, toSend, writing)
            /\ Rx(m) = Heard(Rx(l), bit) /\ m.timeout = l.timeout
            /\ Owed(m) = Owed(l) \/ (l.rstate = "START_BIT_2" /\ m.rstate = "DATA")
<1>. DEFINE m == bitStateReceived(l, bit)
<1>. SUFFICES /\ m \in Link /\ FrameLeft(m) /\ Starts(l, m) /\ SentOK(m, toSend, writing)
              /\ Rx(m) = Heard(Rx(l), bit) /\ m.timeout = l.timeout
              /\ Owed(m) = Owed(l) \/ (l.rstate = "START_BIT_2" /\ m.rstate = "DATA")
  OBVIOUS
<1>. DEFINE r == Rx(l)
            h == Heard(r, bit)
<1>0. /\ r.rstate = l.rstate /\ r.buffer = l.buffer /\ r.received = l.received /\ r.acks = l.acks
      /\ r.pin = l.pin /\ r.framing = l.framing
      /\ l.buffer \in Seq(Bit) /\ l.received \in Seq(Byte) /\ l.acks \in 0 .. AckBound
  BY RxFields DEF Link
<1>00. r \in Receiver /\ h \in Receiver
  BY <1>0, RxReceiver, HeardType
<1>1. CASE l.rstate = "IDLE"
  <2>. DEFINE x == IF bit = 1 THEN "START_BIT_2" ELSE l.rstate
  <2>1. m = [l EXCEPT !.rstate = x] /\ x \in {"IDLE", "START_BIT_2"}
    BY <1>1 DEF bitStateReceived
  <2>2. Heard(r, bit) = [r EXCEPT !.rstate = x]
    <3>1. Heard(r, bit) = [r EXCEPT !.rstate = IF bit = 1 THEN "START_BIT_2" ELSE r.rstate]
      <4>. HIDE DEF r
      <4>1. r.rstate = "IDLE" /\ bit \in Bit
        BY <1>0, <1>1
      <4>. QED
        BY <4>1, HeardIs
    <3>. QED
      BY <1>0, <3>1
  <2>. HIDE DEF m, x
  <2>3. m \in Link
    BY <2>1 DEF Link
  <2>4. Rx(m) = h
    <3>. HIDE DEF h, r
    <3>1. /\ m.rstate = h.rstate /\ m.buffer = h.buffer /\ m.pin = h.pin
          /\ m.received = h.received /\ m.framing = h.framing /\ m.acks = h.acks
      BY <1>0, <1>00, <2>1, <2>2 DEF Link, Receiver, SameReceiver, h
    <3>. QED
      BY <1>00, <2>3, <3>1, RxEqual
  <2>5. SameSender(l, m)
    BY <2>1 DEF SameSender, Link
  <2>6. m.timeout = l.timeout
    BY <2>5 DEF SameSender
  <2>. QED
    BY <2>2, <2>3, <2>4, <2>5, <2>6, SameSenderFacts DEF Starts
<1>2. CASE l.rstate = "START_BIT_2" /\ bit = 1
  <2>. DEFINE a == sendAck(l)
  <2>1. /\ a \in Link /\ FrameLeft(a) /\ SameReceiver(l, a) /\ Starts(l, a)
        /\ SentOK(a, toSend, writing) /\ a.timeout = l.timeout
    BY SendAck
  <2>2. m = [a EXCEPT !.rstate = "DATA", !.buffer = <<>>]
    BY <1>2 DEF bitStateReceived
  <2>3. Heard(r, bit) = [r EXCEPT !.rstate = "DATA", !.buffer = <<>>]
    <3>. HIDE DEF r
    <3>. QED
      BY <1>0, <1>2, HeardBits
  <2>4. r = Rx(a)
    BY <2>1, SameReceiverFacts
  <2>. HIDE DEF m, a
  <2>5. m \in Link
    <3>1. \A x \in Seq(Bit) : [a EXCEPT !.rstate = "DATA", !.buffer = x] \in Link
      BY <2>1 DEF Link
    <3>2. <<>> \in Seq(Bit)
      OBVIOUS
    <3>. QED
      BY <2>2, <3>1, <3>2
  <2>6. Rx(m) = h
    <3>. HIDE DEF h, r
    <3>1. /\ m.rstate = h.rstate /\ m.buffer = h.buffer /\ m.pin = h.pin
          /\ m.received = h.received /\ m.framing = h.framing /\ m.acks = h.acks
      BY <1>0, <1>00, <2>2, <2>3, <2>1 DEF Link, Receiver, SameReceiver, h
    <3>. QED
      BY <1>00, <2>5, <3>1, RxEqual
  <2>7. SameSender(a, m) /\ m.rstate = "DATA"
    BY <2>1, <2>2 DEF SameSender, Link
  <2>8. FrameLeft(m) /\ SentOK(m, toSend, writing) /\ SameFrame(a, m)
    BY <2>1, <2>7, SameSenderFacts
  <2>9. Starts(l, m)
    BY <2>1, <2>8 DEF Starts, SameFrame, NextFrame
  <2>10. m.timeout = l.timeout
    BY <2>1, <2>7 DEF SameSender
  <2>. QED
    BY <1>2, <2>3, <2>4, <2>5, <2>6, <2>7, <2>8, <2>9, <2>10
<1>3. CASE l.rstate = "START_BIT_2" /\ bit = 0
  <2>. DEFINE x == IF l.acks < AckBound THEN l.acks + 1 ELSE l.acks
              y == (l.state # "IDLE") \/ l.ack_rxed
  <2>1. m = [l EXCEPT !.ack_rxed = y, !.acks = x, !.rstate = "IDLE"]
    BY <1>3 DEF bitStateReceived, ackReceived, Link
  <2>2. Heard(r, bit) = [r EXCEPT !.rstate = "IDLE", !.acks = x]
    <3>1. Heard(r, 0) = [r EXCEPT !.rstate = "IDLE",
                                  !.acks = IF r.acks < AckBound THEN r.acks + 1 ELSE r.acks]
      <4>. HIDE DEF r
      <4>. QED
        BY <1>0, <1>3, HeardBits
    <3>. QED
      BY <1>0, <1>3, <3>1
  <2>3. x \in 0 .. AckBound
    BY <1>0, LinkAssumption
  <2>4. y \in BOOLEAN
    OBVIOUS
  <2>5. l.state = "IDLE" => ~y
    BY DEF SentOK, SenderOK
  <2>. HIDE DEF m, x, y
  <2>6. m \in Link
    <3>1. \A z \in BOOLEAN : [l EXCEPT !.ack_rxed = z, !.acks = x, !.rstate = "IDLE"] \in Link
      BY <2>3 DEF Link
    <3>. QED
      BY <2>1, <2>4, <3>1
  <2>7. Rx(m) = h
    <3>. HIDE DEF h, r
    <3>1. /\ m.rstate = h.rstate /\ m.buffer = h.buffer /\ m.pin = h.pin
          /\ m.received = h.received /\ m.framing = h.framing /\ m.acks = h.acks
      BY <1>0, <1>00, <2>1, <2>2 DEF Link, Receiver, SameReceiver, h
    <3>. QED
      BY <1>00, <2>6, <3>1, RxEqual
  <2>8. /\ m.sampleCount = l.sampleCount /\ m.ack_rxed = y
        /\ m.state = l.state /\ m.send_ack = l.send_ack
        /\ m.data = l.data /\ m.enqueued = l.enqueued /\ m.rts = l.rts
        /\ m.sendComplete = l.sendComplete /\ m.timeout = l.timeout
        /\ m.sending = l.sending /\ m.framed = l.framed
    BY <2>1 DEF Link
  <2>9. SenderOK(m)
    BY <2>5, <2>8 DEF SentOK, SenderOK
  <2>10. SentOK(m, toSend, writing)
    BY <2>8, <2>9 DEF SentOK
  <2>11. Owed(m) = Owed(l) /\ FrameLeft(m) /\ SameFrame(l, m)
    BY <2>8 DEF Owed, Voted, FrameLeft, SameFrame, Sending
  <2>. QED
    BY <2>2, <2>6, <2>7, <2>8, <2>10, <2>11 DEF Starts
<1>4. CASE l.rstate = "DATA"
  <2>. DEFINE b == Append(l.buffer, bit)
              x == IF Len(b) = DataBits THEN "STOP_BIT" ELSE l.rstate
  <2>1. m = [l EXCEPT !.buffer = b, !.rstate = x] /\ x \in {"DATA", "STOP_BIT"}
    BY <1>4 DEF bitStateReceived
  <2>2. Heard(r, bit) = [r EXCEPT !.buffer = Append(r.buffer, bit),
                                  !.rstate = IF Len(Append(r.buffer, bit)) = DataBits THEN "STOP_BIT" ELSE r.rstate]
    <3>. HIDE DEF r
    <3>1. r.rstate = "DATA" /\ bit \in Bit
      BY <1>0, <1>4
    <3>. QED
      BY <3>1, HeardIs
  <2>3. Heard(r, bit) = [r EXCEPT !.buffer = b, !.rstate = x]
    BY <1>0, <2>2
  <2>4. b \in Seq(Bit)
    BY <1>0
  <2>. HIDE DEF m, b, x
  <2>5. m \in Link
    BY <2>1, <2>4 DEF Link
  <2>6. Rx(m) = h
    <3>. HIDE DEF h, r
    <3>1. /\ m.rstate = h.rstate /\ m.buffer = h.buffer /\ m.pin = h.pin
          /\ m.received = h.received /\ m.framing = h.framing /\ m.acks = h.acks
      BY <1>0, <1>00, <2>1, <2>3 DEF Link, Receiver, SameReceiver, h
    <3>. QED
      BY <1>00, <2>5, <3>1, RxEqual
  <2>7. SameSender(l, m)
    BY <2>1 DEF SameSender, Link
  <2>8. m.timeout = l.timeout
    BY <2>7 DEF SameSender
  <2>. QED
    BY <2>3, <2>5, <2>6, <2>7, <2>8, SameSenderFacts DEF Starts
<1>5. CASE l.rstate = "STOP_BIT" /\ bit = 1
  <2>1. m = [l EXCEPT !.rstate = "IDLE", !.framing = TRUE]
    BY <1>5 DEF bitStateReceived
  <2>2. Heard(r, bit) = [r EXCEPT !.rstate = "IDLE", !.framing = TRUE]
    <3>. HIDE DEF r
    <3>. QED
      BY <1>0, <1>5, HeardIs
  <2>. HIDE DEF m
  <2>3. m \in Link
    BY <2>1 DEF Link
  <2>4. Rx(m) = h
    <3>. HIDE DEF h, r
    <3>1. /\ m.rstate = h.rstate /\ m.buffer = h.buffer /\ m.pin = h.pin
          /\ m.received = h.received /\ m.framing = h.framing /\ m.acks = h.acks
      BY <1>0, <1>00, <2>1, <2>2 DEF Link, Receiver, SameReceiver, h
    <3>. QED
      BY <1>00, <2>3, <3>1, RxEqual
  <2>5. SameSender(l, m)
    BY <2>1 DEF SameSender, Link
  <2>6. m.timeout = l.timeout
    BY <2>5 DEF SameSender
  <2>. QED
    BY <2>2, <2>3, <2>4, <2>5, <2>6, SameSenderFacts DEF Starts
<1>6. CASE l.rstate = "STOP_BIT" /\ bit = 0
  <2>. DEFINE d == dataReceived(l, l.buffer)
              x == Append(l.received, l.buffer)
  <2>1. m = [d EXCEPT !.rstate = "IDLE"]
    BY <1>6 DEF bitStateReceived
  <2>2. Heard(r, bit) = [r EXCEPT !.rstate = "IDLE", !.received = Append(r.received, r.buffer)]
    <3>. HIDE DEF r
    <3>. QED
      BY <1>0, <1>6, HeardBits
  <2>3. Heard(r, bit) = [r EXCEPT !.rstate = "IDLE", !.received = x]
    BY <1>0, <2>2
  <2>4. l.buffer \in Byte
    BY <1>0, <1>6 DEF Byte
  <2>5. x \in Seq(Byte)
    BY <1>0, <2>4
  <2>. HIDE DEF x
  <2>6. /\ d \in Link /\ SameSender(l, d) /\ d.buffer = l.buffer /\ d.pin = l.pin
        /\ d.framing = l.framing /\ d.acks = l.acks /\ d.received = x
    <3>. DEFINE left == (l.receiveLength - 1 + WordSize) % WordSize
                done == l.readComplete \/ left = 0
    <3>1. CASE ~l.receiveBuffer
      <4>1. d = [l EXCEPT !.received = x]
        BY <3>1 DEF dataReceived, x
      <4>. HIDE DEF d
      <4>2. d \in Link
        BY <2>5, <4>1 DEF Link
      <4>. QED
        BY <4>1, <4>2 DEF Link, SameSender
    <3>2. CASE l.receiveBuffer
      <4>1. d = [l EXCEPT !.received = x, !.receiveLength = left,
                          !.stored = Append(l.stored, l.buffer), !.readComplete = done]
        BY <3>2 DEF dataReceived, x, Link
      <4>2. Append(l.stored, l.buffer) \in Seq(Byte)
        BY <2>4 DEF Link
      <4>3. left \in 0 .. WordSize - 1
        BY LinkAssumption DEF Link
      <4>4. done \in BOOLEAN
        BY DEF Link
      <4>5. \A z \in BOOLEAN, y \in 0 .. WordSize - 1 :
              [l EXCEPT !.received = x, !.receiveLength = y,
                        !.stored = Append(l.stored, l.buffer), !.readComplete = z] \in Link
        BY <2>5, <4>2 DEF Link
      <4>. HIDE DEF d, left, done
      <4>6. d \in Link
        BY <4>1, <4>3, <4>4, <4>5
      <4>. QED
        BY <4>1, <4>6 DEF Link, SameSender
    <3>. QED
      BY <3>1, <3>2
  <2>. HIDE DEF m, d
  <2>7. m \in Link
    BY <2>1, <2>6 DEF Link
  <2>9. Rx(m) = h
    <3>. HIDE DEF h, r
    <3>1. /\ m.rstate = h.rstate /\ m.buffer = h.buffer /\ m.pin = h.pin
          /\ m.received = h.received /\ m.framing = h.framing /\ m.acks = h.acks
      BY <1>0, <1>00, <2>1, <2>3, <2>6 DEF Link, Receiver, SameReceiver, h
    <3>. QED
      BY <1>00, <2>7, <3>1, RxEqual
  <2>10. SameSender(l, m)
    BY <2>1, <2>6 DEF SameSender, Link
  <2>11. m.timeout = l.timeout
    BY <2>10 DEF SameSender
  <2>. QED
    BY <2>3, <2>7, <2>9, <2>10, <2>11, SameSenderFacts DEF Starts
<1>. QED
  BY <1>1, <1>2, <1>3, <1>4, <1>5, <1>6 DEF Link, Bit

(* No more than a byte is ever being received.                             *)
BufferOK(r) == /\ r.rstate = "DATA" => Len(r.buffer) < DataBits
               /\ r.rstate = "STOP_BIT" => Len(r.buffer) = DataBits

LEMMA HearBuffer ==
  ASSUME NEW r \in Receiver, NEW rx \in Bit, BufferOK(r)
  PROVE  BufferOK(Hear(r, rx))
<1>. DEFINE p == [r EXCEPT !.pin = getRx(r.pin, rx).pin]
<1>1. /\ p.rstate = r.rstate /\ p.buffer = r.buffer
      /\ DOMAIN p = {"rstate", "buffer", "pin", "received", "framing", "acks"}
  BY DEF Receiver
<1>2. Hear(r, rx) = p \/ \E bit \in Bit : Hear(r, rx) = Heard(p, bit)
  <2>1. getRx(r.pin, rx).vote \in {0, 1, NoVote}
    BY RxType DEF Receiver
  <2>. QED
    BY <2>1 DEF Hear, Bit
<1>. HIDE DEF p
<1>3. CASE Hear(r, rx) = p
  BY <1>1, <1>3 DEF BufferOK
<1>4. ASSUME NEW bit \in Bit PROVE BufferOK(Heard(p, bit))
  <2>. DEFINE h == Heard(p, bit)
  <2>1. CASE r.rstate = "IDLE"
    <3>1. h = [p EXCEPT !.rstate = IF bit = 1 THEN "START_BIT_2" ELSE p.rstate]
      BY <1>1, <2>1, HeardIs
    <3>. HIDE DEF h
    <3>2. h.rstate \in {"IDLE", "START_BIT_2"}
      BY <1>1, <2>1, <3>1
    <3>. QED
      BY <3>2 DEF BufferOK, h
  <2>2. CASE r.rstate = "START_BIT_2"
    <3>1. \/ h = [p EXCEPT !.rstate = "DATA", !.buffer = <<>>]
          \/ h = [p EXCEPT !.rstate = "IDLE", !.acks = IF p.acks < AckBound THEN p.acks + 1 ELSE p.acks]
      <4>1. bit = 0 \/ bit = 1
        BY DEF Bit
      <4>. QED
        BY <1>1, <2>2, <4>1, HeardBits
    <3>. HIDE DEF h
    <3>2. h.rstate = "IDLE" \/ (h.rstate = "DATA" /\ h.buffer = <<>>)
      BY <1>1, <3>1
    <3>3. Len(<<>>) < DataBits
      BY PinAssumption
    <3>. QED
      BY <3>2, <3>3 DEF BufferOK, h
  <2>3. CASE r.rstate = "DATA"
    <3>. DEFINE b == Append(p.buffer, bit)
    <3>1. h = [p EXCEPT !.buffer = b, !.rstate = IF Len(b) = DataBits THEN "STOP_BIT" ELSE p.rstate]
      <4>1. p.rstate = "DATA" /\ bit \in Bit
        BY <1>1, <2>3
      <4>. QED
        BY <4>1, HeardIs
    <3>2. Len(b) = Len(r.buffer) + 1 /\ Len(r.buffer) \in Nat /\ Len(r.buffer) < DataBits
      <4>1. p.buffer \in Seq(Bit)
        BY <1>1 DEF Receiver
      <4>2. Len(b) = Len(p.buffer) + 1 /\ Len(p.buffer) \in Nat
        BY <4>1, AppendProperties
      <4>. QED
        BY <1>1, <2>3, <4>2 DEF BufferOK
    <3>. HIDE DEF h, b
    <3>3. h.buffer = b /\ h.rstate = IF Len(b) = DataBits THEN "STOP_BIT" ELSE "DATA"
      BY <1>1, <2>3, <3>1
    <3>. QED
      BY <3>2, <3>3, PinAssumption DEF BufferOK, h
  <2>4. CASE r.rstate = "STOP_BIT"
    <3>1. \/ h = [p EXCEPT !.rstate = "IDLE", !.framing = TRUE]
          \/ h = [p EXCEPT !.rstate = "IDLE", !.received = Append(p.received, p.buffer)]
      BY <1>1, <2>4, HeardIs DEF Bit
    <3>. HIDE DEF h
    <3>2. h.rstate = "IDLE"
      BY <1>1, <3>1
    <3>. QED
      BY <3>2 DEF BufferOK, h
  <2>. QED
    BY <2>1, <2>2, <2>3, <2>4 DEF Receiver
<1>. QED
  BY <1>2, <1>3, <1>4

(* The receiver's half of a tick.                                          *)
LEMMA ReceiverClock ==
  ASSUME NEW l \in Link, NEW toSend \in Seq(Byte), NEW writing, NEW rx \in Bit, FrameLeft(l),
         SentOK(l, toSend, writing), BufferOK(l)
  PROVE  LET m == receiverClock(l, rx)
         IN /\ m \in Link /\ FrameLeft(m) /\ Starts(l, m) /\ SentOK(m, toSend, writing)
            /\ Rx(m) = Hear(Rx(l), rx) /\ BufferOK(m) /\ m.timeout = l.timeout
            /\ Owed(m) = Owed(l) \/ (l.rstate = "START_BIT_2" /\ m.rstate = "DATA")
<1>. DEFINE m == receiverClock(l, rx)
            v == getRx(l.pin, rx).vote
            k == [l EXCEPT !.pin = getRx(l.pin, rx).pin]
<1>. SUFFICES /\ m \in Link /\ FrameLeft(m) /\ Starts(l, m) /\ SentOK(m, toSend, writing)
              /\ Rx(m) = Hear(Rx(l), rx) /\ BufferOK(m) /\ m.timeout = l.timeout
              /\ Owed(m) = Owed(l) \/ (l.rstate = "START_BIT_2" /\ m.rstate = "DATA")
  OBVIOUS
<1>1. getRx(l.pin, rx).pin \in Pin /\ v \in {0, 1, NoVote}
  BY RxType DEF Link
<1>2. k \in Link
  BY <1>1 DEF Link
<1>3. /\ SameSender(l, k) /\ k.rstate = l.rstate /\ k.buffer = l.buffer
      /\ k.pin = getRx(l.pin, rx).pin /\ k.received = l.received /\ k.framing = l.framing
      /\ k.acks = l.acks
  BY DEF Link, SameSender
<1>4. m = IF v = NoVote THEN k ELSE bitStateReceived(k, v)
  BY DEF receiverClock
<1>5. Hear(Rx(l), rx) = IF v = NoVote THEN Rx(k) ELSE Heard(Rx(k), v)
  <2>. DEFINE r == Rx(l)
              s == [r EXCEPT !.pin = getRx(r.pin, rx).pin]
  <2>1. r \in Receiver /\ r.pin = l.pin /\ r.rstate = l.rstate /\ r.buffer = l.buffer
        /\ r.received = l.received /\ r.framing = l.framing /\ r.acks = l.acks
    BY RxReceiver, RxFields
  <2>2. Hear(r, rx) = IF v = NoVote THEN s ELSE Heard(s, v)
    BY <2>1 DEF Hear
  <2>. HIDE DEF r, k
  <2>3. s \in Receiver /\ k.rstate = s.rstate /\ k.buffer = s.buffer /\ k.pin = s.pin
        /\ k.received = s.received /\ k.framing = s.framing /\ k.acks = s.acks
    BY <1>1, <1>3, <2>1 DEF Receiver
  <2>. HIDE DEF s
  <2>4. Rx(k) = s
    BY <1>2, <2>3, RxEqual
  <2>. QED
    BY <2>2, <2>4 DEF r
<1>. HIDE DEF m, v, k
<1>6. /\ SameFrame(l, k) /\ Owed(k) = Owed(l) /\ FrameLeft(k) /\ SentOK(k, toSend, writing)
      /\ k.timeout = l.timeout
  BY <1>3, SameSenderFacts DEF SameSender
<1>7. CASE v = NoVote
  <2>1. m = k /\ Rx(m) = Hear(Rx(l), rx)
    BY <1>4, <1>5, <1>7
  <2>2. BufferOK(m) /\ Starts(l, m)
    BY <1>3, <1>6, <2>1 DEF BufferOK, Starts
  <2>. QED
    BY <1>2, <1>6, <2>1, <2>2
<1>8. CASE v # NoVote
  <2>1. v \in Bit /\ m = bitStateReceived(k, v)
    BY <1>1, <1>4, <1>8 DEF Bit
  <2>2. k.rstate = "STOP_BIT" => Len(k.buffer) = DataBits
    BY <1>3 DEF BufferOK
  <2>3. /\ m \in Link /\ FrameLeft(m) /\ Starts(k, m) /\ SentOK(m, toSend, writing)
        /\ Rx(m) = Heard(Rx(k), v) /\ m.timeout = k.timeout
        /\ Owed(m) = Owed(k) \/ (k.rstate = "START_BIT_2" /\ m.rstate = "DATA")
    BY <1>2, <1>6, <2>1, <2>2, BitStateReceived
  <2>4. Rx(m) = Hear(Rx(l), rx)
    BY <1>5, <1>8, <2>3
  <2>5. BufferOK(m)
    <3>1. BufferOK(Rx(l)) /\ Rx(l) \in Receiver
      BY RxReceiver, RxFields DEF BufferOK
    <3>2. BufferOK(Rx(m))
      BY <2>4, <3>1, HearBuffer
    <3>. QED
      BY <3>2, RxFields DEF BufferOK
  <2>6. Starts(l, m)
    BY <1>6, <2>3 DEF Starts, SameFrame, NextFrame, Sending
  <2>. QED
    BY <1>3, <1>6, <2>3, <2>4, <2>5, <2>6
<1>. QED
  BY <1>7, <1>8

-----------------------------------------------------------------------------
(* The calls of the API.                                                   *)
LEMMA WriteDataAsync ==
  ASSUME NEW l \in Link, NEW toSend \in Seq(Byte), NEW msg \in Seq(Byte), msg # <<>>, FrameLeft(l),
         SentOK(l, toSend, FALSE)
  PROVE  LET m == writeDataAsync(l, msg)
         IN /\ m \in Link /\ FrameLeft(m) /\ SameReceiver(l, m) /\ Starts(l, m) /\ Owed(m) = Owed(l)
            /\ SentOK(m, IF sendDataOk(l) THEN toSend \o msg ELSE toSend, sendDataOk(l))
            /\ l.state = "IDLE" => m.state = "SENDING_DATA" /\ ~m.ack_rxed /\ m.send_ack = l.send_ack
<1>. DEFINE m == writeDataAsync(l, msg)
            k == [l EXCEPT !.sendComplete = FALSE, !.sending = msg]
<1>. SUFFICES /\ m \in Link /\ FrameLeft(m) /\ SameReceiver(l, m) /\ Starts(l, m) /\ Owed(m) = Owed(l)
              /\ SentOK(m, IF sendDataOk(l) THEN toSend \o msg ELSE toSend, sendDataOk(l))
              /\ l.state = "IDLE" => m.state = "SENDING_DATA" /\ ~m.ack_rxed /\ m.send_ack = l.send_ack
  OBVIOUS
<1>1. k.state = l.state /\ k.rts = l.rts
  BY DEF Link
<1>2. m = sendData(k, msg[1]) /\ msg[1] \in Byte
  BY DEF writeDataAsync
<1>3. l.state # "ACK_TIMEOUT" => l.sending = <<>> /\ toSend \in Seq(Byte) /\ l.framed \in Seq(Byte)
  BY DEF SentOK, Link
<1>4. CASE l.state = "IDLE"
  <2>1. l.rts = TRUE /\ ~l.send_ack /\ l.enqueued = <<>> /\ ~l.timeout /\ sendDataOk(l) /\ l.sending = <<>>
    BY <1>4 DEF SentOK, SenderOK, sendDataOk, Link
  <2>2. sendData(k, msg[1]) = sendDataInternal([k EXCEPT !.ack_rxed = FALSE, !.rts = FALSE], msg[1])
    <3>1. k.state = "IDLE" /\ k.rts
      BY <1>1, <1>4, <2>1
    <3>. HIDE DEF k
    <3>. QED
      BY <3>1 DEF sendData
  <2>3. sendDataInternal([k EXCEPT !.ack_rxed = FALSE, !.rts = FALSE], msg[1])
          = [l EXCEPT !.state = "SENDING_DATA", !.ack_rxed = FALSE, !.rts = FALSE, !.sending = msg,
                      !.sendComplete = FALSE, !.sampleCount = 0, !.data = DataFrame(msg[1]),
                      !.framed = Append(l.framed, msg[1])]
    BY <1>4 DEF Link, sendDataInternal
  <2>. DEFINE f == Append(l.framed, msg[1])
              d == DataFrame(msg[1])
  <2>4. m = [l EXCEPT !.state = "SENDING_DATA", !.ack_rxed = FALSE, !.rts = FALSE, !.sending = msg,
                      !.sendComplete = FALSE, !.sampleCount = 0, !.data = d, !.framed = f]
    BY <1>2, <2>2, <2>3
  <2>5. f \in Seq(Byte) /\ d \in Seq(Bit)
    BY <1>2, <1>3, <1>4, FrameTypes
  <2>. HIDE DEF m, k, f, d
  <2>6. m \in Link
    <3>1. \A x \in Seq(Byte), y \in Seq(Bit), z \in Seq(Byte) :
            [l EXCEPT !.state = "SENDING_DATA", !.ack_rxed = FALSE, !.rts = FALSE, !.sending = z,
                      !.sendComplete = FALSE, !.sampleCount = 0, !.data = y, !.framed = x] \in Link
      BY FrameTypes DEF Link
    <3>. QED
      BY <2>4, <2>5, <3>1
  <2>7. /\ SameReceiver(l, m) /\ m.state = "SENDING_DATA" /\ ~m.ack_rxed /\ m.sending = msg
        /\ ~m.sendComplete /\ m.sampleCount = 0 /\ m.data = d /\ m.framed = f
        /\ m.send_ack = l.send_ack /\ m.enqueued = l.enqueued /\ m.timeout = l.timeout
    BY <2>4 DEF Link, SameReceiver
  <2>8. toSend \o msg = m.framed \o Tail(m.sending)
    <3>1. toSend = l.framed
      <4>1. toSend = l.framed \o l.sending
        BY <1>4 DEF SentOK
      <4>. QED
        BY <1>3, <1>4, <2>1, <4>1, ConcatEmptySeq
    <3>2. Append(l.framed, msg[1]) \o Tail(msg) = l.framed \o msg
      BY <1>3, <1>4, AppendTail
    <3>. QED
      BY <2>7, <3>1, <3>2 DEF f
  <2>9. SenderOK(m)
    BY <2>1, <2>7 DEF SenderOK
  <2>10. SentOK(m, toSend \o msg, TRUE)
    BY <2>7, <2>8, <2>9 DEF SentOK
  <2>11. FrameLeft(m) /\ Starts(l, m)
    BY <1>2, <1>4, <2>7, FrameTypes DEF FrameLeft, Starts, NextFrame, Sending, d, f
  <2>12. Owed(m) = Owed(l)
    BY <1>4, <2>1, <2>7 DEF Owed
  <2>. QED
    BY <2>1, <2>6, <2>7, <2>10, <2>11, <2>12 DEF sendDataOk
<1>5. CASE l.state = "SENDING_ACK"
  <2>1. /\ l.rts = TRUE /\ l.enqueued = <<>> /\ ~l.timeout /\ sendDataOk(l) /\ l.sending = <<>>
        /\ toSend = l.framed \o l.sending
    BY <1>3, <1>5 DEF SentOK, SenderOK, sendDataOk, Link
  <2>. DEFINE q == <<msg[1]>>
  <2>2. m = [l EXCEPT !.sendComplete = FALSE, !.sending = msg, !.enqueued = q, !.ack_rxed = FALSE]
    BY <1>2, <1>5 DEF Link, sendData
  <2>3. q \in {<<>>} \cup {<<b>> : b \in Byte}
    BY <1>2
  <2>3a. q # <<>>
    OBVIOUS
  <2>. HIDE DEF m, k
  <2>4. m \in Link
    <3>1. \A x \in {<<>>} \cup {<<b>> : b \in Byte}, z \in Seq(Byte) :
            [l EXCEPT !.sendComplete = FALSE, !.sending = z, !.enqueued = x, !.ack_rxed = FALSE] \in Link
      BY DEF Link
    <3>. HIDE DEF q
    <3>. QED
      BY <2>2, <2>3, <3>1
  <2>. HIDE DEF q
  <2>5. /\ SameReceiver(l, m) /\ m.state = l.state /\ m.sending = msg /\ m.enqueued = q
        /\ ~m.sendComplete /\ m.sampleCount = l.sampleCount /\ m.data = l.data /\ m.framed = l.framed
        /\ m.send_ack = l.send_ack /\ m.rts = l.rts /\ m.timeout = l.timeout
    BY <2>2 DEF Link, SameReceiver
  <2>6. toSend \o msg = m.framed \o m.sending
    BY <1>3, <1>5, <2>1, <2>5, ConcatEmptySeq
  <2>7. SenderOK(m)
    BY <1>5, <2>1, <2>3a, <2>5 DEF SenderOK, q
  <2>8. SentOK(m, toSend \o msg, TRUE)
    BY <1>5, <2>5, <2>6, <2>7 DEF SentOK
  <2>9. FrameLeft(m) /\ Starts(l, m) /\ Owed(m) = Owed(l)
    BY <2>5 DEF FrameLeft, Starts, SameFrame, Sending, Owed, Voted
  <2>. QED
    BY <1>5, <2>1, <2>4, <2>5, <2>8, <2>9 DEF sendDataOk
<1>6. CASE l.state = "ACK_TIMEOUT"
  <2>1. m = k /\ ~sendDataOk(l)
    BY <1>1, <1>2, <1>6 DEF sendData, sendDataOk
  <2>2. k \in Link
    BY DEF Link
  <2>3. /\ SameReceiver(l, k) /\ k.state = l.state /\ k.sending = msg /\ k.enqueued = l.enqueued
        /\ ~k.sendComplete /\ k.sampleCount = l.sampleCount /\ k.data = l.data /\ k.framed = l.framed
        /\ k.send_ack = l.send_ack /\ k.rts = l.rts /\ k.timeout = l.timeout
    BY DEF Link, SameReceiver
  <2>. HIDE DEF m, k
  <2>4. SenderOK(k)
    BY <1>6, <2>3 DEF SenderOK, SentOK
  <2>5. SentOK(k, toSend, FALSE)
    BY <1>6, <2>3, <2>4 DEF SentOK
  <2>6. FrameLeft(k) /\ Starts(l, k) /\ Owed(k) = Owed(l)
    BY <2>3 DEF FrameLeft, Starts, SameFrame, Sending, Owed, Voted
  <2>. QED
    BY <1>6, <2>1, <2>2, <2>3, <2>5, <2>6 DEF sendDataOk
<1>7. l.state # "SENDING_DATA"
  BY <1>3 DEF SentOK, SenderOK
<1>. QED
  BY <1>4, <1>5, <1>6, <1>7 DEF Link

LEMMA WriteComplete ==
  ASSUME NEW l \in Link, NEW toSend, NEW writing, FrameLeft(l), l.sendComplete,
         SentOK(l, toSend, writing)
  PROVE  LET m == writeComplete(l)
         IN /\ m \in Link /\ FrameLeft(m) /\ SameReceiver(l, m) /\ Starts(l, m) /\ Owed(m) = Owed(l)
            /\ SentOK(m, toSend, FALSE) /\ m.state = l.state /\ m.ack_rxed = l.ack_rxed
            /\ m.send_ack = l.send_ack
<1>. DEFINE m == writeComplete(l)
<1>. SUFFICES /\ m \in Link /\ FrameLeft(m) /\ SameReceiver(l, m) /\ Starts(l, m) /\ Owed(m) = Owed(l)
              /\ SentOK(m, toSend, FALSE) /\ m.state = l.state /\ m.ack_rxed = l.ack_rxed
              /\ m.send_ack = l.send_ack
  OBVIOUS
<1>1. m \in Link
  <2>1. \A x \in Seq(Byte) : [l EXCEPT !.sendComplete = FALSE, !.sending = x] \in Link
    BY DEF Link
  <2>2. <<>> \in Seq(Byte)
    OBVIOUS
  <2>. QED
    BY <2>1, <2>2 DEF writeComplete
<1>2. /\ SameReceiver(l, m) /\ m.state = l.state /\ m.sending = <<>> /\ m.enqueued = l.enqueued
      /\ ~m.sendComplete /\ m.sampleCount = l.sampleCount /\ m.data = l.data /\ m.framed = l.framed
      /\ m.send_ack = l.send_ack /\ m.rts = l.rts /\ m.timeout = l.timeout /\ m.ack_rxed = l.ack_rxed
  BY DEF Link, SameReceiver, writeComplete
<1>3. l.sending = <<>>
  BY DEF SentOK, SenderOK
<1>. HIDE DEF m
<1>4. SenderOK(m)
  BY <1>2, <1>3 DEF SentOK, SenderOK
<1>5. SentOK(m, toSend, FALSE)
  BY <1>2, <1>3, <1>4 DEF SentOK
<1>. QED
  BY <1>1, <1>2, <1>5 DEF FrameLeft, Starts, SameFrame, Sending, Owed, Voted

(* A read touches neither the sender nor what the receiver hears.          *)
LEMMA ReadCalls ==
  ASSUME NEW l \in Link, NEW n \in 0 .. WordSize - 1
  PROVE  /\ readDataAsync(l, n) \in Link /\ SameSender(l, readDataAsync(l, n))
         /\ Rx(readDataAsync(l, n)) = Rx(l)
         /\ readComplete(l) \in Link /\ SameSender(l, readComplete(l)) /\ Rx(readComplete(l)) = Rx(l)
<1>1. readDataAsync(l, n) \in Link
  BY DEF Link, readDataAsync
<1>2. 0 \in 0 .. WordSize - 1
  BY LinkAssumption
<1>3. readComplete(l) \in Link
  BY <1>2 DEF Link, readComplete
<1>4. SameSender(l, readDataAsync(l, n)) /\ Rx(readDataAsync(l, n)) = Rx(l)
  BY DEF Link, readDataAsync, SameSender, Rx
<1>5. SameSender(l, readComplete(l)) /\ Rx(readComplete(l)) = Rx(l)
  BY DEF Link, readComplete, SameSender, Rx
<1>. QED
  BY <1>1, <1>3, <1>4, <1>5

-----------------------------------------------------------------------------
(* What the other end has received, while it may still have a sample to take.*)
Received(s, r) ==
  /\ s.state # "SENDING_DATA" => r.received = s.framed
  /\ s.state = "SENDING_DATA" => r.received = s.framed \/ Append(r.received, Current(s)) = s.framed

LEMMA InStepReceived ==
  ASSUME NEW s, NEW r, NEW level, s.state \in {"IDLE", "SENDING_ACK", "SENDING_DATA", "ACK_TIMEOUT"},
         InStep(s, r, level)
  PROVE  Received(s, r)
BY DEF InStep, Received, DataInStep, Sending

LEMMA InStepStarts ==
  ASSUME NEW s \in Link, NEW m, NEW r \in Receiver, NEW level, Starts(s, m), InStep(s, r, level)
  PROVE  InStep(m, r, level)
<1>1. CASE SameFrame(s, m)
  BY <1>1, InStepSame
<1>2. CASE ~Sending(s) /\ NextFrame(s, m)
  <2>1. ~r.framing /\ Quiet(r) /\ r.received = s.framed /\ level = 0
    BY <1>2 DEF InStep
  <2>. QED
    BY <1>2, <2>1, InStepNext
<1>. QED
  BY <1>1, <1>2 DEF Starts

(* A byte is put into a frame only when the last has been received.        *)
LEMMA NextReceived ==
  ASSUME NEW s \in Link, NEW m, NEW r, NextFrame(s, m), r.received = s.framed
  PROVE  /\ Received(m, r)
         /\ m.framed = s.framed \/ \E b \in Byte : m.framed = Append(s.framed, b)
<1>1. ASSUME NEW b \in Byte, m.framed = Append(s.framed, b)
      PROVE  Current(m) = b
  <2>1. /\ Len(Append(s.framed, b)) = Len(s.framed) + 1
        /\ Append(s.framed, b)[Len(s.framed) + 1] = b
    BY AppendProperties DEF Link
  <2>. QED
    BY <1>1, <2>1 DEF Current
<1>. QED
  BY <1>1 DEF NextFrame, Received

LEMMA StartsReceived ==
  ASSUME NEW s \in Link, NEW m, NEW r, Starts(s, m), Received(s, r)
  PROVE  /\ Received(m, r)
         /\ \/ m.framed = s.framed
            \/ r.received = s.framed /\ \E b \in Byte : m.framed = Append(s.framed, b)
<1>1. CASE SameFrame(s, m)
  BY <1>1 DEF SameFrame, Received, Current
<1>2. CASE ~Sending(s) /\ NextFrame(s, m)
  <2>1. r.received = s.framed
    BY <1>2 DEF Received, Sending
  <2>. QED
    BY <1>2, <2>1, NextReceived
<1>. QED
  BY <1>1, <1>2 DEF Starts

LEMMA TickReceived ==
  ASSUME NEW s \in Link, NEW m, NEW r, NEW level, InStep(s, r, level), TickOfFrame(s, m)
  PROVE  /\ Received(m, r)
         /\ \/ m.framed = s.framed
            \/ r.received = s.framed /\ \E b \in Byte : m.framed = Append(s.framed, b)
<1>1. Received(s, r)
  BY InStepReceived DEF Link
<1>2. CASE m.state = s.state /\ m.framed = s.framed
  BY <1>1, <1>2 DEF Received, Current
<1>3. CASE Sending(s) /\ s.sampleCount + 1 = Samples /\ Len(s.data) = 1 /\ NextFrame(s, m)
  <2>1. r.received = s.framed
    <3>1. CASE s.state = "SENDING_DATA"
      BY <1>3, <3>1, EndReceived
    <3>2. CASE s.state # "SENDING_DATA"
      BY <1>1, <3>2 DEF Received
    <3>. QED
      BY <3>1, <3>2
  <2>. QED
    BY <1>3, <2>1, NextReceived
<1>. QED
  BY <1>2, <1>3 DEF TickOfFrame, SameFrame

-----------------------------------------------------------------------------
(* A whole tick of a link whose wire another end listens to.               *)
LEMMA LevelType ==
  ASSUME NEW l \in Link, NEW level \in Bit, FrameLeft(l)
  PROVE  Level(l, level) \in Bit
<1>1. CASE Sending(l)
  <2>1. l.data # <<>> /\ l.data \in Seq(Bit)
    BY <1>1 DEF FrameLeft, Link
  <2>. QED
    BY <1>1, <2>1 DEF Level
<1>. QED
  BY <1>1 DEF Level

LEMMA OwedRange ==
  ASSUME NEW l
  PROVE  Owed(l) \in {0, 1}
BY DEF Owed

LEMMA ClockStep ==
  ASSUME NEW l \in Link, NEW r \in Receiver, NEW level \in Bit, NEW rx \in Bit,
         NEW toSend \in Seq(Byte), NEW writing, FrameLeft(l), SentOK(l, toSend, writing), BufferOK(l),
         InStep(l, r, level), r.acks + Owed(l) <= StartsSeen(l), ~Hear(Rx(l), rx).framing
  PROVE  LET m == clock(l, rx)
             q == Hear(r, Level(l, level))
         IN /\ m \in Link /\ FrameLeft(m) /\ SentOK(m, toSend, writing) /\ BufferOK(m)
            /\ Rx(m) = Hear(Rx(l), rx)
            /\ InStep(m, q, Level(l, level)) /\ q.acks + Owed(m) <= StartsSeen(m)
            /\ Received(m, r)
            /\ \/ m.framed = l.framed
               \/ r.received = l.framed /\ \E b \in Byte : m.framed = Append(l.framed, b)
<1>. DEFINE s == senderClock(l)
            m == clock(l, rx)
            q == Hear(r, Level(l, level))
<1>. SUFFICES /\ m \in Link /\ FrameLeft(m) /\ SentOK(m, toSend, writing) /\ BufferOK(m)
              /\ Rx(m) = Hear(Rx(l), rx)
              /\ InStep(m, q, Level(l, level)) /\ q.acks + Owed(m) <= StartsSeen(m)
              /\ Received(m, r)
              /\ \/ m.framed = l.framed
                 \/ r.received = l.framed /\ \E b \in Byte : m.framed = Append(l.framed, b)
  OBVIOUS
<1>1. m = receiverClock(s, rx)
  BY DEF clock
<1>2. /\ s \in Link /\ FrameLeft(s) /\ SameReceiver(l, s) /\ TickOfFrame(l, s)
      /\ SentOK(s, toSend, writing) /\ Owed(s) <= Owed(l)
  BY SenderClock
<1>. HIDE DEF s, m
<1>3. BufferOK(s) /\ Rx(s) = Rx(l) /\ StartsSeen(s) = StartsSeen(l) /\ s.rstate = l.rstate
  BY <1>2, SameReceiverFacts DEF BufferOK, SameReceiver
<1>4. /\ m \in Link /\ FrameLeft(m) /\ Starts(s, m) /\ SentOK(m, toSend, writing)
      /\ Rx(m) = Hear(Rx(s), rx) /\ BufferOK(m)
      /\ Owed(m) = Owed(s) \/ (s.rstate = "START_BIT_2" /\ m.rstate = "DATA")
  BY <1>1, <1>2, <1>3, ReceiverClock
<1>5. Level(l, level) \in Bit
  BY LevelType
<1>6. InStep(s, q, Level(l, level)) /\ q \in Receiver
  <2>1. InStep(s, q, Level(l, level))
    BY <1>2, InStepTick
  <2>2. r.rstate = "STOP_BIT" => Len(r.buffer) = DataBits
    <3>1. CASE l.state = "SENDING_DATA"
      <4>. DEFINE b == Current(l)
                  i == DataBits + 3 - Len(l.data)
      <4>1. DataInStep(l, r, level)
        BY <3>1 DEF InStep
      <4>2. CASE i = 0 /\ l.sampleCount = 0
        BY <4>1, <4>2 DEF DataInStep, Quiet
      <4>3. CASE ~(i = 0 /\ l.sampleCount = 0)
        <5>1. DataStage(r, b, Voted(l, i)) /\ l.framed # <<>> /\ Len(l.data) \in 1 .. DataBits + 3
          BY <4>1, <4>3 DEF DataInStep
        <5>2. b \in Byte /\ Len(b) = DataBits
          <6>1. Len(l.framed) \in 1 .. Len(l.framed) /\ l.framed \in Seq(Byte)
            BY <5>1, EmptySeq DEF Link
          <6>2. b \in Byte
            BY <6>1 DEF Current
          <6>. QED
            BY <6>2, PinAssumption DEF Byte
        <5>. HIDE DEF b
        <5>3. Voted(l, i) \in 0 .. DataBits + 3
          <6>. DEFINE n == Len(l.data)
          <6>1. n \in 1 .. DataBits + 3 /\ i = DataBits + 3 - n
            BY <5>1
          <6>. HIDE DEF n, i
          <6>2. i \in 0 .. DataBits + 2 /\ i \in Int /\ DataBits \in Nat
            BY <6>1, PinAssumption
          <6>3. Voted(l, i) = i \/ Voted(l, i) = i + 1
            BY <6>2, VotedRange
          <6>. QED
            BY <6>2, <6>3
        <5>. HIDE DEF i
        <5>. QED
          BY <5>1, <5>2, <5>3, PinAssumption DEF DataStage
      <4>. QED
        BY <4>2, <4>3
    <3>2. CASE l.state = "SENDING_ACK"
      <4>. DEFINE v == Voted(l, 2 - Len(l.data))
      <4>1. AckInStep(l, r, level) /\ l.data \in {<<1, 0>>, <<0>>}
        BY <3>2 DEF InStep, AckInStep
      <4>2. v \in {0, 1, 2}
        <5>1. Len(<<1, 0>>) = 2 /\ Len(<<0>>) = 1
          OBVIOUS
        <5>2. CASE l.data = <<1, 0>>
          BY <5>1, <5>2 DEF Voted
        <5>3. CASE l.data = <<0>>
          BY <5>1, <5>3 DEF Voted
        <5>. QED
          BY <4>1, <5>2, <5>3
      <4>3. r.rstate \in {"IDLE", "START_BIT_2"}
        BY <4>1, <4>2 DEF AckInStep, Quiet
      <4>. QED
        BY <4>3
    <3>. QED
      BY <3>1, <3>2 DEF InStep, Quiet, Sending
  <2>. QED
    BY <1>5, <2>1, <2>2, HearType
<1>7. InStep(m, q, Level(l, level))
  BY <1>2, <1>4, <1>6, InStepStarts
<1>8. q.acks + Owed(m) <= StartsSeen(m)
  <2>1. /\ Rx(l) \in Receiver /\ StartsSeen(m) = StartsSeen(Rx(m)) /\ StartsSeen(l) = StartsSeen(Rx(l))
        /\ Rx(l).rstate = l.rstate /\ Rx(m).rstate = m.rstate
    BY RxReceiver, RxFields DEF StartsSeen
  <2>2. /\ Rx(m) = Hear(Rx(l), rx)
        /\ StartsSeen(m) = IF l.rstate = "START_BIT_2" /\ m.rstate = "DATA"
                           THEN StartsSeen(l) + 1 ELSE StartsSeen(l)
    BY <1>3, <1>4, <2>1, HearHistory
  <2>3. StartsSeen(l) \in Nat
    BY DEF StartsSeen, Link
  <2>4. r.acks \in Nat /\ AckBound \in Nat
    BY LinkAssumption DEF Receiver
  <2>5. q.acks + Owed(s) <= r.acks + Owed(l)
    <3>1. CASE r.rstate = "START_BIT_2" /\ q.rstate = "IDLE"
      <4>1. /\ l.state = "SENDING_ACK" /\ Voted(l, 2 - Len(l.data)) = 1
            /\ s.state = "SENDING_ACK" /\ Voted(s, 2 - Len(s.data)) = 2
        BY <1>2, <3>1, AckHeard
      <4>2. Owed(l) = 1 /\ Owed(s) = 0
        BY <4>1 DEF Owed
      <4>3. q.acks = r.acks \/ q.acks = r.acks + 1
        BY <1>5, HearHistory
      <4>. QED
        BY <2>4, <4>2, <4>3
    <3>2. CASE ~(r.rstate = "START_BIT_2" /\ q.rstate = "IDLE")
      <4>1. q.acks = r.acks
        BY <1>5, <3>2, HearHistory
      <4>. QED
        BY <1>2, <2>4, <4>1, OwedRange
    <3>. QED
      BY <3>1, <3>2
  <2>6. q.acks \in Nat
    BY <1>6, LinkAssumption DEF Receiver
  <2>. HIDE DEF q
  <2>7. CASE Owed(m) = Owed(s)
    <3>1. q.acks + Owed(m) <= StartsSeen(l)
      BY <2>3, <2>4, <2>5, <2>6, <2>7, OwedRange
    <3>. QED
      BY <2>2, <2>3, <2>6, <3>1, OwedRange
  <2>8. CASE s.rstate = "START_BIT_2" /\ m.rstate = "DATA"
    <3>1. StartsSeen(m) = StartsSeen(l) + 1 /\ Owed(m) <= Owed(s) + 1
      BY <1>3, <2>2, <2>8, OwedRange
    <3>. QED
      BY <2>3, <2>4, <2>5, <2>6, <3>1, OwedRange
  <2>. QED
    BY <1>4, <2>7, <2>8
<1>9. /\ Received(s, r)
      /\ \/ s.framed = l.framed
         \/ r.received = l.framed /\ \E b \in Byte : s.framed = Append(l.framed, b)
  BY <1>2, TickReceived
<1>10. /\ Received(m, r)
       /\ \/ m.framed = s.framed
          \/ r.received = s.framed /\ \E b \in Byte : m.framed = Append(s.framed, b)
  BY <1>2, <1>4, <1>9, StartsReceived
<1>11. \/ m.framed = l.framed
       \/ r.received = l.framed /\ \E b \in Byte : m.framed = Append(l.framed, b)
  <2>1. ASSUME NEW b \in Byte, s.framed = Append(l.framed, b), r.received = l.framed,
               r.received = s.framed
        PROVE  FALSE
    <3>1. Len(Append(l.framed, b)) = Len(l.framed) + 1 /\ Len(l.framed) \in Nat
      BY AppendProperties DEF Link
    <3>. QED
      BY <2>1, <3>1
  <2>. QED
    BY <1>9, <1>10, <2>1
<1>. QED
  BY <1>3, <1>4, <1>7, <1>8, <1>10, <1>11

-----------------------------------------------------------------------------
(* What the receiver's half of a tick does to the sender of the same link. *)
AckStarted(l, m) ==
  /\ m.state = "SENDING_ACK" /\ m.data = AckFrame /\ m.sampleCount = 0
  /\ m.sending = <<>> /\ m.send_ack = l.send_ack /\ ~m.ack_rxed
  /\ m.sendComplete = l.sendComplete /\ m.framed = l.framed

LEMMA ReceiverAsks ==
  ASSUME NEW l \in Link, NEW rx \in Bit
  PROVE  LET m == receiverClock(l, rx)
             h == Hear(Rx(l), rx)
         IN /\ l.rstate = "START_BIT_2" /\ h.rstate = "DATA" /\ l.state = "IDLE" /\ l.sending = <<>> =>
                 AckStarted(l, m)
            /\ l.rstate = "START_BIT_2" /\ h.rstate = "IDLE" =>
                 SameSender([l EXCEPT !.ack_rxed = (l.state # "IDLE") \/ l.ack_rxed], m)
            /\ ~(l.rstate = "START_BIT_2" /\ h.rstate \in {"DATA", "IDLE"}) => SameSender(l, m)
<1>. DEFINE m == receiverClock(l, rx)
            h == Hear(Rx(l), rx)
            v == getRx(l.pin, rx).vote
            p == getRx(l.pin, rx).pin
            k == [l EXCEPT !.pin = p]
            y == (l.state # "IDLE") \/ l.ack_rxed
            a == [l EXCEPT !.ack_rxed = y]
<1>. SUFFICES /\ l.rstate = "START_BIT_2" /\ h.rstate = "DATA" /\ l.state = "IDLE" /\ l.sending = <<>> =>
                   AckStarted(l, m)
              /\ l.rstate = "START_BIT_2" /\ h.rstate = "IDLE" => SameSender(a, m)
              /\ ~(l.rstate = "START_BIT_2" /\ h.rstate \in {"DATA", "IDLE"}) => SameSender(l, m)
  OBVIOUS
<1>1. v \in {0, 1, NoVote} /\ NoVote = 2
  BY RxType DEF Link, NoVote
<1>2. m = IF v = NoVote THEN k ELSE bitStateReceived(k, v)
  BY DEF receiverClock
<1>3. /\ SameSender(l, k) /\ k.rstate = l.rstate /\ k.state = l.state /\ k.sending = l.sending
      /\ k.ack_rxed = l.ack_rxed /\ k.buffer = l.buffer
  BY DEF Link, SameSender
<1>. DEFINE r == [Rx(l) EXCEPT !.pin = p]
<1>4. h = (IF v = NoVote THEN r ELSE Heard(r, v)) /\ r.rstate = l.rstate
      /\ DOMAIN r = {"rstate", "buffer", "pin", "received", "framing", "acks"}
  BY DEF Hear, Rx
<1>5. DOMAIN k = DOMAIN l
  OBVIOUS
<1>. HIDE DEF v, h, r, m
<1>6. CASE v = NoVote
  <2>1. m = k /\ h.rstate = l.rstate
    BY <1>2, <1>4, <1>6
  <2>. HIDE DEF k, a
  <2>. QED
    BY <1>3, <2>1
<1>7. CASE v # NoVote /\ l.rstate = "START_BIT_2" /\ v = 1
  <2>1. h.rstate = "DATA"
    <3>1. h = [r EXCEPT !.rstate = "DATA", !.buffer = <<>>]
      BY <1>1, <1>4, <1>7, HeardBits
    <3>. QED
      BY <1>4, <3>1
  <2>2. m = [sendAck(k) EXCEPT !.rstate = "DATA", !.buffer = <<>>]
    BY <1>1, <1>2, <1>3, <1>7 DEF bitStateReceived
  <2>3. ASSUME l.state = "IDLE", l.sending = <<>>
        PROVE  AckStarted(l, m)
    <3>1. sendAck(k) = enterSendingAck(k)
      BY <1>3, <2>3 DEF sendAck
    <3>2. enterSendingAck(k) = [l EXCEPT !.pin = p, !.state = "SENDING_ACK", !.sampleCount = 0, !.data = AckFrame,
                      !.rts = TRUE, !.ack_rxed = FALSE]
      BY <1>3, <2>3 DEF Link, enterSendingAck, setReadyToSend
    <3>. HIDE DEF k
    <3>3. m = [[l EXCEPT !.pin = p, !.state = "SENDING_ACK", !.sampleCount = 0, !.data = AckFrame,
                      !.rts = TRUE, !.ack_rxed = FALSE] EXCEPT !.rstate = "DATA", !.buffer = <<>>]
      BY <2>2, <3>1, <3>2
    <3>. HIDE DEF p
    <3>. QED
      BY <2>3, <3>3 DEF Link, AckStarted
  <2>. QED
    BY <1>7, <2>1, <2>3
<1>8. CASE v # NoVote /\ l.rstate = "START_BIT_2" /\ v = 0
  <2>1. h.rstate = "IDLE"
    <3>1. h = [r EXCEPT !.rstate = "IDLE", !.acks = IF r.acks < AckBound THEN r.acks + 1 ELSE r.acks]
      BY <1>1, <1>4, <1>8, HeardBits
    <3>. QED
      BY <1>4, <3>1
  <2>2. m = [ackReceived(k) EXCEPT !.rstate = "IDLE"]
    BY <1>1, <1>2, <1>3, <1>8 DEF bitStateReceived
  <2>3. SameSender(a, m)
    BY <2>2 DEF ackReceived, SameSender, Link
  <2>. QED
    BY <1>8, <2>1, <2>3
<1>9. CASE v # NoVote /\ l.rstate # "START_BIT_2"
  <2>1. v \in Bit
    BY <1>1, <1>9 DEF Bit
  <2>2. SameSender(l, m)
    <3>1. CASE l.rstate = "IDLE"
      <4>1. m = [k EXCEPT !.rstate = IF v = 1 THEN "START_BIT_2" ELSE k.rstate]
        BY <1>2, <1>3, <1>9, <3>1 DEF bitStateReceived
      <4>. QED
        BY <4>1 DEF SameSender, Link
    <3>2. CASE l.rstate = "DATA"
      <4>1. m = [k EXCEPT !.buffer = Append(k.buffer, v),
                          !.rstate = IF Len(Append(k.buffer, v)) = DataBits THEN "STOP_BIT" ELSE k.rstate]
        BY <1>2, <1>3, <1>9, <3>2 DEF bitStateReceived
      <4>. QED
        BY <4>1 DEF SameSender, Link
    <3>3. CASE l.rstate = "STOP_BIT" /\ v = 1
      <4>1. m = [k EXCEPT !.rstate = "IDLE", !.framing = TRUE]
        BY <1>2, <1>3, <1>9, <3>3 DEF bitStateReceived
      <4>. QED
        BY <4>1 DEF SameSender, Link
    <3>4. CASE l.rstate = "STOP_BIT" /\ v = 0
      <4>. DEFINE d == dataReceived(k, k.buffer)
      <4>1. m = [d EXCEPT !.rstate = "IDLE"]
        BY <1>2, <1>3, <1>9, <3>4 DEF bitStateReceived
      <4>2. SameSender(k, d)
        BY DEF dataReceived, SameSender, Link
      <4>3. DOMAIN d = DOMAIN l
        BY DEF dataReceived, Link
      <4>. HIDE DEF d, k
      <4>4. SameSender(d, m)
        BY <4>1, <4>3 DEF SameSender, Link
      <4>. QED
        BY <1>3, <4>2, <4>4 DEF SameSender
    <3>5. l.rstate \in {"IDLE", "START_BIT_2", "DATA", "STOP_BIT"} /\ (v = 0 \/ v = 1)
      BY <2>1 DEF Link, Bit
    <3>. QED
      BY <1>9, <3>1, <3>2, <3>3, <3>4, <3>5
  <2>. HIDE DEF k, a
  <2>. QED
    BY <1>9, <2>2
<1>. QED
  BY <1>1, <1>6, <1>7, <1>8, <1>9

-----------------------------------------------------------------------------
(* The types, whatever the sender was in the middle of: a reset may leave  *)
(* it with a byte enqueued, or not ready to send.                          *)
Typed(l, m) == m \in Link /\ FrameLeft(m) /\ SameReceiver(l, m)

LEMMA TypedThrough ==
  ASSUME NEW l, NEW k, NEW m, SameReceiver(l, k), Typed(k, m)
  PROVE  Typed(l, m)
BY DEF Typed, SameReceiver

LEMMA SendDataInternalType ==
  ASSUME NEW l \in Link, NEW b \in Byte
  PROVE  Typed(l, sendDataInternal(l, b))
<1>. DEFINE m == sendDataInternal(l, b)
            a == IF l.state = "SENDING_ACK" THEN FALSE ELSE l.send_ack
<1>0. a \in BOOLEAN
  BY DEF Link
<1>1. Append(l.framed, b) \in Seq(Byte) /\ DataFrame(b) \in Seq(Bit) /\ DataFrame(b) # <<>>
  BY FrameTypes DEF Link
<1>2. m = [l EXCEPT !.state = "SENDING_DATA", !.send_ack = a, !.sampleCount = 0,
                    !.data = DataFrame(b), !.framed = Append(l.framed, b)]
  BY DEF sendDataInternal, Link
<1>3. \A d \in Seq(Bit), f \in Seq(Byte), x \in BOOLEAN :
        [l EXCEPT !.state = "SENDING_DATA", !.send_ack = x, !.sampleCount = 0, !.data = d,
                  !.framed = f] \in Link
  BY FrameTypes DEF Link
<1>. HIDE DEF m, a
<1>4. m \in Link
  BY <1>0, <1>1, <1>2, <1>3
<1>5. SameReceiver(l, m) /\ m.data = DataFrame(b)
  BY <1>2 DEF Link, SameReceiver
<1>6. Typed(l, m)
  BY <1>1, <1>4, <1>5 DEF Typed, FrameLeft
<1>. QED
  BY <1>6 DEF m

LEMMA SendDataType ==
  ASSUME NEW l \in Link, NEW b \in Byte, FrameLeft(l)
  PROVE  Typed(l, sendData(l, b))
<1>. DEFINE m == sendData(l, b)
            k == [l EXCEPT !.ack_rxed = FALSE, !.rts = FALSE]
<1>. SUFFICES Typed(l, m)
  OBVIOUS
<1>1. CASE l.state = "IDLE" /\ l.rts
  <2>1. k \in Link /\ SameReceiver(l, k)
    BY DEF Link, SameReceiver
  <2>2. m = sendDataInternal(k, b)
    BY <1>1 DEF sendData
  <2>. HIDE DEF m, k
  <2>. QED
    BY <2>1, <2>2, SendDataInternalType, TypedThrough
<1>2. CASE l.state = "SENDING_ACK"
  <2>1. m = [l EXCEPT !.enqueued = <<b>>, !.ack_rxed = FALSE]
    BY <1>2 DEF sendData
  <2>2. <<b>> \in {<<>>} \cup {<<x>> : x \in Byte}
    OBVIOUS
  <2>3. \A q \in {<<>>} \cup {<<x>> : x \in Byte} : [l EXCEPT !.enqueued = q, !.ack_rxed = FALSE] \in Link
    BY DEF Link
  <2>4. m \in Link
    BY <2>1, <2>2, <2>3
  <2>5. SameReceiver(l, m) /\ m.state = l.state /\ m.data = l.data
    BY <2>1 DEF Link, SameReceiver
  <2>. QED
    BY <2>4, <2>5 DEF Typed, FrameLeft, Sending
<1>3. CASE ~(l.state = "IDLE" /\ l.rts) /\ l.state # "SENDING_ACK"
  <2>1. m = l
    BY <1>3 DEF sendData
  <2>. QED
    BY <2>1 DEF Typed, SameReceiver
<1>. QED
  BY <1>1, <1>2, <1>3

LEMMA SetReadyToSendType ==
  ASSUME NEW l \in Link, FrameLeft(l)
  PROVE  Typed(l, setReadyToSend(l))
<1>. DEFINE m == setReadyToSend(l)
            rest == Tail(l.sending)
<1>1. CASE l.sending = <<>>
  <2>1. m = [l EXCEPT !.rts = TRUE]
    BY <1>1 DEF setReadyToSend
  <2>2. m \in Link /\ SameReceiver(l, m) /\ m.state = l.state /\ m.data = l.data
    BY <2>1 DEF Link, SameReceiver
  <2>. QED
    BY <2>2 DEF Typed, FrameLeft, Sending
<1>2. CASE l.sending # <<>> /\ rest = <<>>
  <2>1. m = [l EXCEPT !.rts = TRUE, !.sending = rest, !.sendComplete = TRUE]
    BY <1>2 DEF setReadyToSend, Link
  <2>2. rest \in Seq(Byte)
    <3>1. <<>> \in Seq(Byte)
      OBVIOUS
    <3>. QED
      BY <1>2, <3>1
  <2>. HIDE DEF rest
  <2>3. m \in Link /\ SameReceiver(l, m) /\ m.state = l.state /\ m.data = l.data
    BY <2>1, <2>2 DEF Link, SameReceiver
  <2>. QED
    BY <2>3 DEF Typed, FrameLeft, Sending
<1>3. CASE l.sending # <<>> /\ rest # <<>>
  <2>. DEFINE k == [l EXCEPT !.rts = TRUE, !.sending = rest]
  <2>1. rest \in Seq(Byte) /\ rest[1] \in Byte
    <3>1. rest \in Seq(Byte)
      BY <1>3, HeadTailProperties DEF Link
    <3>. QED
      BY <1>3, <3>1
  <2>2. m = sendData(k, rest[1])
    BY <1>3 DEF setReadyToSend, Link
  <2>. HIDE DEF rest, m
  <2>3. k \in Link /\ SameReceiver(l, k) /\ k.state = l.state /\ k.data = l.data
    BY <2>1 DEF Link, SameReceiver
  <2>. HIDE DEF k
  <2>4. FrameLeft(k)
    BY <2>3 DEF FrameLeft, Sending
  <2>. QED
    BY <2>1, <2>2, <2>3, <2>4, SendDataType, TypedThrough DEF m
<1>. QED
  BY <1>1, <1>2, <1>3

LEMMA EntersTyped ==
  ASSUME NEW l \in Link
  PROVE  /\ Typed(l, enterIdle(l)) /\ Typed(l, enterSendingAck(l)) /\ Typed(l, enterAckTimeout(l))
<1>1. Exit(l) \in Link /\ SameReceiver(l, Exit(l))
  <2>. DEFINE e == [l EXCEPT !.send_ack = FALSE]
  <2>1. e \in Link /\ SameReceiver(l, e)
    BY DEF Link, SameReceiver
  <2>2. Exit(l) = e \/ Exit(l) = l
    BY DEF Exit
  <2>. HIDE DEF e
  <2>. QED
    BY <2>1, <2>2 DEF SameReceiver
<1>. DEFINE x == Exit(l)
<1>. HIDE DEF x
<1>2. Typed(l, enterIdle(l))
  <2>. DEFINE i == [x EXCEPT !.state = "IDLE"]
              k == [i EXCEPT !.ack_rxed = FALSE]
  <2>1. i \in Link /\ SameReceiver(l, i) /\ i.state = "IDLE"
    BY <1>1 DEF Link, SameReceiver, x
  <2>2. k \in Link /\ SameReceiver(l, k) /\ k.state = "IDLE"
    BY <1>1 DEF Link, SameReceiver, x
  <2>3. enterIdle(l) = IF i.ack_rxed THEN setReadyToSend(k) ELSE i
    BY DEF enterIdle, x
  <2>. HIDE DEF i, k
  <2>4. Typed(l, i)
    BY <2>1 DEF Typed, FrameLeft, Sending
  <2>5. Typed(l, setReadyToSend(k))
    <3>1. FrameLeft(k)
      BY <2>2 DEF FrameLeft, Sending
    <3>. QED
      BY <2>2, <3>1, SetReadyToSendType, TypedThrough
  <2>. QED
    BY <2>3, <2>4, <2>5
<1>3. Typed(l, enterSendingAck(l))
  <2>. DEFINE k == [l EXCEPT !.state = "SENDING_ACK", !.sampleCount = 0, !.data = AckFrame]
              n == setReadyToSend(k)
              m == [n EXCEPT !.ack_rxed = FALSE]
  <2>1. k \in Link /\ SameReceiver(l, k) /\ k.data = AckFrame
    BY FrameTypes DEF Link, SameReceiver
  <2>2. enterSendingAck(l) = m
    BY DEF enterSendingAck
  <2>. HIDE DEF k
  <2>3. Typed(l, n)
    <3>1. FrameLeft(k)
      BY <2>1, FrameTypes DEF FrameLeft
    <3>. QED
      BY <2>1, <3>1, SetReadyToSendType, TypedThrough
  <2>. HIDE DEF n
  <2>4. m \in Link /\ SameReceiver(n, m) /\ m.state = n.state /\ m.data = n.data
    BY <2>3 DEF Typed, Link, SameReceiver
  <2>. HIDE DEF m
  <2>5. Typed(l, m)
    BY <2>3, <2>4 DEF Typed, FrameLeft, Sending, SameReceiver
  <2>. QED
    BY <2>2, <2>5
<1>4. Typed(l, enterAckTimeout(l))
  <2>. DEFINE m == [x EXCEPT !.state = "ACK_TIMEOUT", !.timeout = TRUE]
  <2>1. m \in Link /\ SameReceiver(l, m) /\ m.state = "ACK_TIMEOUT"
    BY <1>1 DEF Link, SameReceiver, x
  <2>2. enterAckTimeout(l) = m
    BY DEF enterAckTimeout, x
  <2>. HIDE DEF m
  <2>. QED
    BY <2>1, <2>2 DEF Typed, FrameLeft, Sending
<1>. QED
  BY <1>2, <1>3, <1>4

LEMMA EndOfFrameType ==
  ASSUME NEW l \in Link, Sending(l)
  PROVE  Typed(l, endOfFrame(l))
<1>1. CASE l.state = "SENDING_ACK" /\ l.enqueued # <<>>
  <2>. DEFINE k == [l EXCEPT !.ack_rxed = FALSE]
              b == l.enqueued[1]
              n == sendDataInternal(k, b)
              m == [n EXCEPT !.enqueued = <<>>]
  <2>1. k \in Link /\ SameReceiver(l, k)
    BY DEF Link, SameReceiver
  <2>2. b \in Byte
    BY <1>1 DEF Link
  <2>3. endOfFrame(l) = m
    BY <1>1 DEF endOfFrame
  <2>. HIDE DEF k, b
  <2>4. Typed(l, n)
    BY <2>1, <2>2, SendDataInternalType, TypedThrough
  <2>. HIDE DEF n
  <2>5. m \in Link
    <3>1. <<>> \in {<<>>} \cup {<<x>> : x \in Byte}
      OBVIOUS
    <3>2. \A q \in {<<>>} \cup {<<x>> : x \in Byte} : [n EXCEPT !.enqueued = q] \in Link
      BY <2>4 DEF Typed, Link
    <3>. QED
      BY <3>1, <3>2
  <2>6. SameReceiver(n, m) /\ m.state = n.state /\ m.data = n.data
    BY <2>4 DEF Typed, Link, SameReceiver
  <2>. HIDE DEF m
  <2>7. Typed(l, m)
    BY <2>4, <2>5, <2>6 DEF Typed, FrameLeft, Sending, SameReceiver
  <2>. QED
    BY <2>3, <2>7
<1>2. CASE ~(l.state = "SENDING_ACK" /\ l.enqueued # <<>>)
  BY <1>2, EntersTyped DEF endOfFrame, Sending
<1>. QED
  BY <1>1, <1>2

LEMMA SenderClockType ==
  ASSUME NEW l \in Link, FrameLeft(l)
  PROVE  Typed(l, senderClock(l))
<1>1. l.sampleCount \in 0 .. Samples - 1 /\ Samples \in Nat /\ Samples > 0
  BY PinAssumption DEF Link
<1>2. CASE ~Sending(l)
  BY <1>2 DEF senderClock, Typed, SameReceiver
<1>3. CASE Sending(l) /\ l.sampleCount + 1 < Samples
  <2>. DEFINE c == l.sampleCount + 1
              m == [l EXCEPT !.sampleCount = c]
  <2>1. m \in Link /\ SameReceiver(l, m) /\ m.state = l.state /\ m.data = l.data
    <3>1. c \in 0 .. Samples - 1
      BY <1>1, <1>3
    <3>. HIDE DEF c
    <3>. QED
      BY <3>1 DEF Link, SameReceiver
  <2>2. senderClock(l) = m
    BY <1>3 DEF senderClock
  <2>. HIDE DEF m
  <2>. QED
    BY <2>1, <2>2 DEF Typed, FrameLeft, Sending
<1>4. CASE Sending(l) /\ ~(l.sampleCount + 1 < Samples)
  <2>. DEFINE sent == [l EXCEPT !.sampleCount = 0, !.data = Tail(l.data)]
  <2>1. Tail(l.data) \in Seq(Bit)
    BY <1>4 DEF FrameLeft, Link
  <2>2. sent \in Link /\ SameReceiver(l, sent) /\ sent.state = l.state
    BY <2>1, FrameTypes DEF Link, SameReceiver
  <2>3. senderClock(l) = IF sent.data = <<>> THEN endOfFrame(sent) ELSE sent
    BY <1>4 DEF senderClock, Link
  <2>. HIDE DEF sent
  <2>4. Sending(sent)
    BY <1>4, <2>2 DEF Sending
  <2>5. Typed(l, endOfFrame(sent))
    BY <2>2, <2>4, EndOfFrameType, TypedThrough
  <2>6. sent.data # <<>> => Typed(l, sent)
    BY <2>2 DEF Typed, FrameLeft
  <2>. QED
    BY <2>3, <2>5, <2>6
<1>. QED
  BY <1>2, <1>3, <1>4

LEMMA SendAckType ==
  ASSUME NEW l \in Link, FrameLeft(l)
  PROVE  Typed(l, sendAck(l))
<1>1. CASE l.state = "IDLE"
  BY <1>1, EntersTyped DEF sendAck
<1>2. CASE l.state = "SENDING_DATA"
  <2>. DEFINE m == [l EXCEPT !.send_ack = TRUE]
  <2>1. m \in Link /\ SameReceiver(l, m) /\ m.state = l.state /\ m.data = l.data
    BY DEF Link, SameReceiver
  <2>2. sendAck(l) = m
    BY <1>2 DEF sendAck
  <2>. HIDE DEF m
  <2>. QED
    BY <2>1, <2>2 DEF Typed, FrameLeft, Sending
<1>3. CASE l.state \notin {"IDLE", "SENDING_DATA"}
  BY <1>3 DEF sendAck, Typed, SameReceiver
<1>. QED
  BY <1>1, <1>2, <1>3

(* The receiver's half: a byte is whole when its stop bit is awaited.      *)
TypedRx(l) == l \in Link /\ FrameLeft(l) /\ BufferOK(l)

LEMMA DataReceivedType ==
  ASSUME NEW l \in Link, NEW b \in Byte
  PROVE  LET m == dataReceived(l, b) IN m \in Link /\ SameSender(l, m)
<1>. DEFINE m == dataReceived(l, b)
            left == (l.receiveLength - 1 + WordSize) % WordSize
            done == l.readComplete \/ left = 0
            x == Append(l.received, b)
            z == Append(l.stored, b)
<1>1. x \in Seq(Byte) /\ z \in Seq(Byte)
  BY DEF Link
<1>2. left \in 0 .. WordSize - 1
  BY LinkAssumption DEF Link
<1>3. done \in BOOLEAN
  BY DEF Link
<1>4. m = IF l.receiveBuffer THEN [l EXCEPT !.received = x, !.receiveLength = left, !.stored = z,
                                            !.readComplete = done]
          ELSE [l EXCEPT !.received = x]
  BY DEF dataReceived, Link
<1>. HIDE DEF m, left, done, x, z
<1>5. [l EXCEPT !.received = x, !.receiveLength = left, !.stored = z, !.readComplete = done] \in Link
  <2>1. \A d \in BOOLEAN : [l EXCEPT !.received = x, !.receiveLength = left, !.stored = z,
                                     !.readComplete = d] \in Link
    BY <1>1, <1>2 DEF Link
  <2>. QED
    BY <1>3, <2>1
<1>6. [l EXCEPT !.received = x] \in Link
  BY <1>1 DEF Link
<1>7. SameSender(l, m)
  BY <1>4 DEF Link, SameSender
<1>8. m \in Link
  BY <1>4, <1>5, <1>6
<1>. QED
  BY <1>7, <1>8 DEF m

LEMMA BitStateReceivedType ==
  ASSUME NEW l, NEW bit \in Bit, TypedRx(l)
  PROVE  TypedRx(bitStateReceived(l, bit))
<1>. DEFINE m == bitStateReceived(l, bit)
<1>0. l \in Link /\ FrameLeft(l) /\ BufferOK(l) /\ (bit = 0 \/ bit = 1)
  BY DEF TypedRx, Bit
<1>1. CASE l.rstate = "IDLE"
  <2>. DEFINE x == IF bit = 1 THEN "START_BIT_2" ELSE "IDLE"
  <2>1. m = [l EXCEPT !.rstate = x]
    BY <1>1 DEF bitStateReceived
  <2>2. x \in {"IDLE", "START_BIT_2"}
    OBVIOUS
  <2>. HIDE DEF m, x
  <2>3. m \in Link /\ SameSender(l, m) /\ m.rstate = x
    BY <1>0, <2>1, <2>2 DEF Link, SameSender
  <2>4. TypedRx(m)
    BY <1>0, <2>2, <2>3, SameSenderFacts DEF TypedRx, BufferOK
  <2>. QED
    BY <2>4 DEF m
<1>2. CASE l.rstate = "START_BIT_2" /\ bit = 1
  <2>. DEFINE a == sendAck(l)
  <2>1. m = [a EXCEPT !.rstate = "DATA", !.buffer = <<>>]
    BY <1>2 DEF bitStateReceived
  <2>2. Typed(l, a)
    BY <1>0, SendAckType
  <2>. HIDE DEF a, m
  <2>3. m \in Link
    <3>1. \A x \in Seq(Bit) : [a EXCEPT !.rstate = "DATA", !.buffer = x] \in Link
      BY <2>2 DEF Typed, Link
    <3>2. <<>> \in Seq(Bit)
      OBVIOUS
    <3>. QED
      BY <2>1, <3>1, <3>2
  <2>4. SameSender(a, m) /\ m.rstate = "DATA" /\ m.buffer = <<>>
    BY <2>1, <2>2 DEF Typed, Link, SameSender
  <2>5. FrameLeft(m)
    BY <2>2, <2>4, SameSenderFacts DEF Typed
  <2>6. BufferOK(m)
    <3>1. Len(<<>>) < DataBits
      BY PinAssumption
    <3>. QED
      BY <2>4, <3>1 DEF BufferOK
  <2>7. TypedRx(m)
    BY <2>3, <2>5, <2>6 DEF TypedRx
  <2>. QED
    BY <2>7 DEF m
<1>3. CASE l.rstate = "START_BIT_2" /\ bit = 0
  <2>. DEFINE x == IF l.acks < AckBound THEN l.acks + 1 ELSE l.acks
              y == (l.state # "IDLE") \/ l.ack_rxed
  <2>1. m = [l EXCEPT !.ack_rxed = y, !.acks = x, !.rstate = "IDLE"]
    BY <1>3 DEF bitStateReceived, ackReceived, Link
  <2>2. x \in 0 .. AckBound
    BY <1>0, LinkAssumption DEF Link
  <2>3. y \in BOOLEAN
    BY <1>0 DEF Link
  <2>. HIDE DEF m, x, y
  <2>4. m \in Link
    <3>1. \A z \in BOOLEAN : [l EXCEPT !.ack_rxed = z, !.acks = x, !.rstate = "IDLE"] \in Link
      BY <1>0, <2>2 DEF Link
    <3>. QED
      BY <2>1, <2>3, <3>1
  <2>5. m.state = l.state /\ m.data = l.data /\ m.rstate = "IDLE"
    BY <1>0, <2>1 DEF Link
  <2>6. TypedRx(m)
    BY <1>0, <2>4, <2>5 DEF TypedRx, FrameLeft, Sending, BufferOK
  <2>. QED
    BY <2>6 DEF m
<1>4. CASE l.rstate = "DATA"
  <2>. DEFINE b == Append(l.buffer, bit)
              x == IF Len(b) = DataBits THEN "STOP_BIT" ELSE "DATA"
  <2>1. m = [l EXCEPT !.buffer = b, !.rstate = x]
    BY <1>4 DEF bitStateReceived
  <2>2. x \in {"DATA", "STOP_BIT"} /\ l.buffer \in Seq(Bit)
    BY <1>0 DEF Link
  <2>3. b \in Seq(Bit) /\ Len(b) = Len(l.buffer) + 1 /\ Len(l.buffer) \in Nat /\ Len(l.buffer) < DataBits
    BY <1>0, <1>4, <2>2, AppendProperties DEF BufferOK
  <2>4. x = "DATA" => Len(b) < DataBits
    BY <2>3, PinAssumption
  <2>5. x = "STOP_BIT" => Len(b) = DataBits
    OBVIOUS
  <2>. HIDE DEF m, b, x
  <2>6. m \in Link /\ SameSender(l, m) /\ m.rstate = x /\ m.buffer = b
    BY <1>0, <2>1, <2>2, <2>3 DEF Link, SameSender
  <2>7. TypedRx(m)
    BY <1>0, <2>4, <2>5, <2>6, SameSenderFacts DEF TypedRx, BufferOK
  <2>. QED
    BY <2>7 DEF m
<1>5. CASE l.rstate = "STOP_BIT" /\ bit = 1
  <2>1. m = [l EXCEPT !.rstate = "IDLE", !.framing = TRUE]
    BY <1>5 DEF bitStateReceived
  <2>. HIDE DEF m
  <2>2. m \in Link /\ SameSender(l, m) /\ m.rstate = "IDLE"
    BY <1>0, <2>1 DEF Link, SameSender
  <2>3. TypedRx(m)
    BY <1>0, <2>2, SameSenderFacts DEF TypedRx, BufferOK
  <2>. QED
    BY <2>3 DEF m
<1>6. CASE l.rstate = "STOP_BIT" /\ bit = 0
  <2>. DEFINE d == dataReceived(l, l.buffer)
  <2>1. m = [d EXCEPT !.rstate = "IDLE"]
    BY <1>6 DEF bitStateReceived
  <2>2. l.buffer \in Byte
    BY <1>0, <1>6 DEF Link, BufferOK, Byte
  <2>3. d \in Link /\ SameSender(l, d)
    BY <1>0, <2>2, DataReceivedType
  <2>. HIDE DEF m, d
  <2>4. m \in Link /\ SameSender(l, m) /\ m.rstate = "IDLE"
    BY <2>1, <2>3 DEF Link, SameSender
  <2>5. TypedRx(m)
    BY <1>0, <2>4, SameSenderFacts DEF TypedRx, BufferOK
  <2>. QED
    BY <2>5 DEF m
<1>. QED
  <2>1. l.rstate \in {"IDLE", "START_BIT_2", "DATA", "STOP_BIT"}
    BY <1>0 DEF Link
  <2>. QED
    BY <1>0, <1>1, <1>2, <1>3, <1>4, <1>5, <1>6, <2>1

LEMMA ClockType ==
  ASSUME NEW l, NEW rx \in Bit, TypedRx(l)
  PROVE  TypedRx(clock(l, rx))
<1>. DEFINE s == senderClock(l)
            p == getRx(s.pin, rx).pin
            v == getRx(s.pin, rx).vote
            k == [s EXCEPT !.pin = p]
<1>1. s \in Link /\ FrameLeft(s) /\ BufferOK(s)
  BY SenderClockType DEF TypedRx, Typed, SameReceiver, BufferOK
<1>. HIDE DEF s
<1>2. p \in Pin /\ v \in {0, 1, NoVote}
  BY <1>1, RxType DEF Link
<1>3. clock(l, rx) = IF v = NoVote THEN k ELSE bitStateReceived(k, v)
  BY DEF clock, receiverClock, s
<1>. HIDE DEF p, v
<1>4. k \in Link /\ SameSender(s, k) /\ k.rstate = s.rstate /\ k.buffer = s.buffer
  BY <1>1, <1>2 DEF Link, SameSender
<1>. HIDE DEF k
<1>5. TypedRx(k)
  BY <1>1, <1>4, SameSenderFacts DEF TypedRx, BufferOK
<1>6. v # NoVote => v \in Bit
  BY <1>2 DEF Bit
<1>. QED
  BY <1>3, <1>5, <1>6, BitStateReceivedType

(* The calls of the API, and a reset.                                      *)
LEMMA CallTypes ==
  ASSUME NEW l \in Link, FrameLeft(l), NEW msg \in Seq(Byte), msg # <<>>
  PROVE  Typed(l, writeDataAsync(l, msg)) /\ Typed(l, writeComplete(l))
<1>1. Typed(l, writeDataAsync(l, msg))
  <2>. DEFINE k == [l EXCEPT !.sendComplete = FALSE, !.sending = msg]
  <2>1. k \in Link /\ SameReceiver(l, k) /\ k.state = l.state /\ k.data = l.data
    BY DEF Link, SameReceiver
  <2>2. writeDataAsync(l, msg) = sendData(k, msg[1]) /\ msg[1] \in Byte
    BY DEF writeDataAsync
  <2>. HIDE DEF k
  <2>3. FrameLeft(k)
    BY <2>1 DEF FrameLeft, Sending
  <2>. QED
    BY <2>1, <2>2, <2>3, SendDataType, TypedThrough
<1>2. Typed(l, writeComplete(l))
  <2>. DEFINE m == [l EXCEPT !.sendComplete = FALSE, !.sending = <<>>]
  <2>1. m \in Link
    <3>1. \A x \in Seq(Byte) : [l EXCEPT !.sendComplete = FALSE, !.sending = x] \in Link
      BY DEF Link
    <3>2. <<>> \in Seq(Byte)
      OBVIOUS
    <3>. QED
      BY <3>1, <3>2
  <2>2. SameReceiver(l, m) /\ m.state = l.state /\ m.data = l.data /\ writeComplete(l) = m
    BY DEF Link, SameReceiver, writeComplete
  <2>. HIDE DEF m
  <2>. QED
    BY <2>1, <2>2 DEF Typed, FrameLeft, Sending
<1>. QED
  BY <1>1, <1>2

LEMMA ResetType ==
  ASSUME NEW l \in Link
  PROVE  TypedRx(resetLink(l))
<1>. DEFINE k == [l EXCEPT !.receiveLength = 0, !.sending = <<>>, !.rts = FALSE,
                       !.sendComplete = FALSE, !.readComplete = FALSE,
                       !.timeout = FALSE, !.framing = FALSE]
            n == enterIdle(k)
            m == [n EXCEPT !.rstate = "IDLE"]
<1>1. resetLink(l) = m
  BY DEF resetLink
<1>2. k \in Link
  <2>1. \A x \in Seq(Byte), y \in 0 .. WordSize - 1 :
          [l EXCEPT !.receiveLength = y, !.sending = x, !.rts = FALSE,
                       !.sendComplete = FALSE, !.readComplete = FALSE,
                       !.timeout = FALSE, !.framing = FALSE] \in Link
    BY DEF Link
  <2>2. <<>> \in Seq(Byte) /\ 0 \in 0 .. WordSize - 1
    BY LinkAssumption
  <2>. QED
    BY <2>1, <2>2
<1>. HIDE DEF k
<1>3. n \in Link /\ FrameLeft(n)
  BY <1>2, EntersTyped DEF Typed
<1>. HIDE DEF n
<1>4. m \in Link /\ SameSender(n, m) /\ m.rstate = "IDLE"
  BY <1>3 DEF Link, SameSender
<1>. HIDE DEF m
<1>. QED
  BY <1>1, <1>3, <1>4, SameSenderFacts DEF TypedRx, BufferOK

-----------------------------------------------------------------------------
(* How far into a frame of n bits a sender is, in ticks.                   *)
Ticks(s, n) == (n - Len(s.data)) * Samples + s.sampleCount

(* The bits of a data frame.                                               *)
DataLength == DataBits + 3

(* The ticks after which the receiver has voted on the second bit.         *)
SecondVote == Samples + VoteAt + 1

LEMMA Times ==
  ASSUME NEW i \in Nat
  PROVE  /\ i * Samples \in Nat /\ (i + 1) * Samples = i * Samples + Samples
         /\ 0 * Samples = 0 /\ 1 * Samples = Samples /\ 2 * Samples = Samples + Samples
         /\ i >= 1 => i * Samples >= Samples
         /\ i >= 2 => i * Samples >= Samples + Samples
         /\ i >= 3 => i * Samples >= Samples + Samples + Samples
<1>1. Samples \in Nat
  BY PinAssumption
<1>. QED
  BY <1>1

LEMMA TicksTick ==
  ASSUME NEW s \in Link, NEW m, NEW n \in Nat, Len(s.data) \in 1 .. n, Sending(s), TickOfFrame(s, m),
         ~(s.sampleCount + 1 = Samples /\ Len(s.data) = 1)
  PROVE  m.state = s.state /\ m.framed = s.framed /\ Ticks(m, n) = Ticks(s, n) + 1
<1>. DEFINE i == n - Len(s.data)
            c == s.sampleCount
<1>1. i \in Nat /\ c \in 0 .. Samples - 1 /\ Samples \in Nat /\ i + 1 = n - (Len(s.data) - 1)
  BY PinAssumption DEF Link
<1>2. CASE c + 1 < Samples
  <2>1. m.state = s.state /\ m.framed = s.framed /\ m.data = s.data /\ m.sampleCount = c + 1
    BY <1>1, <1>2 DEF TickOfFrame
  <2>2. Ticks(m, n) = i * Samples + (c + 1) /\ Ticks(s, n) = i * Samples + c
    BY <2>1 DEF Ticks
  <2>. HIDE DEF i, c
  <2>3. i * Samples \in Nat
    BY <1>1, Times
  <2>. QED
    BY <1>1, <2>1, <2>2, <2>3
<1>3. CASE c + 1 = Samples
  <2>1. m.state = s.state /\ m.framed = s.framed /\ m.data = Tail(s.data) /\ m.sampleCount = 0
    BY <1>1, <1>3 DEF TickOfFrame
  <2>2. Len(m.data) = Len(s.data) - 1
    <3>1. s.data \in Seq(Bit) /\ s.data # <<>>
      BY DEF Link
    <3>. QED
      BY <2>1, <3>1, HeadTailProperties
  <2>3. Ticks(m, n) = (i + 1) * Samples + 0 /\ Ticks(s, n) = i * Samples + c
    BY <1>1, <2>1, <2>2 DEF Ticks
  <2>. HIDE DEF i, c
  <2>4. i * Samples \in Nat /\ (i + 1) * Samples = i * Samples + Samples
    BY <1>1, Times
  <2>. QED
    BY <1>1, <1>3, <2>1, <2>3, <2>4
<1>. QED
  BY <1>1, <1>2, <1>3

LEMMA TicksRange ==
  ASSUME NEW s \in Link, NEW n \in Nat, Len(s.data) \in 1 .. n
  PROVE  /\ Ticks(s, n) \in Nat /\ Ticks(s, n) < n * Samples /\ n * Samples \in Nat
         /\ (s.sampleCount + 1 = Samples /\ Len(s.data) = 1) <=> Ticks(s, n) + 1 = n * Samples
<1>. DEFINE i == n - Len(s.data)
            c == s.sampleCount
            j == Len(s.data) - 1
<1>1. /\ i \in Nat /\ c \in 0 .. Samples - 1 /\ Samples \in Nat /\ Samples > 0 /\ n \in Nat
      /\ j \in Nat /\ n = i + 1 + j /\ (Len(s.data) = 1 <=> j = 0)
  BY PinAssumption DEF Link
<1>2. Ticks(s, n) = i * Samples + c
  BY DEF Ticks
<1>. HIDE DEF i, c, j
<1>3. /\ i * Samples \in Nat /\ (i + 1) * Samples = i * Samples + Samples
      /\ j * Samples \in Nat /\ (j >= 1 => j * Samples >= Samples) /\ 0 * Samples = 0
  BY <1>1, Times
<1>4. n * Samples = i * Samples + Samples + j * Samples
  <2>1. n * Samples = (i + 1) * Samples + j * Samples
    BY <1>1
  <2>. QED
    BY <1>3, <2>1
<1>5. j = 0 => j * Samples = 0
  BY <1>3
<1>. DEFINE x == i * Samples
            y == j * Samples
            z == n * Samples
<1>6. x \in Nat /\ y \in Nat /\ z = x + Samples + y /\ (j >= 1 => y >= Samples) /\ (j = 0 => y = 0)
  BY <1>3, <1>4, <1>5
<1>7. Ticks(s, n) = x + c
  BY <1>2
<1>. HIDE DEF x, y, z
<1>8. Ticks(s, n) \in Nat /\ Ticks(s, n) < z /\ z \in Nat
  BY <1>1, <1>6, <1>7
<1>9. (c + 1 = Samples /\ j = 0) <=> Ticks(s, n) + 1 = z
  BY <1>1, <1>6, <1>7
<1>. QED
  BY <1>1, <1>8, <1>9 DEF c, z

LEMMA TicksVoted ==
  ASSUME NEW s \in Link, NEW n \in Nat, Len(s.data) \in 1 .. n
  PROVE  LET v == Voted(s, n - Len(s.data))
             t == Ticks(s, n)
         IN /\ v \in Nat
            /\ v = 0 <=> t <= VoteAt
            /\ v = 1 <=> VoteAt < t /\ t < SecondVote
            /\ t = SecondVote => v = 2
<1>. DEFINE i == n - Len(s.data)
            c == s.sampleCount
            v == Voted(s, i)
            t == Ticks(s, n)
<1>. SUFFICES /\ v \in Nat
              /\ v = 0 <=> t <= VoteAt
              /\ v = 1 <=> VoteAt < t /\ t < SecondVote
              /\ t = SecondVote => v = 2
  OBVIOUS
<1>1. /\ i \in Nat /\ c \in 0 .. Samples - 1 /\ Samples \in Nat /\ VoteAt \in Nat /\ VoteAt + 1 < Samples
  BY PinAssumption DEF Link
<1>2. t = i * Samples + c /\ v = i + (IF c > VoteAt THEN 1 ELSE 0) /\ SecondVote = Samples + VoteAt + 1
  BY DEF Ticks, Voted, SecondVote
<1>. HIDE DEF i, c, v, t
<1>. DEFINE x == i * Samples
<1>3. /\ x \in Nat /\ (i = 0 => x = 0) /\ (i = 1 => x = Samples) /\ (i >= 2 => x >= Samples + Samples)
      /\ t = x + c
  BY <1>1, <1>2, Times
<1>. HIDE DEF x
<1>4. CASE i = 0
  BY <1>1, <1>2, <1>3, <1>4
<1>5. CASE i = 1
  BY <1>1, <1>2, <1>3, <1>5
<1>6. CASE i >= 2
  BY <1>1, <1>2, <1>3, <1>6
<1>. QED
  BY <1>1, <1>4, <1>5, <1>6

LEMMA TicksStart ==
  ASSUME NEW m
  PROVE  /\ \A b \in Byte : m.data = DataFrame(b) /\ m.sampleCount = 0 => Ticks(m, DataLength) = 0
         /\ m.data = AckFrame /\ m.sampleCount = 0 => Ticks(m, 2) = 0
<1>1. ASSUME NEW b \in Byte, m.data = DataFrame(b), m.sampleCount = 0 PROVE Ticks(m, DataLength) = 0
  <2>1. Len(m.data) = DataBits + 3
    BY <1>1, FrameFacts
  <2>2. (DataBits + 3) - (DataBits + 3) = 0
    BY PinAssumption
  <2>3. 0 * Samples = 0
    BY PinAssumption
  <2>. QED
    BY <1>1, <2>1, <2>2, <2>3 DEF Ticks, DataLength
<1>2. ASSUME m.data = AckFrame, m.sampleCount = 0 PROVE Ticks(m, 2) = 0
  <2>1. Len(m.data) = 2
    BY <1>2 DEF AckFrame
  <2>2. 0 * Samples = 0
    BY PinAssumption
  <2>. QED
    BY <1>2, <2>1, <2>2 DEF Ticks
<1>. QED
  BY <1>1, <1>2

-----------------------------------------------------------------------------
(* What the receiver at the other end is in the middle of.                 *)
LEMMA AckBits ==
  ASSUME NEW s, NEW r, NEW level, s.state = "SENDING_ACK", InStep(s, r, level)
  PROVE  Len(s.data) \in 1 .. 2
<1>1. s.data \in {<<1, 0>>, <<0>>}
  BY DEF InStep, AckInStep
<1>2. Len(<<1, 0>>) = 2 /\ Len(<<0>>) = 1
  OBVIOUS
<1>. QED
  BY <1>1, <1>2

LEMMA HearsAck ==
  ASSUME NEW s \in Link, NEW r, NEW level, s.state \in {"IDLE", "SENDING_ACK"}, InStep(s, r, level)
  PROVE  /\ r.rstate \in {"IDLE", "START_BIT_2"}
         /\ r.rstate = "START_BIT_2" <=> /\ s.state = "SENDING_ACK"
                                         /\ VoteAt < Ticks(s, 2) /\ Ticks(s, 2) < SecondVote
<1>1. CASE s.state = "IDLE"
  BY <1>1 DEF InStep, Sending, Quiet
<1>2. CASE s.state = "SENDING_ACK"
  <2>. DEFINE v == Voted(s, 2 - Len(s.data))
              t == Ticks(s, 2)
  <2>1. AckInStep(s, r, level) /\ Len(s.data) \in 1 .. 2 /\ s.data \in {<<1, 0>>, <<0>>}
    BY <1>2, AckBits DEF InStep, AckInStep
  <2>2. /\ v \in Nat
        /\ v = 1 <=> VoteAt < t /\ t < SecondVote
        /\ v = 0 <=> t <= VoteAt
    BY <2>1, TicksVoted
  <2>3. v <= 2 /\ (s.data = <<1, 0>> /\ s.sampleCount = 0 => v = 0)
    <3>1. Len(<<1, 0>>) = 2 /\ Len(<<0>>) = 1 /\ VoteAt \in Nat
      BY PinAssumption
    <3>2. CASE s.data = <<1, 0>>
      BY <3>1, <3>2 DEF Voted
    <3>3. CASE s.data = <<0>>
      <4>1. <<0>> # <<1, 0>>
        OBVIOUS
      <4>. QED
        BY <3>1, <3>3, <4>1 DEF Voted
    <3>. QED
      BY <2>1, <3>2, <3>3
  <2>. HIDE DEF v, t
  <2>4. r.rstate \in {"IDLE", "START_BIT_2"} /\ (r.rstate = "START_BIT_2" <=> v = 1)
    <3>1. CASE s.data = <<1, 0>> /\ s.sampleCount = 0
      BY <2>1, <2>3, <3>1 DEF AckInStep, Quiet
    <3>2. CASE ~(s.data = <<1, 0>> /\ s.sampleCount = 0)
      <4>1. v \in {0, 1, 2}
        BY <2>2, <2>3
      <4>. QED
        BY <2>1, <3>2, <4>1 DEF AckInStep, v
    <3>. QED
      BY <3>1, <3>2
  <2>. QED
    BY <1>2, <2>2, <2>4 DEF t
<1>. QED
  BY <1>1, <1>2

LEMMA HearsData ==
  ASSUME NEW s \in Link, NEW r, NEW level, s.state \in {"IDLE", "SENDING_DATA"}, InStep(s, r, level)
  PROVE  /\ s.state = "IDLE" => r.rstate = "IDLE"
         /\ s.state = "SENDING_DATA" => Len(s.data) \in 1 .. DataLength
         /\ r.rstate = "START_BIT_2" <=> /\ s.state = "SENDING_DATA"
                                         /\ VoteAt < Ticks(s, DataLength)
                                         /\ Ticks(s, DataLength) < SecondVote
         /\ s.state = "SENDING_DATA" /\ Ticks(s, DataLength) = SecondVote => r.rstate = "DATA"
<1>1. CASE s.state = "IDLE"
  BY <1>1 DEF InStep, Sending, Quiet
<1>2. CASE s.state = "SENDING_DATA"
  <2>. DEFINE k == Len(s.data)
              i == DataLength - k
              b == Current(s)
              v == Voted(s, i)
              t == Ticks(s, DataLength)
  <2>8. DataBits \in Nat /\ DataBits >= 1 /\ VoteAt \in Nat
    BY PinAssumption
  <2>6. DataLength \in Nat /\ DataLength = DataBits + 3
    BY <2>8 DEF DataLength
  <2>1. /\ k \in 1 .. DataLength
        /\ i = 0 /\ s.sampleCount = 0 => Quiet(r)
        /\ ~(i = 0 /\ s.sampleCount = 0) => DataStage(r, b, v)
    <3>. DEFINE j == DataBits + 3 - Len(s.data)
    <3>1. DataInStep(s, r, level)
      BY <1>2 DEF InStep
    <3>2. Len(s.data) \in 1 .. DataBits + 3
      BY <3>1 DEF DataInStep
    <3>3. /\ j = 0 /\ s.sampleCount = 0 => Quiet(r)
          /\ ~(j = 0 /\ s.sampleCount = 0) => DataStage(r, Current(s), Voted(s, j))
      BY <3>1 DEF DataInStep
    <3>4. i = j
      BY <2>6, <2>8, <3>2
    <3>5. k \in 1 .. DataLength
      BY <2>6, <3>2
    <3>. HIDE DEF i, j, k
    <3>. QED
      BY <3>3, <3>4, <3>5
  <2>2. /\ v \in Nat
        /\ v = 1 <=> VoteAt < t /\ t < SecondVote
        /\ v = 0 <=> t <= VoteAt
        /\ t = SecondVote => v = 2
    BY <2>1, <2>6, TicksVoted
  <2>3. i \in Nat /\ i <= DataBits + 2
    <3>. HIDE DEF k
    <3>. QED
      BY <2>8, <2>1, <2>6
  <2>. HIDE DEF i
  <2>4. (v = i \/ v = i + 1) /\ (i = 0 /\ s.sampleCount = 0 => v = 0)
    BY <2>8, <2>3 DEF Voted
  <2>. HIDE DEF v, b
  <2>5. (r.rstate = "START_BIT_2" <=> v = 1) /\ (v = 2 => r.rstate = "DATA")
    <3>1. CASE i = 0 /\ s.sampleCount = 0
      BY <2>1, <2>4, <3>1 DEF Quiet
    <3>2. CASE ~(i = 0 /\ s.sampleCount = 0)
      <4>1. DataStage(r, b, v)
        BY <2>1, <3>2
      <4>2. \/ v = 0 \/ v = 1 \/ v \in 2 .. DataBits + 1 \/ v = DataBits + 2 \/ v = DataBits + 3
        BY <2>8, <2>2, <2>3, <2>4
      <4>. QED
        BY <2>8, <4>1, <4>2 DEF DataStage
    <3>. QED
      BY <3>1, <3>2
  <2>. QED
    BY <1>2, <2>1, <2>2, <2>5 DEF t, k
<1>. QED
  BY <1>1, <1>2

-----------------------------------------------------------------------------
(* The sender's half of a tick, for an end that sends no acks, and for one *)
(* that sends nothing else.                                                *)
LEMMA WriterClock ==
  ASSUME NEW l \in Link, NEW toSend \in Seq(Byte), NEW writing, FrameLeft(l), SentOK(l, toSend, writing),
         l.state \in {"IDLE", "SENDING_DATA"}, ~l.send_ack,
         l.state = "SENDING_DATA" /\ l.sampleCount + 1 = Samples /\ Len(l.data) = 1 => l.ack_rxed
  PROVE  LET s == senderClock(l)
         IN /\ l.state = "IDLE" => s = l
            /\ ~s.send_ack /\ s.state \in {"IDLE", "SENDING_DATA"}
            /\ IF l.state = "SENDING_DATA" /\ l.sampleCount + 1 = Samples /\ Len(l.data) = 1
               THEN NextFrame(l, s) /\ ~s.ack_rxed
               ELSE s.ack_rxed = l.ack_rxed
<1>. DEFINE s == senderClock(l)
            c == l.sampleCount
<1>1. c \in 0 .. Samples - 1 /\ Samples \in Nat /\ Samples > 0 /\ l.data \in Seq(Bit)
  BY PinAssumption DEF Link
<1>2. CASE l.state = "IDLE"
  <2>1. s = l
    BY <1>2 DEF senderClock, Sending
  <2>. HIDE DEF s
  <2>. QED
    BY <1>2, <2>1 DEF s
<1>3. CASE l.state = "SENDING_DATA" /\ c + 1 < Samples
  <2>1. s = [l EXCEPT !.sampleCount = c + 1]
    BY <1>3 DEF senderClock, Sending
  <2>2. s.state = l.state /\ s.send_ack = l.send_ack /\ s.ack_rxed = l.ack_rxed
    BY <2>1 DEF Link
  <2>. HIDE DEF s
  <2>3. c + 1 # Samples
    BY <1>1, <1>3
  <2>. QED
    BY <1>3, <2>2, <2>3 DEF s
<1>4. CASE l.state = "SENDING_DATA" /\ c + 1 = Samples
  <2>. DEFINE sent == [l EXCEPT !.sampleCount = 0, !.data = Tail(l.data)]
  <2>1. l.data # <<>>
    BY <1>4 DEF FrameLeft, Sending
  <2>2. Tail(l.data) \in Seq(Bit) /\ (Tail(l.data) = <<>> <=> Len(l.data) = 1)
    <3>1. Tail(l.data) \in Seq(Bit) /\ Len(Tail(l.data)) = Len(l.data) - 1 /\ Len(l.data) \in Nat \ {0}
      BY <1>1, <2>1, HeadTailProperties
    <3>2. Tail(l.data) = <<>> <=> Len(Tail(l.data)) = 0
      BY <3>1, EmptySeq
    <3>. QED
      BY <3>1, <3>2
  <2>3. s = IF sent.data = <<>> THEN endOfFrame(sent) ELSE sent
    <3>1. ~(c + 1 < Samples) /\ Sending(l)
      BY <1>1, <1>4 DEF Sending
    <3>. QED
      BY <3>1 DEF senderClock, Link
  <2>4. /\ sent \in Link /\ sent.data = Tail(l.data) /\ sent.sampleCount = 0
        /\ sent.state = l.state /\ sent.send_ack = l.send_ack /\ sent.ack_rxed = l.ack_rxed
        /\ sent.enqueued = l.enqueued /\ sent.rts = l.rts
        /\ sent.sendComplete = l.sendComplete /\ sent.timeout = l.timeout
        /\ sent.sending = l.sending /\ sent.framed = l.framed
    BY <2>2, FrameTypes DEF Link
  <2>. HIDE DEF s, sent
  <2>5. CASE Len(l.data) # 1
    <3>1. s = sent
      BY <2>2, <2>3, <2>4, <2>5
    <3>. QED
      BY <1>4, <2>4, <2>5, <3>1 DEF s
  <2>6. CASE Len(l.data) = 1
    <3>1. s = endOfFrame(sent) /\ l.ack_rxed
      BY <1>4, <2>2, <2>3, <2>4, <2>6
    <3>2. endOfFrame(sent) = enterIdle(sent)
      BY <1>4, <2>4, <3>1 DEF endOfFrame
    <3>3. SenderOK(sent)
      BY <2>4 DEF SentOK, SenderOK
    <3>4. SentOK(sent, toSend, writing)
      BY <2>4, <3>3 DEF SentOK
    <3>5. Sending(sent) /\ sent.state = "SENDING_DATA" /\ ~sent.send_ack /\ sent.ack_rxed
      BY <1>4, <2>4, <3>1 DEF Sending
    <3>6. /\ NextFrame(sent, s) /\ Owed(s) = 0 /\ s.state # "SENDING_ACK" /\ ~s.ack_rxed /\ ~s.timeout
          /\ SentOK(s, toSend, writing) /\ s \in Link
      BY <2>4, <3>1, <3>2, <3>4, <3>5, EnterIdle
    <3>7. s.state # "ACK_TIMEOUT"
      BY <3>6 DEF SentOK, SenderOK
    <3>8. s.state \in {"IDLE", "SENDING_DATA"}
      BY <3>6, <3>7 DEF NextFrame
    <3>9. ~s.send_ack
      BY <3>6, <3>8 DEF Owed, SentOK, SenderOK
    <3>10. NextFrame(l, s)
      BY <2>4, <3>6 DEF NextFrame
    <3>. QED
      BY <1>4, <2>6, <3>6, <3>8, <3>9, <3>10 DEF s
  <2>. QED
    BY <2>5, <2>6
<1>. QED
  BY <1>1, <1>2, <1>3, <1>4

LEMMA AckerClock ==
  ASSUME NEW l \in Link, NEW toSend, NEW writing, FrameLeft(l), SentOK(l, toSend, writing),
         l.state \in {"IDLE", "SENDING_ACK"}, ~l.send_ack, ~l.ack_rxed, l.sending = <<>>, ~l.sendComplete
  PROVE  LET s == senderClock(l)
         IN /\ s.sending = <<>> /\ ~s.send_ack /\ ~s.ack_rxed /\ ~s.sendComplete
            /\ l.state = "IDLE" => s = l
            /\ l.state = "SENDING_ACK" /\ l.sampleCount + 1 = Samples /\ Len(l.data) = 1
                 => s.state = "IDLE"
<1>. DEFINE s == senderClock(l)
            c == l.sampleCount
<1>1. c \in 0 .. Samples - 1 /\ Samples \in Nat /\ Samples > 0 /\ l.data \in Seq(Bit)
  BY PinAssumption DEF Link
<1>2. CASE l.state = "IDLE"
  <2>1. s = l
    BY <1>2 DEF senderClock, Sending
  <2>. HIDE DEF s
  <2>. QED
    BY <1>2, <2>1 DEF s
<1>3. CASE l.state = "SENDING_ACK" /\ c + 1 < Samples
  <2>1. s = [l EXCEPT !.sampleCount = c + 1]
    BY <1>3 DEF senderClock, Sending
  <2>2. /\ s.sending = l.sending /\ s.send_ack = l.send_ack /\ s.ack_rxed = l.ack_rxed
        /\ s.sendComplete = l.sendComplete
    BY <2>1 DEF Link
  <2>. HIDE DEF s
  <2>3. c + 1 # Samples
    BY <1>1, <1>3
  <2>. QED
    BY <1>3, <2>2, <2>3 DEF s
<1>4. CASE l.state = "SENDING_ACK" /\ c + 1 = Samples
  <2>. DEFINE sent == [l EXCEPT !.sampleCount = 0, !.data = Tail(l.data)]
  <2>1. l.data # <<>>
    BY <1>4 DEF FrameLeft, Sending
  <2>2. Tail(l.data) = <<>> <=> Len(l.data) = 1
    <3>1. Tail(l.data) \in Seq(Bit) /\ Len(Tail(l.data)) = Len(l.data) - 1 /\ Len(l.data) \in Nat \ {0}
      BY <1>1, <2>1, HeadTailProperties
    <3>2. Tail(l.data) = <<>> <=> Len(Tail(l.data)) = 0
      BY <3>1, EmptySeq
    <3>. QED
      BY <3>1, <3>2
  <2>3. s = IF sent.data = <<>> THEN endOfFrame(sent) ELSE sent
    <3>1. ~(c + 1 < Samples) /\ Sending(l)
      BY <1>1, <1>4 DEF Sending
    <3>. QED
      BY <3>1 DEF senderClock, Link
  <2>4. /\ sent.data = Tail(l.data)
        /\ sent.state = l.state /\ sent.send_ack = l.send_ack /\ sent.ack_rxed = l.ack_rxed
        /\ sent.enqueued = l.enqueued /\ sent.sendComplete = l.sendComplete
        /\ sent.sending = l.sending /\ DOMAIN sent = DOMAIN l
    BY DEF Link
  <2>5. l.enqueued = <<>>
    BY <1>4 DEF SentOK, SenderOK
  <2>. HIDE DEF s, sent
  <2>6. CASE Len(l.data) # 1
    <3>1. s = sent
      BY <2>2, <2>3, <2>4, <2>6
    <3>. QED
      BY <1>4, <2>4, <2>6, <3>1 DEF s
  <2>7. CASE Len(l.data) = 1
    <3>1. s = endOfFrame(sent)
      BY <2>2, <2>3, <2>4, <2>7
    <3>2. endOfFrame(sent) = enterIdle(sent)
      BY <1>4, <2>4, <2>5 DEF endOfFrame
    <3>. DEFINE i == [[sent EXCEPT !.send_ack = FALSE] EXCEPT !.state = "IDLE"]
    <3>3. i.ack_rxed = l.ack_rxed /\ i.state = "IDLE" /\ ~i.send_ack /\ i.sending = l.sending
          /\ i.sendComplete = l.sendComplete
      BY <2>4 DEF Link
    <3>4. enterIdle(sent) = IF i.ack_rxed THEN setReadyToSend([i EXCEPT !.ack_rxed = FALSE]) ELSE i
      BY <1>4, <2>4 DEF enterIdle, Exit
    <3>. HIDE DEF i
    <3>5. s = i
      BY <3>1, <3>2, <3>3, <3>4
    <3>. QED
      BY <1>4, <2>7, <3>3, <3>5 DEF s
  <2>. QED
    BY <2>6, <2>7
<1>. QED
  BY <1>1, <1>2, <1>3, <1>4

-----------------------------------------------------------------------------
(* One end writes and the other only acknowledges.  The receiver votes on  *)
(* a frame's second bit SecondVote ticks after its first, and starts an    *)
(* ack, which the writer has heard SecondVote ticks later, well before its *)
(* frame ends.  l is the writer, k the other, and seen is how far into     *)
(* l's frame k is.                                                         *)
Data(l) == l.state = "SENDING_DATA"

Writer(l) ==
  /\ l.state \in {"IDLE", "SENDING_DATA"} /\ ~l.send_ack
  /\ l.rstate \in {"IDLE", "START_BIT_2"}
  /\ l.rstate = "START_BIT_2" <=> /\ Data(l)
                                  /\ SecondVote + VoteAt + 1 < Ticks(l, DataLength)
                                  /\ Ticks(l, DataLength) <= 2 * SecondVote
  /\ Data(l) => (l.ack_rxed <=> 2 * SecondVote < Ticks(l, DataLength))

Acker(k, l, seen) ==
  /\ k.state \in {"IDLE", "SENDING_ACK"} /\ k.sending = <<>>
  /\ ~k.send_ack /\ ~k.ack_rxed /\ ~k.sendComplete
  /\ k.rstate = "START_BIT_2" <=> Data(l) /\ VoteAt < seen /\ seen < SecondVote
  /\ k.state = "SENDING_ACK" <=> Data(l) /\ SecondVote <= seen /\ seen < SecondVote + 2 * Samples
  /\ k.state = "SENDING_ACK" => Ticks(k, 2) = seen - SecondVote

(* The acks heard are those of the frames sent, but for the last one's.    *)
Counted(l) == l.acks + (IF Data(l) /\ ~l.ack_rxed THEN 1 ELSE 0) = Len(l.framed)

LEMMA Timing ==
  /\ VoteAt \in Nat /\ SecondVote \in Nat /\ Samples \in Nat /\ DataLength \in Nat
  /\ DataLength * Samples \in Nat /\ Samples > VoteAt + 1 /\ SecondVote = Samples + VoteAt + 1
  /\ DataLength * Samples > 2 * SecondVote + 1
  /\ DataLength * Samples > SecondVote + 2 * Samples
  /\ SecondVote < 2 * Samples
<1>1. /\ VoteAt \in Nat /\ Samples \in Nat /\ Samples > VoteAt + 1 /\ DataBits \in Nat /\ DataBits >= 1
  BY PinAssumption
<1>2. SecondVote = Samples + VoteAt + 1 /\ DataLength = DataBits + 3
  BY DEF SecondVote, DataLength
<1>. DEFINE i == DataBits + 2
<1>3. i \in Nat /\ i >= 3 /\ DataLength = i + 1
  BY <1>1, <1>2
<1>. HIDE DEF i
<1>4. /\ i * Samples \in Nat /\ i * Samples >= Samples + Samples + Samples
      /\ (i + 1) * Samples = i * Samples + Samples
  BY <1>3, Times
<1>. DEFINE x == i * Samples
            n == DataLength * Samples
<1>5. x \in Nat /\ x >= Samples + Samples + Samples /\ n = x + Samples
  BY <1>3, <1>4
<1>. HIDE DEF x, n
<1>6. n \in Nat /\ n > 2 * SecondVote + 1 /\ n > SecondVote + 2 * Samples
  BY <1>1, <1>2, <1>5
<1>. QED
  BY <1>1, <1>2, <1>3, <1>6 DEF n

(* Where the writer's frame is, and what the receivers are in the middle   *)
(* of, a tick on.                                                          *)
LEMMA TicksOfData ==
  ASSUME NEW l \in Link, NEW r, NEW level, l.state \in {"IDLE", "SENDING_DATA"}, InStep(l, r, level)
  PROVE  Data(l) => /\ Len(l.data) \in 1 .. DataLength /\ Ticks(l, DataLength) \in Nat
                    /\ Ticks(l, DataLength) < DataLength * Samples
                    /\ (l.sampleCount + 1 = Samples /\ Len(l.data) = 1)
                         <=> Ticks(l, DataLength) + 1 = DataLength * Samples
<1>. SUFFICES ASSUME Data(l)
              PROVE  /\ Len(l.data) \in 1 .. DataLength /\ Ticks(l, DataLength) \in Nat
                     /\ Ticks(l, DataLength) < DataLength * Samples
                     /\ (l.sampleCount + 1 = Samples /\ Len(l.data) = 1)
                          <=> Ticks(l, DataLength) + 1 = DataLength * Samples
  OBVIOUS
<1>1. Len(l.data) \in 1 .. DataLength /\ DataLength \in Nat
  BY HearsData, Timing DEF Data
<1>. QED
  BY <1>1, TicksRange

LEMMA AckNotBefore ==
  ASSUME NEW l, NEW k \in Link, NEW h, NEW level, NEW seen \in Int, Acker(k, l, seen), InStep(k, h, level)
  PROVE  /\ h.rstate \in {"IDLE", "START_BIT_2"}
         /\ h.rstate = "START_BIT_2" <=> /\ Data(l)
                                         /\ SecondVote + VoteAt < seen /\ seen < 2 * SecondVote
<1>1. /\ h.rstate \in {"IDLE", "START_BIT_2"}
      /\ h.rstate = "START_BIT_2" <=> /\ k.state = "SENDING_ACK"
                                      /\ VoteAt < Ticks(k, 2) /\ Ticks(k, 2) < SecondVote
  BY HearsAck DEF Acker
<1>2. /\ k.state = "SENDING_ACK" <=> Data(l) /\ SecondVote <= seen /\ seen < SecondVote + 2 * Samples
      /\ k.state = "SENDING_ACK" => Ticks(k, 2) = seen - SecondVote
  BY DEF Acker
<1>3. /\ VoteAt \in Nat /\ SecondVote \in Nat /\ Samples \in Nat /\ SecondVote < 2 * Samples
  BY Timing
<1>. QED
  BY <1>1, <1>2, <1>3

(* A tick of the writer, whose receiver samples what the other end drove.  *)
LEMMA WriterTick ==
  ASSUME NEW l \in Link, NEW k \in Link, NEW rx \in Bit, NEW r, NEW level,
         NEW toSend \in Seq(Byte), NEW writing, FrameLeft(l), SentOK(l, toSend, writing),
         Writer(l), Acker(k, l, Ticks(l, DataLength)), Ticks(l, DataLength) \in Int,
         InStep(l, r, level), InStep(k, Hear(Rx(l), rx), rx),
         clock(l, rx) \in Link, Rx(clock(l, rx)) = Hear(Rx(l), rx)
  PROVE  LET m == clock(l, rx)
         IN /\ Writer(m) /\ Acker(k, m, Ticks(m, DataLength) - 1)
            /\ Counted(l) /\ Len(l.framed) <= AckBound => Counted(m)
<1>. DEFINE m == clock(l, rx)
            s == senderClock(l)
            h == Hear(Rx(l), rx)
            t == Ticks(l, DataLength)
            hears == l.rstate = "START_BIT_2" /\ h.rstate = "IDLE"
<1>. SUFFICES /\ Writer(m) /\ Acker(k, m, Ticks(m, DataLength) - 1)
              /\ Counted(l) /\ Len(l.framed) <= AckBound => Counted(m)
  OBVIOUS
<1>1. /\ s \in Link /\ SameReceiver(l, s) /\ Rx(s) = Rx(l) /\ s.rstate = l.rstate /\ TickOfFrame(l, s)
  BY SenderClock, SameReceiverFacts, RxFields
<1>2. l.state \in {"IDLE", "SENDING_DATA"} /\ ~l.send_ack
  BY DEF Writer
<1>3. Data(l) => /\ Len(l.data) \in 1 .. DataLength /\ t \in Nat /\ t < DataLength * Samples
                 /\ (l.sampleCount + 1 = Samples /\ Len(l.data) = 1) <=> t + 1 = DataLength * Samples
  BY <1>2, TicksOfData
<1>4. /\ h.rstate \in {"IDLE", "START_BIT_2"}
      /\ h.rstate = "START_BIT_2" <=> Data(l) /\ SecondVote + VoteAt < t /\ t < 2 * SecondVote
  BY AckNotBefore
<1>5. /\ m.rstate = h.rstate /\ m.acks = h.acks /\ Rx(l).rstate = l.rstate /\ Rx(l).acks = l.acks
      /\ Rx(l) \in Receiver
  BY RxFields, RxReceiver
<1>6. /\ l.rstate \in {"IDLE", "START_BIT_2"}
      /\ l.rstate = "START_BIT_2" <=> Data(l) /\ SecondVote + VoteAt + 1 < t /\ t <= 2 * SecondVote
      /\ Data(l) => (l.ack_rxed <=> 2 * SecondVote < t)
  BY DEF Writer
<1>7. h.acks = IF hears /\ l.acks < AckBound THEN l.acks + 1 ELSE l.acks
  <2>. DEFINE q == Rx(l)
  <2>1. q \in Receiver /\ q.rstate = l.rstate /\ q.acks = l.acks /\ h = Hear(q, rx)
    BY <1>5
  <2>. HIDE DEF q, h
  <2>2. h.acks = IF q.rstate = "START_BIT_2" /\ h.rstate = "IDLE" /\ q.acks < AckBound
                 THEN q.acks + 1 ELSE q.acks
    BY <2>1, HearHistory
  <2>. QED
    BY <2>1, <2>2
<1>8. /\ l.state = "IDLE" => s = l
      /\ ~s.send_ack /\ s.state \in {"IDLE", "SENDING_DATA"}
      /\ IF l.state = "SENDING_DATA" /\ l.sampleCount + 1 = Samples /\ Len(l.data) = 1
         THEN NextFrame(l, s) /\ ~s.ack_rxed
         ELSE s.ack_rxed = l.ack_rxed
  <2>1. l.state = "SENDING_DATA" /\ l.sampleCount + 1 = Samples /\ Len(l.data) = 1 => l.ack_rxed
    <3>. HIDE DEF t
    <3>. QED
      BY <1>3, <1>6, Timing DEF Data
  <2>. QED
    BY <1>2, <2>1, WriterClock
<1>9. /\ SameFrame(s, m) /\ m.send_ack = s.send_ack
      /\ m.ack_rxed = (s.ack_rxed \/ (hears /\ s.state # "IDLE"))
  <2>. DEFINE a == [s EXCEPT !.ack_rxed = (s.state # "IDLE") \/ s.ack_rxed]
  <2>1. m = receiverClock(s, rx) /\ h = Hear(Rx(s), rx)
    BY <1>1 DEF clock
  <2>2. /\ hears => SameSender(a, m)
        /\ ~hears => SameSender(s, m)
    <3>. HIDE DEF m, s, h
    <3>. QED
      BY <1>1, <1>4, <2>1, ReceiverAsks
  <2>3. /\ a.state = s.state /\ a.data = s.data /\ a.sampleCount = s.sampleCount /\ a.framed = s.framed
        /\ a.send_ack = s.send_ack /\ a.ack_rxed = (s.state # "IDLE" \/ s.ack_rxed)
        /\ s.ack_rxed \in BOOLEAN
    BY <1>1 DEF Link
  <2>4. hears \in BOOLEAN
    OBVIOUS
  <2>. HIDE DEF m, s, h, a, hears
  <2>. QED
    BY <2>2, <2>3, <2>4 DEF SameSender, SameFrame
<1>10. /\ m.state = s.state /\ m.framed = s.framed /\ Ticks(m, DataLength) = Ticks(s, DataLength)
  BY <1>9 DEF SameFrame, Ticks
<1>11. /\ m.state = "IDLE" => l.state = "IDLE" \/ t + 1 = DataLength * Samples
       /\ m.state = "IDLE" => m.framed = l.framed
       /\ Data(m) => \/ /\ Data(l) /\ t + 1 # DataLength * Samples
                        /\ m.framed = l.framed /\ Ticks(m, DataLength) = t + 1
                     \/ /\ Data(l) /\ t + 1 = DataLength * Samples
                        /\ Ticks(m, DataLength) = 0 /\ Len(m.framed) = Len(l.framed) + 1
  <2>1. CASE l.state = "IDLE"
    BY <1>8, <1>10, <2>1 DEF Data
  <2>2. CASE Data(l) /\ t + 1 # DataLength * Samples
    <3>1. s.state = l.state /\ s.framed = l.framed /\ Ticks(s, DataLength) = t + 1
      <4>. HIDE DEF s
      <4>1. Sending(l) /\ ~(l.sampleCount + 1 = Samples /\ Len(l.data) = 1)
        BY <1>3, <2>2 DEF Data, Sending
      <4>. QED
        BY <1>1, <1>3, <2>2, <4>1, TicksTick, Timing
    <3>. QED
      BY <1>10, <2>2, <3>1 DEF Data
  <2>3. CASE Data(l) /\ t + 1 = DataLength * Samples
    <3>1. NextFrame(l, s)
      BY <1>3, <1>8, <2>3 DEF Data
    <3>2. s.state = "IDLE" => s.framed = l.framed
      BY <3>1 DEF NextFrame
    <3>3. Data(s) => Ticks(s, DataLength) = 0 /\ Len(s.framed) = Len(l.framed) + 1
      <4>. SUFFICES ASSUME Data(s) PROVE Ticks(s, DataLength) = 0 /\ Len(s.framed) = Len(l.framed) + 1
        OBVIOUS
      <4>1. PICK b \in Byte : s.data = DataFrame(b) /\ s.sampleCount = 0 /\ s.framed = Append(l.framed, b)
        BY <3>1 DEF NextFrame, Data
      <4>2. Ticks(s, DataLength) = 0
        BY <4>1, TicksStart
      <4>3. l.framed \in Seq(Byte)
        BY DEF Link
      <4>. QED
        BY <4>1, <4>2, <4>3
    <3>. QED
      BY <1>10, <2>3, <3>2, <3>3 DEF Data
  <2>. QED
    BY <1>2, <2>1, <2>2, <2>3 DEF Data
<1>12. m.state \in {"IDLE", "SENDING_DATA"} /\ ~m.send_ack
  BY <1>8, <1>9, <1>10
<1>13. /\ l.acks \in 0 .. AckBound /\ Len(l.framed) \in Nat /\ AckBound \in Nat
  BY LinkAssumption DEF Link
<1>14. /\ k.state \in {"IDLE", "SENDING_ACK"} /\ k.sending = <<>>
       /\ ~k.send_ack /\ ~k.ack_rxed /\ ~k.sendComplete
       /\ k.rstate = "START_BIT_2" <=> Data(l) /\ VoteAt < t /\ t < SecondVote
       /\ k.state = "SENDING_ACK" <=> Data(l) /\ SecondVote <= t /\ t < SecondVote + 2 * Samples
       /\ k.state = "SENDING_ACK" => Ticks(k, 2) = t - SecondVote
  BY DEF Acker
<1>15. /\ l.state = "IDLE" => (s.ack_rxed <=> l.ack_rxed)
       /\ Data(l) /\ t + 1 # DataLength * Samples => (s.ack_rxed <=> l.ack_rxed)
       /\ Data(l) /\ t + 1 = DataLength * Samples => ~s.ack_rxed
  BY <1>3, <1>8 DEF Data
<1>16. m.ack_rxed <=> s.ack_rxed \/ (hears /\ s.state # "IDLE")
  BY <1>9 DEF Link
<1>. DEFINE u == Ticks(m, DataLength)
            n == DataLength * Samples
<1>. HIDE DEF s, h, t, u, n
<1>17. hears <=> Data(l) /\ t = 2 * SecondVote
  BY <1>2, <1>3, <1>4, <1>6, Timing DEF Data
<1>18. /\ Data(m) => \/ Data(l) /\ t + 1 # n /\ m.framed = l.framed /\ u = t + 1
                     \/ Data(l) /\ t + 1 = n /\ u = 0 /\ Len(m.framed) = Len(l.framed) + 1
       /\ m.state = "IDLE" => l.state = "IDLE" \/ t + 1 = n
       /\ Data(l) => t \in Nat /\ t < n
       /\ n > 2 * SecondVote + 1 /\ n > SecondVote + 2 * Samples /\ n \in Nat
  BY <1>3, <1>11, Timing DEF n, u
<1>. HIDE DEF m, hears
<1>19. Writer(m)
  <2>1. m.rstate \in {"IDLE", "START_BIT_2"}
    BY <1>4, <1>5
  <2>2. m.rstate = "START_BIT_2" <=> Data(m) /\ SecondVote + VoteAt + 1 < u /\ u <= 2 * SecondVote
    <3>1. CASE Data(m)
      BY <1>4, <1>5, <1>18, <3>1, Timing
    <3>2. CASE ~Data(m)
      <4>1. l.state = "IDLE" \/ t + 1 = n
        BY <1>12, <1>18, <3>2 DEF Data
      <4>. QED
        BY <1>4, <1>5, <1>18, <3>2, <4>1, Timing DEF Data
    <3>. QED
      BY <3>1, <3>2
  <2>3. Data(m) => (m.ack_rxed <=> 2 * SecondVote < u)
    <3>. SUFFICES ASSUME Data(m) PROVE m.ack_rxed <=> 2 * SecondVote < u
      OBVIOUS
    <3>1. s.state # "IDLE"
      BY <1>10 DEF Data
    <3>2. CASE t + 1 # n
      <4>1. Data(l) /\ u = t + 1 /\ t \in Nat
        BY <1>18, <3>2
      <4>2. s.ack_rxed <=> l.ack_rxed
        BY <1>15, <3>2, <4>1 DEF n
      <4>. QED
        BY <1>6, <1>16, <1>17, <3>1, <4>1, <4>2, Timing
    <3>3. CASE t + 1 = n
      <4>1. Data(l) /\ u = 0 /\ ~s.ack_rxed /\ ~hears
        BY <1>15, <1>17, <1>18, <3>3, Timing DEF n
      <4>2. ~m.ack_rxed
        BY <1>16, <4>1
      <4>. QED
        BY <4>1, <4>2, Timing
    <3>. QED
      BY <3>2, <3>3
  <2>. QED
    BY <1>12, <2>1, <2>2, <2>3 DEF Writer, u
<1>20. Acker(k, m, u - 1)
  <2>1. CASE Data(m) /\ t + 1 # n
    <3>1. u - 1 = t /\ Data(l) /\ t \in Nat
      BY <1>18, <2>1
    <3>. QED
      BY <1>14, <2>1, <3>1 DEF Acker
  <2>2. CASE ~(Data(m) /\ t + 1 # n)
    <3>1. ~(Data(l) /\ t + 1 # n)
      BY <1>12, <1>18, <2>2 DEF Data
    <3>2. k.rstate # "START_BIT_2" /\ k.state # "SENDING_ACK"
      BY <1>14, <1>18, <3>1, Timing
    <3>3. Data(m) => u = 0
      BY <1>18, <2>2
    <3>. QED
      BY <1>14, <3>2, <3>3, Timing DEF Acker
  <2>. QED
    BY <2>1, <2>2
<1>21. ASSUME Counted(l), Len(l.framed) <= AckBound PROVE Counted(m)
  <2>. DEFINE f == Len(l.framed)
              g == Len(m.framed)
  <2>1. l.acks + (IF Data(l) /\ ~l.ack_rxed THEN 1 ELSE 0) = f /\ f <= AckBound
    BY <1>21 DEF Counted
  <2>2. m.acks = IF hears /\ l.acks < AckBound THEN l.acks + 1 ELSE l.acks
    BY <1>5, <1>7
  <2>. HIDE DEF f
  <2>3. CASE hears
    <3>1. Data(l) /\ t = 2 * SecondVote /\ t + 1 # n /\ ~l.ack_rxed
      BY <1>6, <1>17, <1>18, <2>3, Timing
    <3>2. m.state # "IDLE"
      BY <1>18, <3>1 DEF Data
    <3>3. Data(m) /\ m.ack_rxed /\ g = f
      <4>1. Data(m) /\ m.framed = l.framed
        BY <1>12, <1>18, <3>1, <3>2 DEF Data
      <4>2. s.state # "IDLE"
        BY <1>10, <3>2
      <4>. QED
        BY <1>16, <2>3, <4>1, <4>2 DEF f
    <3>4. l.acks + 1 = f /\ m.acks = l.acks + 1
      BY <1>13, <2>1, <2>2, <2>3, <3>1
    <3>. QED
      BY <1>13, <3>3, <3>4 DEF Counted
  <2>4. CASE ~hears
    <3>1. m.acks = l.acks /\ (m.ack_rxed <=> s.ack_rxed)
      BY <1>16, <2>2, <2>4
    <3>2. CASE Data(m)
      <4>1. CASE t + 1 # n
        <5>1. Data(l) /\ g = f /\ (s.ack_rxed <=> l.ack_rxed)
          BY <1>15, <1>18, <3>2, <4>1 DEF f, n
        <5>. QED
          BY <2>1, <3>1, <3>2, <5>1 DEF Counted
      <4>2. CASE t + 1 = n
        <5>1. Data(l) /\ g = f + 1 /\ ~s.ack_rxed /\ l.ack_rxed
          BY <1>6, <1>15, <1>18, <3>2, <4>2, Timing DEF f, n
        <5>. QED
          BY <1>13, <2>1, <3>1, <3>2, <5>1 DEF Counted
      <4>. QED
        BY <4>1, <4>2
    <3>3. CASE ~Data(m)
      <4>1. m.state = "IDLE" /\ g = f
        BY <1>11, <1>12, <3>3 DEF Data, f
      <4>2. ~(Data(l) /\ ~l.ack_rxed)
        BY <1>6, <1>18, <4>1, Timing DEF Data
      <4>. QED
        BY <1>13, <2>1, <3>1, <3>3, <4>1, <4>2 DEF Counted
    <3>. QED
      BY <3>2, <3>3
  <2>. QED
    BY <2>3, <2>4
<1>. QED
  BY <1>19, <1>20, <1>21 DEF u

(* A tick of the other end, whose receiver samples what the writer drove.  *)
LEMMA AckerTick ==
  ASSUME NEW l \in Link, NEW k \in Link, NEW rx \in Bit, NEW r, NEW level,
         NEW toSend \in Seq(Byte), NEW writing, FrameLeft(k), SentOK(k, toSend, writing),
         Writer(l), Ticks(l, DataLength) \in Int, Acker(k, l, Ticks(l, DataLength) - 1),
         InStep(k, r, level), InStep(l, Hear(Rx(k), rx), rx),
         Rx(clock(k, rx)) = Hear(Rx(k), rx)
  PROVE  Acker(clock(k, rx), l, Ticks(l, DataLength))
<1>. DEFINE m == clock(k, rx)
            s == senderClock(k)
            h == Hear(Rx(k), rx)
            t == Ticks(l, DataLength)
<1>. SUFFICES Acker(m, l, t)
  OBVIOUS
<1>1. /\ s \in Link /\ SameReceiver(k, s) /\ Rx(s) = Rx(k) /\ s.rstate = k.rstate /\ TickOfFrame(k, s)
  BY SenderClock, SameReceiverFacts, RxFields
<1>2. /\ k.state \in {"IDLE", "SENDING_ACK"} /\ k.sending = <<>>
      /\ ~k.send_ack /\ ~k.ack_rxed /\ ~k.sendComplete
      /\ k.rstate = "START_BIT_2" <=> Data(l) /\ VoteAt < t - 1 /\ t - 1 < SecondVote
      /\ k.state = "SENDING_ACK" <=> Data(l) /\ SecondVote <= t - 1 /\ t - 1 < SecondVote + 2 * Samples
      /\ k.state = "SENDING_ACK" => Ticks(k, 2) = t - 1 - SecondVote
  BY DEF Acker
<1>3. /\ h.rstate = "START_BIT_2" <=> Data(l) /\ VoteAt < t /\ t < SecondVote
      /\ Data(l) /\ t = SecondVote => h.rstate = "DATA"
  BY HearsData DEF Writer, Data
<1>4. m.rstate = h.rstate
  BY RxFields
<1>5. /\ s.sending = <<>> /\ ~s.send_ack /\ ~s.ack_rxed /\ ~s.sendComplete
      /\ k.state = "IDLE" => s = k
      /\ k.state = "SENDING_ACK" /\ k.sampleCount + 1 = Samples /\ Len(k.data) = 1
           => s.state = "IDLE"
  BY <1>2, AckerClock
<1>6. k.state = "SENDING_ACK" =>
        /\ Ticks(k, 2) + 1 = 2 * Samples => s.state = "IDLE"
        /\ Ticks(k, 2) + 1 # 2 * Samples => s.state = "SENDING_ACK" /\ Ticks(s, 2) = Ticks(k, 2) + 1
  <2>. SUFFICES ASSUME k.state = "SENDING_ACK"
                PROVE  /\ Ticks(k, 2) + 1 = 2 * Samples => s.state = "IDLE"
                       /\ Ticks(k, 2) + 1 # 2 * Samples
                            => s.state = "SENDING_ACK" /\ Ticks(s, 2) = Ticks(k, 2) + 1
    OBVIOUS
  <2>1. Len(k.data) \in 1 .. 2
    BY AckBits
  <2>2. (k.sampleCount + 1 = Samples /\ Len(k.data) = 1) <=> Ticks(k, 2) + 1 = 2 * Samples
    BY <2>1, TicksRange
  <2>3. ASSUME Ticks(k, 2) + 1 # 2 * Samples
        PROVE  s.state = "SENDING_ACK" /\ Ticks(s, 2) = Ticks(k, 2) + 1
    <3>. HIDE DEF s
    <3>1. Sending(k)
      BY DEF Sending
    <3>. QED
      BY <1>1, <2>1, <2>2, <2>3, <3>1, TicksTick
  <2>. QED
    BY <1>5, <2>2, <2>3
<1>7. m = receiverClock(s, rx) /\ h = Hear(Rx(s), rx)
  BY <1>1 DEF clock
<1>. HIDE DEF m, s, h, t
<1>8. /\ s.rstate = "START_BIT_2" /\ h.rstate = "DATA" /\ s.state = "IDLE" =>
           /\ m.state = "SENDING_ACK" /\ m.data = AckFrame /\ m.sampleCount = 0
           /\ m.sending = <<>> /\ m.send_ack = s.send_ack /\ ~m.ack_rxed
           /\ m.sendComplete = s.sendComplete
      /\ ~(s.rstate = "START_BIT_2" /\ h.rstate \in {"DATA", "IDLE"}) => SameSender(s, m)
  <2>1. s \in Link /\ m = receiverClock(s, rx) /\ h = Hear(Rx(s), rx) /\ s.sending = <<>>
    BY <1>1, <1>5, <1>7
  <2>2. ASSUME s.rstate = "START_BIT_2", h.rstate = "DATA", s.state = "IDLE"
        PROVE  AckStarted(s, m)
    BY <2>1, <2>2, ReceiverAsks
  <2>3. ASSUME ~(s.rstate = "START_BIT_2" /\ h.rstate \in {"DATA", "IDLE"})
        PROVE  SameSender(s, m)
    BY <2>1, <2>3, ReceiverAsks
  <2>. QED
    BY <2>2, <2>3 DEF AckStarted
<1>9. t \in Int
  BY DEF t
<1>10. CASE Data(l) /\ t = SecondVote
  <2>1. k.rstate = "START_BIT_2" /\ k.state = "IDLE" /\ h.rstate = "DATA"
    BY <1>2, <1>3, <1>10, Timing
  <2>2. /\ m.state = "SENDING_ACK" /\ m.data = AckFrame /\ m.sampleCount = 0
        /\ m.sending = <<>> /\ ~m.send_ack /\ ~m.ack_rxed /\ ~m.sendComplete
    BY <1>1, <1>5, <1>8, <2>1
  <2>3. Ticks(m, 2) = 0
    BY <2>2, TicksStart
  <2>. QED
    BY <1>4, <1>10, <2>1, <2>2, <2>3, Timing DEF Acker
<1>11. CASE ~(Data(l) /\ t = SecondVote)
  <2>1. ~(s.rstate = "START_BIT_2" /\ h.rstate \in {"DATA", "IDLE"})
    BY <1>1, <1>2, <1>3, <1>9, <1>11, Timing
  <2>2. /\ m.state = s.state /\ Ticks(m, 2) = Ticks(s, 2) /\ m.sending = <<>>
        /\ ~m.send_ack /\ ~m.ack_rxed /\ ~m.sendComplete
    BY <1>5, <1>8, <2>1 DEF SameSender, Ticks
  <2>3. m.rstate = "START_BIT_2" <=> Data(l) /\ VoteAt < t /\ t < SecondVote
    BY <1>3, <1>4
  <2>4. CASE k.state = "IDLE"
    <3>1. m.state = "IDLE"
      BY <1>5, <2>2, <2>4
    <3>2. ~(Data(l) /\ SecondVote <= t /\ t < SecondVote + 2 * Samples)
      BY <1>2, <1>9, <1>11, <2>4, Timing
    <3>. QED
      BY <2>2, <2>3, <3>1, <3>2 DEF Acker
  <2>5. CASE k.state = "SENDING_ACK"
    <3>1. Data(l) /\ SecondVote <= t - 1 /\ t - 1 < SecondVote + 2 * Samples /\ Ticks(k, 2) = t - 1 - SecondVote
      BY <1>2, <2>5
    <3>2. CASE Ticks(k, 2) + 1 = 2 * Samples
      <4>1. m.state = "IDLE"
        BY <1>6, <2>2, <2>5, <3>2
      <4>2. ~(t < SecondVote + 2 * Samples)
        BY <1>9, <3>1, <3>2, Timing
      <4>. QED
        BY <2>2, <2>3, <4>1, <4>2 DEF Acker
    <3>3. CASE Ticks(k, 2) + 1 # 2 * Samples
      <4>1. m.state = "SENDING_ACK" /\ Ticks(m, 2) = t - SecondVote
        BY <1>6, <1>9, <2>2, <2>5, <3>1, <3>3, Timing
      <4>2. SecondVote <= t /\ t < SecondVote + 2 * Samples
        BY <1>9, <3>1, <3>3, Timing
      <4>. QED
        BY <2>2, <2>3, <3>1, <4>1, <4>2 DEF Acker
    <3>. QED
      BY <3>2, <3>3
  <2>. QED
    BY <1>2, <2>4, <2>5
<1>. QED
  BY <1>10, <1>11 DEF m, t

(* A frame that starts on a quiet wire, as a call of the writer's may.     *)
LEMMA WriterStarts ==
  ASSUME NEW l \in Link, NEW m \in Link, NEW k, NEW seen \in Int, Writer(l), Acker(k, l, seen),
         l.state = "IDLE", m.rstate = l.rstate, m.acks = l.acks, Data(m), ~m.ack_rxed, ~m.send_ack,
         Starts(l, m)
  PROVE  /\ Writer(m) /\ Ticks(m, DataLength) = 0
         /\ \A n \in {-1, 0} : Acker(k, m, n)
         /\ Counted(l) => Counted(m)
<1>1. ~Data(l) /\ l.rstate # "START_BIT_2" /\ m.rstate = "IDLE"
  BY DEF Data, Writer
<1>2. PICK b \in Byte : m.data = DataFrame(b) /\ m.sampleCount = 0 /\ m.framed = Append(l.framed, b)
  BY DEF Starts, NextFrame, SameFrame, Data
<1>3. Ticks(m, DataLength) = 0
  BY <1>2, TicksStart
<1>4. k.rstate # "START_BIT_2" /\ k.state # "SENDING_ACK"
  BY <1>1 DEF Acker
<1>5. \A n \in {-1, 0} : Acker(k, m, n)
  BY <1>4, Timing DEF Acker
<1>6. Writer(m)
  BY <1>1, <1>3, Timing DEF Writer, Data
<1>7. Counted(l) => Counted(m)
  <2>1. l.framed \in Seq(Byte) /\ l.acks \in Nat
    BY LinkAssumption DEF Link
  <2>2. Len(m.framed) = Len(l.framed) + 1 /\ Len(l.framed) \in Nat
    BY <1>2, <2>1
  <2>. QED
    BY <1>1, <2>1, <2>2 DEF Counted
<1>. QED
  BY <1>3, <1>5, <1>6, <1>7
=============================================================================
