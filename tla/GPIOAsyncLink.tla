---------------------------- MODULE GPIOAsyncLink ----------------------------
(***************************************************************************)
(* Shared/gpioasynclink.cpp: one GPIOAsyncLink.                            *)
(*                                                                         *)
(* A byte goes out as a data frame 1 1 d..d 0 and is acknowledged by an    *)
(* ack frame 1 0 on the other wire, which the receiver asks for as soon as *)
(* it has seen the two start bits.  A link has a DataAckSender that clocks *)
(* frames out, a DataAckReceiver fed by an OversampledTxRxPin, a status    *)
(* word and a pair of transfer registers.  The link clock ticks Samples    *)
(* times per bit.                                                          *)
(*                                                                         *)
(* A link is a record of the code's members.  The operators below take the *)
(* record an object is in and give the one a method of the code leaves it  *)
(* in, with all that the method goes on to call.  A tick and each call of  *)
(* the API hold the link's mutex: they are the steps of the modules that   *)
(* use this one.  m_data is the sequence of the m_bits bits still to be    *)
(* sent and m_buffer that of the bits received, so that shifting is Tail   *)
(* and Append.  The send registers are the m_length bytes from             *)
(* m_data_pointer on.                                                      *)
(***************************************************************************)
EXTENDS OversampledTxRxPin, FiniteSets

CONSTANTS
  AckBound,    \* bound: where the history of acks heard stops counting
  WordSize     \* modulus of a WORD32 length (2^32 in the code)

ASSUME LinkAssumption == AckBound \in Nat /\ WordSize \in Nat /\ WordSize > 1

Byte == [1 .. DataBits -> Bit]        \* least significant bit first

AckFrame == <<1, 0>>
DataFrame(byte) == <<1, 1>> \o byte \o <<0>>

-----------------------------------------------------------------------------
(* DataAckSender.                                                          *)

(* sendDataInternal: start to clock a data frame out.  Leaving SENDING_ACK *)
(* clears m_send_ack.                                                      *)
sendDataInternal(l, byte) ==
  [l EXCEPT !.state = "SENDING_DATA",
            !.send_ack = IF l.state = "SENDING_ACK" THEN FALSE ELSE @,
            !.sampleCount = 0,
            !.data = DataFrame(byte),
            !.framed = Append(@, byte)]

(* Can sendData take a byte, and what it does if so; it answers FALSE and  *)
(* changes nothing otherwise.                                              *)
sendDataOk(l) == l.state = "SENDING_ACK" \/ (l.state = "IDLE" /\ l.rts)
sendData(l, byte) ==
  CASE l.state = "IDLE" /\ l.rts ->
         sendDataInternal([l EXCEPT !.ack_rxed = FALSE, !.rts = FALSE], byte)
    [] l.state = "SENDING_ACK" -> [l EXCEPT !.enqueued = <<byte>>, !.ack_rxed = FALSE]
    [] OTHER -> l

(* A setReadyToSend that takes the last byte but one for the last. *)
setReadyToSend_oneShort(l) ==
  LET r    == [l EXCEPT !.rts = TRUE]
      rest == Tail(l.sending)
  IN CASE l.sending = <<>>            -> r
       [] l.sending # <<>> /\ Len(rest) <= 1 -> [r EXCEPT !.sending = <<>>, !.sendComplete = TRUE]
       [] OTHER                       -> sendData([r EXCEPT !.sending = rest], rest[1])

(* SenderToLink::setReadyToSend: the byte at m_data_pointer is over with;  *)
(* go on with the next, or say that the send is complete.                  *)
setReadyToSend(l) ==
  LET r    == [l EXCEPT !.rts = TRUE]
      rest == Tail(l.sending)
  IN CASE l.sending = <<>>            -> r
       [] l.sending # <<>> /\ rest = <<>> -> [r EXCEPT !.sending = rest, !.sendComplete = TRUE]
       [] OTHER                       -> sendData([r EXCEPT !.sending = rest], rest[1])

(* changeState's exit and entry actions, for the states it is called with. *)
Exit(l) == IF l.state = "SENDING_ACK" THEN [l EXCEPT !.send_ack = FALSE] ELSE l

(* An entry to IDLE that clears m_ack_rxed and does no more. *)
enterIdle_notReady(l) == [Exit(l) EXCEPT !.state = "IDLE", !.ack_rxed = FALSE]

enterIdle(l) ==
  LET i == [Exit(l) EXCEPT !.state = "IDLE"]
  IN IF i.ack_rxed THEN setReadyToSend([i EXCEPT !.ack_rxed = FALSE]) ELSE i

enterSendingAck(l) ==
  [setReadyToSend([l EXCEPT !.state = "SENDING_ACK",
                            !.sampleCount = 0,
                            !.data = AckFrame])
     EXCEPT !.ack_rxed = FALSE]

enterAckTimeout(l) == [Exit(l) EXCEPT !.state = "ACK_TIMEOUT", !.timeout = TRUE]

(* An ackReceived that goes on to the next byte during the frame. *)
ackReceived_atOnce(l) ==
  IF l.state = "SENDING_DATA" THEN [setReadyToSend(l) EXCEPT !.ack_rxed = TRUE, !.acks = @ + 1]
                              ELSE [l EXCEPT !.acks = @ + 1]

(* ReceiverToSender. *)
ackReceived(l) ==
  [l EXCEPT !.ack_rxed = (l.state # "IDLE") \/ @, !.acks = IF @ < AckBound THEN @ + 1 ELSE @]

sendAck(l) ==
  CASE l.state = "IDLE"         -> enterSendingAck(l)
    [] l.state = "SENDING_DATA" -> [l EXCEPT !.send_ack = TRUE]
    [] OTHER                    -> l

(* What clock does when the last bit of a frame has gone out. *)
endOfFrame(l) ==
  CASE l.state = "SENDING_ACK" /\ l.enqueued # <<>> ->
         [sendDataInternal([l EXCEPT !.ack_rxed = FALSE], l.enqueued[1])
            EXCEPT !.enqueued = <<>>]
    [] l.state = "SENDING_ACK" /\ l.enqueued = <<>> ->
         IF l.send_ack /\ ~l.ack_rxed THEN enterAckTimeout(l) ELSE enterIdle(l)
    [] l.state = "SENDING_DATA" /\ l.send_ack -> enterSendingAck(l)
    [] OTHER -> IF l.ack_rxed THEN enterIdle(l) ELSE enterAckTimeout(l)

Sending(l) == l.state \in {"SENDING_ACK", "SENDING_DATA"}

(* A senderClock that does not start the next bit's samples again from 0. *)
senderClock_countKept(l) ==
  CASE ~Sending(l) -> l
    [] Sending(l) /\ l.sampleCount + 1 < Samples -> [l EXCEPT !.sampleCount = @ + 1]
    [] OTHER -> LET sent == [l EXCEPT !.sampleCount = @ + 1, !.data = Tail(@)]
                IN IF sent.data = <<>> THEN endOfFrame(sent) ELSE sent

(* A senderClock that holds each bit for one sample too many. *)
senderClock_bitTooLong(l) ==
  CASE ~Sending(l) -> l
    [] Sending(l) /\ l.sampleCount < Samples -> [l EXCEPT !.sampleCount = @ + 1]
    [] OTHER -> LET sent == [l EXCEPT !.sampleCount = 0, !.data = Tail(@)]
                IN IF sent.data = <<>> THEN endOfFrame(sent) ELSE sent

(* The sender's half of a tick, after the pin has been set to Head(data).  *)
senderClock(l) ==
  CASE ~Sending(l) -> l
    [] Sending(l) /\ l.sampleCount + 1 < Samples -> [l EXCEPT !.sampleCount = @ + 1]
    [] OTHER -> LET sent == [l EXCEPT !.sampleCount = 0, !.data = Tail(@)]
                IN IF sent.data = <<>> THEN endOfFrame(sent) ELSE sent

-----------------------------------------------------------------------------
(* DataAckReceiver.                                                        *)

(* ReceiverToLink::dataReceived: store the byte if a read has ever given a *)
(* place for it.  (READ_DATA_AVAILABLE is set and cleared within the call.)*)
dataReceived(l, byte) ==
  LET r == [l EXCEPT !.received = Append(@, byte)]
      left == (l.receiveLength - 1 + WordSize) % WordSize
  IN IF ~l.receiveBuffer THEN r
     ELSE [r EXCEPT !.receiveLength = left,
                    !.stored = Append(@, byte),
                    !.readComplete = @ \/ left = 0]

(* A receiver that takes one bit too few. *)
bitStateReceived_short(l, bit) ==
  CASE l.rstate = "IDLE" -> [l EXCEPT !.rstate = IF bit = 1 THEN "START_BIT_2" ELSE @]
    [] l.rstate = "START_BIT_2" /\ bit = 1 ->
         [sendAck(l) EXCEPT !.rstate = "DATA", !.buffer = <<>>]
    [] l.rstate = "START_BIT_2" /\ bit = 0 -> [ackReceived(l) EXCEPT !.rstate = "IDLE"]
    [] l.rstate = "DATA" ->
         LET buffer == Append(l.buffer, bit)
         IN [l EXCEPT !.buffer = buffer,
                      !.rstate = IF Len(buffer) = DataBits - 1 THEN "STOP_BIT" ELSE @]
    [] l.rstate = "STOP_BIT" /\ bit = 1 -> [l EXCEPT !.rstate = "IDLE", !.framing = TRUE]
    [] OTHER -> [dataReceived(l, Append(l.buffer, 0)) EXCEPT !.rstate = "IDLE"]

(* A receiver that acknowledges a byte when it has it all. *)
bitStateReceived_ackAtStop(l, bit) ==
  CASE l.rstate = "IDLE" -> [l EXCEPT !.rstate = IF bit = 1 THEN "START_BIT_2" ELSE @]
    [] l.rstate = "START_BIT_2" /\ bit = 1 -> [l EXCEPT !.rstate = "DATA", !.buffer = <<>>]
    [] l.rstate = "START_BIT_2" /\ bit = 0 -> [ackReceived(l) EXCEPT !.rstate = "IDLE"]
    [] l.rstate = "DATA" ->
         LET buffer == Append(l.buffer, bit)
         IN [l EXCEPT !.buffer = buffer,
                      !.rstate = IF Len(buffer) = DataBits THEN "STOP_BIT" ELSE @]
    [] l.rstate = "STOP_BIT" /\ bit = 1 -> [l EXCEPT !.rstate = "IDLE", !.framing = TRUE]
    [] OTHER -> [dataReceived(sendAck(l), l.buffer) EXCEPT !.rstate = "IDLE"]

(* The link and the sender are always registered and READ_DATA_AVAILABLE   *)
(* is never set between two calls, so that the overrun and the DISCARD     *)
(* state it leads to cannot be reached and are left out.                   *)
bitStateReceived(l, bit) ==
  CASE l.rstate = "IDLE" -> [l EXCEPT !.rstate = IF bit = 1 THEN "START_BIT_2" ELSE @]
    [] l.rstate = "START_BIT_2" /\ bit = 1 ->
         [sendAck(l) EXCEPT !.rstate = "DATA", !.buffer = <<>>]
    [] l.rstate = "START_BIT_2" /\ bit = 0 -> [ackReceived(l) EXCEPT !.rstate = "IDLE"]
    [] l.rstate = "DATA" ->
         LET buffer == Append(l.buffer, bit)
         IN [l EXCEPT !.buffer = buffer,
                      !.rstate = IF Len(buffer) = DataBits THEN "STOP_BIT" ELSE @]
    [] l.rstate = "STOP_BIT" /\ bit = 1 -> [l EXCEPT !.rstate = "IDLE", !.framing = TRUE]
    [] OTHER -> [dataReceived(l, l.buffer) EXCEPT !.rstate = "IDLE"]

receiverClock(l, rx) ==
  LET sampled == getRx(l.pin, rx)
      r       == [l EXCEPT !.pin = sampled.pin]
  IN IF sampled.vote = NoVote THEN r ELSE bitStateReceived(r, sampled.vote)

-----------------------------------------------------------------------------
(* GPIOAsyncLink.                                                          *)

(* A link after its constructor and initialise: ready to send.  framed,    *)
(* received, stored and acks are history: the bytes put into data frames,  *)
(* those that came out of them, those stored in a read's buffer or past    *)
(* its end, and the acks heard.                                            *)
NewLink ==
  [ state |-> "IDLE", send_ack |-> FALSE, ack_rxed |-> FALSE, sampleCount |-> 0,
    data |-> <<>>, enqueued |-> <<>>,
    rstate |-> "IDLE", buffer |-> <<>>, pin |-> NewPin,
    rts |-> TRUE, sendComplete |-> FALSE, readComplete |-> FALSE,
    timeout |-> FALSE, framing |-> FALSE,
    sending |-> <<>>, receiveBuffer |-> FALSE, receiveLength |-> 0,
    framed |-> <<>>, received |-> <<>>, stored |-> <<>>, acks |-> 0 ]

(* clock: the sender, then the receiver samples the pin.  Level is what    *)
(* the sender drives its pin to at that tick.                              *)
clock(l, rx) == receiverClock(senderClock(l), rx)
Level(l, level) == IF Sending(l) THEN l.data[1] ELSE level

(* The API.  writeDataAsync answers what sendData does.                    *)
writeDataAsync(l, m) == sendData([l EXCEPT !.sendComplete = FALSE, !.sending = m], m[1])
writeComplete(l) == [l EXCEPT !.sendComplete = FALSE, !.sending = <<>>]
readDataAsync(l, n) == [l EXCEPT !.readComplete = FALSE, !.receiveBuffer = TRUE, !.receiveLength = n]
readComplete(l) == [l EXCEPT !.readComplete = FALSE, !.receiveBuffer = FALSE, !.receiveLength = 0]

(* resetLink leaves the pin level, the flags of the sender and the receive *)
(* pointer as they are, and RTS clear unless an ack had been heard.        *)
resetLink(l) ==
  [enterIdle([l EXCEPT !.receiveLength = 0, !.sending = <<>>, !.rts = FALSE,
                       !.sendComplete = FALSE, !.readComplete = FALSE,
                       !.timeout = FALSE, !.framing = FALSE])
     EXCEPT !.rstate = "IDLE"]

(* What a link's members can hold.  The histories are sequences of bytes.  *)
Link ==
  [ state : {"IDLE", "SENDING_ACK", "SENDING_DATA", "ACK_TIMEOUT"},
    send_ack : BOOLEAN, ack_rxed : BOOLEAN, sampleCount : 0 .. Samples - 1,
    data : Seq(Bit), enqueued : {<<>>} \cup {<<b>> : b \in Byte},
    rstate : {"IDLE", "START_BIT_2", "DATA", "STOP_BIT"}, buffer : Seq(Bit), pin : Pin,
    rts : BOOLEAN, sendComplete : BOOLEAN, readComplete : BOOLEAN,
    timeout : BOOLEAN, framing : BOOLEAN,
    sending : Seq(Byte), receiveBuffer : BOOLEAN, receiveLength : 0 .. WordSize - 1,
    framed : Seq(Byte), received : Seq(Byte), stored : Seq(Byte), acks : 0 .. AckBound ]

(* The data frames of which the receiver has seen the start bits.          *)
StartsSeen(l) == Len(l.received) + (IF l.rstate \in {"DATA", "STOP_BIT"} THEN 1 ELSE 0)

LinkOK(l) ==
  /\ l \in Link
  /\ Sending(l) => l.data # <<>>
  /\ l.rstate = "DATA" => Len(l.buffer) < DataBits
=============================================================================
