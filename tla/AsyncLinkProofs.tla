-------------------------- MODULE AsyncLinkProofs --------------------------
(***************************************************************************)
(* Two GPIOAsyncLinks wired back to back, for any number of samples in a   *)
(* bit, any messages and any number of calls: their types, that each wire  *)
(* is a first-in first-out channel of one byte whose receiver never loses  *)
(* its place, what a completed write means, and that the end that writes   *)
(* never times out while the other is sent to and sends nothing itself.    *)
(***************************************************************************)
EXTENDS AsyncLink, GPIOAsyncLinkProofs

LEMMA Ends ==
  \A e \in End : Peer(e) \in End /\ Peer(e) # e /\ Peer(Peer(e)) = e /\ \A d \in End : d = e \/ d = Peer(e)
BY DEF End, Peer

-----------------------------------------------------------------------------
(* The types, after any calls and resets.                                  *)
TypeInv == TypeOK /\ \A e \in End : BufferOK(link[e])

LEMMA TypeInvIs ==
  TypeInv <=> /\ DOMAIN link = End /\ link = [e \in End |-> link[e]]
              /\ \A e \in End : TypedRx(link[e])
              /\ tx \in [End -> Bit] /\ turn \in End /\ client \in [End -> Client]
<1>1. \A e \in End : LinkOK(link[e]) /\ BufferOK(link[e]) <=> TypedRx(link[e])
  BY DEF LinkOK, BufferOK, TypedRx, FrameLeft
<1>2. ASSUME TypeInv
      PROVE  /\ DOMAIN link = End /\ link = [e \in End |-> link[e]]
             /\ \A e \in End : TypedRx(link[e])
  <2>1. link \in [End -> Link]
    BY <1>2 DEF TypeInv, TypeOK
  <2>. QED
    BY <1>1, <1>2, <2>1 DEF TypeInv, TypeOK
<1>3. ASSUME link = [e \in End |-> link[e]], \A e \in End : TypedRx(link[e])
      PROVE  link \in [End -> Link]
  BY <1>3 DEF TypedRx
<1>. QED
  BY <1>1, <1>2, <1>3 DEF TypeInv, TypeOK

LEMMA NewLinkType == TypedRx(NewLink)
<1>1. NewPin \in Pin
  BY PinAssumption DEF NewPin, Pin, DataSamples, Bit
<1>2. NewLink \in Link
  <2>1. /\ 0 \in 0 .. Samples - 1 /\ 0 \in 0 .. AckBound /\ 0 \in 0 .. WordSize - 1
        /\ <<>> \in Seq(Bit) /\ <<>> \in Seq(Byte) /\ <<>> \in {<<>>} \cup {<<b>> : b \in Byte}
    BY PinAssumption, LinkAssumption
  <2>2. \A p \in Pin, d \in Seq(Bit), s \in Seq(Byte), q \in {<<>>} \cup {<<b>> : b \in Byte} :
          [ state |-> "IDLE", send_ack |-> FALSE, ack_rxed |-> FALSE, sampleCount |-> 0,
            data |-> d, enqueued |-> q,
            rstate |-> "IDLE", buffer |-> d, pin |-> p,
            rts |-> TRUE, sendComplete |-> FALSE, readComplete |-> FALSE,
            timeout |-> FALSE, framing |-> FALSE,
            sending |-> s, receiveBuffer |-> FALSE, receiveLength |-> 0,
            framed |-> s, received |-> s, stored |-> s, acks |-> 0 ] \in Link
    BY <2>1 DEF Link
  <2>. QED
    BY <1>1, <2>1, <2>2 DEF NewLink
<1>3. NewLink.state = "IDLE" /\ NewLink.rstate = "IDLE"
  BY DEF NewLink
<1>. QED
  BY <1>2, <1>3 DEF TypedRx, FrameLeft, Sending, BufferOK

(* One end's step leaves the other's link alone.                           *)
LEMMA TypedStep ==
  ASSUME TypeInv, NEW e \in End, NEW m, TypedRx(m), link' = [link EXCEPT ![e] = m],
         tx' \in [End -> Bit], turn' \in End, client' \in [End -> Client]
  PROVE  TypeInv'
<1>1. /\ DOMAIN link = End /\ link = [d \in End |-> link[d]]
      /\ \A d \in End : TypedRx(link[d])
  BY TypeInvIs
<1>2. \A d \in End : link'[d] = IF d = e THEN m ELSE link[d]
  BY <1>1
<1>3. link' = [d \in End |-> link'[d]] /\ DOMAIN link' = End
  BY <1>1
<1>4. \A d \in End : TypedRx(link'[d])
  BY <1>1, <1>2
<1>5. link' \in [End -> Link]
  BY <1>3, <1>4 DEF TypedRx
<1>. QED
  BY <1>4, <1>5 DEF TypeInv, TypeOK, TypedRx, LinkOK, FrameLeft, BufferOK

LEMMA TypedCall ==
  ASSUME NEW l, NEW m, TypedRx(l), Typed(l, m)
  PROVE  TypedRx(m)
BY DEF TypedRx, Typed, SameReceiver, BufferOK

LEMMA TypeInit == Init => TypeInv
<1>. SUFFICES ASSUME Init PROVE TypeInv
  OBVIOUS
<1>1. \A e \in End : TypedRx(link[e])
  BY NewLinkType DEF Init
<1>2. client \in [End -> Client]
  <2>1. <<>> \in Seq(Byte) /\ 0 \in 0 .. MaxWrites /\ 0 \in 0 .. MaxReads /\ 0 \in 0 .. MaxResets
    BY ClientAssumption
  <2>2. \A s \in Seq(Byte) : [ writing |-> FALSE, reading |-> FALSE, writes |-> 0, reads |-> 0,
                               resets |-> 0, toSend |-> s ] \in Client
    BY <2>1 DEF Client
  <2>. QED
    BY <2>1, <2>2 DEF Init
<1>3. tx \in [End -> Bit] /\ turn \in End
  BY DEF Init, End, Bit
<1>. QED
  BY <1>1, <1>2, <1>3, TypeInvIs DEF Init

LEMMA ClientTypes ==
  ASSUME client \in [End -> Client], NEW e \in End, NEW c \in Client, client' = [client EXCEPT ![e] = c]
  PROVE  client' \in [End -> Client]
OBVIOUS

LEMMA TypeStep == TypeInv /\ [Next]_vars => TypeInv'
<1>. SUFFICES ASSUME TypeInv, [Next]_vars PROVE TypeInv'
  OBVIOUS
<1>1. /\ DOMAIN link = End /\ \A e \in End : TypedRx(link[e]) /\ client[e] \in Client
      /\ tx \in [End -> Bit] /\ turn \in End /\ client \in [End -> Client]
  BY TypeInvIs
<1>2. ASSUME NEW e \in End, Clock(e) PROVE TypeInv'
  <2>1. tx[Peer(e)] \in Bit /\ tx[e] \in Bit
    BY <1>1, Ends
  <2>2. TypedRx(clock(link[e], tx[Peer(e)]))
    BY <1>1, <2>1, ClockType
  <2>3. Level(link[e], tx[e]) \in Bit
    BY <1>1, <2>1, LevelType DEF TypedRx
  <2>4. /\ link' = [link EXCEPT ![e] = clock(link[e], tx[Peer(e)])] /\ client' = client
        /\ tx' \in [End -> Bit] /\ turn' \in End
    BY <1>1, <1>2, <2>3, Ends DEF Clock
  <2>. QED
    BY <1>1, <2>2, <2>4, TypedStep
<1>3. ASSUME NEW e \in End, NEW msg \in Message, Write(e, msg) PROVE TypeInv'
  <2>. DEFINE c == client[e]
              w == sendDataOk(link[e])
              k == [c EXCEPT !.writing = w, !.writes = c.writes + 1,
                             !.toSend = IF w THEN c.toSend \o msg ELSE c.toSend]
  <2>1. msg \in Seq(Byte) /\ msg # <<>> /\ link[e] \in Link /\ FrameLeft(link[e])
    BY <1>1, ClientAssumption DEF TypedRx
  <2>2. TypedRx(writeDataAsync(link[e], msg))
    BY <1>1, <2>1, CallTypes, TypedCall
  <2>3. client' = [client EXCEPT ![e] = k]
    BY <1>3 DEF Write
  <2>4. k \in Client
    <3>1. c \in Client /\ c.toSend \in Seq(Byte) /\ c.writes + 1 \in 0 .. MaxWrites
      BY <1>1, <1>3, ClientAssumption DEF Client, Write
    <3>2. w \in BOOLEAN
      BY <2>1 DEF sendDataOk, Link
    <3>3. (IF w THEN c.toSend \o msg ELSE c.toSend) \in Seq(Byte)
      BY <2>1, <3>1
    <3>. DEFINE n == c.writes + 1
                s == IF w THEN c.toSend \o msg ELSE c.toSend
    <3>. HIDE DEF c, w, n, s
    <3>4. \A b \in BOOLEAN : [c EXCEPT !.writing = b, !.writes = n, !.toSend = s] \in Client
      BY <3>1, <3>3 DEF Client, n, s
    <3>. QED
      BY <3>2, <3>4 DEF n, s
  <2>. HIDE DEF k
  <2>5. client' \in [End -> Client]
    BY <1>1, <2>3, <2>4, ClientTypes
  <2>. QED
    BY <1>1, <1>3, <2>2, <2>5, TypedStep DEF Write
<1>4. ASSUME NEW e \in End, EndWrite(e) PROVE TypeInv'
  <2>1. link[e] \in Link /\ FrameLeft(link[e])
    BY <1>1 DEF TypedRx
  <2>2. TypedRx(writeComplete(link[e]))
    <3>1. \E msg \in Seq(Byte) : msg # <<>>
      <4>1. PICK b : b \in Byte
        <5>1. [i \in 1 .. DataBits |-> 0] \in Byte
          BY DEF Byte, Bit
        <5>. QED
          BY <5>1
      <4>2. <<b>> \in Seq(Byte) /\ <<b>> # <<>>
        BY <4>1
      <4>. QED
        BY <4>2
    <3>. QED
      BY <1>1, <2>1, <3>1, CallTypes, TypedCall
  <2>3. client' \in [End -> Client]
    BY <1>1, <1>4 DEF EndWrite, Client
  <2>. QED
    BY <1>1, <1>4, <2>2, <2>3, TypedStep DEF EndWrite
<1>5. ASSUME NEW e \in End, NEW n \in ReadLength, Read(e, n) PROVE TypeInv'
  <2>1. link[e] \in Link /\ n \in 0 .. WordSize - 1
    BY <1>1, ClientAssumption, LinkAssumption DEF TypedRx
  <2>2. TypedRx(readDataAsync(link[e], n))
    <3>1. /\ readDataAsync(link[e], n) \in Link /\ SameSender(link[e], readDataAsync(link[e], n))
          /\ Rx(readDataAsync(link[e], n)) = Rx(link[e])
      BY <2>1, ReadCalls
    <3>. DEFINE m == readDataAsync(link[e], n)
    <3>. HIDE DEF m
    <3>2. m.rstate = link[e].rstate /\ m.buffer = link[e].buffer
      BY <3>1, RxFields DEF m
    <3>3. TypedRx(m)
      BY <1>1, <3>1, <3>2, SameSenderFacts DEF TypedRx, BufferOK, m
    <3>. QED
      BY <3>3 DEF m
  <2>3. client' \in [End -> Client]
    <3>. DEFINE c == client[e]
                k == [c EXCEPT !.reading = TRUE, !.reads = c.reads + 1]
    <3>1. client' = [client EXCEPT ![e] = k]
      BY <1>5 DEF Read
    <3>2. c \in Client /\ c.reads + 1 \in 0 .. MaxReads
      BY <1>1, <1>5, ClientAssumption DEF Client, Read
    <3>3. k \in Client
      <4>. DEFINE i == c.reads + 1
      <4>. HIDE DEF c
      <4>. QED
        BY <3>2 DEF Client
    <3>. HIDE DEF k
    <3>. QED
      BY <1>1, <3>1, <3>3, ClientTypes
  <2>. QED
    BY <1>1, <1>5, <2>2, <2>3, TypedStep DEF Read
<1>6. ASSUME NEW e \in End, EndRead(e) PROVE TypeInv'
  <2>1. link[e] \in Link /\ 0 \in 0 .. WordSize - 1
    BY <1>1, LinkAssumption DEF TypedRx
  <2>2. TypedRx(readComplete(link[e]))
    <3>1. /\ readComplete(link[e]) \in Link /\ SameSender(link[e], readComplete(link[e]))
          /\ Rx(readComplete(link[e])) = Rx(link[e])
      BY <2>1, ReadCalls
    <3>. DEFINE m == readComplete(link[e])
    <3>. HIDE DEF m
    <3>2. m.rstate = link[e].rstate /\ m.buffer = link[e].buffer
      BY <3>1, RxFields DEF m
    <3>3. TypedRx(m)
      BY <1>1, <3>1, <3>2, SameSenderFacts DEF TypedRx, BufferOK, m
    <3>. QED
      BY <3>3 DEF m
  <2>3. client' \in [End -> Client]
    BY <1>1, <1>6 DEF EndRead, Client
  <2>. QED
    BY <1>1, <1>6, <2>2, <2>3, TypedStep DEF EndRead
<1>7. ASSUME NEW e \in End, Reset(e) PROVE TypeInv'
  <2>1. TypedRx(resetLink(link[e]))
    BY <1>1, ResetType DEF TypedRx
  <2>2. client' \in [End -> Client]
    <3>. DEFINE c == client[e]
                k == [c EXCEPT !.writing = FALSE, !.reading = FALSE, !.resets = c.resets + 1]
    <3>1. client' = [client EXCEPT ![e] = k]
      BY <1>7 DEF Reset
    <3>2. c \in Client /\ c.resets + 1 \in 0 .. MaxResets
      BY <1>1, <1>7, ClientAssumption DEF Client, Reset
    <3>3. k \in Client
      <4>. HIDE DEF c
      <4>. QED
        BY <3>2 DEF Client
    <3>. HIDE DEF k
    <3>. QED
      BY <1>1, <3>1, <3>3, ClientTypes
  <2>. QED
    BY <1>1, <1>7, <2>1, <2>2, TypedStep DEF Reset
<1>8. CASE UNCHANGED vars
  <2>1. link' = link /\ tx' = tx /\ turn' = turn /\ client' = client
    BY <1>8 DEF vars
  <2>. QED
    BY <2>1 DEF TypeInv, TypeOK
<1>. QED
  BY <1>2, <1>3, <1>4, <1>5, <1>6, <1>7, <1>8 DEF Next, Api

(* The types hold: a frame being sent has bits left, so that m_data and    *)
(* m_bits agree, and no more than a byte is ever being received, whatever  *)
(* the callers and their resets do.                                        *)
THEOREM TypeCorrect == Spec => []TypeOK
<1>1. TypeInv => TypeOK
  BY DEF TypeInv
<1>. QED
  BY <1>1, TypeInit, TypeStep, PTL DEF Spec

-----------------------------------------------------------------------------
(* While no caller resets its link.                                        *)

(* What the other end's receiver has when it has sampled all that e has    *)
(* driven: the clock ticks the ends in turn, so that it may be a sample    *)
(* behind.                                                                 *)
HeardAll(e) == IF turn = e THEN Rx(link[Peer(e)]) ELSE Hear(Rx(link[Peer(e)]), tx[e])

WireOK(e) ==
  /\ SentOK(link[e], client[e].toSend, client[e].writing)
  /\ InStep(link[e], HeardAll(e), tx[e])
  /\ Received(link[e], Rx(link[Peer(e)]))
  /\ HeardAll(e).acks + Owed(link[e]) <= StartsSeen(link[e])

WireInv == NoReset => \A e \in End : WireOK(e)

IInv == TypeInv /\ WireInv

LEMMA Types ==
  ASSUME TypeInv, NEW e \in End
  PROVE  /\ link[e] \in Link /\ FrameLeft(link[e]) /\ BufferOK(link[e]) /\ TypedRx(link[e])
         /\ client[e] \in Client /\ client[e].toSend \in Seq(Byte)
         /\ tx[e] \in Bit /\ Rx(link[e]) \in Receiver /\ HeardAll(e) \in Receiver
         /\ DOMAIN link = End /\ DOMAIN tx = End /\ DOMAIN client = End
<1>1. /\ DOMAIN link = End /\ \A d \in End : TypedRx(link[d]) /\ client[d] \in Client
      /\ tx \in [End -> Bit] /\ client \in [End -> Client]
  BY TypeInvIs
<1>2. \A d \in End : Rx(link[d]) \in Receiver
  BY <1>1, RxReceiver DEF TypedRx
<1>3. \A d \in End : Rx(link[d]).rstate = "STOP_BIT" => Len(Rx(link[d]).buffer) = DataBits
  BY <1>1, RxFields DEF TypedRx, BufferOK
<1>4. HeardAll(e) \in Receiver
  BY <1>1, <1>2, <1>3, HearType, Ends DEF HeardAll
<1>5. client[e].toSend \in Seq(Byte)
  BY <1>1 DEF Client
<1>. QED
  BY <1>1, <1>2, <1>4, <1>5 DEF TypedRx

LEMMA WireInit == Init => WireInv
<1>. SUFFICES ASSUME Init, NEW e \in End PROVE WireOK(e)
  BY DEF WireInv
<1>1. /\ link[e] = NewLink /\ link[Peer(e)] = NewLink /\ tx[e] = 0
      /\ client[e].toSend = <<>> /\ client[e].writing = FALSE
  BY Ends DEF Init
<1>2. /\ NewLink.state = "IDLE" /\ NewLink.sending = <<>> /\ NewLink.rts /\ ~NewLink.send_ack
      /\ ~NewLink.ack_rxed /\ NewLink.enqueued = <<>> /\ ~NewLink.sendComplete /\ ~NewLink.timeout
      /\ NewLink.framed = <<>> /\ NewLink.received = <<>> /\ NewLink.acks = 0 /\ NewLink.rstate = "IDLE"
      /\ NewLink.pin.resync = 0 /\ NewLink.pin.past = <<0, 0>> /\ ~NewLink.framing
  BY DEF NewLink, NewPin
<1>3. NewLink \in Link
  BY NewLinkType DEF TypedRx
<1>. DEFINE r == Rx(NewLink)
<1>4. r \in Receiver /\ Quiet(r) /\ r.received = <<>> /\ ~r.framing /\ r.acks = 0
  BY <1>2, <1>3, RxReceiver, RxFields DEF Quiet
<1>5. Quiet(Hear(r, 0)) /\ Hear(r, 0).received = <<>> /\ ~Hear(r, 0).framing /\ Hear(r, 0).acks = 0
  <2>. HIDE DEF r
  <2>. QED
    BY <1>4, HearQuiet
<1>6. HeardAll(e) = r \/ HeardAll(e) = Hear(r, 0)
  BY <1>1 DEF HeardAll
<1>. HIDE DEF r
<1>7. Quiet(HeardAll(e)) /\ HeardAll(e).received = <<>> /\ ~HeardAll(e).framing /\ HeardAll(e).acks = 0
  BY <1>4, <1>5, <1>6
<1>8. InStep(link[e], HeardAll(e), tx[e])
  BY <1>1, <1>2, <1>7 DEF InStep, Sending
<1>9. Received(link[e], Rx(link[Peer(e)]))
  BY <1>1, <1>2, <1>4 DEF Received, r
<1>10. SenderOK(link[e])
  BY <1>1, <1>2 DEF SenderOK
<1>11. SentOK(link[e], client[e].toSend, client[e].writing)
  <2>1. <<>> \o <<>> = <<>>
    OBVIOUS
  <2>. QED
    BY <1>1, <1>2, <1>10, <2>1 DEF SentOK
<1>12. Owed(link[e]) = 0 /\ StartsSeen(link[e]) = 0
  BY <1>1, <1>2 DEF Owed, StartsSeen
<1>. QED
  BY <1>7, <1>8, <1>9, <1>11, <1>12 DEF WireOK

(* A tick of e: its sender drives the wire, its receiver samples the other *)
(* one, which the other end has driven at its own last tick.               *)
LEMMA ClockWires ==
  ASSUME TypeInv, \A d \in End : WireOK(d), NEW e \in End, Clock(e)
  PROVE  /\ \A d \in End : WireOK(d)'
         /\ HeardAll(Peer(e))' = HeardAll(Peer(e)) /\ Rx(link'[e]) = HeardAll(Peer(e))
         /\ \/ link'[e].framed = link[e].framed
            \/ /\ link[Peer(e)].received = link[e].framed
               /\ \E b \in Byte : link'[e].framed = Append(link[e].framed, b)
<1>. DEFINE p == Peer(e)
            l == link[e]
            m == clock(l, tx[p])
            r == Rx(link[p])
            level == tx[e]
            q == Hear(r, Level(l, level))
<1>1. p \in End /\ p # e /\ Peer(p) = e /\ \A d \in End : d = e \/ d = p
  BY Ends
<1>2. /\ l \in Link /\ FrameLeft(l) /\ BufferOK(l) /\ client[e].toSend \in Seq(Byte)
      /\ level \in Bit /\ tx[p] \in Bit /\ r \in Receiver /\ DOMAIN link = End /\ DOMAIN tx = End
      /\ link[p] \in Link
  BY <1>1, Types
<1>3. /\ turn = e /\ turn' = p /\ tx' = [tx EXCEPT ![e] = Level(l, level)]
      /\ link' = [link EXCEPT ![e] = m] /\ client' = client
  BY DEF Clock
<1>4. link'[e] = m /\ link'[p] = link[p] /\ tx'[e] = Level(l, level) /\ tx'[p] = tx[p]
  BY <1>1, <1>2, <1>3
<1>5. HeardAll(e) = r /\ HeardAll(p) = Hear(Rx(l), tx[p])
  BY <1>1, <1>3 DEF HeardAll
<1>6. /\ SentOK(l, client[e].toSend, client[e].writing) /\ InStep(l, r, level)
      /\ r.acks + Owed(l) <= StartsSeen(l) /\ ~Hear(Rx(l), tx[p]).framing
  BY <1>1, <1>5 DEF WireOK, InStep
<1>. HIDE DEF p, l, m, r, level
<1>7. /\ m \in Link /\ FrameLeft(m) /\ SentOK(m, client[e].toSend, client[e].writing) /\ BufferOK(m)
      /\ Rx(m) = Hear(Rx(l), tx[p])
      /\ InStep(m, q, Level(l, level)) /\ q.acks + Owed(m) <= StartsSeen(m)
      /\ Received(m, r)
      /\ \/ m.framed = l.framed
         \/ r.received = l.framed /\ \E b \in Byte : m.framed = Append(l.framed, b)
  BY <1>2, <1>6, ClockStep DEF m
<1>8. HeardAll(e)' = q /\ HeardAll(p)' = HeardAll(p) /\ Rx(m) = HeardAll(p)
  <2>1. HeardAll(e)' = IF turn' = e THEN Rx(link'[Peer(e)]) ELSE Hear(Rx(link'[Peer(e)]), tx'[e])
    BY DEF HeardAll
  <2>2. HeardAll(p)' = IF turn' = p THEN Rx(link'[Peer(p)]) ELSE Hear(Rx(link'[Peer(p)]), tx'[p])
    BY DEF HeardAll
  <2>. QED
    BY <1>1, <1>3, <1>4, <1>5, <1>7, <2>1, <2>2 DEF p, r
<1>9. WireOK(e)'
  <2>1. SentOK(link'[e], client'[e].toSend, client'[e].writing)
    BY <1>3, <1>4, <1>7
  <2>2. Received(link'[e], Rx(link'[Peer(e)]))
    BY <1>4, <1>7 DEF p, r
  <2>. QED
    BY <1>4, <1>7, <1>8, <2>1, <2>2 DEF WireOK
<1>10. WireOK(p)'
  <2>1. WireOK(p)
    BY <1>1
  <2>2. InStep(link[p], HeardAll(p), tx[p])
    BY <2>1 DEF WireOK
  <2>3. Received(link'[p], Rx(link'[Peer(p)]))
    <3>1. Received(link[p], HeardAll(p))
      <4>1. link[p].state \in {"IDLE", "SENDING_ACK", "SENDING_DATA", "ACK_TIMEOUT"}
        BY <1>2 DEF Link
      <4>. QED
        BY <2>2, <4>1, InStepReceived
    <3>. QED
      BY <1>1, <1>4, <1>8, <3>1
  <2>. QED
    BY <1>3, <1>4, <1>8, <2>1, <2>3 DEF WireOK
<1>11. /\ link'[e].framed = link[e].framed
          \/ /\ link[p].received = link[e].framed
             /\ \E b \in Byte : link'[e].framed = Append(link[e].framed, b)
  BY <1>4, <1>7, RxFields DEF r, l
<1>. QED
  BY <1>1, <1>4, <1>8, <1>9, <1>10, <1>11 DEF p

(* A call of the API starts at most a frame, on a quiet wire.              *)
LEMMA CallWires ==
  ASSUME TypeInv, \A d \in End : WireOK(d), NEW e \in End, NEW m \in Link,
         link' = [link EXCEPT ![e] = m], tx' = tx, turn' = turn,
         \A d \in End : d # e => client'[d].toSend = client[d].toSend
                                 /\ client'[d].writing = client[d].writing,
         Rx(m) = Rx(link[e]), Starts(link[e], m), Owed(m) = Owed(link[e]),
         SentOK(m, client'[e].toSend, client'[e].writing)
  PROVE  /\ \A d \in End : WireOK(d)' /\ HeardAll(d)' = HeardAll(d)
         /\ \/ link'[e].framed = link[e].framed
            \/ /\ link[Peer(e)].received = link[e].framed
               /\ \E b \in Byte : link'[e].framed = Append(link[e].framed, b)
<1>. DEFINE p == Peer(e)
            l == link[e]
<1>1. p \in End /\ p # e /\ Peer(p) = e /\ \A d \in End : d = e \/ d = p
  BY Ends
<1>2. link'[e] = m /\ link'[p] = link[p] /\ l \in Link /\ HeardAll(e) \in Receiver /\ Rx(link[p]) \in Receiver
  BY <1>1, Types
<1>3. \A d \in End : Rx(link'[d]) = Rx(link[d])
  BY <1>1, <1>2
<1>4. \A d \in End : HeardAll(d)' = HeardAll(d)
  <2>. TAKE d \in End
  <2>1. HeardAll(d)' = IF turn' = d THEN Rx(link'[Peer(d)]) ELSE Hear(Rx(link'[Peer(d)]), tx'[d])
    BY DEF HeardAll
  <2>. QED
    BY <1>3, <2>1, Ends DEF HeardAll
<1>5. /\ WireOK(e) /\ WireOK(p)
  BY <1>1
<1>6. StartsSeen(m) = StartsSeen(l)
  <2>1. m.received = l.received /\ m.rstate = l.rstate
    <3>1. Rx(m).received = m.received /\ Rx(m).rstate = m.rstate
      BY RxFields
    <3>2. Rx(l).received = l.received /\ Rx(l).rstate = l.rstate
      BY RxFields
    <3>. QED
      BY <3>1, <3>2
  <2>. QED
    BY <2>1 DEF StartsSeen
<1>7. /\ Received(m, Rx(link[p]))
      /\ \/ m.framed = l.framed
         \/ Rx(link[p]).received = l.framed /\ \E b \in Byte : m.framed = Append(l.framed, b)
  <2>1. Received(l, Rx(link[p])) /\ Starts(l, m) /\ l \in Link
    BY <1>2, <1>5 DEF WireOK
  <2>. DEFINE r == Rx(link[p])
  <2>. HIDE DEF p, l, r
  <2>2. Received(l, r) /\ Starts(l, m) /\ l \in Link
    BY <2>1 DEF r
  <2>3. /\ Received(m, r)
        /\ \/ m.framed = l.framed
           \/ r.received = l.framed /\ \E b \in Byte : m.framed = Append(l.framed, b)
    BY <2>2, StartsReceived
  <2>. QED
    BY <2>3 DEF r
<1>8. WireOK(e)'
  <2>1. InStep(m, HeardAll(e), tx[e])
    BY <1>2, <1>5, InStepStarts DEF WireOK
  <2>. QED
    BY <1>2, <1>4, <1>5, <1>6, <1>7, <2>1 DEF WireOK
<1>9. WireOK(p)'
  BY <1>1, <1>2, <1>3, <1>4, <1>5 DEF WireOK
<1>. QED
  BY <1>1, <1>2, <1>4, <1>7, <1>8, <1>9, RxFields

LEMMA ResetsCount ==
  ASSUME TypeInv, NoReset', NEW e \in End
  PROVE  ~Reset(e)
<1>1. client[e] \in Client /\ DOMAIN client = End
  BY Types
<1>2. ASSUME Reset(e) PROVE FALSE
  <2>1. client'[e].resets = client[e].resets + 1 /\ client[e].resets \in Nat
    BY <1>1, <1>2, ClientAssumption DEF Reset, Client
  <2>. QED
    BY <2>1 DEF NoReset
<1>. QED
  BY <1>2

LEMMA ApiWires ==
  ASSUME TypeInv, \A d \in End : WireOK(d), NoReset', NEW e \in End, Api(e)
  PROVE  /\ \A d \in End : WireOK(d)' /\ HeardAll(d)' = HeardAll(d)
         /\ Rx(link'[e]) = Rx(link[e]) /\ link'[Peer(e)] = link[Peer(e)]
         /\ \/ link'[e].framed = link[e].framed
            \/ /\ link[Peer(e)].received = link[e].framed
               /\ \E b \in Byte : link'[e].framed = Append(link[e].framed, b)
<1>. DEFINE l == link[e]
            c == client[e]
<1>1. /\ l \in Link /\ FrameLeft(l) /\ c.toSend \in Seq(Byte) /\ c \in Client
      /\ DOMAIN link = End /\ DOMAIN client = End
  BY Types
<1>2. SentOK(l, c.toSend, c.writing)
  BY DEF WireOK
<1>3. ASSUME NEW msg \in Message, Write(e, msg)
      PROVE  \E m \in Link :
               /\ link' = [link EXCEPT ![e] = m] /\ Rx(m) = Rx(l) /\ Starts(l, m) /\ Owed(m) = Owed(l)
               /\ SentOK(m, client'[e].toSend, client'[e].writing)
  <2>. DEFINE m == writeDataAsync(l, msg)
  <2>1. msg \in Seq(Byte) /\ msg # <<>>
    BY ClientAssumption
  <2>2. ~c.writing /\ link' = [link EXCEPT ![e] = m]
    BY <1>3 DEF Write
  <2>3. SentOK(l, c.toSend, FALSE)
    <3>1. c.writing = FALSE
      BY <1>1, <2>2 DEF Client
    <3>. QED
      BY <1>2, <3>1
  <2>4. /\ m \in Link /\ SameReceiver(l, m) /\ Starts(l, m) /\ Owed(m) = Owed(l)
        /\ SentOK(m, IF sendDataOk(l) THEN c.toSend \o msg ELSE c.toSend, sendDataOk(l))
    BY <1>1, <2>1, <2>3, WriteDataAsync
  <2>5. /\ client'[e].writing = sendDataOk(l)
        /\ client'[e].toSend = IF sendDataOk(l) THEN c.toSend \o msg ELSE c.toSend
    BY <1>1, <1>3 DEF Write, Client
  <2>. HIDE DEF m
  <2>6. Rx(m) = Rx(l)
    BY <2>4, SameReceiverFacts
  <2>7. SentOK(m, client'[e].toSend, client'[e].writing)
    BY <2>4, <2>5
  <2>. QED
    BY <2>2, <2>4, <2>6, <2>7
<1>4. ASSUME EndWrite(e)
      PROVE  \E m \in Link :
               /\ link' = [link EXCEPT ![e] = m] /\ Rx(m) = Rx(l) /\ Starts(l, m) /\ Owed(m) = Owed(l)
               /\ SentOK(m, client'[e].toSend, client'[e].writing)
  <2>. DEFINE m == writeComplete(l)
  <2>1. l.sendComplete /\ link' = [link EXCEPT ![e] = m]
    BY <1>4 DEF EndWrite
  <2>2. /\ m \in Link /\ SameReceiver(l, m) /\ Starts(l, m) /\ Owed(m) = Owed(l)
        /\ SentOK(m, c.toSend, FALSE)
    BY <1>1, <1>2, <2>1, WriteComplete
  <2>3. client'[e].writing = FALSE /\ client'[e].toSend = c.toSend
    BY <1>1, <1>4 DEF EndWrite, Client
  <2>. HIDE DEF m
  <2>. QED
    BY <2>1, <2>2, <2>3, SameReceiverFacts
<1>5. ASSUME NEW n \in ReadLength, Read(e, n)
      PROVE  \E m \in Link :
               /\ link' = [link EXCEPT ![e] = m] /\ Rx(m) = Rx(l) /\ Starts(l, m) /\ Owed(m) = Owed(l)
               /\ SentOK(m, client'[e].toSend, client'[e].writing)
  <2>. DEFINE m == readDataAsync(l, n)
  <2>1. link' = [link EXCEPT ![e] = m] /\ n \in 0 .. WordSize - 1
    BY <1>5, ClientAssumption, LinkAssumption DEF Read
  <2>2. m \in Link /\ SameSender(l, m) /\ Rx(m) = Rx(l)
    BY <1>1, <2>1, ReadCalls
  <2>3. client'[e].writing = c.writing /\ client'[e].toSend = c.toSend
    BY <1>1, <1>5 DEF Read, Client
  <2>. HIDE DEF m
  <2>. QED
    BY <1>2, <2>1, <2>2, <2>3, SameSenderFacts DEF Starts
<1>6. ASSUME EndRead(e)
      PROVE  \E m \in Link :
               /\ link' = [link EXCEPT ![e] = m] /\ Rx(m) = Rx(l) /\ Starts(l, m) /\ Owed(m) = Owed(l)
               /\ SentOK(m, client'[e].toSend, client'[e].writing)
  <2>. DEFINE m == readComplete(l)
  <2>1. link' = [link EXCEPT ![e] = m] /\ 0 \in 0 .. WordSize - 1
    BY <1>6, LinkAssumption DEF EndRead
  <2>2. m \in Link /\ SameSender(l, m) /\ Rx(m) = Rx(l)
    BY <1>1, <2>1, ReadCalls
  <2>3. client'[e].writing = c.writing /\ client'[e].toSend = c.toSend
    BY <1>1, <1>6 DEF EndRead, Client
  <2>. HIDE DEF m
  <2>. QED
    BY <1>2, <2>1, <2>2, <2>3, SameSenderFacts DEF Starts
<1>7. ~Reset(e)
  BY ResetsCount
<1>8. /\ tx' = tx /\ turn' = turn
      /\ \A d \in End : d # e => client'[d].toSend = client[d].toSend
                                 /\ client'[d].writing = client[d].writing
  BY <1>1 DEF Api, Write, EndWrite, Read, EndRead, Reset
<1>9. \E m \in Link :
        /\ link' = [link EXCEPT ![e] = m] /\ Rx(m) = Rx(l) /\ Starts(l, m) /\ Owed(m) = Owed(l)
        /\ SentOK(m, client'[e].toSend, client'[e].writing)
  BY <1>3, <1>4, <1>5, <1>6, <1>7 DEF Api
<1>10. PICK m \in Link :
        /\ link' = [link EXCEPT ![e] = m] /\ Rx(m) = Rx(l) /\ Starts(l, m) /\ Owed(m) = Owed(l)
        /\ SentOK(m, client'[e].toSend, client'[e].writing)
  BY <1>9
<1>11. /\ \A d \in End : WireOK(d)' /\ HeardAll(d)' = HeardAll(d)
       /\ \/ link'[e].framed = link[e].framed
          \/ /\ link[Peer(e)].received = link[e].framed
             /\ \E b \in Byte : link'[e].framed = Append(link[e].framed, b)
  BY <1>8, <1>10, CallWires
<1>12. link'[e] = m /\ link'[Peer(e)] = link[Peer(e)]
  BY <1>1, <1>10, Ends
<1>. QED
  BY <1>10, <1>11, <1>12

LEMMA NoResetBefore ==
  ASSUME TypeInv, [Next]_vars, NoReset'
  PROVE  NoReset
<1>. SUFFICES ASSUME NEW e \in End PROVE client[e].resets = 0
  BY DEF NoReset
<1>1. client[e] \in Client /\ DOMAIN client = End
  BY Types
<1>2. client'[e].resets = 0
  BY DEF NoReset
<1>3. client'[e].resets = client[e].resets \/ client'[e].resets = client[e].resets + 1
  <2>1. CASE UNCHANGED vars
    BY <2>1 DEF vars
  <2>2. ASSUME NEW d \in End, Clock(d) PROVE client' = client
    BY <2>2 DEF Clock
  <2>3. ASSUME NEW d \in End, Api(d)
        PROVE  client'[e].resets = client[e].resets \/ client'[e].resets = client[e].resets + 1
    BY <1>1, <2>3 DEF Api, Write, EndWrite, Read, EndRead, Reset, Client
  <2>. QED
    BY <2>1, <2>2, <2>3 DEF Next
<1>4. client[e].resets \in Nat
  BY <1>1, ClientAssumption DEF Client
<1>. QED
  BY <1>2, <1>3, <1>4

LEMMA WireStep == IInv /\ [Next]_vars => WireInv'
<1>. SUFFICES ASSUME TypeInv, WireInv, [Next]_vars, NoReset' PROVE \A d \in End : WireOK(d)'
  BY DEF IInv, WireInv
<1>1. \A d \in End : WireOK(d)
  BY NoResetBefore DEF WireInv
<1>2. CASE UNCHANGED vars
  <2>1. link' = link /\ tx' = tx /\ turn' = turn /\ client' = client
    BY <1>2 DEF vars
  <2>2. \A d \in End : HeardAll(d)' = HeardAll(d)
    BY <2>1 DEF HeardAll
  <2>. QED
    BY <1>1, <2>1, <2>2 DEF WireOK
<1>3. ASSUME NEW e \in End, Clock(e) PROVE \A d \in End : WireOK(d)'
  BY <1>1, <1>3, ClockWires
<1>4. ASSUME NEW e \in End, Api(e) PROVE \A d \in End : WireOK(d)'
  BY <1>1, <1>4, ApiWires
<1>. QED
  BY <1>2, <1>3, <1>4 DEF Next

LEMMA Invariance == Spec => []IInv
<1>1. Init => IInv
  BY TypeInit, WireInit DEF IInv
<1>2. IInv /\ [Next]_vars => IInv'
  BY TypeStep, WireStep DEF IInv
<1>. QED
  BY <1>1, <1>2, PTL DEF Spec

LEMMA HeardSoFar ==
  ASSUME TypeInv, NEW e \in End
  PROVE  /\ ~HeardAll(e).framing => ~link[Peer(e)].framing
         /\ link[Peer(e)].acks <= HeardAll(e).acks
         /\ HeardAll(e).acks \in Nat /\ link[Peer(e)].acks \in Nat
<1>. DEFINE r == Rx(link[Peer(e)])
            q == Hear(r, tx[e])
<1>1. /\ r \in Receiver /\ tx[e] \in Bit /\ HeardAll(e) \in Receiver
      /\ r.framing = link[Peer(e)].framing /\ r.acks = link[Peer(e)].acks
  BY Types, Ends, RxFields
<1>. HIDE DEF r
<1>2. (~q.framing => ~r.framing) /\ (q.acks = r.acks \/ q.acks = r.acks + 1)
  BY <1>1, HearHistory
<1>3. HeardAll(e) = r \/ HeardAll(e) = q
  BY DEF HeardAll, r
<1>4. r.acks \in Nat /\ HeardAll(e).acks \in Nat
  BY <1>1, LinkAssumption DEF Receiver
<1>. HIDE DEF q
<1>. QED
  BY <1>1, <1>2, <1>3, <1>4

(* The receivers keep step with the frames on the wire (the pin finds the  *)
(* middle of every bit from the edge it synchronised on): no stop bit is   *)
(* missed, and an ack is heard only for a frame whose start was seen.      *)
THEOREM ReceiversInStep == Spec => []WiresInStep
<1>1. IInv => WiresInStep
  <2>. SUFFICES ASSUME IInv, NoReset, NEW e \in End
                PROVE  ~link[e].framing /\ link[e].acks <= StartsSeen(link[Peer(e)])
    BY DEF WiresInStep
  <2>. DEFINE p == Peer(e)
  <2>1. p \in End /\ Peer(p) = e /\ TypeInv /\ WireOK(p)
    BY Ends DEF IInv, WireInv
  <2>2. /\ ~HeardAll(p).framing
        /\ HeardAll(p).acks + Owed(link[p]) <= StartsSeen(link[p])
    BY <2>1 DEF WireOK, InStep
  <2>3. /\ ~link[e].framing /\ link[e].acks <= HeardAll(p).acks
        /\ HeardAll(p).acks \in Nat /\ link[e].acks \in Nat
    BY <2>1, <2>2, HeardSoFar
  <2>4. StartsSeen(link[p]) \in Nat
    <3>1. link[p] \in Link
      BY <2>1, Types
    <3>2. \A l \in Link : StartsSeen(l) \in Nat
      BY DEF StartsSeen, Link
    <3>. QED
      BY <3>1, <3>2
  <2>. QED
    BY <2>2, <2>3, <2>4, OwedRange
<1>. QED
  BY <1>1, Invariance, PTL

(* A write is complete only when the other end has received every byte     *)
(* that the caller has asked to be sent.                                   *)
THEOREM CompletionMeansReceipt == Spec => []CompleteWhenReceived
<1>1. IInv => CompleteWhenReceived
  <2>. SUFFICES ASSUME IInv, NoReset, NEW e \in End, link[e].sendComplete
                PROVE  link[Peer(e)].received = client[e].toSend
    BY DEF CompleteWhenReceived
  <2>1. WireOK(e)
    BY DEF IInv, WireInv
  <2>2. link[e].state # "SENDING_DATA" /\ client[e].toSend = link[e].framed
    BY <2>1 DEF WireOK, SentOK, SenderOK
  <2>3. Rx(link[Peer(e)]).received = link[e].framed
    BY <2>1, <2>2 DEF WireOK, Received
  <2>. QED
    BY <2>2, <2>3, RxFields
<1>. QED
  BY <1>1, Invariance, PTL

-----------------------------------------------------------------------------
(* Each wire implements ByteChannel.                                       *)
LEMMA TakesLast ==
  ASSUME NEW s \in Link, NEW r \in Receiver, NEW q \in Receiver, Received(s, r), Received(s, q),
         q.received = r.received \/ q.received = Append(r.received, r.buffer)
  PROVE  \/ q.received = r.received
         \/ /\ Len(r.received) < Len(s.framed)
            /\ q.received = Append(r.received, s.framed[Len(s.framed)])
<1>. DEFINE f == s.framed
            a == r.received
            b == q.received
            c == f[Len(f)]
<1>1. f \in Seq(Byte) /\ a \in Seq(Byte) /\ b \in Seq(Byte)
  BY DEF Link, Receiver
<1>2. a = f \/ Append(a, c) = f
  BY DEF Received, Current
<1>3. b = f \/ Append(b, c) = f
  BY DEF Received, Current
<1>. HIDE DEF f, a, b, c
<1>4. ASSUME b # a PROVE Len(a) < Len(f) /\ b = Append(a, c)
  <2>1. /\ Len(Append(a, c)) = Len(a) + 1 /\ Len(Append(b, c)) = Len(b) + 1
        /\ Len(a) \in Nat /\ Len(b) \in Nat /\ Len(f) \in Nat
    <3>1. a \in Seq(Byte \cup {c}) /\ b \in Seq(Byte \cup {c})
      BY <1>1
    <3>. QED
      BY <1>1, <3>1, AppendProperties
  <2>2. Len(b) = Len(a) + 1
    <3>1. b = Append(a, r.buffer)
      BY <1>4 DEF a, b
    <3>2. a \in Seq(Byte \cup {r.buffer})
      BY <1>1
    <3>. QED
      BY <3>1, <3>2, AppendProperties
  <2>3. Append(b, c) # f /\ a # f
    BY <1>2, <1>3, <2>1, <2>2
  <2>. QED
    BY <1>2, <1>3, <2>1, <2>2, <2>3
<1>. QED
  BY <1>4 DEF f, a, b, c

(* One direction, from e.                                                  *)
ChannelStep(e) ==
  \/ link'[e].framed = link[e].framed /\ link'[Peer(e)].received = link[Peer(e)].received
  \/ /\ Len(link[e].framed) = Len(link[Peer(e)].received)
     /\ \E b \in Byte : link'[e].framed = Append(link[e].framed, b)
     /\ link'[Peer(e)].received = link[Peer(e)].received
  \/ /\ Len(link[Peer(e)].received) < Len(link[e].framed)
     /\ link'[Peer(e)].received
          = Append(link[Peer(e)].received, link[e].framed[Len(link[e].framed)])
     /\ link'[e].framed = link[e].framed

LEMMA ChannelSteps ==
  ASSUME IInv, [Next]_vars, NoReset', NEW e \in End
  PROVE  ChannelStep(e)
<1>1. TypeInv /\ \A d \in End : WireOK(d)
  BY NoResetBefore DEF IInv, WireInv
<1>2. CASE UNCHANGED vars
  BY <1>2 DEF vars, ChannelStep
<1>3. ASSUME Clock(e) PROVE ChannelStep(e)
  <2>1. link'[Peer(e)] = link[Peer(e)]
    BY <1>1, <1>3, Ends, Types DEF Clock
  <2>2. \/ link'[e].framed = link[e].framed
        \/ /\ link[Peer(e)].received = link[e].framed
           /\ \E b \in Byte : link'[e].framed = Append(link[e].framed, b)
    BY <1>1, <1>3, ClockWires
  <2>. QED
    BY <2>1, <2>2 DEF ChannelStep
<1>4. ASSUME Clock(Peer(e)) PROVE ChannelStep(e)
  <2>. DEFINE p == Peer(e)
              r == Rx(link[p])
              q == Rx(link'[p])
  <2>1. p \in End /\ p # e /\ Peer(p) = e
    BY Ends
  <2>2. link'[e] = link[e]
    BY <1>1, <1>4, <2>1, Types DEF Clock
  <2>3. \A d \in End : WireOK(d)'
    BY <1>1, <1>4, <2>1, ClockWires
  <2>4. q = HeardAll(e) /\ turn = p
    BY <1>1, <1>4, <2>1, ClockWires DEF Clock
  <2>5. q = Hear(r, tx[e])
    BY <2>1, <2>4 DEF HeardAll
  <2>6. link[e] \in Link /\ r \in Receiver /\ q \in Receiver /\ tx[e] \in Bit
    BY <1>1, <2>1, <2>4, Types
  <2>7. Received(link[e], r) /\ Received(link[e], q)
    <3>1. Received(link'[e], Rx(link'[Peer(e)]))
      BY <2>3 DEF WireOK
    <3>. QED
      BY <1>1, <2>2, <3>1 DEF WireOK
  <2>8. q.received = r.received \/ q.received = Append(r.received, r.buffer)
    <3>. HIDE DEF r, q
    <3>. QED
      BY <2>5, <2>6, HearHistory
  <2>9. \/ q.received = r.received
        \/ /\ Len(r.received) < Len(link[e].framed)
           /\ q.received = Append(r.received, link[e].framed[Len(link[e].framed)])
    <3>. HIDE DEF r, q
    <3>. QED
      BY <2>6, <2>7, <2>8, TakesLast
  <2>10. r.received = link[p].received /\ q.received = link'[p].received
    BY RxFields
  <2>. QED
    BY <2>2, <2>9, <2>10 DEF ChannelStep
<1>5. ASSUME Api(e) PROVE ChannelStep(e)
  BY <1>1, <1>5, ApiWires DEF ChannelStep
<1>6. ASSUME Api(Peer(e)) PROVE ChannelStep(e)
  <2>. DEFINE p == Peer(e)
  <2>1. p \in End /\ Peer(p) = e
    BY Ends
  <2>2. Rx(link'[p]) = Rx(link[p]) /\ link'[e] = link[e]
    BY <1>1, <1>6, <2>1, ApiWires
  <2>3. link'[p].received = link[p].received
    <3>1. Rx(link'[p]).received = link'[p].received /\ Rx(link[p]).received = link[p].received
      BY RxFields
    <3>. QED
      BY <2>2, <3>1
  <2>. QED
    BY <2>2, <2>3 DEF ChannelStep
<1>7. [Next]_vars => UNCHANGED vars \/ \E d \in End : Clock(d) \/ Api(d)
  BY DEF Next
<1>. QED
  BY <1>2, <1>3, <1>4, <1>5, <1>6, <1>7, Ends

(* Whatever two callers that do not reset their links ask, each wire is a  *)
(* first-in first-out channel of one byte from one DataAckSender to the    *)
(* other DataAckReceiver: the next frame is started only after the last    *)
(* has been received whole, and the bytes received are those framed.       *)
THEOREM WiresImplementChannel ==
  ASSUME Resetters = {}
  PROVE  Spec => ImplementsChannel
<1>1. Init => AtoB!Init /\ BtoA!Init
  BY DEF Init, NewLink, End, AtoB!Init, BtoA!Init
<1>2. Init => NoReset
  BY DEF Init, NoReset
<1>3. IInv /\ NoReset /\ [Next]_vars => NoReset'
  <2>. SUFFICES ASSUME TypeInv, NoReset, [Next]_vars, NEW e \in End PROVE client'[e].resets = 0
    BY DEF IInv, NoReset
  <2>1. client[e] \in Client /\ DOMAIN client = End /\ client[e].resets = 0
    BY Types DEF NoReset
  <2>2. CASE UNCHANGED vars
    BY <2>1, <2>2 DEF vars
  <2>3. ASSUME NEW d \in End, Clock(d) PROVE client'[e].resets = 0
    BY <2>1, <2>3 DEF Clock
  <2>4. ASSUME NEW d \in End, Api(d) PROVE client'[e].resets = 0
    BY <2>1, <2>4 DEF Api, Write, EndWrite, Read, EndRead, Reset, Client
  <2>. QED
    BY <2>2, <2>3, <2>4 DEF Next
<1>4. IInv /\ NoReset' /\ [Next]_vars => [AtoB!Next]_<<link["A"].framed, link["B"].received>>
                                         /\ [BtoA!Next]_<<link["B"].framed, link["A"].received>>
  <2>. SUFFICES ASSUME IInv, NoReset', [Next]_vars
                PROVE  /\ [AtoB!Next]_<<link["A"].framed, link["B"].received>>
                       /\ [BtoA!Next]_<<link["B"].framed, link["A"].received>>
    OBVIOUS
  <2>1. ChannelStep("A") /\ ChannelStep("B") /\ Peer("A") = "B" /\ Peer("B") = "A"
    BY ChannelSteps DEF End, Peer
  <2>2. [AtoB!Next]_<<link["A"].framed, link["B"].received>>
    BY <2>1 DEF ChannelStep, AtoB!Next, AtoB!Take, AtoB!Accept
  <2>3. [BtoA!Next]_<<link["B"].framed, link["A"].received>>
    BY <2>1 DEF ChannelStep, BtoA!Next, BtoA!Take, BtoA!Accept
  <2>. QED
    BY <2>2, <2>3
<1>. QED
  BY <1>1, <1>2, <1>3, <1>4, Invariance, PTL
     DEF Spec, ImplementsChannel, AtoB!Spec, BtoA!Spec, AtoB!chanVars, BtoA!chanVars

-----------------------------------------------------------------------------
(* One end writes: w.  The other has sampled all that w has driven, or, if *)
(* it is its turn to tick, all but the last.                               *)
Timely(w) ==
  /\ Writer(link[w])
  /\ Acker(link[Peer(w)], link[w],
           IF turn = w THEN Ticks(link[w], DataLength) ELSE Ticks(link[w], DataLength) - 1)
  /\ ~client[Peer(w)].writing

OneWayInv(w) == IInv /\ (NoReset => Timely(w))

LEMMA TicksInt ==
  ASSUME NEW l \in Link
  PROVE  Ticks(l, DataLength) \in Int
<1>. DEFINE i == DataLength - Len(l.data)
<1>1. i \in Int /\ Samples \in Int /\ l.sampleCount \in Int
  BY Timing DEF Link
<1>. HIDE DEF i
<1>2. i * Samples \in Int
  BY <1>1
<1>3. Ticks(l, DataLength) = i * Samples + l.sampleCount
  BY DEF Ticks, i
<1>. DEFINE x == i * Samples
<1>. HIDE DEF x
<1>4. Ticks(l, DataLength) = x + l.sampleCount /\ x \in Int
  BY <1>2, <1>3 DEF x
<1>. QED
  BY <1>1, <1>4

LEMMA TimelyInit ==
  ASSUME NEW w \in End, Init
  PROVE  Timely(w)
<1>1. link[w] = NewLink /\ link[Peer(w)] = NewLink /\ client[Peer(w)].writing = FALSE
  BY Ends DEF Init
<1>2. /\ NewLink.state = "IDLE" /\ NewLink.sending = <<>> /\ ~NewLink.send_ack
      /\ ~NewLink.ack_rxed /\ ~NewLink.sendComplete /\ NewLink.rstate = "IDLE"
  BY DEF NewLink
<1>. QED
  BY <1>1, <1>2 DEF Timely, Writer, Acker, Data

(* A tick of either end.                                                   *)
LEMMA TimelyClock ==
  ASSUME NEW w \in End, TypeInv, TypeInv', \A d \in End : WireOK(d), Timely(w), NEW e \in End, Clock(e)
  PROVE  /\ Timely(w)'
         /\ Counted(link[w]) /\ Len(link[w].framed) <= AckBound => Counted(link'[w])
<1>. DEFINE p == Peer(w)
            l == link[w]
            k == link[p]
            t == Ticks(l, DataLength)
<1>1. p \in End /\ p # w /\ Peer(p) = w /\ (e = w \/ e = p)
  BY Ends
<1>2. /\ l \in Link /\ k \in Link /\ FrameLeft(l) /\ FrameLeft(k) /\ tx[p] \in Bit /\ tx[w] \in Bit
      /\ client[w].toSend \in Seq(Byte) /\ client[p].toSend \in Seq(Byte)
      /\ DOMAIN link = End /\ DOMAIN tx = End
  BY <1>1, Types
<1>3. /\ SentOK(l, client[w].toSend, client[w].writing) /\ InStep(l, HeardAll(w), tx[w])
      /\ SentOK(k, client[p].toSend, client[p].writing) /\ InStep(k, HeardAll(p), tx[p])
  BY <1>1 DEF WireOK
<1>4. /\ turn = e /\ turn' = Peer(e) /\ client' = client /\ t \in Int
      /\ link' = [link EXCEPT ![e] = clock(link[e], tx[Peer(e)])]
  BY <1>2, TicksInt DEF Clock
<1>5. Rx(link'[e]) = HeardAll(Peer(e)) /\ HeardAll(Peer(e)) = Hear(Rx(link[e]), tx[Peer(e)])
  BY <1>1, <1>4, ClockWires, Ends DEF HeardAll
<1>6. link'[e] \in Link /\ link'[e] = clock(link[e], tx[Peer(e)])
  <2>1. link' \in [End -> Link]
    BY DEF TypeInv, TypeOK
  <2>. QED
    BY <1>2, <1>4, <2>1
<1>7. CASE e = w
  <2>. DEFINE m == clock(l, tx[p])
  <2>1. link'[w] = m /\ link'[p] = k /\ turn' = p
    BY <1>1, <1>2, <1>4, <1>6, <1>7
  <2>2. Writer(l) /\ Acker(k, l, t)
    BY <1>4, <1>7 DEF Timely
  <2>3. InStep(k, Hear(Rx(l), tx[p]), tx[p]) /\ Rx(m) = Hear(Rx(l), tx[p]) /\ m \in Link
    BY <1>3, <1>5, <1>6, <1>7
  <2>. HIDE DEF l, k, p
  <2>4. /\ Writer(m) /\ Acker(k, m, Ticks(m, DataLength) - 1)
        /\ Counted(l) /\ Len(l.framed) <= AckBound => Counted(m)
    BY <1>2, <1>3, <1>4, <2>2, <2>3, WriterTick
  <2>. HIDE DEF m
  <2>5. turn' # w /\ ~client'[p].writing
    BY <1>1, <1>4, <2>1 DEF Timely, p
  <2>. QED
    BY <2>1, <2>4, <2>5 DEF Timely, p, l
<1>8. CASE e = p
  <2>. DEFINE m == clock(k, tx[w])
  <2>1. link'[w] = l /\ link'[p] = m /\ turn' = w /\ turn # w
    BY <1>1, <1>2, <1>4, <1>6, <1>8
  <2>2. Writer(l) /\ Acker(k, l, t - 1)
    BY <2>1 DEF Timely
  <2>3. InStep(l, Hear(Rx(k), tx[w]), tx[w]) /\ Rx(m) = Hear(Rx(k), tx[w])
    BY <1>1, <1>3, <1>5, <1>6, <1>8
  <2>. HIDE DEF l, k, p
  <2>4. Acker(m, l, t)
    BY <1>2, <1>3, <1>4, <2>2, <2>3, AckerTick DEF t
  <2>. HIDE DEF m
  <2>5. ~client'[p].writing
    BY <1>4 DEF Timely, p
  <2>. QED
    BY <2>1, <2>2, <2>4, <2>5 DEF Timely, p, l, t
<1>. QED
  BY <1>1, <1>7, <1>8

(* A call that leaves the sender in the middle of what it was.             *)
LEMMA SameTimely ==
  ASSUME NEW l, NEW k, NEW m, NEW n, NEW seen, Writer(l), Acker(k, l, seen),
         m.state = l.state, m.data = l.data, m.sampleCount = l.sampleCount, m.send_ack = l.send_ack,
         m.ack_rxed = l.ack_rxed, m.rstate = l.rstate, m.acks = l.acks, m.framed = l.framed,
         n.state = k.state, n.data = k.data, n.sampleCount = k.sampleCount, n.send_ack = k.send_ack,
         n.ack_rxed = k.ack_rxed, n.rstate = k.rstate, n.sending = <<>>, ~n.sendComplete
  PROVE  /\ Writer(m) /\ Acker(n, m, seen) /\ Ticks(m, DataLength) = Ticks(l, DataLength)
         /\ Counted(l) => Counted(m)
<1>1. Ticks(m, DataLength) = Ticks(l, DataLength) /\ Ticks(n, 2) = Ticks(k, 2)
  BY DEF Ticks
<1>. QED
  BY <1>1 DEF Writer, Acker, Counted, Data

(* A call at either end, of which only w writes.                           *)
LEMMA TimelyApi ==
  ASSUME NEW w \in End, Writers \subseteq {w}, TypeInv, \A d \in End : WireOK(d), Timely(w), NoReset',
         NEW e \in End, Api(e)
  PROVE  Timely(w)' /\ (Counted(link[w]) => Counted(link'[w]))
<1>. DEFINE p == Peer(w)
            l == link[w]
            k == link[p]
            seen == IF turn = w THEN Ticks(l, DataLength) ELSE Ticks(l, DataLength) - 1
<1>1. p \in End /\ p # w /\ Peer(p) = w /\ (e = w \/ e = p) /\ (turn = w \/ turn # w)
  BY Ends
<1>2. /\ l \in Link /\ k \in Link /\ FrameLeft(l)
      /\ client[w].toSend \in Seq(Byte) /\ client[w] \in Client /\ client[p] \in Client
      /\ DOMAIN link = End /\ DOMAIN client = End
  BY <1>1, Types
<1>3. SentOK(l, client[w].toSend, client[w].writing)
  BY DEF WireOK
<1>4. /\ Writer(l) /\ Acker(k, l, seen) /\ ~client[p].writing /\ seen \in Int
      /\ k.sending = <<>> /\ ~k.sendComplete
  <2>1. Ticks(l, DataLength) \in Int
    BY <1>2, TicksInt
  <2>. QED
    BY <2>1 DEF Timely, Acker
<1>5. ASSUME NEW m, NEW n, link'[w] = m, link'[p] = n, turn' = turn, ~client'[p].writing, Writer(m),
             Acker(n, m, seen), Ticks(m, DataLength) = Ticks(l, DataLength)
      PROVE  Timely(w)'
  BY <1>5 DEF Timely
<1>6. ASSUME NEW m, SameSender(link[e], m), Rx(m) = Rx(link[e]), link' = [link EXCEPT ![e] = m],
             turn' = turn, client'[p].writing = client[p].writing
      PROVE  Timely(w)' /\ (Counted(l) => Counted(link'[w]))
  <2>1. m.rstate = link[e].rstate /\ m.acks = link[e].acks
    BY <1>6, RxFields
  <2>2. /\ m.state = link[e].state /\ m.data = link[e].data /\ m.sampleCount = link[e].sampleCount
        /\ m.send_ack = link[e].send_ack /\ m.ack_rxed = link[e].ack_rxed /\ m.framed = link[e].framed
        /\ m.sending = link[e].sending /\ m.sendComplete = link[e].sendComplete
    BY <1>6 DEF SameSender
  <2>3. CASE e = w
    <3>1. link'[w] = m /\ link'[p] = k
      BY <1>1, <1>2, <1>6, <2>3
    <3>2. /\ Writer(m) /\ Acker(k, m, seen) /\ Ticks(m, DataLength) = Ticks(l, DataLength)
          /\ Counted(l) => Counted(m)
      <4>. HIDE DEF l, k, seen
      <4>. QED
        BY <1>4, <2>1, <2>2, <2>3, SameTimely DEF l
    <3>. QED
      BY <1>4, <1>5, <1>6, <3>1, <3>2
  <2>4. CASE e = p
    <3>1. link'[w] = l /\ link'[p] = m
      BY <1>1, <1>2, <1>6, <2>4
    <3>2. Acker(m, l, seen)
      <4>. HIDE DEF l, k, seen, p
      <4>. QED
        BY <1>4, <2>1, <2>2, <2>4, SameTimely DEF k
    <3>. QED
      BY <1>4, <1>5, <1>6, <3>1, <3>2
  <2>. QED
    BY <1>1, <2>3, <2>4
<1>7. ASSUME NEW msg \in Message, Write(e, msg) PROVE Timely(w)' /\ (Counted(l) => Counted(link'[w]))
  <2>. DEFINE m == writeDataAsync(l, msg)
  <2>1. e = w /\ ~client[w].writing /\ link' = [link EXCEPT ![w] = m] /\ turn' = turn
    BY <1>7 DEF Write
  <2>2. msg \in Seq(Byte) /\ msg # <<>> /\ client[w].writing = FALSE
    BY <1>2, <2>1, ClientAssumption DEF Client
  <2>3. SentOK(l, client[w].toSend, FALSE)
    BY <1>3, <2>2
  <2>4. l.state = "IDLE"
    BY <1>4, <2>3 DEF Writer, SentOK, SenderOK
  <2>5. /\ m \in Link /\ SameReceiver(l, m) /\ Starts(l, m)
        /\ m.state = "SENDING_DATA" /\ ~m.ack_rxed /\ m.send_ack = l.send_ack
    BY <1>2, <2>2, <2>3, <2>4, WriteDataAsync
  <2>6. link'[w] = m /\ link'[p] = k /\ ~client'[p].writing
    <3>1. client'[p].writing = client[p].writing
      BY <1>1, <1>2, <1>7, <2>1 DEF Write
    <3>. QED
      BY <1>1, <1>2, <1>4, <2>1, <3>1
  <2>. HIDE DEF m, l, k
  <2>7. m.rstate = l.rstate /\ m.acks = l.acks /\ ~m.send_ack /\ Data(m)
    <3>1. Rx(m) = Rx(l)
      BY <2>5, SameReceiverFacts
    <3>2. ~l.send_ack
      BY <1>4 DEF Writer
    <3>. QED
      BY <2>5, <3>1, <3>2, RxFields DEF Data
  <2>8. /\ Writer(m) /\ Ticks(m, DataLength) = 0
        /\ \A n \in {-1, 0} : Acker(k, m, n)
        /\ Counted(l) => Counted(m)
    <3>. HIDE DEF seen
    <3>. QED
      BY <1>2, <1>4, <2>4, <2>5, <2>7, WriterStarts
  <2>9. (IF turn' = w THEN Ticks(m, DataLength) ELSE Ticks(m, DataLength) - 1) \in {-1, 0}
    BY <2>8
  <2>. QED
    BY <2>6, <2>8, <2>9 DEF Timely, l, k
<1>8. ASSUME EndWrite(e) PROVE Timely(w)' /\ (Counted(l) => Counted(link'[w]))
  <2>. DEFINE m == writeComplete(l)
  <2>1. e = w
    BY <1>1, <1>4, <1>8 DEF EndWrite
  <2>2. link' = [link EXCEPT ![w] = m] /\ turn' = turn
    BY <1>8, <2>1 DEF EndWrite
  <2>3. ~client'[p].writing
    BY <1>1, <1>2, <1>4, <1>8, <2>1 DEF EndWrite
  <2>4. /\ m.state = l.state /\ m.data = l.data /\ m.sampleCount = l.sampleCount
        /\ m.send_ack = l.send_ack /\ m.ack_rxed = l.ack_rxed /\ m.framed = l.framed
        /\ m.rstate = l.rstate /\ m.acks = l.acks
    BY <1>2 DEF writeComplete, Link
  <2>5. link'[w] = m /\ link'[p] = k
    BY <1>1, <1>2, <2>2
  <2>. HIDE DEF m, l, k, seen
  <2>6. /\ Writer(m) /\ Acker(k, m, seen) /\ Ticks(m, DataLength) = Ticks(l, DataLength)
        /\ Counted(l) => Counted(m)
    BY <1>4, <2>4, SameTimely
  <2>. QED
    BY <1>5, <2>2, <2>3, <2>5, <2>6
<1>9. ASSUME NEW n \in ReadLength, Read(e, n) PROVE Timely(w)' /\ (Counted(l) => Counted(link'[w]))
  <2>. DEFINE m == readDataAsync(link[e], n)
  <2>1. link' = [link EXCEPT ![e] = m] /\ turn' = turn /\ n \in 0 .. WordSize - 1
    BY <1>9, ClientAssumption, LinkAssumption DEF Read
  <2>2. SameSender(link[e], m) /\ Rx(m) = Rx(link[e])
    BY <1>1, <1>2, <2>1, ReadCalls
  <2>3. client'[p].writing = client[p].writing
    BY <1>1, <1>2, <1>9 DEF Read, Client
  <2>. QED
    BY <1>6, <2>1, <2>2, <2>3
<1>10. ASSUME EndRead(e) PROVE Timely(w)' /\ (Counted(l) => Counted(link'[w]))
  <2>. DEFINE m == readComplete(link[e])
  <2>1. link' = [link EXCEPT ![e] = m] /\ turn' = turn /\ 0 \in 0 .. WordSize - 1
    BY <1>10, LinkAssumption DEF EndRead
  <2>2. SameSender(link[e], m) /\ Rx(m) = Rx(link[e])
    BY <1>1, <1>2, <2>1, ReadCalls
  <2>3. client'[p].writing = client[p].writing
    BY <1>1, <1>2, <1>10 DEF EndRead, Client
  <2>. QED
    BY <1>6, <2>1, <2>2, <2>3
<1>11. ~Reset(e)
  BY ResetsCount
<1>. QED
  BY <1>7, <1>8, <1>9, <1>10, <1>11 DEF Api

LEMMA OneWay ==
  ASSUME NEW w \in End, Writers \subseteq {w}
  PROVE  Spec => []OneWayInv(w)
<1>1. Init => OneWayInv(w)
  BY TypeInit, WireInit, TimelyInit DEF OneWayInv, IInv
<1>2. OneWayInv(w) /\ [Next]_vars => OneWayInv(w)'
  <2>. SUFFICES ASSUME IInv, NoReset => Timely(w), [Next]_vars PROVE IInv' /\ (NoReset' => Timely(w)')
    BY DEF OneWayInv
  <2>1. IInv'
    BY TypeStep, WireStep DEF IInv
  <2>2. ASSUME NoReset' PROVE Timely(w)'
    <3>1. NoReset /\ TypeInv /\ TypeInv' /\ (\A d \in End : WireOK(d)) /\ Timely(w)
      BY <2>1, <2>2, NoResetBefore DEF IInv, WireInv
    <3>2. CASE UNCHANGED vars
      BY <3>1, <3>2 DEF Timely, vars
    <3>3. ASSUME NEW e \in End, Clock(e) PROVE Timely(w)'
      BY <3>1, <3>3, TimelyClock
    <3>4. ASSUME NEW e \in End, Api(e) PROVE Timely(w)'
      BY <2>2, <3>1, <3>4, TimelyApi
    <3>. QED
      BY <3>2, <3>3, <3>4 DEF Next
  <2>. QED
    BY <2>1, <2>2
<1>. QED
  BY <1>1, <1>2, PTL DEF Spec

(* While one end only reads, the end that writes never times out: the ack  *)
(* of every byte comes long before its data frame has ended.               *)
THEOREM NoWriterTimesOut ==
  ASSUME NEW w \in End, Writers \subseteq {w}
  PROVE  Spec => []NoTimeout
<1>1. OneWayInv(w) => NoTimeout
  <2>. SUFFICES ASSUME IInv, NoReset, Timely(w), NEW e \in End PROVE ~link[e].timeout
    BY DEF OneWayInv, NoTimeout
  <2>1. link[e].timeout <=> link[e].state = "ACK_TIMEOUT"
    BY DEF IInv, WireInv, WireOK, SentOK, SenderOK
  <2>2. link[e].state # "ACK_TIMEOUT"
    <3>1. e = w \/ e = Peer(w)
      BY Ends
    <3>. QED
      BY <3>1 DEF Timely, Writer, Acker
  <2>. QED
    BY <2>1, <2>2
<1>. QED
  BY <1>1, OneWay, PTL

(* No caller has asked for more bytes to be sent than its writes can hold, *)
(* each of at most n.                                                      *)
AskedAtMost(n) == \A e \in End : Len(client[e].toSend) <= client[e].writes * n

LEMMA AskedStep ==
  ASSUME NEW n \in Nat, \A m \in Message : Len(m) <= n, TypeInv, AskedAtMost(n), [Next]_vars
  PROVE  AskedAtMost(n)'
<1>. SUFFICES ASSUME NEW e \in End PROVE Len(client'[e].toSend) <= client'[e].writes * n
  BY DEF AskedAtMost
<1>1. /\ client[e] \in Client /\ DOMAIN client = End /\ Len(client[e].toSend) <= client[e].writes * n
      /\ client[e].toSend \in Seq(Byte) /\ client[e].writes \in Nat
  BY Types, ClientAssumption DEF AskedAtMost, Client
<1>2. ASSUME client'[e].toSend = client[e].toSend, client'[e].writes = client[e].writes
      PROVE  Len(client'[e].toSend) <= client'[e].writes * n
  BY <1>1, <1>2
<1>3. ASSUME NEW d \in End, NEW m \in Message, Write(d, m)
      PROVE  Len(client'[e].toSend) <= client'[e].writes * n
  <2>1. CASE d # e
    <3>1. client'[e] = client[e]
      BY <1>1, <1>3, <2>1 DEF Write
    <3>. QED
      BY <1>2, <3>1
  <2>2. CASE d = e
    <3>1. /\ client'[e].writes = client[e].writes + 1
          /\ client'[e].toSend = client[e].toSend \/ client'[e].toSend = client[e].toSend \o m
      BY <1>1, <1>3, <2>2 DEF Write, Client
    <3>2. m \in Seq(Byte) /\ Len(m) <= n /\ Len(m) \in Nat
      BY ClientAssumption
    <3>3. Len(client'[e].toSend) <= Len(client[e].toSend) + n /\ Len(client[e].toSend) \in Nat
      <4>1. Len(client[e].toSend \o m) = Len(client[e].toSend) + Len(m)
        BY <1>1, <3>2
      <4>. QED
        BY <1>1, <3>1, <3>2, <4>1
    <3>. DEFINE i == client[e].writes
    <3>4. (i + 1) * n = i * n + n /\ i * n \in Nat
      BY <1>1
    <3>5. Len(client'[e].toSend) \in Nat
      BY <1>1, <3>1, <3>2
    <3>. DEFINE x == i * n
                y == (i + 1) * n
    <3>6. x \in Nat /\ y = x + n /\ Len(client[e].toSend) <= x
      BY <1>1, <3>4
    <3>. HIDE DEF x, y
    <3>7. Len(client'[e].toSend) <= y
      BY <3>3, <3>5, <3>6
    <3>. QED
      BY <3>1, <3>7 DEF y
  <2>. QED
    BY <2>1, <2>2
<1>4. CASE UNCHANGED vars
  BY <1>2, <1>4 DEF vars
<1>5. ASSUME NEW d \in End, Clock(d) PROVE Len(client'[e].toSend) <= client'[e].writes * n
  BY <1>2, <1>5 DEF Clock
<1>6. ASSUME NEW d \in End, EndWrite(d) \/ EndRead(d) \/ Reset(d) \/ \E i \in ReadLength : Read(d, i)
      PROVE  Len(client'[e].toSend) <= client'[e].writes * n
  <2>. DEFINE Same == client'[e].toSend = client[e].toSend /\ client'[e].writes = client[e].writes
  <2>1. ASSUME EndWrite(d) PROVE Same
    BY <1>1, <2>1 DEF EndWrite, Client
  <2>2. ASSUME EndRead(d) PROVE Same
    BY <1>1, <2>2 DEF EndRead, Client
  <2>3. ASSUME Reset(d) PROVE Same
    BY <1>1, <2>3 DEF Reset, Client
  <2>4. ASSUME NEW i \in ReadLength, Read(d, i) PROVE Same
    BY <1>1, <2>4 DEF Read, Client
  <2>. QED
    BY <1>2, <1>6, <2>1, <2>2, <2>3, <2>4
<1>. QED
  BY <1>3, <1>4, <1>5, <1>6 DEF Next, Api

(* No more bytes have been framed than asked for.                          *)
LEMMA FramedAtMost ==
  ASSUME NEW n \in Nat, MaxWrites * n <= AckBound, TypeInv, AskedAtMost(n), NEW e \in End, WireOK(e),
         link[e].state # "ACK_TIMEOUT"
  PROVE  Len(link[e].framed) <= AckBound
<1>. DEFINE l == link[e]
            c == client[e].toSend
<1>1. /\ l \in Link /\ c \in Seq(Byte) /\ Len(c) <= client[e].writes * n
      /\ client[e].writes \in 0 .. MaxWrites /\ MaxWrites \in Nat /\ AckBound \in Nat
      /\ l.framed \in Seq(Byte) /\ l.sending \in Seq(Byte)
  BY Types, ClientAssumption, LinkAssumption DEF AskedAtMost, Client, Link
<1>2. \E s \in Seq(Byte) : c = l.framed \o s
  <2>1. CASE l.state = "SENDING_DATA"
    <3>1. l.sending # <<>> /\ c = l.framed \o Tail(l.sending)
      BY <2>1 DEF WireOK, SentOK, SenderOK
    <3>. QED
      BY <1>1, <3>1, HeadTailProperties
  <2>2. CASE l.state \in {"IDLE", "SENDING_ACK"}
    <3>1. c = l.framed \o l.sending
      BY <2>2 DEF WireOK, SentOK
    <3>. QED
      BY <1>1, <3>1
  <2>. QED
    BY <1>1, <2>1, <2>2 DEF Link
<1>. HIDE DEF l, c
<1>3. Len(l.framed) <= Len(c)
  <2>1. PICK s \in Seq(Byte) : c = l.framed \o s
    BY <1>2
  <2>2. Len(c) = Len(l.framed) + Len(s) /\ Len(s) \in Nat /\ Len(l.framed) \in Nat
    BY <1>1, <2>1
  <2>. QED
    BY <2>2
<1>4. client[e].writes * n <= MaxWrites * n
  <2>. DEFINE i == client[e].writes
              j == MaxWrites - i
  <2>1. i \in Nat /\ j \in Nat /\ MaxWrites = i + j
    BY <1>1
  <2>. HIDE DEF i, j
  <2>2. (i + j) * n = i * n + j * n /\ i * n \in Nat /\ j * n \in Nat
    BY <2>1
  <2>. DEFINE x == i * n
              y == j * n
              z == (i + j) * n
  <2>3. x \in Nat /\ y \in Nat /\ z = x + y
    BY <2>2
  <2>. HIDE DEF x, y, z
  <2>4. x <= z
    BY <2>3
  <2>. QED
    BY <2>1, <2>4 DEF i, x, z
<1>. DEFINE x == client[e].writes * n
            z == MaxWrites * n
<1>5. x <= z /\ z <= AckBound /\ Len(c) <= x /\ x \in Nat /\ z \in Nat
  BY <1>1, <1>4
<1>6. Len(c) \in Nat /\ Len(l.framed) \in Nat
  BY <1>1
<1>. HIDE DEF x, z
<1>. QED
  BY <1>1, <1>3, <1>5, <1>6 DEF l

(* A write is complete only when every byte of it has been acknowledged,   *)
(* where the end that writes is sent nothing.  AckBound, at which the      *)
(* history of acks stops counting, is not met: no message is of more than  *)
(* n bytes.                                                                *)
THEOREM CompletionMeansAck ==
  ASSUME NEW w \in End, Writers \subseteq {w},
         NEW n \in Nat, \A m \in Message : Len(m) <= n, MaxWrites * n <= AckBound
  PROVE  Spec => []CompleteAfterAck
<1>. DEFINE Inv == OneWayInv(w) /\ AskedAtMost(n) /\ (NoReset => Counted(link[w]))
<1>1. Init => AskedAtMost(n) /\ Counted(link[w])
  <2>. SUFFICES ASSUME Init PROVE AskedAtMost(n) /\ Counted(link[w])
    OBVIOUS
  <2>1. \A e \in End : Len(client[e].toSend) = 0 /\ client[e].writes * n = 0
    BY DEF Init
  <2>2. link[w].state = "IDLE" /\ link[w].acks = 0 /\ Len(link[w].framed) = 0
    BY DEF Init, NewLink
  <2>. QED
    BY <2>1, <2>2 DEF AskedAtMost, Counted, Data
<1>2. OneWayInv(w) /\ OneWayInv(w)' /\ AskedAtMost(n) /\ (NoReset => Counted(link[w])) /\ [Next]_vars
        => AskedAtMost(n)' /\ (NoReset => Counted(link[w]))'
  <2>. SUFFICES ASSUME IInv, NoReset => Timely(w), IInv', AskedAtMost(n), NoReset => Counted(link[w]), [Next]_vars
                PROVE  AskedAtMost(n)' /\ (NoReset' => Counted(link'[w]))
    BY DEF OneWayInv
  <2>1. AskedAtMost(n)'
    BY AskedStep DEF IInv
  <2>2. ASSUME NoReset' PROVE Counted(link'[w])
    <3>1. /\ NoReset /\ TypeInv /\ TypeInv' /\ (\A d \in End : WireOK(d)) /\ Timely(w)
          /\ Counted(link[w])
      BY <2>2, NoResetBefore DEF IInv, WireInv
    <3>2. Len(link[w].framed) <= AckBound
      BY <3>1, FramedAtMost DEF Timely, Writer
    <3>3. CASE UNCHANGED vars
      BY <3>1, <3>3 DEF vars
    <3>4. ASSUME NEW e \in End, Clock(e) PROVE Counted(link'[w])
      BY <3>1, <3>2, <3>4, TimelyClock
    <3>5. ASSUME NEW e \in End, Api(e) PROVE Counted(link'[w])
      BY <2>2, <3>1, <3>5, TimelyApi
    <3>. QED
      BY <3>3, <3>4, <3>5 DEF Next
  <2>. QED
    BY <2>1, <2>2
<1>3. Inv => CompleteAfterAck
  <2>. SUFFICES ASSUME IInv, NoReset, Timely(w), Counted(link[w]), NEW e \in End, link[e].sendComplete
                PROVE  link[e].acks = Len(client[e].toSend)
    BY DEF OneWayInv, CompleteAfterAck
  <2>1. e = w
    <3>1. e = w \/ e = Peer(w)
      BY Ends
    <3>. QED
      BY <3>1 DEF Timely, Acker
  <2>2. link[w].state = "IDLE" /\ client[w].toSend = link[w].framed
    BY <2>1 DEF Timely, Writer, IInv, WireInv, WireOK, SentOK, SenderOK
  <2>3. link[w].acks \in Nat
    BY Types, LinkAssumption DEF IInv, Link
  <2>. QED
    BY <2>1, <2>2, <2>3 DEF Counted, Data
<1>. QED
  BY <1>1, <1>2, <1>3, OneWay, PTL DEF Spec
=============================================================================
