------------------------------ MODULE AsyncLink ------------------------------
(***************************************************************************)
(* Two GPIOAsyncLinks, A and B, wired back to back, as on two Picos or in  *)
(* the test fixtures, their clock and the callers of their API.  A tick    *)
(* and each call hold the end's mutex, so they interleave whole.           *)
(***************************************************************************)
EXTENDS GPIOAsyncLink

CONSTANTS
  Writers,     \* the ends whose caller writes
  Readers,     \* the ends whose caller reads
  Message,     \* what a client may pass to writeDataAsync: sequences of bytes
  ReadLength,  \* the lengths a client may pass to readDataAsync
  MaxWrites,   \* bound: writeDataAsync calls of each end
  MaxReads,    \* bound: readDataAsync calls of each end
  Resetters,   \* the ends whose caller resets the link
  MaxResets    \* bound: resetLink calls of each of those

ASSUME ClientAssumption ==
  /\ Message \subseteq Seq(Byte) /\ \A m \in Message : m # <<>>
  /\ ReadLength \subseteq 1 .. WordSize - 1
  /\ MaxWrites \in Nat /\ MaxReads \in Nat /\ MaxResets \in Nat

VARIABLES
  link,      \* the state of each end's GPIOAsyncLink and the objects it owns
  tx,        \* the level each end drives its wire to
  turn,      \* which end the clock ticks next
  client     \* what each end's caller is waiting for, and its calls so far

vars == <<link, tx, turn, client>>

End == {"A", "B"}
Peer(e) == IF e = "A" THEN "B" ELSE "A"

Init == /\ link = [e \in End |-> NewLink]
        /\ tx = [e \in End |-> 0]
        /\ turn = "A"
        /\ client = [e \in End |-> [ writing |-> FALSE, reading |-> FALSE,
                                     writes |-> 0, reads |-> 0, resets |-> 0,
                                     toSend |-> <<>> ]]

(* MultipleAsyncLinkClocker ticks the links in turn.                       *)
Clock(e) ==
  /\ turn = e
  /\ turn' = Peer(e)
  /\ tx' = [tx EXCEPT ![e] = Level(link[e], @)]
  /\ link' = [link EXCEPT ![e] = clock(@, tx[Peer(e)])]
  /\ UNCHANGED client

(* The caller asks for one transfer at a time in each direction. toSend is *)
(* the history of what it has asked to be sent.                            *)
Write(e, m) ==
  /\ e \in Writers
  /\ ~client[e].writing
  /\ client[e].writes < MaxWrites
  /\ link' = [link EXCEPT ![e] = writeDataAsync(@, m)]
  /\ client' = [client EXCEPT ![e].writing = sendDataOk(link[e]),
                              ![e].writes = @ + 1,
                              ![e].toSend = IF sendDataOk(link[e]) THEN @ \o m ELSE @]
  /\ UNCHANGED <<tx, turn>>

EndWrite(e) ==
  /\ client[e].writing
  /\ link[e].sendComplete
  /\ link' = [link EXCEPT ![e] = writeComplete(@)]
  /\ client' = [client EXCEPT ![e].writing = FALSE]
  /\ UNCHANGED <<tx, turn>>

Read(e, n) ==
  /\ e \in Readers
  /\ ~client[e].reading
  /\ client[e].reads < MaxReads
  /\ link' = [link EXCEPT ![e] = readDataAsync(@, n)]
  /\ client' = [client EXCEPT ![e].reading = TRUE, ![e].reads = @ + 1]
  /\ UNCHANGED <<tx, turn>>

EndRead(e) ==
  /\ client[e].reading
  /\ link[e].readComplete
  /\ link' = [link EXCEPT ![e] = readComplete(@)]
  /\ client' = [client EXCEPT ![e].reading = FALSE]
  /\ UNCHANGED <<tx, turn>>

Reset(e) ==
  /\ e \in Resetters
  /\ client[e].resets < MaxResets
  /\ link' = [link EXCEPT ![e] = resetLink(@)]
  /\ client' = [client EXCEPT ![e].writing = FALSE, ![e].reading = FALSE,
                              ![e].resets = @ + 1]
  /\ UNCHANGED <<tx, turn>>

Api(e) == \/ \E m \in Message : Write(e, m)
          \/ EndWrite(e)
          \/ \E n \in ReadLength : Read(e, n)
          \/ EndRead(e)
          \/ Reset(e)

Next == \E e \in End : Clock(e) \/ Api(e)

Spec == Init /\ [][Next]_vars

(* The clock never stops, and a caller that waits for a write polls it. *)
FairSpec == Spec /\ \A e \in End : WF_vars(Clock(e)) /\ WF_vars(EndWrite(e))

-----------------------------------------------------------------------------
Client ==
  [ writing : BOOLEAN, reading : BOOLEAN, writes : 0 .. MaxWrites,
    reads : 0 .. MaxReads, resets : 0 .. MaxResets, toSend : Seq(Byte) ]

(* The types; that a frame being sent has bits left, so that m_data and    *)
(* m_bits agree; and that no more than a byte is ever being received.      *)
TypeOK ==
  /\ link \in [End -> Link] /\ \A e \in End : LinkOK(link[e])
  /\ tx \in [End -> Bit]
  /\ turn \in End
  /\ client \in [End -> Client]

NoReset == \A e \in End : client[e].resets = 0

(* Whatever the two callers do, each wire is a first-in first-out channel  *)
(* of one byte from one DataAckSender to the other DataAckReceiver: the    *)
(* next frame is started only after the last has been received whole.      *)
AtoB == INSTANCE ByteChannel WITH accepted <- link["A"].framed, taken <- link["B"].received
BtoA == INSTANCE ByteChannel WITH accepted <- link["B"].framed, taken <- link["A"].received
ImplementsChannel == AtoB!Spec /\ BtoA!Spec

(* The receivers keep step with the frames on the wire: no stop bit is     *)
(* missed, and an ack is heard only for a data frame the other end has     *)
(* seen the start of.                                                      *)
WiresInStep ==
  NoReset => \A e \in End : /\ ~link[e].framing
                            /\ link[e].acks <= StartsSeen(link[Peer(e)])

(* A write is complete only when the other end has received every byte the *)
(* caller has asked to be sent.                                            *)
CompleteWhenReceived ==
  NoReset => \A e \in End : link[e].sendComplete => link[Peer(e)].received = client[e].toSend

(* gpioasynclink.cpp:276 - the sending process is rescheduled only when    *)
(* the ack of the final byte has been received, so that a write is         *)
(* complete only when all its bytes have been acknowledged.  The code does *)
(* this while the end that writes is sent nothing: an end that has an ack  *)
(* to send goes on after its data frame without the ack it is owed.        *)
CompleteAfterAck ==
  NoReset => \A e \in End : link[e].sendComplete => link[e].acks = Len(client[e].toSend)

(* gpioasynclink.h:137 - the send has timed out when data has been sent    *)
(* and no ack for it has been received.                                    *)
TimeoutOnlyWhenUnacked ==
  [][\A e \in End : ~link[e].timeout /\ link'[e].timeout
                      => link'[e].acks < Len(link'[e].framed)]_vars

(* While one end only reads, the end that writes never times out.          *)
NoTimeout == NoReset => \A e \in End : ~link[e].timeout

(* Every write that is accepted completes, or the status word says that it *)
(* has timed out.                                                          *)
WriteEnds ==
  \A e \in End : client[e].writing ~> ~client[e].writing \/ link[e].timeout
=============================================================================
