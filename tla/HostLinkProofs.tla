--------------------------- MODULE HostLinkProofs ---------------------------
(***************************************************************************)
(* Theorems about the links of a host: InMemoryLink, for every set of byte *)
(* values and every bound on the bytes written, and FIFOLink, for a FIFO   *)
(* of any size.                                                            *)
(***************************************************************************)
EXTENDS InMemoryLink, FIFOLink, SequenceTheorems, TLAPS

(* The link's variables keep their types: each register is a byte and a    *)
(* flag, and the histories are sequences of bytes.                         *)
THEOREM TypeCorrect == Spec => []TypeOK
<1>1. Init => TypeOK
  BY ByteAssumption DEF Init, TypeOK, Call
<1>2. TypeOK /\ [Next]_vars => TypeOK'
  <2> SUFFICES ASSUME TypeOK, [Next]_vars PROVE TypeOK'
    OBVIOUS
  <2> USE DEF TypeOK
  <2>1. CASE UNCHANGED vars
    BY <2>1 DEF vars
  <2>2. ASSUME NEW e \in End, CallReadByte(e) PROVE TypeOK'
    BY <2>2 DEF CallReadByte, Call
  <2>3. ASSUME NEW e \in End, NEW b \in Byte, CallWriteByte(e, b) PROVE TypeOK'
    BY <2>3 DEF CallWriteByte, Call
  <2>4. ASSUME NEW e \in End, read_maybe(e) PROVE TypeOK'
    <3>1. Peer(e) \in End
      BY DEF Peer, End
    <3>2. m_register[Peer(e)] \in Byte
      BY <3>1
    <3>3. Append(got[e], m_register[Peer(e)]) \in Seq(Byte)
      BY <3>2
    <3>4. QED
      BY <2>4, <3>1, <3>3 DEF read_maybe, Call
  <2>5. ASSUME NEW e \in End, write_maybe(e) PROVE TypeOK'
    <3>1. Append(wrote[e], bufstore[e]) \in Seq(Byte)
      OBVIOUS
    <3>2. QED
      BY <2>5, <3>1 DEF write_maybe, Call
  <2>6. QED
    BY <2>1, <2>2, <2>3, <2>4, <2>5 DEF Next
<1>3. QED
  BY <1>1, <1>2, PTL DEF Spec

-----------------------------------------------------------------------------
(* Peer is an involution on the two ends.                                  *)
LEMMA PeerFacts == \A e \in End : /\ Peer(e) \in End
                                  /\ Peer(e) # e
                                  /\ Peer(Peer(e)) = e
BY DEF Peer, End

(* Taking the byte in the slot moves it to the end of what was read.       *)
LEMMA TakeFromSlot ==
  ASSUME NEW S, NEW s \in Seq(S), NEW x \in S
  PROVE  s \o <<x>> = Append(s, x) \o <<>> /\ s \o <<x>> = Append(s, x)
OBVIOUS

(* Between one end's writeByte and the other's readByte no byte is lost,   *)
(* duplicated, reordered or altered, whatever the two threads do.          *)
THEOREM NoByteLost == Spec => []NothingLost
<1>1. Init => NothingLost
  BY PeerFacts DEF Init, NothingLost, Slot
<1>2. TypeOK /\ NothingLost /\ [Next]_vars => NothingLost'
  <2> SUFFICES ASSUME TypeOK, NothingLost, [Next]_vars, NEW d \in End
               PROVE  (wrote[d] = got[Peer(d)] \o Slot(d))'
    BY DEF NothingLost
  <2> USE PeerFacts
  <2>0. wrote[d] = got[Peer(d)] \o Slot(d)
    BY DEF NothingLost
  <2>1. CASE UNCHANGED vars
    BY <2>0, <2>1 DEF vars, Slot
  <2>2. ASSUME NEW e \in End, CallReadByte(e) PROVE (wrote[d] = got[Peer(d)] \o Slot(d))'
    BY <2>0, <2>2 DEF CallReadByte, Slot
  <2>3. ASSUME NEW e \in End, NEW b \in Byte, CallWriteByte(e, b)
        PROVE  (wrote[d] = got[Peer(d)] \o Slot(d))'
    BY <2>0, <2>3 DEF CallWriteByte, Slot
  <2>4. ASSUME NEW e \in End, read_maybe(e) PROVE (wrote[d] = got[Peer(d)] \o Slot(d))'
    <3>1. CASE Peer(e) = d
      <4>1. wrote[d] = got[e] \o <<m_register[d]>>
        BY <2>0, <2>4, <3>1 DEF read_maybe, Slot
      <4>2. got[e] \in Seq(Byte) /\ m_register[d] \in Byte
        BY DEF TypeOK
      <4>3. wrote[d] = Append(got[e], m_register[d]) \o <<>>
        BY <4>1, <4>2, TakeFromSlot
      <4>4. Slot(d)' = <<>> /\ got'[e] = Append(got[e], m_register[d]) /\ wrote' = wrote
        BY <2>4, <3>1 DEF read_maybe, Slot, TypeOK
      <4>5. QED
        BY <3>1, <4>3, <4>4
    <3>2. CASE Peer(e) # d
      BY <2>0, <2>4, <3>2 DEF read_maybe, Slot, TypeOK
    <3>3. QED
      BY <3>1, <3>2
  <2>5. ASSUME NEW e \in End, write_maybe(e) PROVE (wrote[d] = got[Peer(d)] \o Slot(d))'
    <3>1. CASE e = d
      <4>1. wrote[d] = got[Peer(d)] \o <<>>
        BY <2>0, <2>5, <3>1 DEF write_maybe, Slot
      <4>2. got[Peer(d)] \in Seq(Byte) /\ bufstore[d] \in Byte
        BY DEF TypeOK
      <4>3. wrote[d] = got[Peer(d)]
        BY <4>1, <4>2
      <4>4. Slot(d)' = <<bufstore[d]>> /\ wrote'[d] = Append(wrote[d], bufstore[d]) /\ got' = got
        BY <2>5, <3>1 DEF write_maybe, Slot, TypeOK
      <4>5. QED
        BY <4>2, <4>3, <4>4, TakeFromSlot
    <3>2. CASE e # d
      BY <2>0, <2>5, <3>2 DEF write_maybe, Slot, TypeOK
    <3>3. QED
      BY <3>1, <3>2
  <2>6. QED
    BY <2>1, <2>2, <2>3, <2>4, <2>5 DEF Next
<1>3. QED
  BY <1>1, <1>2, TypeCorrect, PTL DEF Spec

-----------------------------------------------------------------------------
(* A full slot is one byte more written than read, an empty one none.      *)
LEMMA SlotCounts ==
  ASSUME TypeOK, NothingLost, NEW d \in End
  PROVE  /\ m_storing[d] => /\ Len(wrote[d]) = Len(got[Peer(d)]) + 1
                            /\ wrote[d][Len(wrote[d])] = m_register[d]
         /\ ~m_storing[d] => Len(wrote[d]) = Len(got[Peer(d)])
<1>1. got[Peer(d)] \in Seq(Byte) /\ m_register[d] \in Byte
  BY PeerFacts DEF TypeOK
<1>2. wrote[d] = got[Peer(d)] \o Slot(d)
  BY DEF NothingLost
<1>3. CASE m_storing[d]
  <2>1. wrote[d] = Append(got[Peer(d)], m_register[d])
    BY <1>1, <1>2, <1>3, TakeFromSlot DEF Slot
  <2>2. QED
    BY <1>1, <1>3, <2>1
<1>4. CASE ~m_storing[d]
  <2>1. wrote[d] = got[Peer(d)]
    BY <1>1, <1>2, <1>4 DEF Slot
  <2>2. QED
    BY <1>1, <1>4, <2>1
<1>5. QED
  BY <1>3, <1>4

(* One step of the pair is a step of the channel from d to its peer, or    *)
(* leaves that channel alone.                                              *)
LEMMA StepOfOneDirection ==
  ASSUME TypeOK, NothingLost, [Next]_vars, NEW d \in End
  PROVE  \/ UNCHANGED <<wrote[d], got[Peer(d)]>>
         \/ \E b \in Byte : /\ Len(wrote[d]) = Len(got[Peer(d)])
                            /\ wrote'[d] = Append(wrote[d], b)
                            /\ UNCHANGED got[Peer(d)]
         \/ /\ Len(got[Peer(d)]) < Len(wrote[d])
            /\ got'[Peer(d)] = Append(got[Peer(d)], wrote[d][Len(wrote[d])])
            /\ UNCHANGED wrote[d]
<1> USE PeerFacts DEF TypeOK
<1>1. CASE UNCHANGED vars
  BY <1>1 DEF vars
<1>2. ASSUME NEW e \in End, CallReadByte(e) PROVE UNCHANGED <<wrote[d], got[Peer(d)]>>
  BY <1>2 DEF CallReadByte
<1>3. ASSUME NEW e \in End, NEW b \in Byte, CallWriteByte(e, b)
      PROVE  UNCHANGED <<wrote[d], got[Peer(d)]>>
  BY <1>3 DEF CallWriteByte
<1>4. ASSUME NEW e \in End, write_maybe(e)
      PROVE  \/ UNCHANGED <<wrote[d], got[Peer(d)]>>
             \/ /\ Len(wrote[d]) = Len(got[Peer(d)])
                /\ wrote'[d] = Append(wrote[d], bufstore[d])
                /\ UNCHANGED got[Peer(d)]
  BY <1>4, SlotCounts DEF write_maybe
<1>5. ASSUME NEW e \in End, read_maybe(e)
      PROVE  \/ UNCHANGED <<wrote[d], got[Peer(d)]>>
             \/ /\ Len(got[Peer(d)]) < Len(wrote[d])
                /\ got'[Peer(d)] = Append(got[Peer(d)], wrote[d][Len(wrote[d])])
                /\ UNCHANGED wrote[d]
  <2>1. Len(got[Peer(d)]) \in Nat
    OBVIOUS
  <2>2. CASE e = Peer(d)
    BY <1>5, <2>1, <2>2, SlotCounts DEF read_maybe
  <2>3. CASE e # Peer(d)
    BY <1>5, <2>3 DEF read_maybe
  <2>4. QED
    BY <2>2, <2>3
<1>6. QED
  BY <1>1, <1>2, <1>3, <1>4, <1>5 DEF Next

(* Each direction of the pair implements the one-byte channel.             *)
THEOREM Refinement == Spec => ImplementsChannel
<1>1. Init => AtoB!Init /\ BtoA!Init
  BY DEF Init, AtoB!Init, BtoA!Init, End
<1>2. TypeOK /\ NothingLost /\ [Next]_vars => [AtoB!Next]_(AtoB!chanVars)
  <2> SUFFICES ASSUME TypeOK, NothingLost, [Next]_vars
               PROVE  [AtoB!Next]_(AtoB!chanVars)
    OBVIOUS
  <2>1. "A" \in End /\ Peer("A") = "B"
    BY DEF End, Peer
  <2>2. QED
    BY <2>1, StepOfOneDirection DEF AtoB!Next, AtoB!Accept, AtoB!Take, AtoB!chanVars
<1>3. TypeOK /\ NothingLost /\ [Next]_vars => [BtoA!Next]_(BtoA!chanVars)
  <2> SUFFICES ASSUME TypeOK, NothingLost, [Next]_vars
               PROVE  [BtoA!Next]_(BtoA!chanVars)
    OBVIOUS
  <2>1. "B" \in End /\ Peer("B") = "A"
    BY DEF End, Peer
  <2>2. QED
    BY <2>1, StepOfOneDirection DEF BtoA!Next, BtoA!Accept, BtoA!Take, BtoA!chanVars
<1>4. QED
  BY <1>1, <1>2, <1>3, TypeCorrect, NoByteLost, PTL
     DEF Spec, ImplementsChannel, AtoB!Spec, BtoA!Spec

-----------------------------------------------------------------------------
(* The FIFOs of two programs.  Descriptor(s, n) is the one that s has for  *)
(* the FIFO with the name n.                                               *)

FD == Fifo \cup {None}
SystemCall == {<<"off">>, <<"close">>, <<"running">>}
                \cup ({"stat", "mkfifo", "check", "open", "unlink"} \X Name)
Program == [next : SystemCall, myReadFD : FD, myWriteFD : FD]
FIFOType ==
  /\ fifo \in [Name -> FD]
  /\ pipe \in [Fifo -> Seq(Side)]
  /\ side \in [Side -> Program]
  /\ unlinked \in [Side -> BOOLEAN]

DescriptorOf(s, p, n) == IF (s = "cpu") = (n = "read") THEN p.myReadFD ELSE p.myWriteFD
Descriptor(s, n) == DescriptorOf(s, side[s], n)

(* The FIFOs that a name stands for or has stood for, and who writes to    *)
(* them.                                                                   *)
Of(n) == {f \in Fifo : f = fifo[n] \/ \E s \in Side : f = Descriptor(s, n)}
Writer(n) == IF n = "read" THEN "server" ELSE "cpu"

(* A program that runs has both descriptors; one that has not begun has    *)
(* none, nor one that has closed them; one that has opened "read" has that *)
(* one.                                                                    *)
HasOpened(s, p) ==
  /\ p.next = <<"running">> => DescriptorOf(s, p, "read") # None /\ DescriptorOf(s, p, "write") # None
  /\ p.next = <<"open", "write">> => DescriptorOf(s, p, "read") # None
  /\ p.next \in {<<"off">>, <<"unlink", "read">>, <<"unlink", "write">>} =>
       p.myReadFD = None /\ p.myWriteFD = None

Current(s, n) == ~unlinked[s] /\ Descriptor(s, n) # None => Descriptor(s, n) = fifo[n]

FIFOInv ==
  /\ FIFOType
  /\ \A s \in Side : HasOpened(s, side[s])
  /\ Of("read") \cap Of("write") = {}
  /\ \A n \in Name : \A f \in Of(n) : pipe[f] \in Seq({Writer(n)})
  /\ \A s \in Side, n \in Name : Current(s, n)

LEMMA CallsDiffer ==
  /\ <<"off">> # <<"running">> /\ <<"close">> # <<"running">> /\ <<"close">> # <<"off">>
  /\ \A a, b : <<a, b>> # <<"off">> /\ <<a, b>> # <<"running">> /\ <<a, b>> # <<"close">>
  /\ \A a, b, c, d : <<a, b>> = <<c, d>> => a = c /\ b = d
  OBVIOUS

LEMMA Descriptors ==
  ASSUME FIFOType, NEW s \in Side, NEW p \in Program, side' = [side EXCEPT ![s] = p]
  PROVE  /\ side' \in [Side -> Program] /\ side'[s] = p
         /\ \A t \in Side \ {s} : side'[t] = side[t]
         /\ \A t \in Side, n \in Name :
              Descriptor(t, n)' = IF t = s THEN DescriptorOf(s, p, n) ELSE Descriptor(t, n)
  BY DEF FIFOType, Descriptor, DescriptorOf

(* A program goes on to another call, or loses descriptors.                *)
Loses(s, p) ==
  /\ p \in Program /\ HasOpened(s, p)
  /\ p.myReadFD \in {side[s].myReadFD, None} /\ p.myWriteFD \in {side[s].myWriteFD, None}

LEMMA Kept ==
  ASSUME FIFOInv, NEW s \in Side, NEW p, Loses(s, p), side' = [side EXCEPT ![s] = p],
         UNCHANGED <<fifo, pipe>>, unlinked' \in [Side -> BOOLEAN],
         \A t \in Side : ~unlinked'[t] =>
           ~unlinked[t] \/ (t = s /\ p.myReadFD = None /\ p.myWriteFD = None)
  PROVE  FIFOInv'
<1>. p \in Program
  BY DEF Loses
<1>1. /\ side' \in [Side -> Program] /\ side'[s] = p
      /\ \A t \in Side \ {s} : side'[t] = side[t]
      /\ \A t \in Side, n \in Name :
              Descriptor(t, n)' = IF t = s THEN DescriptorOf(s, p, n) ELSE Descriptor(t, n)
  BY Descriptors, Zenon DEF FIFOInv
<1>2. \A t \in Side, n \in Name : Descriptor(t, n)' \in {Descriptor(t, n), None}
  BY <1>1 DEF Loses, Descriptor, DescriptorOf
<1>3. FIFOType'
  BY <1>1 DEF FIFOInv, FIFOType
<1>4. ASSUME NEW t \in Side PROVE HasOpened(t, side[t])'
  BY <1>1 DEF FIFOInv, Loses, HasOpened, DescriptorOf
<1>5. ASSUME NEW n \in Name PROVE Of(n)' \subseteq Of(n)
  BY <1>2 DEF Of, None, Fifo
<1>6. ASSUME NEW t \in Side, NEW n \in Name PROVE Current(t, n)'
  <2>1. Current(t, n)
    BY DEF FIFOInv
  <2>2. CASE ~unlinked[t]
    BY <1>2, <2>1, <2>2 DEF Current
  <2>3. CASE t = s /\ p.myReadFD = None /\ p.myWriteFD = None
    BY <1>1, <2>3 DEF Current, DescriptorOf
  <2>. QED
    BY <2>2, <2>3 DEF Current
<1>7. (Of("read") \cap Of("write") = {})'
  BY <1>5 DEF FIFOInv, Name
<1>8. \A n \in Name : \A f \in Of(n)' : pipe'[f] \in Seq({Writer(n)})
  BY <1>5 DEF FIFOInv
<1>. QED
  BY <1>3, <1>4, <1>6, <1>7, <1>8 DEF FIFOInv

(* The same call for a program that keeps its descriptors.                 *)
LEMMA GoesOn ==
  ASSUME FIFOInv, NEW s \in Side, NEW syscall \in SystemCall, GoesTo(s, syscall),
         syscall \notin {<<"running">>, <<"off">>, <<"unlink", "read">>, <<"unlink", "write">>},
         syscall = <<"open", "write">> => Descriptor(s, "read") # None,
         UNCHANGED <<fifo, pipe, unlinked>>
  PROVE  FIFOInv'
<1>. DEFINE p == [side[s] EXCEPT !.next = syscall]
<1>1. Loses(s, p) /\ side' = [side EXCEPT ![s] = p]
  BY DEF FIFOInv, FIFOType, Loses, GoesTo, Program, HasOpened, DescriptorOf, Descriptor
<1>2. /\ UNCHANGED <<fifo, pipe>> /\ unlinked' \in [Side -> BOOLEAN]
      /\ \A t \in Side : ~unlinked'[t] => ~unlinked[t]
  BY DEF FIFOInv, FIFOType
<1>. HIDE DEF p
<1>. QED
  BY <1>1, <1>2, Kept, Zenon

(* A program ends, with or without removing the FIFOs.                     *)
LEMMA Ends ==
  ASSUME FIFOInv, NEW s \in Side, NEW syscall \in SystemCall,
         syscall \in {<<"off">>, <<"close">>, <<"unlink", "read">>},
         side' = [side EXCEPT ![s] = [Off EXCEPT !.next = syscall]],
         UNCHANGED <<fifo, pipe, unlinked>>
  PROVE  FIFOInv'
<1>. DEFINE p == [Off EXCEPT !.next = syscall]
<1>1. Loses(s, p)
  BY CallsDiffer DEF Loses, Off, Program, FD, HasOpened
<1>2. /\ UNCHANGED <<fifo, pipe>> /\ unlinked' \in [Side -> BOOLEAN]
      /\ \A t \in Side : ~unlinked'[t] => ~unlinked[t]
  BY DEF FIFOInv, FIFOType
<1>. HIDE DEF p
<1>. QED
  BY <1>1, <1>2, Kept, Zenon DEF p

LEMMA CallTypes ==
  /\ \A n \in Name : {<<"stat", n>>, <<"mkfifo", n>>, <<"check", n>>, <<"open", n>>, <<"unlink", n>>} \subseteq SystemCall
  /\ {<<"off">>, <<"close">>, <<"running">>} \subseteq SystemCall
  /\ "read" \in Name /\ "write" \in Name
  BY DEF SystemCall, Name

LEMMA CleansUpKeeps ==
  ASSUME FIFOInv, CleansUp, UNCHANGED <<fifo, pipe, unlinked>>
  PROVE  FIFOInv'
<1>1. <<"close">> # <<"open", "write">>
  BY CallsDiffer
<1>2. GoesTo("server", <<"close">>) /\ "server" \in Side
  BY DEF CleansUp, GoesTo, Side
<1>. QED
  BY <1>1, <1>2, GoesOn, CallTypes, CallsDiffer

LEMMA ThrowsKeeps ==
  ASSUME FIFOInv, NEW s \in Side, Throws(s), UNCHANGED <<fifo, pipe, unlinked>>
  PROVE  FIFOInv'
<1>1. CASE s = "server"
  BY <1>1, CleansUpKeeps DEF Throws
<1>2. CASE s # "server"
  <2>1. side' = [side EXCEPT !["cpu"] = Off] /\ "cpu" \in Side
    BY <1>2 DEF Throws, SetupFails, Side
  <2>2. Off = [Off EXCEPT !.next = <<"off">>]
    BY DEF Off
  <2>. QED
    BY <2>1, <2>2, Ends, CallTypes, Zenon
<1>. QED
  BY <1>1, <1>2

-----------------------------------------------------------------------------
LEMMA BeginsStep ==
  ASSUME FIFOInv, NEW s \in Side, Begins(s)
  PROVE  FIFOInv'
<1>. DEFINE syscall == <<"stat", "read">>
            p == [side[s] EXCEPT !.next = syscall]
<1>1. /\ syscall \in SystemCall
      /\ syscall \notin {<<"running">>, <<"off">>, <<"unlink", "read">>, <<"unlink", "write">>, <<"open", "write">>}
  BY DEF SystemCall, Name
<1>2. side' = [side EXCEPT ![s].next = syscall] /\ side[s].next = <<"off">>
  BY DEF Begins, GoesTo, At
<1>3. side' = [side EXCEPT ![s] = p] /\ UNCHANGED <<fifo, pipe>>
  BY <1>2 DEF Begins, FIFOInv, FIFOType
<1>. HIDE DEF syscall
<1>4. Loses(s, p) /\ p.myReadFD = None /\ p.myWriteFD = None
  <2>1. side[s] \in Program /\ side[s].myReadFD = None /\ side[s].myWriteFD = None
    <3>1. side[s].next \in {<<"off">>, <<"unlink", "read">>, <<"unlink", "write">>}
      BY <1>2
    <3>2. HasOpened(s, side[s]) /\ side[s] \in Program
      BY DEF FIFOInv, FIFOType
    <3>. QED
      BY <3>1, <3>2 DEF HasOpened
  <2>2. p \in Program /\ p.next = syscall /\ p.myReadFD = None /\ p.myWriteFD = None
    BY <1>1, <2>1 DEF Program
  <2>. HIDE DEF p
  <2>. QED
    BY <1>1, <2>2 DEF Loses, HasOpened
<1>5. /\ unlinked' \in [Side -> BOOLEAN]
      /\ \A t \in Side : ~unlinked'[t] => ~unlinked[t] \/ t = s
  BY DEF Begins, FIFOInv, FIFOType
<1>. HIDE DEF p
<1>. QED
  BY <1>3, <1>4, <1>5, Kept, Zenon

LEMMA StatStep ==
  ASSUME FIFOInv, NEW s \in Side, NEW n \in Name, Stat(s, n) \/ Check(s, n)
  PROVE  FIFOInv'
<1>1. UNCHANGED <<fifo, pipe, unlinked>> /\ (GoesTo(s, <<"mkfifo", n>>) \/ GoesTo(s, NextName(n)))
  BY DEF Stat, Check
<1>2. NextName(n) \in {<<"stat", "write">>, <<"open", "read">>}
  BY DEF NextName
<1>3. /\ \A syscall \in {<<"mkfifo", n>>, <<"stat", "write">>, <<"open", "read">>} :
           /\ syscall \in SystemCall /\ syscall # <<"running">> /\ syscall # <<"off">>
           /\ syscall # <<"open", "write">>
  BY DEF SystemCall, Name
<1>. QED
  BY <1>1, <1>2, <1>3, GoesOn

LEMMA FailStep ==
  ASSUME FIFOInv, NEW s \in Side, NEW n \in Name, MkfifoFails(s, n) \/ Gone(s, n)
  PROVE  FIFOInv'
  BY ThrowsKeeps DEF MkfifoFails, Gone

LEMMA EndStep ==
  ASSUME FIFOInv, EmulationEnds \/ ServerEnds \/ interruptHandler
  PROVE  FIFOInv'
<1>1. CASE EmulationEnds
  <2>1. GoesTo("cpu", <<"close">>) /\ "cpu" \in Side /\ UNCHANGED <<fifo, pipe, unlinked>>
    BY <1>1 DEF EmulationEnds, Side
  <2>2. <<"close">> # <<"open", "write">>
    BY CallsDiffer
  <2>. QED
    BY <2>1, <2>2, GoesOn, CallTypes, CallsDiffer
<1>2. CASE ServerEnds \/ interruptHandler
  BY <1>2, CleansUpKeeps DEF ServerEnds, interruptHandler
<1>. QED
  BY <1>1, <1>2

LEMMA CloseStep ==
  ASSUME FIFOInv, NEW s \in Side, Close(s) \/ Dies(s)
  PROVE  FIFOInv'
<1>1. Off = [Off EXCEPT !.next = <<"off">>]
  BY DEF Off
<1>2. /\ side' = [side EXCEPT ![s] = [Off EXCEPT !.next = <<"unlink", "read">>]]
         \/ side' = [side EXCEPT ![s] = Off]
      /\ UNCHANGED <<fifo, pipe, unlinked>>
  BY DEF Close, Dies
<1>3. <<"unlink", "read">> \in SystemCall /\ <<"off">> \in SystemCall
  BY CallTypes, Zenon
<1>. QED
  BY <1>1, <1>2, <1>3, Ends, Zenon

(* mkfifo takes a number that no name or descriptor has: there is one, for *)
(* the name that it is for has none.                                       *)
LEMMA NewFifo ==
  ASSUME FIFOInv, NEW n \in Name, fifo[n] = None
  PROVE  LET f == CHOOSE f \in Fifo : ~InUse(f)
         IN f \in Fifo /\ f \notin Of("read") /\ f \notin Of("write")
<1>1. Name = {"read", "write"} /\ Side = {"cpu", "server"}
  BY DEF Name, Side
<1>2. \E f \in Fifo : ~InUse(f)
  <2>1. PICK m \in Name : m # n
    BY <1>1
  <2>. DEFINE used == {fifo[m], side["cpu"].myReadFD, side["cpu"].myWriteFD,
                       side["server"].myReadFD, side["server"].myWriteFD}
  <2>2. {1, 2, 3, 4, 5, 6} \subseteq Fifo /\ None \notin Fifo
    BY DEF Fifo, None
  <2>3. \A f \in Fifo : InUse(f) => f \in used
    BY <1>1, <2>1, <2>2 DEF InUse
  <2>4. ~({1, 2, 3, 4, 5, 6} \subseteq used)
    <3>. DEFINE a == fifo[m]
                b == side["cpu"].myReadFD
                c == side["cpu"].myWriteFD
                d == side["server"].myReadFD
                e == side["server"].myWriteFD
    <3>. HIDE DEF a, b, c, d, e
    <3>1. ~({1, 2, 3, 4, 5, 6} \subseteq {a, b, c, d, e})
      OBVIOUS
    <3>. QED
      BY <3>1 DEF a, b, c, d, e
  <2>. QED
    BY <2>2, <2>3, <2>4
<1>. DEFINE f == CHOOSE f \in Fifo : ~InUse(f)
<1>3. f \in Fifo /\ ~InUse(f)
  BY <1>2
<1>. HIDE DEF f
<1>. QED
  BY <1>1, <1>3 DEF InUse, Of, Descriptor, DescriptorOf, f

(* A step of s that keeps its descriptors.                                 *)
LEMMA SameDescriptors ==
  ASSUME FIFOType, NEW s \in Side, NEW syscall \in SystemCall, GoesTo(s, syscall)
  PROVE  /\ side' \in [Side -> Program] /\ side'[s].next = syscall
         /\ \A t \in Side \ {s} : side'[t] = side[t]
         /\ \A t \in Side, n \in Name : Descriptor(t, n)' = Descriptor(t, n)
         /\ side'[s].myReadFD = side[s].myReadFD /\ side'[s].myWriteFD = side[s].myWriteFD
  BY DEF FIFOType, GoesTo, Program, Descriptor, DescriptorOf

LEMMA MkfifoStep ==
  ASSUME FIFOInv, NEW s \in Side, NEW n \in Name, Mkfifo(s, n)
  PROVE  FIFOInv'
<1>. DEFINE f == CHOOSE f \in Fifo : ~InUse(f)
<1>1. /\ fifo[n] = None /\ GoesTo(s, <<"check", n>>)
      /\ fifo' = [fifo EXCEPT ![n] = f] /\ pipe' = [pipe EXCEPT ![f] = <<>>] /\ unlinked' = unlinked
  BY DEF Mkfifo
<1>2. f \in Fifo /\ f \notin Of("read") /\ f \notin Of("write")
  BY <1>1, NewFifo, Zenon
<1>. HIDE DEF f
<1>. DEFINE syscall == <<"check", n>>
<1>3. /\ syscall \in SystemCall
      /\ syscall \notin {<<"running">>, <<"off">>, <<"unlink", "read">>, <<"unlink", "write">>, <<"open", "write">>}
  BY DEF SystemCall
<1>4. GoesTo(s, syscall)
  BY <1>1
<1>. HIDE DEF syscall
<1>5. /\ side' \in [Side -> Program] /\ side'[s].next = syscall
      /\ \A t \in Side \ {s} : side'[t] = side[t]
      /\ \A t \in Side, m \in Name : Descriptor(t, m)' = Descriptor(t, m)
  BY <1>3, <1>4, SameDescriptors DEF FIFOInv
<1>6. /\ fifo' \in [Name -> FD] /\ fifo'[n] = f /\ \A m \in Name \ {n} : fifo'[m] = fifo[m]
      /\ pipe' \in [Fifo -> Seq(Side)] /\ pipe'[f] = <<>>
      /\ \A g \in Fifo \ {f} : pipe'[g] = pipe[g]
  BY <1>1, <1>2 DEF FIFOInv, FIFOType, FD
<1>7. FIFOType'
  BY <1>1, <1>5, <1>6 DEF FIFOInv, FIFOType
<1>8. ASSUME NEW t \in Side PROVE HasOpened(t, side[t])'
  <2>1. CASE t = s
    BY <1>3, <1>5, <2>1 DEF HasOpened
  <2>2. CASE t # s
    BY <1>5, <2>2, Zenon DEF FIFOInv
  <2>. QED
    BY <2>1, <2>2
<1>9. /\ Of(n)' \subseteq Of(n) \cup {f}
      /\ \A m \in Name \ {n} : Of(m)' \subseteq Of(m)
  BY <1>5, <1>6 DEF Of
<1>10. (Of("read") \cap Of("write") = {})'
  BY <1>2, <1>9 DEF FIFOInv, Name
<1>11. \A m \in Name : \A g \in Of(m)' : pipe'[g] \in Seq({Writer(m)})
  <2>. SUFFICES ASSUME NEW m \in Name, NEW g \in Of(m)' PROVE pipe'[g] \in Seq({Writer(m)})
    OBVIOUS
  <2>1. CASE g = f
    <3>1. <<>> \in Seq({Writer(m)})
      OBVIOUS
    <3>2. pipe'[f] = <<>>
      BY <1>6
    <3>. QED
      BY <2>1, <3>1, <3>2, Zenon
  <2>2. CASE g # f
    <3>1. g \in Of(m) /\ g \in Fifo
      BY <1>9, <2>2 DEF Of
    <3>. QED
      BY <1>6, <2>2, <3>1 DEF FIFOInv
  <2>. QED
    BY <2>1, <2>2
<1>12. ASSUME NEW t \in Side, NEW m \in Name PROVE Current(t, m)'
  <2>1. Current(t, m)
    BY DEF FIFOInv
  <2>. QED
    BY <1>1, <1>5, <1>6, <2>1 DEF Current
<1>. QED
  BY <1>7, <1>8, <1>10, <1>11, <1>12 DEF FIFOInv

LEMMA OpenStep ==
  ASSUME FIFOInv, NEW s \in Side, NEW n \in Name, Open(s, n)
  PROVE  FIFOInv'
<1>. DEFINE p == Opened(s, n)
<1>1. /\ side' = [side EXCEPT ![s] = p] /\ UNCHANGED <<fifo, pipe, unlinked>>
      /\ fifo[n] # None /\ side[s].next = <<"open", n>> /\ HasOpened(s, side[s]) /\ FIFOType
  BY DEF Open, At, FIFOInv
<1>2. /\ p \in Program /\ DescriptorOf(s, p, n) = fifo[n]
      /\ \A m \in Name \ {n} : DescriptorOf(s, p, m) = Descriptor(s, m)
      /\ n = "read" => p.next = <<"open", "write">>
      /\ n # "read" => p.next = <<"running">>
  <2>1. <<"open", "write">> \in SystemCall /\ <<"running">> \in SystemCall
    BY DEF SystemCall, Name
  <2>2. side[s] \in Program /\ fifo[n] \in FD
    BY <1>1 DEF FIFOType
  <2>. DEFINE syscall == IF n = "read" THEN <<"open", "write">> ELSE <<"running">>
              q == [side[s] EXCEPT !.next = syscall]
  <2>3. q \in Program /\ q.next = syscall /\ q.myReadFD = side[s].myReadFD /\ q.myWriteFD = side[s].myWriteFD
    BY <2>1, <2>2 DEF Program
  <2>4. p = IF (s = "cpu") = (n = "read") THEN [q EXCEPT !.myReadFD = fifo[n]] ELSE [q EXCEPT !.myWriteFD = fifo[n]]
    BY DEF Opened
  <2>. HIDE DEF p, q
  <2>5. /\ p \in Program /\ p.next = syscall
        /\ (s = "cpu") = (n = "read") => p.myReadFD = fifo[n] /\ p.myWriteFD = side[s].myWriteFD
        /\ ~((s = "cpu") = (n = "read")) => p.myWriteFD = fifo[n] /\ p.myReadFD = side[s].myReadFD
    <3>. HIDE DEF syscall
    <3>. QED
      BY <2>2, <2>3, <2>4 DEF Program
  <2>6. n \in {"read", "write"} /\ s \in {"cpu", "server"}
    BY DEF Name, Side
  <2>. QED
    BY <2>5, <2>6 DEF DescriptorOf, Descriptor, Name
<1>. HIDE DEF p
<1>3. HasOpened(s, p)
  <2>1. CASE n = "read"
    <3>1. p.next \notin {<<"running">>, <<"off">>, <<"unlink", "read">>, <<"unlink", "write">>}
      BY <1>2, <2>1
    <3>. QED
      BY <1>1, <1>2, <2>1, <3>1 DEF HasOpened
  <2>2. CASE n = "write"
    <3>1. p.next \notin {<<"open", "write">>, <<"off">>, <<"unlink", "read">>, <<"unlink", "write">>}
      BY <1>2, <2>2
    <3>2. DescriptorOf(s, p, "read") # None
      BY <1>1, <1>2, <2>2 DEF HasOpened, Descriptor, Name
    <3>. QED
      BY <1>1, <1>2, <2>2, <3>1, <3>2 DEF HasOpened
  <2>. QED
    BY <2>1, <2>2 DEF Name
<1>4. /\ side' \in [Side -> Program] /\ side'[s] = p
      /\ \A t \in Side \ {s} : side'[t] = side[t]
      /\ \A t \in Side, m \in Name :
           Descriptor(t, m)' = IF t = s THEN DescriptorOf(s, p, m) ELSE Descriptor(t, m)
  BY <1>1, <1>2, Descriptors, Zenon
<1>5. FIFOType'
  BY <1>1, <1>4 DEF FIFOType
<1>6. ASSUME NEW t \in Side PROVE HasOpened(t, side[t])'
  BY <1>3, <1>4 DEF FIFOInv, HasOpened
<1>7. ASSUME NEW m \in Name PROVE Of(m)' \subseteq Of(m)
  BY <1>1, <1>2, <1>4 DEF Of
<1>8. (Of("read") \cap Of("write") = {})'
  BY <1>7 DEF FIFOInv, Name
<1>9. \A m \in Name : \A f \in Of(m)' : pipe'[f] \in Seq({Writer(m)})
  BY <1>1, <1>7 DEF FIFOInv
<1>10. ASSUME NEW t \in Side, NEW m \in Name PROVE Current(t, m)'
  <2>1. Current(t, m)
    BY DEF FIFOInv
  <2>. QED
    BY <1>1, <1>2, <1>4, <2>1 DEF Current
<1>. QED
  BY <1>5, <1>6, <1>8, <1>9, <1>10 DEF FIFOInv

LEMMA UnlinkStep ==
  ASSUME FIFOInv, NEW s \in Side, NEW n \in Name, Unlink(s, n)
  PROVE  FIFOInv'
<1>. DEFINE syscall == IF n = "read" THEN <<"unlink", "write">> ELSE <<"off">>
<1>1. /\ side[s].next = <<"unlink", n>> /\ GoesTo(s, syscall) /\ pipe' = pipe
      /\ fifo' = [fifo EXCEPT ![n] = None]
      /\ unlinked' = [t \in Side |-> unlinked[t] \/ fifo[n] # None]
  BY DEF Unlink, At
<1>2. syscall \in SystemCall /\ syscall \notin {<<"running">>, <<"open", "write">>}
  BY DEF SystemCall, Name
<1>. HIDE DEF syscall
<1>3. side[s].myReadFD = None /\ side[s].myWriteFD = None
  <2>1. side[s].next \in {<<"unlink", "read">>, <<"unlink", "write">>}
    BY <1>1 DEF Name
  <2>. QED
    BY <2>1 DEF FIFOInv, HasOpened
<1>4. /\ side' \in [Side -> Program] /\ side'[s].next = syscall
      /\ \A t \in Side \ {s} : side'[t] = side[t]
      /\ \A t \in Side, m \in Name : Descriptor(t, m)' = Descriptor(t, m)
      /\ side'[s].myReadFD = None /\ side'[s].myWriteFD = None
  BY <1>1, <1>2, <1>3, SameDescriptors DEF FIFOInv
<1>5. /\ fifo' \in [Name -> FD] /\ fifo'[n] = None /\ \A m \in Name \ {n} : fifo'[m] = fifo[m]
      /\ unlinked' \in [Side -> BOOLEAN]
      /\ \A t \in Side : ~unlinked'[t] => ~unlinked[t] /\ fifo[n] = None
  <2>1. fifo \in [Name -> FD] /\ unlinked \in [Side -> BOOLEAN] /\ None \in FD
    BY DEF FIFOInv, FIFOType, FD
  <2>2. unlinked' \in [Side -> BOOLEAN] /\ \A t \in Side : unlinked'[t] = (unlinked[t] \/ fifo[n] # None)
    BY <1>1, <2>1
  <2>3. fifo' \in [Name -> FD] /\ fifo'[n] = None /\ \A m \in Name \ {n} : fifo'[m] = fifo[m]
    BY <1>1, <2>1
  <2>. QED
    BY <2>2, <2>3
<1>6. FIFOType'
  BY <1>1, <1>4, <1>5 DEF FIFOInv, FIFOType
<1>7. ASSUME NEW t \in Side PROVE HasOpened(t, side[t])'
  <2>1. CASE t = s
    BY <1>2, <1>4, <2>1 DEF HasOpened
  <2>2. CASE t # s
    BY <1>4, <2>2, Zenon DEF FIFOInv
  <2>. QED
    BY <2>1, <2>2
<1>8. ASSUME NEW m \in Name PROVE Of(m)' \subseteq Of(m)
  BY <1>4, <1>5 DEF Of, Fifo, None
<1>9. (Of("read") \cap Of("write") = {})'
  BY <1>8 DEF FIFOInv, Name
<1>10. \A m \in Name : \A f \in Of(m)' : pipe'[f] \in Seq({Writer(m)})
  BY <1>1, <1>8 DEF FIFOInv
<1>11. ASSUME NEW t \in Side, NEW m \in Name PROVE Current(t, m)'
  <2>1. Current(t, m)
    BY DEF FIFOInv
  <2>. QED
    BY <1>4, <1>5, <2>1 DEF Current
<1>. QED
  BY <1>6, <1>7, <1>9, <1>10, <1>11 DEF FIFOInv

LEMMA BytesStep ==
  ASSUME FIFOInv, NEW s \in Side, readByte(s) \/ writeByte(s)
  PROVE  FIFOInv'
<1>1. /\ UNCHANGED <<fifo, side, unlinked>> /\ side[s].next = <<"running">>
      /\ FIFOType /\ HasOpened(s, side[s])
  BY DEF readByte, writeByte, At, FIFOInv
<1>2. /\ Descriptor(s, "read") # None /\ Descriptor(s, "write") # None
      /\ side[s].myReadFD \in FD /\ side[s].myWriteFD \in FD
  BY <1>1 DEF HasOpened, Descriptor, FIFOType, Program
<1>3. side[s].myReadFD \in Fifo /\ side[s].myWriteFD \in Fifo
  BY <1>2 DEF Descriptor, DescriptorOf, FD
<1>4. PICK f \in Fifo : /\ \A g \in Fifo \ {f} : pipe'[g] = pipe[g]
                        /\ pipe' \in [Fifo -> Seq(Side)]
                        /\ \A n \in Name : f \in Of(n) => pipe'[f] \in Seq({Writer(n)})
  <2>1. CASE readByte(s)
    <3>. DEFINE f == side[s].myReadFD
    <3>1. pipe[f] # <<>> /\ pipe' = [pipe EXCEPT ![f] = Tail(pipe[f])] /\ pipe \in [Fifo -> Seq(Side)]
      BY <1>1, <2>1 DEF readByte, FIFOType
    <3>2. \A S : pipe[f] \in Seq(S) => Tail(pipe[f]) \in Seq(S)
      BY <3>1
    <3>3. Tail(pipe[f]) \in Seq(Side)
      BY <1>3, <3>1, <3>2
    <3>4. pipe' \in [Fifo -> Seq(Side)] /\ pipe'[f] = Tail(pipe[f]) /\ \A g \in Fifo \ {f} : pipe'[g] = pipe[g]
      BY <1>3, <3>1, <3>3
    <3>5. f \in Fifo /\ \A n \in Name : f \in Of(n) => pipe'[f] \in Seq({Writer(n)})
      BY <1>3, <3>2, <3>4 DEF FIFOInv
    <3>. HIDE DEF f
    <3>. QED
      BY <3>4, <3>5, Zenon
  <2>2. CASE writeByte(s)
    <3>. DEFINE f == side[s].myWriteFD
                n == IF s = "cpu" THEN "write" ELSE "read"
    <3>1. pipe' = [pipe EXCEPT ![f] = Append(pipe[f], s)] /\ pipe \in [Fifo -> Seq(Side)]
      BY <1>1, <2>2 DEF writeByte, FIFOType
    <3>2. pipe[f] \in Seq(Side)
      BY <1>3, <3>1
    <3>3. pipe' \in [Fifo -> Seq(Side)] /\ pipe'[f] = Append(pipe[f], s) /\ \A g \in Fifo \ {f} : pipe'[g] = pipe[g]
      BY <1>3, <3>1, <3>2
    <3>4. n \in Name /\ f = Descriptor(s, n) /\ Writer(n) = s
      BY DEF Name, Side, Descriptor, DescriptorOf, Writer
    <3>5. f \in Of(n)
      BY <1>3, <3>4 DEF Of
    <3>6. ASSUME NEW m \in Name, f \in Of(m) PROVE m = n
      BY <3>4, <3>5, <3>6 DEF FIFOInv, Name
    <3>7. pipe[f] \in Seq({s})
      BY <3>4, <3>5 DEF FIFOInv
    <3>8. Append(pipe[f], s) \in Seq({s})
      BY <3>7
    <3>9. f \in Fifo /\ pipe'[f] \in Seq({s})
      BY <1>3, <3>3, <3>8
    <3>. HIDE DEF f, n
    <3>10. \A m \in Name : f \in Of(m) => pipe'[f] \in Seq({Writer(m)})
      BY <3>4, <3>6, <3>9
    <3>. QED
      BY <3>3, <3>9, <3>10, Zenon
  <2>. QED
    BY <2>1, <2>2, Zenon
<1>5. /\ FIFOType' /\ \A n \in Name : Of(n)' = Of(n)
      /\ \A t \in Side : HasOpened(t, side[t])'
      /\ \A t \in Side, n \in Name : Current(t, n)'
  <2>1. FIFOType'
    BY <1>1, <1>4 DEF FIFOType
  <2>. QED
    BY <1>1, <2>1, Zenon DEF FIFOInv, Of, Current, Descriptor
<1>6. ASSUME NEW n \in Name, NEW g \in Of(n) PROVE pipe'[g] \in Seq({Writer(n)})
  <2>1. g \in Fifo
    BY DEF Of
  <2>. QED
    BY <1>4, <2>1 DEF FIFOInv
<1>7. "read" \in Name /\ "write" \in Name
  BY DEF Name
<1>. QED
  BY <1>5, <1>6, <1>7, Zenon DEF FIFOInv

LEMMA FIFOInitInv == FIFOInit => FIFOInv
<1>. SUFFICES ASSUME FIFOInit PROVE FIFOInv
  OBVIOUS
<1>1. FIFOType
  <2>1. Off \in Program /\ None \in FD /\ <<>> \in Seq(Side)
    BY DEF Off, Program, FD, SystemCall
  <2>. QED
    BY <2>1 DEF FIFOInit, FIFOType
<1>2. \A s \in Side : side[s] = Off
  BY DEF FIFOInit
<1>3. /\ \A s \in Side, n \in Name : Descriptor(s, n) = None
      /\ \A n \in Name : fifo[n] = None
  BY <1>2 DEF FIFOInit, Descriptor, DescriptorOf, Off
<1>4. \A n \in Name : Of(n) = {}
  <2>1. None \notin Fifo
    BY DEF Fifo, None
  <2>2. ASSUME NEW n \in Name, NEW f \in Of(n) PROVE FALSE
    <3>1. f \in Fifo /\ (f = fifo[n] \/ \E s \in Side : f = Descriptor(s, n))
      BY <2>2 DEF Of
    <3>2. CASE f = fifo[n]
      BY <1>3, <2>1, <2>2, <3>1, <3>2, Zenon
    <3>3. ASSUME NEW s \in Side, f = Descriptor(s, n) PROVE FALSE
      BY <1>3, <2>1, <2>2, <3>1, <3>3, Zenon
    <3>. QED
      BY <3>1, <3>2, <3>3, Zenon
  <2>. QED
    BY <2>2, Zenon
<1>5. ASSUME NEW s \in Side PROVE HasOpened(s, side[s])
  BY <1>2, CallsDiffer DEF HasOpened, Off
<1>6. Of("read") \cap Of("write") = {}
  BY <1>4 DEF Name
<1>. QED
  BY <1>1, <1>3, <1>4, <1>5, <1>6, Zenon DEF FIFOInv, Current

LEMMA FIFOStep == FIFOInv /\ FIFONext => FIFOInv'
<1>. SUFFICES ASSUME FIFOInv, FIFONext PROVE FIFOInv'
  OBVIOUS
<1>1. CASE IServer \/ Emulator
  BY <1>1, BeginsStep DEF IServer, Emulator, Side
<1>2. CASE EmulationEnds \/ ServerEnds \/ interruptHandler
  BY <1>2, EndStep
<1>3. ASSUME NEW s \in Side, readByte(s) \/ writeByte(s) PROVE FIFOInv'
  BY <1>3, BytesStep
<1>4. ASSUME NEW s \in Side, Close(s) \/ Dies(s) PROVE FIFOInv'
  BY <1>4, CloseStep
<1>5. ASSUME NEW s \in Side, NEW n \in Name,
             \/ Stat(s, n) \/ Mkfifo(s, n) \/ MkfifoFails(s, n) \/ Check(s, n)
             \/ Open(s, n) \/ Gone(s, n) \/ Unlink(s, n)
      PROVE  FIFOInv'
  BY <1>5, StatStep, MkfifoStep, FailStep, OpenStep, UnlinkStep
<1>. QED
  BY <1>1, <1>2, <1>3, <1>4, <1>5, Zenon DEF FIFONext

LEMMA FIFOStutter == FIFOInv /\ UNCHANGED fifoVars => FIFOInv'
<1>. SUFFICES ASSUME FIFOInv, UNCHANGED fifoVars PROVE FIFOInv'
  OBVIOUS
<1>1. fifo' = fifo /\ pipe' = pipe /\ side' = side /\ unlinked' = unlinked
  BY DEF fifoVars
<1>2. FIFOType'
  BY <1>1 DEF FIFOInv, FIFOType
<1>. QED
  BY <1>1, <1>2, Zenon DEF FIFOInv, Of, Current, Descriptor

LEMMA FIFOConnects == FIFOInv => Connected
<1>. SUFFICES ASSUME FIFOInv PROVE Connected
  OBVIOUS
<1>. DEFINE running == {s \in Side : At(s, <<"running">>)}
<1>1. /\ "read" \in Name /\ "write" \in Name /\ Name = {"read", "write"}
      /\ "cpu" \in Side /\ "server" \in Side /\ Side = {"cpu", "server"}
      /\ OtherSide("cpu") = "server" /\ OtherSide("server") = "cpu"
  BY DEF Name, Side, OtherSide
<1>2. ASSUME NEW s \in running
      PROVE  /\ Descriptor(s, "read") # None /\ Descriptor(s, "write") # None
             /\ side[s].myReadFD \in Fifo
  <2>1. HasOpened(s, side[s]) /\ side[s].next = <<"running">> /\ side[s] \in Program
    BY DEF At, FIFOInv, FIFOType
  <2>. QED
    BY <1>1, <2>1 DEF HasOpened, Descriptor, DescriptorOf, Program, FD
<1>3. ASSUME running = Side, \A s \in Side : ~unlinked[s]
      PROVE  \A s \in Side : side[s].myReadFD = side[OtherSide(s)].myWriteFD
  <2>1. \A s \in Side, n \in Name : Descriptor(s, n) = fifo[n]
    BY <1>1, <1>2, <1>3 DEF FIFOInv, Current
  <2>. QED
    BY <1>1, <2>1 DEF Descriptor, DescriptorOf
<1>4. ASSUME NEW s \in running PROVE \A i \in DOMAIN pipe[side[s].myReadFD] : pipe[side[s].myReadFD][i] = OtherSide(s)
  <2>. DEFINE n == IF s = "cpu" THEN "read" ELSE "write"
  <2>1. n \in Name /\ side[s].myReadFD = Descriptor(s, n) /\ Writer(n) = OtherSide(s)
    BY <1>1 DEF Descriptor, DescriptorOf, Writer
  <2>2. pipe[side[s].myReadFD] \in Seq({OtherSide(s)})
    BY <1>2, <2>1 DEF FIFOInv, Of
  <2>. QED
    BY <2>2
<1>. QED
  BY <1>3, <1>4, Zenon DEF Connected

(* fifolink.cpp:39 to 106 - in whatever order two programs start, end, are *)
(* killed and start again, two that run are at the two ends of the same    *)
(* FIFOs unless a name was removed since one of them started, and neither  *)
(* is given a byte that it has written.                                    *)
THEOREM Connects == FIFOSpec => []Connected
<1>1. FIFOInv /\ [FIFONext]_fifoVars => FIFOInv'
  BY FIFOStep, FIFOStutter
<1>. QED
  BY <1>1, FIFOInitInv, FIFOConnects, PTL DEF FIFOSpec
=============================================================================
