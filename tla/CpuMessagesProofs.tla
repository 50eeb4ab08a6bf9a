------------------------- MODULE CpuMessagesProofs -------------------------
(***************************************************************************)
(* That a message arrives: MessageArrives for every set of processes,      *)
(* channels and messages.  A channel's word, the waiting process's         *)
(* W_POINTER and the memory it points to agree with each other and with    *)
(* the two histories; that survives every instruction because the process  *)
(* that executes it waits on no channel, which is the part of Places used. *)
(***************************************************************************)
EXTENDS CpuSchedulerProofs

ReaderAt(c) == WaitsOn(Reader[c], c)
WriterAt(c) == WaitsOn(Writer[c], c)

(* The word of a channel holds one of its two ends.                        *)
EndsWait(c) == channel[c] # NotProcess => ReaderAt(c) \/ WriterAt(c)

(* A reader waits with the address of its buffer, a writer with that of    *)
(* the last message it output.                                             *)
ReaderPoints(c) == ReaderAt(c) => W_POINTER[Reader[c]] = <<Reader[c], c>>
WriterPoints(c) ==
  WriterAt(c) => /\ W_POINTER[Writer[c]] \in {<<Writer[c], c>>, <<Writer[c], Temp>>}
                 /\ Len(outs[c]) > 0
                 /\ memory[W_POINTER[Writer[c]]] = outs[c][Len(outs[c])]

(* How far each end is ahead of the other, and what the reader has.        *)
Matched(c) ==
  /\ ~ReaderAt(c) /\ ~WriterAt(c) => Len(outs[c]) = ins[c]
  /\ ReaderAt(c) => Len(outs[c]) + 1 = ins[c]
  /\ WriterAt(c) => Len(outs[c]) = ins[c] + 1
Received(c) == ins[c] > 0 /\ ~ReaderAt(c) => memory[<<Reader[c], c>>] = outs[c][ins[c]]

Meets(c) == EndsWait(c) /\ ReaderPoints(c) /\ WriterPoints(c) /\ Matched(c) /\ Received(c)
MInv == IInv /\ (~ranOn => \A c \in Channel : Meets(c))

-----------------------------------------------------------------------------
LEMMA OneEnd ==
  ASSUME NEW c \in Channel
  PROVE  /\ Reader[c] \in Workspace /\ Writer[c] \in Workspace /\ Reader[c] # Writer[c]
         /\ ~(ReaderAt(c) /\ WriterAt(c))
  BY SchedulerAssumption, ChannelAssumption DEF ReaderAt, WriterAt, WaitsOn

LEMMA MeetsInit == Init => MInv
<1>. SUFFICES ASSUME Init PROVE MInv
  OBVIOUS
<1>1. ASSUME NEW c \in Channel PROVE Meets(c)
  BY DEF Init, Meets, EndsWait, ReaderPoints, WriterPoints, Matched, Received, ReaderAt, WriterAt, WaitsOn
<1>. QED
  BY <1>1, PlacesInit DEF MInv

(* A channel is as it was when its word, its ends' pointers, its histories *)
(* and the memory of its ends are.                                         *)
LEMMA Untouched ==
  ASSUME NEW c \in Channel, Meets(c),
         channel'[c] = channel[c], outs'[c] = outs[c], ins'[c] = ins[c],
         ReaderAt(c) => W_POINTER'[Reader[c]] = W_POINTER[Reader[c]],
         WriterAt(c) => /\ W_POINTER'[Writer[c]] = W_POINTER[Writer[c]]
                        /\ memory'[<<Writer[c], c>>] = memory[<<Writer[c], c>>]
                        /\ memory'[<<Writer[c], Temp>>] = memory[<<Writer[c], Temp>>],
         memory'[<<Reader[c], c>>] = memory[<<Reader[c], c>>]
  PROVE  Meets(c)'
<1>1. (ReaderAt(c)' <=> ReaderAt(c)) /\ (WriterAt(c)' <=> WriterAt(c))
  BY DEF ReaderAt, WriterAt, WaitsOn
<1>2. EndsWait(c)' /\ ReaderPoints(c)'
  BY <1>1 DEF Meets, EndsWait, ReaderPoints
<1>3. WriterPoints(c)'
  BY <1>1 DEF Meets, WriterPoints
<1>4. Matched(c)' /\ Received(c)'
  BY <1>1 DEF Meets, Matched, Received
<1>. QED
  BY <1>2, <1>3, <1>4 DEF Meets

(* Until a process runs on, the one in the registers waits on nothing.     *)
LEMMA NotMe ==
  ASSUME Places, NEW c \in Channel
  PROVE  ~WaitsOn(Me, c)
  BY DEF Places, OnePlace, Waits

LEMMA MessageTypes ==
  ASSUME TypeOK
  PROVE  /\ Me \in Workspace
         /\ W_POINTER \in [Workspace -> Address \cup {Unset}]
         /\ channel \in [Channel -> Descriptor \cup {NotProcess}]
         /\ memory \in [Address -> Message \cup {Unset}]
         /\ outs \in [Channel -> Seq(Message)]
         /\ ins \in [Channel -> Nat]
  BY MeType DEF TypeOK

(* An in that comes first.                                                 *)
LEMMA InWaitsMeets ==
  ASSUME TypeOK, Places, \A x \in Channel : Meets(x), NEW c \in Channel, inWaits(c),
         NEW x \in Channel
  PROVE  Meets(x)'
<1>. USE DEF ReaderAt, WriterAt
<1>1. /\ Me = Reader[c] /\ channel[c] = NotProcess
      /\ W_POINTER' = [W_POINTER EXCEPT ![Me] = <<Me, c>>]
      /\ channel' = [channel EXCEPT ![c] = Wdesc] /\ ins' = [ins EXCEPT ![c] = @ + 1]
      /\ UNCHANGED <<memory, outs>>
  BY DEF inWaits
<1>2. CASE x # c
  <2>1. channel'[x] = channel[x] /\ ins'[x] = ins[x]
    BY <1>1, <1>2, MessageTypes
  <2>2. \A w \in Workspace : WaitsOn(w, x) => W_POINTER'[w] = W_POINTER[w]
    BY <1>1, NotMe, MessageTypes
  <2>. QED
    BY <1>1, <2>1, <2>2, OneEnd, Untouched
<1>3. CASE x = c
  <2>1. ReaderAt(c)' /\ ~WriterAt(c)' /\ ~ReaderAt(c) /\ ~WriterAt(c)
    <3>1. channel'[c] = Wdesc /\ Wdesc # NotProcess /\ WPtr(Wdesc) = Reader[c]
      BY <1>1, SchedulerAssumption, MessageTypes DEF TypeOK, Me
    <3>. QED
      BY <1>1, <3>1, OneEnd DEF WaitsOn
  <2>2. W_POINTER'[Reader[c]] = <<Reader[c], c>>
    BY <1>1, MessageTypes
  <2>3. ins'[c] = Len(outs'[c]) + 1
    BY <1>1, <2>1, MessageTypes DEF Meets, Matched
  <2>. QED
    BY <1>3, <2>1, <2>2, <2>3 DEF Meets, EndsWait, ReaderPoints, WriterPoints, Matched, Received
<1>. QED
  BY <1>2, <1>3

(* An in that finds the writer waiting.                                    *)
LEMMA InProceedsMeets ==
  ASSUME TypeOK, Places, \A x \in Channel : Meets(x), NEW c \in Channel, inProceeds(c),
         NEW x \in Channel
  PROVE  Meets(x)'
<1>. USE DEF ReaderAt, WriterAt
<1>1. /\ Me = Reader[c] /\ channel[c] # NotProcess
      /\ memory' = [memory EXCEPT ![<<Me, c>>] = memory[W_POINTER[WPtr(channel[c])]]]
      /\ channel' = [channel EXCEPT ![c] = NotProcess] /\ ins' = [ins EXCEPT ![c] = @ + 1]
      /\ UNCHANGED <<W_POINTER, outs>>
  BY DEF inProceeds
<1>2. CASE x # c
  <2>1. channel'[x] = channel[x] /\ ins'[x] = ins[x]
    BY <1>1, <1>2, MessageTypes
  <2>2. memory'[<<Reader[x], x>>] = memory[<<Reader[x], x>>]
    BY <1>1, <1>2, MessageTypes
  <2>3. WaitsOn(Writer[x], x) =>
          /\ memory'[<<Writer[x], x>>] = memory[<<Writer[x], x>>]
          /\ memory'[<<Writer[x], Temp>>] = memory[<<Writer[x], Temp>>]
    BY <1>1, NotMe, MessageTypes
  <2>. QED
    BY <1>1, <2>1, <2>2, <2>3, Untouched
<1>3. CASE x = c
  <2>1. ~ReaderAt(c) /\ WriterAt(c)
    BY <1>1, NotMe DEF Meets, EndsWait
  <2>2. ~ReaderAt(c)' /\ ~WriterAt(c)' /\ channel'[c] = NotProcess
    BY <1>1, MessageTypes DEF WaitsOn
  <2>3. memory'[<<Reader[c], c>>] = outs[c][Len(outs[c])]
    <3>1. <<Me, c>> \in Address
      BY MessageTypes DEF Address
    <3>2. memory[W_POINTER[WPtr(channel[c])]] = outs[c][Len(outs[c])]
      BY <2>1 DEF Meets, WriterPoints, WaitsOn
    <3>. QED
      BY <1>1, <3>1, <3>2, MessageTypes
  <2>4. ins'[c] = Len(outs[c])
    BY <1>1, <2>1, MessageTypes DEF Meets, Matched
  <2>. QED
    BY <1>1, <1>3, <2>2, <2>3, <2>4 DEF Meets, EndsWait, ReaderPoints, WriterPoints, Matched, Received
<1>. QED
  BY <1>2, <1>3

(* An out, outbyte or outword that comes first.                            *)
LEMMA OutWaitsMeets ==
  ASSUME TypeOK, Places, \A x \in Channel : Meets(x), NEW c \in Channel,
         NEW m \in Message, NEW area \in {c, Temp}, outWaits(c, m, area),
         NEW x \in Channel
  PROVE  Meets(x)'
<1>. USE DEF ReaderAt, WriterAt
<1>1. /\ Me = Writer[c] /\ channel[c] = NotProcess
      /\ memory' = [memory EXCEPT ![<<Me, area>>] = m]
      /\ W_POINTER' = [W_POINTER EXCEPT ![Me] = <<Me, area>>]
      /\ channel' = [channel EXCEPT ![c] = Wdesc] /\ outs' = [outs EXCEPT ![c] = Append(@, m)]
      /\ UNCHANGED ins
  BY DEF outWaits
<1>2. memory'[<<Reader[x], x>>] = memory[<<Reader[x], x>>]
  BY <1>1, OneEnd, ChannelAssumption, MessageTypes DEF Temp
<1>3. CASE x # c
  <2>1. channel'[x] = channel[x] /\ outs'[x] = outs[x]
    BY <1>1, <1>3, MessageTypes
  <2>2. \A w \in Workspace : WaitsOn(w, x) =>
          /\ W_POINTER'[w] = W_POINTER[w]
          /\ memory'[<<w, x>>] = memory[<<w, x>>]
          /\ memory'[<<w, Temp>>] = memory[<<w, Temp>>]
    BY <1>1, NotMe, MessageTypes
  <2>. QED
    BY <1>1, <1>2, <2>1, <2>2, OneEnd, Untouched
<1>4. CASE x = c
  <2>1. ~ReaderAt(c)' /\ WriterAt(c)' /\ ~ReaderAt(c) /\ ~WriterAt(c)
    <3>1. channel'[c] = Wdesc /\ Wdesc # NotProcess /\ WPtr(Wdesc) = Writer[c]
      BY <1>1, SchedulerAssumption, MessageTypes DEF TypeOK, Me
    <3>. QED
      BY <1>1, <3>1, OneEnd DEF WaitsOn
  <2>2. /\ outs[c] \in Seq(Message) /\ outs'[c] = Append(outs[c], m)
        /\ Len(outs'[c]) = Len(outs[c]) + 1 /\ outs'[c][Len(outs'[c])] = m
        /\ \A i \in 1 .. Len(outs[c]) : outs'[c][i] = outs[c][i]
    BY <1>1, MessageTypes
  <2>3. Len(outs[c]) = ins[c] /\ ins[c] \in Nat
    BY <2>1, MessageTypes DEF Meets, Matched
  <2>4. WriterPoints(c)'
    <3>1. <<Me, area>> \in Address
      BY MessageTypes DEF Address
    <3>2. W_POINTER'[Writer[c]] = <<Writer[c], area>> /\ memory'[<<Writer[c], area>>] = m
      BY <1>1, <3>1, MessageTypes
    <3>. QED
      BY <2>2, <2>3, <3>2 DEF WriterPoints
  <2>5. Matched(c)'
    BY <1>1, <2>1, <2>2, <2>3 DEF Matched
  <2>6. Received(c)'
    BY <1>1, <1>2, <1>4, <2>1, <2>2, <2>3 DEF Meets, Received
  <2>. QED
    BY <1>4, <2>1, <2>4, <2>5, <2>6 DEF Meets, EndsWait, ReaderPoints
<1>. QED
  BY <1>3, <1>4

(* An out, outbyte or outword that finds the reader waiting.               *)
LEMMA OutProceedsMeets ==
  ASSUME TypeOK, Places, \A x \in Channel : Meets(x), NEW c \in Channel,
         NEW m \in Message, outProceeds(c, m), NEW x \in Channel
  PROVE  Meets(x)'
<1>. USE DEF ReaderAt, WriterAt
<1>1. /\ Me = Writer[c] /\ channel[c] # NotProcess
      /\ memory' = [memory EXCEPT ![W_POINTER[WPtr(channel[c])]] = m]
      /\ channel' = [channel EXCEPT ![c] = NotProcess] /\ outs' = [outs EXCEPT ![c] = Append(@, m)]
      /\ UNCHANGED <<W_POINTER, ins>>
  BY DEF outProceeds
<1>2. ReaderAt(c) /\ ~WriterAt(c) /\ W_POINTER[WPtr(channel[c])] = <<Reader[c], c>>
  BY <1>1, NotMe DEF Meets, EndsWait, ReaderPoints, WaitsOn
<1>3. memory' = [memory EXCEPT ![<<Reader[c], c>>] = m]
  BY <1>1, <1>2
<1>4. CASE x # c
  <2>1. channel'[x] = channel[x] /\ outs'[x] = outs[x]
    BY <1>1, <1>4, MessageTypes
  <2>2. \A w : memory'[<<w, x>>] = memory[<<w, x>>] /\ memory'[<<w, Temp>>] = memory[<<w, Temp>>]
    BY <1>3, <1>4, ChannelAssumption, MessageTypes DEF Temp
  <2>. QED
    BY <1>1, <2>1, <2>2, Untouched
<1>5. CASE x = c
  <2>1. ~ReaderAt(c)' /\ ~WriterAt(c)' /\ channel'[c] = NotProcess
    BY <1>1, MessageTypes DEF WaitsOn
  <2>2. /\ Len(outs'[c]) = Len(outs[c]) + 1 /\ outs'[c][Len(outs'[c])] = m
    BY <1>1, MessageTypes
  <2>3. ins[c] = Len(outs'[c])
    BY <1>2, <2>2, MessageTypes DEF Meets, Matched
  <2>4. memory'[<<Reader[c], c>>] = m
    <3>1. <<Reader[c], c>> \in Address
      BY OneEnd DEF Address
    <3>. QED
      BY <1>3, <3>1, MessageTypes
  <2>. QED
    BY <1>1, <1>5, <2>1, <2>2, <2>3, <2>4 DEF Meets, EndsWait, ReaderPoints, WriterPoints, Matched, Received
<1>. QED
  BY <1>4, <1>5

-----------------------------------------------------------------------------
LEMMA MeetsStep ==
  ASSUME TypeOK, Places, \A c \in Channel : Meets(c), [Next]_vars
  PROVE  \A c \in Channel : Meets(c)'
<1>1. ASSUME UNCHANGED <<W_POINTER, channel, memory, outs, ins>>
      PROVE  \A c \in Channel : Meets(c)'
  BY <1>1, Untouched
<1>2. CASE UNCHANGED vars
  BY <1>1, <1>2 DEF vars, memoryVars
<1>3. ASSUME NEW c \in Channel, inWaits(c) \/ inProceeds(c)
      PROVE  \A x \in Channel : Meets(x)'
  BY <1>3, InWaitsMeets, InProceedsMeets
<1>4. ASSUME NEW c \in Channel, NEW m \in Message,
             outProceeds(c, m) \/ \E area \in {c, Temp} : outWaits(c, m, area)
      PROVE  \A x \in Channel : Meets(x)'
  BY <1>4, OutProceedsMeets, OutWaitsMeets
<1>5. CASE other \/ \E p \in Priority : storeFront(p)
  BY <1>1, <1>5 DEF other, storeFront, memoryVars
<1>6. ASSUME NEW w \in Workspace, NEW j \in Workspace, startp(w, j)
      PROVE  \A c \in Channel : Meets(c)'
  BY <1>1, <1>6 DEF startp
<1>7. CASE endpWaits \/ endpJoins
  BY <1>1, <1>7 DEF endpWaits, endpJoins
<1>8. CASE stopp \/ \E w \in Workspace, p \in Priority : runp(w, p)
  BY <1>1, <1>8 DEF stopp, runp, memoryVars
<1>9. ASSUME NEW n \in 0 .. Positions - 1, jump(n)
      PROVE  \A c \in Channel : Meets(c)'
  BY <1>1, <1>9 DEF jump, memoryVars
<1>. QED
  BY <1>2, <1>3, <1>4, <1>5, <1>6, <1>7, <1>8, <1>9 DEF Next

(* A process that is past an in has the message of the out that matches    *)
(* it, and neither end of a channel is more than the one message it waits  *)
(* with ahead of the other.                                                *)
THEOREM MessagesCorrect == Spec => []MessageArrives
<1>1. MInv /\ [Next]_vars => MInv'
  <2>. SUFFICES ASSUME MInv, [Next]_vars PROVE MInv'
    OBVIOUS
  <2>1. IInv'
    BY PlacesInductive DEF MInv
  <2>2. ASSUME ~ranOn' PROVE ~ranOn
    BY <2>2, RanOnStays DEF vars
  <2>. QED
    BY <2>1, <2>2, MeetsStep DEF MInv, IInv
<1>2. MInv => MessageArrives
  <2>. SUFFICES ASSUME MInv, ~ranOn, NEW c \in Channel
                PROVE  /\ Len(outs[c]) + (IF ReaderAt(c) THEN 1 ELSE 0)
                            = ins[c] + (IF WriterAt(c) THEN 1 ELSE 0)
                       /\ Received(c)
    BY DEF MessageArrives, ReaderAt, WriterAt, Received
  <2>1. Matched(c) /\ Received(c) /\ Len(outs[c]) \in Nat /\ ins[c] \in Nat
    BY MessageTypes DEF MInv, IInv, Meets
  <2>2. CASE ReaderAt(c)
    BY <2>1, <2>2, OneEnd DEF Matched
  <2>3. CASE WriterAt(c)
    <3>1. ~ReaderAt(c) /\ Len(outs[c]) = ins[c] + 1
      BY <2>1, <2>3, OneEnd DEF Matched
    <3>. QED
      BY <2>1, <2>3, <3>1
  <2>4. CASE ~ReaderAt(c) /\ ~WriterAt(c)
    BY <2>1, <2>4 DEF Matched
  <2>. QED
    BY <2>2, <2>3, <2>4
<1>. QED
  BY <1>1, <1>2, MeetsInit, PTL DEF Spec
=============================================================================
