------------------------- MODULE CpuSchedulerProofs -------------------------
(***************************************************************************)
(* What CpuScheduler guarantees for every set of processes, channels and   *)
(* messages.  In four parts: the types; the two lists; the places of the   *)
(* processes with the joins of parallels, which need each other and the    *)
(* lists to be inductive; and where each process resumes.                  *)
(***************************************************************************)
EXTENDS CpuScheduler, FiniteSetTheorems, TLAPS

(* The part of TypeOK that the end of interpret changes. *)
RegistersOK ==
  /\ Wdesc \in Descriptor
  /\ IPtr \in Code
  /\ DeschedulePending \in BOOLEAN
  /\ lists \in Lists
  /\ W_IPTR \in [Workspace -> Code]

(* And the rest. *)
MemoryOK ==
  /\ W_POINTER \in [Workspace -> Address \cup {Unset}]
  /\ channel \in [Channel -> Descriptor \cup {NotProcess}]
  /\ \A c \in Channel : channel[c] # NotProcess => W_POINTER[WPtr(channel[c])] # Unset
  /\ memory \in [Address -> Message \cup {Unset}]
  /\ count \in [Workspace -> Int]
  /\ program \in Program
  /\ at \in [Workspace -> Code]
  /\ outs \in [Channel -> Seq(Message)]
  /\ ins \in [Channel -> Nat]
  /\ ranOn \in BOOLEAN

LEMMA Parts == (TypeOK <=> RegistersOK /\ MemoryOK) /\ (TypeOK' <=> RegistersOK' /\ MemoryOK')
  BY DEF TypeOK, RegistersOK, MemoryOK

-----------------------------------------------------------------------------
(* Types.                                                                  *)

LEMMA ScheduleType ==
  ASSUME NEW l \in Lists, NEW d \in Descriptor
  PROVE  schedule(l, d) \in Lists
<1>. DEFINE p == Pri(d)
            linked == [l.link EXCEPT ![WPtr(d)] = NotProcess]
            s == schedule(l, d)
<1>1. p \in Priority
  BY DEF Descriptor, Pri
<1>2. /\ l.head \in [Priority -> Descriptor \cup {NotProcess, Unset}]
      /\ l.tail \in [Priority -> Descriptor \cup {Unset}]
      /\ l.link \in [Workspace -> Descriptor \cup {NotProcess, Unset}]
      /\ l.queue \in [Priority -> Seq(Descriptor)]
  BY DEF Lists
<1>3. [l.head EXCEPT ![p] = d] \in [Priority -> Descriptor \cup {NotProcess, Unset}]
  BY <1>1, <1>2
<1>4. [l.tail EXCEPT ![p] = d] \in [Priority -> Descriptor \cup {Unset}]
  BY <1>1, <1>2
<1>5. linked \in [Workspace -> Descriptor \cup {NotProcess, Unset}]
  BY <1>2
<1>6. [linked EXCEPT ![WPtr(l.tail[p])] = d]
        \in [Workspace -> Descriptor \cup {NotProcess, Unset}]
  BY <1>5
<1>7. Append(l.queue[p], d) \in Seq(Descriptor)
  BY <1>1, <1>2
<1>8. [l.queue EXCEPT ![p] = Append(@, d)] \in [Priority -> Seq(Descriptor)]
  BY <1>1, <1>2, <1>7
<1>. QED
  BY <1>2, <1>3, <1>4, <1>5, <1>6, <1>8 DEF schedule, Lists

LEMMA DropType ==
  ASSUME NEW l \in Lists, NEW p \in Priority, l.head[p] \in Descriptor
  PROVE  dropHead(l, p) \in Lists
<1>1. l.head[p][1] \in Workspace
  BY DEF Descriptor
<1>2. l.link[l.head[p][1]] \in Descriptor \cup {NotProcess, Unset}
  BY <1>1 DEF Lists
<1>3. \A q \in Seq(Descriptor) : q # <<>> => Tail(q) \in Seq(Descriptor)
  OBVIOUS
<1>. QED
  BY <1>2, <1>3 DEF dropHead, Lists, WPtr

LEMMA ContinueType ==
  ASSUME NEW l \in Lists, NEW wdesc \in Descriptor, NEW ip \in Code,
         NEW saved \in [Workspace -> Code], NEW pending \in BOOLEAN,
         continue(l, wdesc, ip, saved, pending)
  PROVE  RegistersOK'
  BY DEF continue, quantum, RegistersOK

LEMMA DescheduleType ==
  ASSUME Wdesc \in Descriptor, NEW l \in Lists, l.head[Pri(Wdesc)] # Unset, NEW ip \in Code,
         NEW saved \in [Workspace -> Code],
         deschedule(l, ip, saved)
  PROVE  RegistersOK'
<1>. DEFINE p == Pri(Wdesc)
            next == l.head[p]
            stored == [saved EXCEPT ![WPtr(Wdesc)] = ip]
<1>1. p \in Priority
  BY DEF Descriptor, Pri
<1>2. next \in Descriptor \cup {NotProcess}
  BY <1>1 DEF Lists
<1>3. stored \in [Workspace -> Code]
  OBVIOUS
<1>4. CASE next = NotProcess
  <2>1. continue(l, Wdesc, ip, saved, FALSE)
    BY <1>4 DEF deschedule
  <2>. QED
    BY <2>1, ContinueType
<1>5. CASE next # NotProcess
  <2>1. next \in Descriptor
    BY <1>2, <1>5
  <2>2. dropHead(l, p) \in Lists
    BY <1>1, <2>1, DropType
  <2>3. stored[WPtr(next)] \in Code
    BY <2>1, <1>3 DEF Descriptor, WPtr
  <2>4. continue(dropHead(l, p), next, stored[WPtr(next)], stored, FALSE)
    BY <1>5 DEF deschedule
  <2>. QED
    BY <2>1, <2>2, <2>3, <2>4, <1>3, ContinueType
<1>. QED
  BY <1>4, <1>5

LEMMA FollowingType ==
  ASSUME IPtr \in Code
  PROVE  Following \in Code
<1>1. Positions \in Nat /\ Positions > 0 /\ IPtr[1] \in Workspace /\ IPtr[2] \in 0 .. Positions - 1
  BY SchedulerAssumption DEF Code
<1>2. (IPtr[2] + 1) % Positions \in 0 .. Positions - 1
  BY <1>1
<1>. QED
  BY <1>1, <1>2 DEF Following, Code

LEMMA MeType ==
  ASSUME Wdesc \in Descriptor
  PROVE  Me \in Workspace /\ Pri(Wdesc) \in Priority
  BY DEF Descriptor, Me, WPtr, Pri

(* The two ways in which most instructions end. *)
LEMMA ProceedsType ==
  ASSUME TypeOK, NEW l \in Lists, NEW saved \in [Workspace -> Code], Proceeds(l, saved)
  PROVE  RegistersOK' /\ at' \in [Workspace -> Code] /\ ranOn' \in BOOLEAN
<1>1. Following \in Code
  BY FollowingType DEF TypeOK
<1>2. RegistersOK'
  BY <1>1, ContinueType DEF Proceeds, TypeOK
<1>. QED
  BY <1>1, <1>2 DEF Proceeds, TypeOK

LEMMA LeavesType ==
  ASSUME TypeOK, QueuesSet, Leaves
  PROVE  RegistersOK' /\ at' \in [Workspace -> Code] /\ ranOn' \in BOOLEAN
<1>1. Following \in Code
  BY FollowingType DEF TypeOK
<1>2. lists.head[Pri(Wdesc)] # Unset
  BY MeType DEF TypeOK, QueuesSet
<1>3. RegistersOK'
  BY <1>1, <1>2, DescheduleType DEF Leaves, TypeOK
<1>. QED
  BY <1>1, <1>3 DEF Leaves, TypeOK

LEMMA ProgramType ==
  ASSUME NEW prog \in Program, NEW w \in Workspace
  PROVE  /\ \A st \in {"free", "live", "stopped", "joining", "ended"} :
              [prog EXCEPT !.state[w] = st] \in Program
         /\ \A j \in Workspace \cup {Unset} : [prog EXCEPT !.join[w] = j] \in Program
  BY DEF Program

LEMMA TypeInit == Init => TypeOK
<1>. SUFFICES ASSUME Init PROVE TypeOK
  OBVIOUS
<1>1. RegistersOK
  <2>1. Wdesc \in Descriptor /\ DeschedulePending \in BOOLEAN
    BY SchedulerAssumption DEF Init, Descriptor, Priority
  <2>2. \A w \in Workspace : <<w, 0>> \in Code
    BY SchedulerAssumption DEF Code
  <2>3. IPtr \in Code /\ W_IPTR \in [Workspace -> Code]
    BY <2>2, SchedulerAssumption DEF Init
  <2>4. lists \in Lists
    BY DEF Init, Lists
  <2>. QED
    BY <2>1, <2>3, <2>4 DEF RegistersOK
<1>2. MemoryOK
  <2>1. program \in Program
    BY SchedulerAssumption DEF Init, Program
  <2>3. W_POINTER \in [Workspace -> Address \cup {Unset}] /\ count \in [Workspace -> Int]
    BY DEF Init
  <2>4. memory \in [Address -> Message \cup {Unset}]
    BY DEF Init
  <2>5. outs \in [Channel -> Seq(Message)] /\ ins \in [Channel -> Nat] /\ ranOn \in BOOLEAN
    <3>1. outs = [c \in Channel |-> <<>>] /\ <<>> \in Seq(Message)
      BY DEF Init
    <3>. QED
      BY <3>1 DEF Init
  <2>6. /\ channel \in [Channel -> Descriptor \cup {NotProcess}]
        /\ \A c \in Channel : channel[c] = NotProcess
    BY DEF Init
  <2>2. at \in [Workspace -> Code]
    BY SchedulerAssumption DEF Init, Code
  <2>. QED
    BY <2>1, <2>2, <2>3, <2>4, <2>5, <2>6 DEF MemoryOK
<1>. QED
  BY <1>1, <1>2, Parts

LEMMA TypeStep ==
  ASSUME TypeOK, [Next]_vars
  PROVE  TypeOK'
<1>. USE DEF MemoryOK, memoryVars
<1>0. RegistersOK /\ MemoryOK /\ Me \in Workspace /\ Pri(Wdesc) \in Priority
  BY Parts, MeType DEF RegistersOK
<1>1. CASE other
  <2>1. RegistersOK' /\ at' \in [Workspace -> Code] /\ ranOn' \in BOOLEAN
    BY <1>1, <1>0, ProceedsType DEF other, RegistersOK
  <2>. QED
    BY <2>1, <1>0, <1>1, Parts DEF other
<1>2. ASSUME NEW p \in Priority, storeFront(p)
      PROVE  TypeOK'
  <2>1. [lists EXCEPT !.head[p] = NotProcess] \in Lists
    BY <1>0 DEF RegistersOK, Lists
  <2>2. RegistersOK' /\ at' \in [Workspace -> Code] /\ ranOn' \in BOOLEAN
    BY <1>2, <1>0, <2>1, ProceedsType DEF storeFront, RegistersOK
  <2>. QED
    BY <2>2, <1>0, <1>2, Parts DEF storeFront
<1>3. ASSUME NEW c \in Channel, inWaits(c)
      PROVE  TypeOK'
  <2>1. RegistersOK' /\ at' \in [Workspace -> Code] /\ ranOn' \in BOOLEAN
    BY <1>3, LeavesType DEF inWaits
  <2>2. <<Me, c>> \in Address /\ <<Me, c>> # Unset
    BY <1>0, SchedulerAssumption DEF Address
  <2>. QED
    BY <2>1, <2>2, <1>0, <1>3, Parts DEF inWaits, RegistersOK, Me
<1>4. ASSUME NEW c \in Channel, channel[c] # NotProcess
      PROVE  /\ channel[c] \in Descriptor
             /\ schedule(lists, channel[c]) \in Lists
             /\ W_POINTER[WPtr(channel[c])] \in Address
  <2>1. channel[c] \in Descriptor /\ WPtr(channel[c]) \in Workspace
    BY <1>4, <1>0 DEF Descriptor, WPtr
  <2>. QED
    BY <2>1, <1>4, <1>0, ScheduleType DEF RegistersOK
<1>5. ASSUME NEW c \in Channel, inProceeds(c)
      PROVE  TypeOK'
  <2>1. channel[c] # NotProcess
    BY <1>5 DEF inProceeds
  <2>2. memory[W_POINTER[WPtr(channel[c])]] \in Message \cup {Unset}
    BY <1>4, <2>1, <1>0
  <2>3. RegistersOK' /\ at' \in [Workspace -> Code] /\ ranOn' \in BOOLEAN
    BY <1>5, <1>0, <1>4, <2>1, ProceedsType DEF inProceeds, RegistersOK
  <2>4. memory' \in [Address -> Message \cup {Unset}]
    BY <1>5, <1>0, <2>2 DEF inProceeds
  <2>5. /\ channel' \in [Channel -> Descriptor \cup {NotProcess}]
        /\ \A d \in Channel : channel'[d] # NotProcess => W_POINTER[WPtr(channel'[d])] # Unset
    BY <1>5, <1>0 DEF inProceeds
  <2>6. ins' \in [Channel -> Nat]
    BY <1>5, <1>0 DEF inProceeds
  <2>. QED
    BY <2>3, <2>4, <2>5, <2>6, <1>0, <1>5, Parts DEF inProceeds
<1>6. ASSUME NEW c \in Channel, NEW m \in Message, NEW area \in {c, Temp}, outWaits(c, m, area)
      PROVE  TypeOK'
  <2>1. RegistersOK' /\ at' \in [Workspace -> Code] /\ ranOn' \in BOOLEAN
    BY <1>6, LeavesType DEF outWaits
  <2>2. <<Me, area>> \in Address /\ <<Me, area>> # Unset
    BY <1>0, SchedulerAssumption DEF Address, Temp
  <2>3. outs' \in [Channel -> Seq(Message)]
    BY <1>0, <1>6 DEF outWaits
  <2>. QED
    BY <2>1, <2>2, <2>3, <1>0, <1>6, Parts DEF outWaits, RegistersOK, Me
<1>7. ASSUME NEW c \in Channel, NEW m \in Message, outProceeds(c, m)
      PROVE  TypeOK'
  <2>1. channel[c] # NotProcess
    BY <1>7 DEF outProceeds
  <2>2. memory' \in [Address -> Message \cup {Unset}]
    BY <1>7, <1>0 DEF outProceeds
  <2>3. RegistersOK' /\ at' \in [Workspace -> Code] /\ ranOn' \in BOOLEAN
    BY <1>7, <1>0, <1>4, <2>1, ProceedsType DEF outProceeds, RegistersOK
  <2>4. outs' \in [Channel -> Seq(Message)]
    BY <1>0, <1>7 DEF outProceeds
  <2>. QED
    BY <2>2, <2>3, <2>4, <1>0, <1>7, Parts DEF outProceeds
<1>8. \A w \in Workspace : <<w, 0>> \in Code
  BY SchedulerAssumption DEF Code
<1>9. ASSUME NEW w \in Workspace, NEW p \in Priority
      PROVE  schedule(lists, <<w, p>>) \in Lists
  BY <1>0, ScheduleType DEF RegistersOK, Descriptor
<1>10. ASSUME NEW w \in Workspace, NEW j \in Workspace, startp(w, j)
       PROVE  TypeOK'
  <2>1. [W_IPTR EXCEPT ![w] = <<w, 0>>] \in [Workspace -> Code]
    BY <1>0, <1>8 DEF RegistersOK
  <2>2. RegistersOK' /\ at' \in [Workspace -> Code] /\ ranOn' \in BOOLEAN
    BY <1>10, <1>0, <1>9, <2>1, ProceedsType DEF startp
  <2>3. program' \in Program
    BY <1>10, <1>0 DEF startp, Program
  <2>4. count' \in [Workspace -> Int]
    BY <1>10, <1>0 DEF startp
  <2>. QED
    BY <2>2, <2>3, <2>4, <1>0, <1>10, Parts DEF startp
<1>11. program.join[Me] \in Workspace \cup {Unset}
  BY <1>0 DEF Program
<1>12. CASE endpWaits
  <2>1. RegistersOK' /\ at' \in [Workspace -> Code] /\ ranOn' \in BOOLEAN
    BY <1>12, LeavesType DEF endpWaits
  <2>2. program' \in Program
    BY <1>12, <1>0 DEF endpWaits, Program
  <2>3. count' \in [Workspace -> Int]
    BY <1>12, <1>0, <1>11 DEF endpWaits
  <2>. QED
    BY <2>1, <2>2, <2>3, <1>0, <1>12, Parts DEF endpWaits
<1>13. CASE endpJoins
  <2>1. program.join[Me] \in Workspace
    BY <1>13, <1>11 DEF endpJoins
  <2>2. <<program.join[Me], Pri(Wdesc)>> \in Descriptor
    BY <2>1, <1>0 DEF Descriptor
  <2>3. RegistersOK'
    <3>1. <<program.join[Me], 0>> \in Code
      BY <1>8, <2>1
    <3>2. continue(lists, <<program.join[Me], Pri(Wdesc)>>, <<program.join[Me], 0>>, W_IPTR,
                   DeschedulePending)
      BY <1>13 DEF endpJoins
    <3>. HIDE DEF MemoryOK
    <3>. QED
      BY <3>1, <3>2, <1>0, <2>2, ContinueType DEF RegistersOK
  <2>4. program' \in Program
    BY <1>13, <1>0, <2>1 DEF endpJoins, Program
  <2>5. count' \in [Workspace -> Int]
    BY <1>13, <1>0, <2>1 DEF endpJoins
  <2>. QED
    BY <2>3, <2>4, <2>5, <1>0, <1>13, Parts DEF endpJoins
<1>14. CASE stopp
  <2>1. Following \in Code
    BY <1>0, FollowingType DEF RegistersOK
  <2>2. [W_IPTR EXCEPT ![Me] = Following] \in [Workspace -> Code]
    BY <1>0, <2>1 DEF RegistersOK
  <2>3. lists.head[Pri(Wdesc)] # Unset
    BY <1>0, <1>14 DEF stopp, QueuesSet
  <2>4. RegistersOK'
    BY <1>14, <1>0, <2>1, <2>2, <2>3, DescheduleType DEF stopp, RegistersOK
  <2>5. program' \in Program
    BY <1>14, <1>0 DEF stopp, Program
  <2>6. at' \in [Workspace -> Code] /\ ranOn' \in BOOLEAN
    BY <1>14, <1>0, <2>1 DEF stopp
  <2>. QED
    BY <2>4, <2>5, <2>6, <1>0, <1>14, Parts DEF stopp
<1>15. ASSUME NEW w \in Workspace, NEW p \in Priority, runp(w, p)
       PROVE  TypeOK'
  <2>1. [W_IPTR EXCEPT ![w] = <<w, 0>>] \in [Workspace -> Code]
    BY <1>0, <1>8 DEF RegistersOK
  <2>2. RegistersOK' /\ at' \in [Workspace -> Code] /\ ranOn' \in BOOLEAN
    BY <1>15, <1>0, <1>9, <2>1, ProceedsType DEF runp, RegistersOK
  <2>3. program' \in Program
    <3>1. [program EXCEPT !.state[w] = "live"] \in Program
      BY <1>0, ProgramType
    <3>2. ASSUME program.restarts < MaxRestarts
          PROVE  [program EXCEPT !.state[w] = "live", !.restarts = @ + 1] \in Program
      <4>1. program.restarts + 1 \in 0 .. MaxRestarts
        BY <3>2, <1>0, SchedulerAssumption DEF Program
      <4>. QED
        BY <4>1, <1>0 DEF Program
    <3>. QED
      BY <3>1, <3>2, <1>15 DEF runp
  <2>. QED
    BY <2>2, <2>3, <1>0, <1>15, Parts DEF runp
<1>16. ASSUME NEW n \in 0 .. Positions - 1, jump(n)
       PROVE  TypeOK'
  <2>1. <<IPtr[1], n>> \in Code
    BY <1>0 DEF RegistersOK, Code
  <2>2. lists.head[Pri(Wdesc)] # Unset
    BY <1>0, <1>16 DEF jump, QueuesSet
  <2>3. RegistersOK'
    BY <1>16, <1>0, <2>1, <2>2, DescheduleType, ContinueType DEF jump, RegistersOK
  <2>4. at' \in [Workspace -> Code]
    BY <1>16, <1>0, <2>1 DEF jump
  <2>. QED
    BY <2>3, <2>4, <1>0, <1>16, Parts DEF jump
<1>17. CASE UNCHANGED vars
  BY <1>17, <1>0, Parts DEF vars, RegistersOK
<1>. QED
  BY <1>1, <1>2, <1>3, <1>5, <1>6, <1>7, <1>10, <1>12, <1>13, <1>14, <1>15, <1>16, <1>17 DEF Next

(* Every register, list, workspace word and channel keeps its type: in     *)
(* particular IPtr is always the address of code, and a descriptor in a    *)
(* channel always has a place for the message in its W_POINTER.            *)
THEOREM TypeCorrect == Spec => []TypeOK
  BY TypeInit, TypeStep, PTL DEF Spec

-----------------------------------------------------------------------------
(* The lists.                                                              *)

ListsOK(l) == (\A p \in Priority : ListOf(l, p)) /\ NoneTwice(l)

(* A process that is on no list can be scheduled, and then is on one.      *)
LEMMA ScheduleOK ==
  ASSUME NEW l \in Lists, NEW d \in Descriptor, ListsOK(l),
         ~QueuedIn(l, WPtr(d)), l.head[Pri(d)] # Unset
  PROVE  /\ ListsOK(schedule(l, d))
         /\ \A w \in Workspace : QueuedIn(schedule(l, d), w) <=> QueuedIn(l, w) \/ w = WPtr(d)
<1>. DEFINE p == Pri(d)
            s == schedule(l, d)
            q == l.queue[p]
            linked == [l.link EXCEPT ![WPtr(d)] = NotProcess]
<1>1. p \in Priority /\ WPtr(d) \in Workspace
  BY DEF Descriptor, Pri, WPtr
<1>2. /\ \A r \in Priority : l.queue[r] \in Seq(Descriptor)
      /\ l.link \in [Workspace -> Descriptor \cup {NotProcess, Unset}]
      /\ l.head \in [Priority -> Descriptor \cup {NotProcess, Unset}]
      /\ l.tail \in [Priority -> Descriptor \cup {Unset}]
      /\ l.queue \in [Priority -> Seq(Descriptor)]
  BY DEF Lists
<1>3. \A r \in Priority : \A i \in DOMAIN l.queue[r] :
        l.queue[r][i] \in Descriptor /\ WPtr(l.queue[r][i]) \in Workspace
  BY <1>2 DEF Descriptor, WPtr
<1>4. /\ s.queue[p] = Append(q, d) /\ \A r \in Priority \ {p} : s.queue[r] = l.queue[r]
      /\ s.tail[p] = d /\ \A r \in Priority \ {p} : s.tail[r] = l.tail[r]
      /\ \A r \in Priority \ {p} : s.head[r] = l.head[r]
  BY <1>1, <1>2 DEF schedule
<1>5. q = <<>> <=> l.head[p] = NotProcess
  <2>1. ListOf(l, p)
    BY <1>1 DEF ListsOK
  <2>2. q # <<>> => q[1] \in Descriptor
    BY <1>1, <1>2
  <2>. QED
    BY <2>1, <2>2, SchedulerAssumption DEF ListOf
<1>6. s.head[p] = IF q = <<>> THEN d ELSE l.head[p]
  BY <1>1, <1>2, <1>5 DEF schedule
<1>7. \A r \in Priority : \A i \in DOMAIN l.queue[r] : WPtr(l.queue[r][i]) # WPtr(d)
  BY DEF QueuedIn
<1>8. s.link = IF q = <<>> THEN linked ELSE [linked EXCEPT ![WPtr(l.tail[p])] = d]
  BY <1>5 DEF schedule
<1>13. /\ DOMAIN s.queue[p] = DOMAIN q \cup {Len(q) + 1} /\ Len(s.queue[p]) = Len(q) + 1
       /\ DOMAIN q = 1 .. Len(q) /\ Len(q) \in Nat
       /\ \A i \in DOMAIN q : s.queue[p][i] = q[i]
       /\ s.queue[p][Len(q) + 1] = d
  BY <1>1, <1>2, <1>4
<1>14. Pri(d) = p
  OBVIOUS
<1>. HIDE DEF s
<1>9. ListOf(s, p)
  <2>1. DOMAIN s.queue[p] = 1 .. Len(q) + 1 /\ Len(s.queue[p]) = Len(q) + 1
    BY <1>13
  <2>2. \A i \in DOMAIN q : s.queue[p][i] = q[i]
    BY <1>13
  <2>3. s.queue[p][Len(q) + 1] = d
    BY <1>13
  <2>4. s.link[WPtr(d)] = NotProcess
    <3>1. CASE q = <<>>
      BY <3>1, <1>1, <1>2, <1>8
    <3>2. CASE q # <<>>
      <4>1. l.tail[p] = q[Len(q)] /\ Len(q) \in DOMAIN q
        BY <3>2, <1>1, <1>2 DEF ListsOK, ListOf
      <4>2. WPtr(l.tail[p]) # WPtr(d)
        BY <4>1, <1>1, <1>7
      <4>. QED
        BY <3>2, <4>2, <1>1, <1>2, <1>8
    <3>. QED
      BY <3>1, <3>2
  <2>5. ASSUME NEW i \in DOMAIN q
        PROVE  s.link[WPtr(q[i])] = s.queue[p][i + 1]
    <3>1. l.tail[p] = q[Len(q)] /\ Len(q) \in DOMAIN q /\ q # <<>> /\ i \in 1 .. Len(q)
      BY <1>1, <1>2 DEF ListsOK, ListOf
    <3>2. WPtr(q[i]) # WPtr(d) /\ WPtr(q[i]) \in Workspace /\ WPtr(l.tail[p]) \in Workspace
      BY <3>1, <1>1, <1>3, <1>7
    <3>3. CASE i = Len(q)
      BY <3>1, <3>2, <3>3, <2>3, <1>2, <1>8
    <3>4. CASE i # Len(q)
      <4>1. WPtr(q[i]) # WPtr(l.tail[p])
        BY <3>1, <3>4, <1>1 DEF ListsOK, NoneTwice
      <4>2. l.link[WPtr(q[i])] = q[i + 1]
        BY <3>4, <1>1 DEF ListsOK, ListOf
      <4>3. s.queue[p][i + 1] = q[i + 1]
        BY <3>1, <3>4, <2>2, <1>1, <1>2
      <4>. QED
        BY <4>1, <4>2, <4>3, <3>1, <3>2, <1>2, <1>8
    <3>. QED
      BY <3>3, <3>4
  <2>6. \A i \in DOMAIN s.queue[p] : Pri(s.queue[p][i]) = p
    <3>1. \A i \in DOMAIN q : Pri(q[i]) = p
      BY <1>1 DEF ListsOK, ListOf
    <3>. QED
      BY <3>1, <1>13, <1>14
  <2>7. s.queue[p] # <<>> /\ s.head[p] = s.queue[p][1] /\ s.tail[p] = s.queue[p][Len(s.queue[p])]
    <3>1. s.head[p] = s.queue[p][1]
      <4>1. CASE q = <<>>
        BY <4>1, <1>6, <2>3
      <4>2. CASE q # <<>>
        <5>1. l.head[p] = q[1] /\ 1 \in DOMAIN q
          BY <4>2, <1>1, <1>2 DEF ListsOK, ListOf
        <5>. QED
          BY <4>2, <5>1, <1>6, <2>2
      <4>. QED
        BY <4>1, <4>2
    <3>. QED
      BY <3>1, <2>1, <2>3, <1>4
  <2>8. \A i \in DOMAIN s.queue[p] :
          s.link[WPtr(s.queue[p][i])]
            = IF i = Len(s.queue[p]) THEN NotProcess ELSE s.queue[p][i + 1]
    <3>. SUFFICES ASSUME NEW i \in DOMAIN s.queue[p]
                  PROVE  s.link[WPtr(s.queue[p][i])]
                           = IF i = Len(s.queue[p]) THEN NotProcess ELSE s.queue[p][i + 1]
      OBVIOUS
    <3>1. CASE i = Len(q) + 1
      BY <3>1, <2>1, <2>3, <2>4
    <3>2. CASE i \in DOMAIN q
      BY <3>2, <2>2, <2>5, <1>13
    <3>. QED
      BY <3>1, <3>2, <1>13
  <2>. QED
    BY <2>6, <2>7, <2>8 DEF ListOf
<1>10. ASSUME NEW r \in Priority, r # p
       PROVE  ListOf(s, r)
  <2>1. ListOf(l, r)
    BY DEF ListsOK
  <2>2. ASSUME NEW i \in DOMAIN l.queue[r]
        PROVE  s.link[WPtr(l.queue[r][i])] = l.link[WPtr(l.queue[r][i])]
    <3>1. WPtr(l.queue[r][i]) # WPtr(d)
      BY <1>7
    <3>2. q # <<>> => WPtr(l.queue[r][i]) # WPtr(l.tail[p])
      <4>1. q # <<>> => l.tail[p] = q[Len(q)] /\ Len(q) \in DOMAIN q
        BY <1>1, <1>2 DEF ListsOK, ListOf
      <4>. QED
        BY <4>1, <1>1, <1>10 DEF ListsOK, NoneTwice
    <3>. QED
      BY <3>1, <3>2, <1>2, <1>3, <1>8
  <2>3. s.queue[r] = l.queue[r] /\ s.head[r] = l.head[r] /\ s.tail[r] = l.tail[r]
    BY <1>4, <1>10
  <2>. QED
    BY <2>1, <2>2, <2>3 DEF ListOf
<1>11. NoneTwice(s)
  <2>. SUFFICES ASSUME NEW r1 \in Priority, NEW r2 \in Priority,
                       NEW i \in DOMAIN s.queue[r1], NEW j \in DOMAIN s.queue[r2],
                       WPtr(s.queue[r1][i]) = WPtr(s.queue[r2][j])
                PROVE  r1 = r2 /\ i = j
    BY DEF NoneTwice
  <2>. DEFINE last(r, k) == r = p /\ k = Len(q) + 1
  <2>1. \A r \in Priority : \A k \in DOMAIN s.queue[r] :
          \/ last(r, k) /\ s.queue[r][k] = d
          \/ k \in DOMAIN l.queue[r] /\ s.queue[r][k] = l.queue[r][k]
    BY <1>4, <1>13
  <2>2. CASE last(r1, i) \/ last(r2, j)
    BY <2>1, <2>2, <1>7, <1>13
  <2>3. CASE ~last(r1, i) /\ ~last(r2, j)
    BY <2>1, <2>3 DEF ListsOK, NoneTwice
  <2>. QED
    BY <2>2, <2>3
<1>12. ASSUME NEW w \in Workspace
       PROVE  QueuedIn(s, w) <=> QueuedIn(l, w) \/ w = WPtr(d)
  <2>1. ASSUME QueuedIn(s, w)
        PROVE  QueuedIn(l, w) \/ w = WPtr(d)
    <3>3. PICK r \in Priority : \E i \in DOMAIN s.queue[r] : WPtr(s.queue[r][i]) = w
      BY <2>1 DEF QueuedIn
    <3>1. PICK i \in DOMAIN s.queue[r] : WPtr(s.queue[r][i]) = w
      BY <3>3
    <3>2. \/ s.queue[r][i] = d
          \/ i \in DOMAIN l.queue[r] /\ s.queue[r][i] = l.queue[r][i]
      BY <1>4, <1>13
    <3>. QED
      BY <3>1, <3>2 DEF QueuedIn
  <2>2. ASSUME QueuedIn(l, w)
        PROVE  QueuedIn(s, w)
    <3>3. PICK r \in Priority : \E i \in DOMAIN l.queue[r] : WPtr(l.queue[r][i]) = w
      BY <2>2 DEF QueuedIn
    <3>1. PICK i \in DOMAIN l.queue[r] : WPtr(l.queue[r][i]) = w
      BY <3>3
    <3>2. i \in DOMAIN s.queue[r] /\ s.queue[r][i] = l.queue[r][i]
      BY <1>4, <1>13
    <3>. QED
      BY <3>1, <3>2 DEF QueuedIn
  <2>3. QueuedIn(s, WPtr(d))
    BY <1>1, <1>13 DEF QueuedIn
  <2>. QED
    BY <2>1, <2>2, <2>3
<1>. QED
  BY <1>9, <1>10, <1>11, <1>12 DEF ListsOK, s

(* The first of a list can be taken from it, and then is on none.          *)
LEMMA DropOK ==
  ASSUME NEW l \in Lists, NEW p \in Priority, ListsOK(l), l.head[p] \in Descriptor
  PROVE  /\ ListsOK(dropHead(l, p))
         /\ QueuedIn(l, WPtr(l.head[p]))
         /\ \A w \in Workspace :
              QueuedIn(dropHead(l, p), w) <=> QueuedIn(l, w) /\ w # WPtr(l.head[p])
<1>. DEFINE s == dropHead(l, p)
            q == l.queue[p]
<1>1. /\ l.queue \in [Priority -> Seq(Descriptor)] /\ q \in Seq(Descriptor)
      /\ l.link \in [Workspace -> Descriptor \cup {NotProcess, Unset}]
      /\ l.head \in [Priority -> Descriptor \cup {NotProcess, Unset}]
  BY DEF Lists
<1>2. \A r \in Priority : ListOf(l, r)
  BY DEF ListsOK
<1>3. q # <<>> /\ l.head[p] = q[1] /\ l.tail[p] = q[Len(q)]
  BY <1>2, SchedulerAssumption DEF ListOf
<1>4. /\ DOMAIN q = 1 .. Len(q) /\ Len(q) \in Nat \ {0} /\ 1 \in DOMAIN q
      /\ DOMAIN Tail(q) = 1 .. Len(q) - 1 /\ Len(Tail(q)) = Len(q) - 1
      /\ \A i \in 1 .. Len(q) - 1 : Tail(q)[i] = q[i + 1]
  BY <1>1, <1>3
<1>5. /\ s.queue[p] = Tail(q) /\ s.tail = l.tail /\ s.link = l.link
      /\ s.head[p] = l.link[WPtr(q[1])]
      /\ \A r \in Priority \ {p} : s.queue[r] = l.queue[r] /\ s.head[r] = l.head[r]
  BY <1>1, <1>3 DEF dropHead, Lists
<1>11. /\ DOMAIN s.queue[p] = 1 .. Len(q) - 1 /\ Len(s.queue[p]) = Len(q) - 1
       /\ \A i \in 1 .. Len(q) - 1 : s.queue[p][i] = q[i + 1]
       /\ s.queue[p] = <<>> <=> Len(q) = 1
  <2>1. Tail(q) \in Seq(Descriptor) /\ (Tail(q) = <<>> <=> Len(Tail(q)) = 0)
    <3>1. \A t \in Seq(Descriptor) : (t = <<>> <=> Len(t) = 0) /\ (t # <<>> => Tail(t) \in Seq(Descriptor))
      OBVIOUS
    <3>. QED
      BY <3>1, <1>1, <1>3
  <2>2. Tail(q) = <<>> <=> Len(q) = 1
    BY <2>1, <1>4
  <2>. HIDE DEF s
  <2>. QED
    BY <2>2, <1>4, <1>5
<1>. HIDE DEF s
<1>6. ListOf(s, p)
  <2>1. \A i \in DOMAIN q : /\ Pri(q[i]) = p
                            /\ l.link[WPtr(q[i])] = IF i = Len(q) THEN NotProcess ELSE q[i + 1]
    BY <1>2 DEF ListOf
  <2>2. \A i \in DOMAIN s.queue[p] : /\ i + 1 \in DOMAIN q /\ s.queue[p][i] = q[i + 1]
                                     /\ i \in 1 .. Len(q) - 1
    BY <1>4, <1>11
  <2>3. s.queue[p] = <<>> => s.head[p] = NotProcess
    BY <1>4, <1>5, <1>11, <2>1
  <2>4. ASSUME s.queue[p] # <<>>
        PROVE  s.head[p] = s.queue[p][1] /\ s.tail[p] = s.queue[p][Len(s.queue[p])]
    <3>1. Len(q) # 1
      BY <2>4, <1>11
    <3>2. s.queue[p][1] = q[1 + 1] /\ s.queue[p][Len(s.queue[p])] = q[Len(q)] /\ 1 \in DOMAIN q
      <4>1. Len(q) - 1 \in 1 .. Len(q) - 1 /\ 1 \in 1 .. Len(q) - 1 /\ (Len(q) - 1) + 1 = Len(q)
        <5>1. Len(q) \in Nat \ {0, 1}
          BY <3>1, <1>4
        <5>2. \A n \in Nat \ {0, 1} : n - 1 \in 1 .. n - 1 /\ 1 \in 1 .. n - 1 /\ (n - 1) + 1 = n
          OBVIOUS
        <5>. QED
          BY <5>1, <5>2
      <4>. QED
        BY <4>1, <1>4, <1>11
    <3>3. l.link[WPtr(q[1])] = q[1 + 1]
      BY <3>1, <3>2, <2>1
    <3>. QED
      BY <3>2, <3>3, <1>3, <1>5
  <2>5. ASSUME NEW i \in DOMAIN s.queue[p]
        PROVE  /\ Pri(s.queue[p][i]) = p
               /\ s.link[WPtr(s.queue[p][i])]
                    = IF i = Len(s.queue[p]) THEN NotProcess ELSE s.queue[p][i + 1]
    <3>1. CASE i = Len(q) - 1
      BY <3>1, <2>1, <2>2, <1>4, <1>5, <1>11
    <3>2. CASE i # Len(q) - 1
      <4>1. i + 1 \in 1 .. Len(q) - 1 /\ i + 1 # Len(q) /\ i # Len(s.queue[p])
        <5>1. i \in 1 .. Len(q) - 1 /\ Len(q) \in Nat /\ Len(s.queue[p]) = Len(q) - 1
          BY <2>2, <1>4, <1>11
        <5>. QED
          BY <3>2, <5>1
      <4>2. s.queue[p][i + 1] = q[(i + 1) + 1]
        BY <4>1, <1>4, <1>5, <1>11
      <4>. QED
        BY <4>1, <4>2, <2>1, <2>2, <1>5
    <3>. QED
      BY <3>1, <3>2
  <2>. QED
    BY <2>3, <2>4, <2>5 DEF ListOf
<1>7. ASSUME NEW r \in Priority, r # p
      PROVE  ListOf(s, r)
  <2>1. /\ ListOf(l, r)
        /\ s.queue[r] = l.queue[r] /\ s.head[r] = l.head[r] /\ s.tail = l.tail /\ s.link = l.link
    BY <1>2, <1>5, <1>7
  <2>. QED
    BY <2>1 DEF ListOf
<1>8. NoneTwice(s)
  <2>. SUFFICES ASSUME NEW r1 \in Priority, NEW r2 \in Priority,
                       NEW i \in DOMAIN s.queue[r1], NEW j \in DOMAIN s.queue[r2],
                       WPtr(s.queue[r1][i]) = WPtr(s.queue[r2][j])
                PROVE  r1 = r2 /\ i = j
    BY DEF NoneTwice
  <2>. DEFINE before(r, k) == IF r = p THEN k + 1 ELSE k
  <2>1. \A r \in Priority : \A k \in DOMAIN s.queue[r] :
          before(r, k) \in DOMAIN l.queue[r] /\ s.queue[r][k] = l.queue[r][before(r, k)]
    <3>. SUFFICES ASSUME NEW r \in Priority, NEW k \in DOMAIN s.queue[r]
                  PROVE  /\ before(r, k) \in DOMAIN l.queue[r]
                         /\ s.queue[r][k] = l.queue[r][before(r, k)]
      OBVIOUS
    <3>1. CASE r = p
      BY <3>1, <1>4, <1>11
    <3>2. CASE r # p
      BY <3>2, <1>5
    <3>. QED
      BY <3>1, <3>2
  <2>2. r1 = r2 /\ before(r1, i) = before(r2, j)
    BY <2>1 DEF ListsOK, NoneTwice
  <2>3. CASE r1 = p
    BY <2>2, <2>3, <1>4, <1>5, <1>11
  <2>4. CASE r1 # p
    BY <2>2, <2>4
  <2>. QED
    BY <2>3, <2>4
<1>9. ASSUME NEW w \in Workspace
      PROVE  QueuedIn(s, w) <=> QueuedIn(l, w) /\ w # WPtr(l.head[p])
  <2>1. ASSUME QueuedIn(s, w)
        PROVE  QueuedIn(l, w) /\ w # WPtr(l.head[p])
    <3>1. PICK r \in Priority : \E i \in DOMAIN s.queue[r] : WPtr(s.queue[r][i]) = w
      BY <2>1 DEF QueuedIn
    <3>2. PICK i \in DOMAIN s.queue[r] : WPtr(s.queue[r][i]) = w
      BY <3>1
    <3>3. PICK k \in DOMAIN l.queue[r] : WPtr(l.queue[r][k]) = w /\ (r = p => k # 1)
      <4>1. CASE r = p
        <5>1. /\ i + 1 \in DOMAIN l.queue[r] /\ i + 1 # 1
              /\ WPtr(l.queue[r][i + 1]) = w
          BY <4>1, <3>2, <1>4, <1>11
        <5>. QED
          BY <5>1
      <4>2. CASE r # p
        BY <4>2, <3>2, <1>5
      <4>. QED
        BY <4>1, <4>2
    <3>4. w # WPtr(q[1])
      BY <3>3, <1>4 DEF ListsOK, NoneTwice
    <3>. QED
      BY <3>3, <3>4, <1>3 DEF QueuedIn
  <2>2. ASSUME QueuedIn(l, w), w # WPtr(l.head[p])
        PROVE  QueuedIn(s, w)
    <3>1. PICK r \in Priority : \E i \in DOMAIN l.queue[r] : WPtr(l.queue[r][i]) = w
      BY <2>2 DEF QueuedIn
    <3>2. PICK i \in DOMAIN l.queue[r] : WPtr(l.queue[r][i]) = w
      BY <3>1
    <3>3. CASE r = p
      <4>1. i - 1 \in 1 .. Len(q) - 1 /\ i = (i - 1) + 1
        BY <3>2, <3>3, <2>2, <1>3, <1>4
      <4>2. i - 1 \in DOMAIN s.queue[p] /\ s.queue[p][i - 1] = q[i]
        BY <4>1, <1>4, <1>5, <1>11
      <4>. QED
        BY <4>2, <3>2, <3>3 DEF QueuedIn
    <3>4. CASE r # p
      BY <3>2, <3>4, <1>5 DEF QueuedIn
    <3>. QED
      BY <3>3, <3>4
  <2>. QED
    BY <2>1, <2>2
<1>10. QueuedIn(l, WPtr(l.head[p]))
  BY <1>3, <1>4 DEF QueuedIn
<1>. QED
  BY <1>6, <1>7, <1>8, <1>9, <1>10 DEF ListsOK, s

-----------------------------------------------------------------------------
(* The places of the processes, and the joins.                             *)

(* A workspace that no process has used is a branch of nothing. *)
Fresh == \A w \in Workspace : program.state[w] = "free" => program.join[w] = Unset

Places == ListsOK(lists) /\ OnePlace /\ Joins /\ Fresh

(* As long as no process that had to wait or end has run on. *)
IInv == TypeOK /\ (~ranOn => Places)

(* The end of an instruction that leaves its process: another of the same  *)
(* priority, taken from its list, is the process in the registers.         *)
LEMMA Descheduled ==
  ASSUME TypeOK, ListsOK(lists), lists.head[Pri(Wdesc)] \in Descriptor,
         NEW ip, NEW saved, deschedule(lists, ip, saved)
  PROVE  /\ ListsOK(lists') /\ Me' \in Workspace /\ InQueue(Me')
         /\ \A w \in Workspace : QueuedIn(lists', w) <=> InQueue(w) /\ w # Me'
<1>. DEFINE p == Pri(Wdesc)
<1>1. p \in Priority /\ lists \in Lists
  BY MeType DEF TypeOK
<1>2. lists' = dropHead(lists, p) /\ Wdesc' = lists.head[p]
  BY SchedulerAssumption DEF deschedule, continue
<1>3. Me' = WPtr(lists.head[p]) /\ Me' \in Workspace
  BY <1>2 DEF Me, WPtr, Descriptor
<1>. QED
  BY <1>1, <1>2, <1>3, DropOK DEF InQueue

LEMMA CanLeave ==
  ASSUME TypeOK, QueuesSet, ~RunsOn
  PROVE  lists.head[Pri(Wdesc)] \in Descriptor
<1>1. Pri(Wdesc) \in Priority /\ lists \in Lists
  BY MeType DEF TypeOK
<1>. QED
  BY <1>1 DEF QueuesSet, RunsOn, Lists

(* The process is left, and nothing knows of it.                           *)
LEMMA Gone ==
  ASSUME TypeOK, Places, lists.head[Pri(Wdesc)] \in Descriptor,
         NEW ip, NEW saved, deschedule(lists, ip, saved), UNCHANGED channel,
         \A w \in Workspace \ {Me} : program'.state[w] = program.state[w]
  PROVE  ListsOK(lists)' /\ OnePlace'
<1>1. /\ ListsOK(lists') /\ Me' \in Workspace /\ InQueue(Me')
      /\ \A w \in Workspace : QueuedIn(lists', w) <=> InQueue(w) /\ w # Me'
  BY Descheduled DEF Places
<1>2. \A w, c : WaitsOn(w, c)' <=> WaitsOn(w, c)
  BY DEF WaitsOn
<1>3. Me' # Me
  BY <1>1 DEF Places, OnePlace
<1>. QED
  BY <1>1, <1>2, <1>3 DEF Places, OnePlace, InQueue, Waits

(* The process waits on a channel.                                         *)
LEMMA Waiting ==
  ASSUME TypeOK, Places, QueuesSet, Leaves, ~ranOn',
         NEW c \in Channel, channel[c] = NotProcess,
         channel' = [channel EXCEPT ![c] = Wdesc], UNCHANGED program
  PROVE  ListsOK(lists)' /\ OnePlace'
<1>1. lists.head[Pri(Wdesc)] \in Descriptor /\ deschedule(lists, Following, W_IPTR)
  BY CanLeave DEF Leaves
<1>2. /\ ListsOK(lists') /\ Me' \in Workspace /\ InQueue(Me')
      /\ \A w \in Workspace : QueuedIn(lists', w) <=> InQueue(w) /\ w # Me'
  BY <1>1, Descheduled DEF Places
<1>3. Wdesc # NotProcess /\ channel \in [Channel -> Descriptor \cup {NotProcess}]
  BY SchedulerAssumption DEF TypeOK
<1>4. \A w, x : x \in Channel => (WaitsOn(w, x)' <=> WaitsOn(w, x) \/ (w = Me /\ x = c))
  BY <1>3 DEF WaitsOn, Me
<1>5. Me' # Me
  BY <1>2 DEF Places, OnePlace
<1>. QED
  BY <1>2, <1>4, <1>5 DEF Places, OnePlace, InQueue, Waits

(* A process that is nowhere is scheduled.                                 *)
LEMMA Scheduled ==
  ASSUME TypeOK, Places, QueuesSet, NEW d \in Descriptor, ~InQueue(WPtr(d)),
         NEW saved, Proceeds(schedule(lists, d), saved)
  PROVE  /\ ListsOK(lists') /\ Me' = Me
         /\ \A w \in Workspace : QueuedIn(lists', w) <=> InQueue(w) \/ w = WPtr(d)
<1>1. lists \in Lists /\ Pri(d) \in Priority
  BY DEF TypeOK, Descriptor, Pri
<1>2. lists' = schedule(lists, d) /\ Wdesc' = Wdesc
  BY DEF Proceeds, continue
<1>. QED
  BY <1>1, <1>2, ScheduleOK DEF Places, InQueue, QueuesSet, Me

(* The process that waits on a channel is scheduled.                       *)
LEMMA Woken ==
  ASSUME TypeOK, Places, QueuesSet, NEW c \in Channel, channel[c] # NotProcess,
         Proceeds(schedule(lists, channel[c]), W_IPTR),
         channel' = [channel EXCEPT ![c] = NotProcess], UNCHANGED program
  PROVE  ListsOK(lists)' /\ OnePlace'
<1>. DEFINE v == WPtr(channel[c])
<1>1. channel[c] \in Descriptor /\ v \in Workspace /\ channel \in [Channel -> Descriptor \cup {NotProcess}]
  BY DEF TypeOK, Descriptor, WPtr
<1>2. WaitsOn(v, c) /\ ~InQueue(v) /\ v # Me
  BY <1>1 DEF WaitsOn, Waits, Places, OnePlace
<1>3. /\ ListsOK(lists') /\ Me' = Me
      /\ \A w \in Workspace : QueuedIn(lists', w) <=> InQueue(w) \/ w = v
  BY <1>1, <1>2, Scheduled
<1>4. \A w, x : x \in Channel => (WaitsOn(w, x)' <=> WaitsOn(w, x) /\ x # c)
  BY <1>1 DEF WaitsOn
<1>5. \A w \in Workspace : Waits(w)' <=> Waits(w) /\ w # v
  <2>1. \A x \in Channel : WaitsOn(v, x) => x = c
    BY <1>1, <1>2 DEF Places, OnePlace
  <2>2. \A w \in Workspace : WaitsOn(w, c) => w = v
    BY DEF WaitsOn
  <2>. QED
    BY <1>4, <2>1, <2>2 DEF Waits
<1>6. OnePlace'
  <2>1. \A w \in Workspace : InQueue(w)' <=> InQueue(w) \/ w = v
    BY <1>3 DEF InQueue
  <2>2. Me \in Workspace /\ Waits(v)
    BY <1>2, MeType DEF TypeOK, Waits
  <2>3. ~InQueue(Me)' /\ ~Waits(Me)' /\ program'.state[Me'] = "live"
    BY <1>2, <1>3, <1>5, <2>1, <2>2 DEF Places, OnePlace
  <2>4. \A w \in Workspace : /\ InQueue(w)' \/ Waits(w)' => program'.state[w] = "live"
                             /\ ~(InQueue(w)' /\ Waits(w)')
    BY <1>5, <2>1, <2>2 DEF Places, OnePlace
  <2>5. \A w \in Workspace : \A x, y \in Channel : WaitsOn(w, x)' /\ WaitsOn(w, y)' => x = y
    BY <1>4 DEF Places, OnePlace
  <2>. QED
    BY <1>3, <2>3, <2>4, <2>5 DEF OnePlace
<1>. QED
  BY <1>3, <1>6

LEMMA PlacesInit == Init => IInv
<1>. SUFFICES ASSUME Init PROVE IInv
  OBVIOUS
<1>1. \A p \in Priority : lists.queue[p] = <<>> /\ lists.head[p] = Unset
  BY DEF Init
<1>2. ListsOK(lists) /\ \A w : ~InQueue(w)
  <2>1. \A p \in Priority : DOMAIN lists.queue[p] = {}
    BY <1>1
  <2>2. \A p \in Priority : ListOf(lists, p)
    BY <1>1, <2>1 DEF ListOf
  <2>3. NoneTwice(lists)
    BY <2>1 DEF NoneTwice
  <2>4. \A w : ~InQueue(w)
    BY <2>1 DEF InQueue, QueuedIn
  <2>. QED
    BY <2>2, <2>3, <2>4 DEF ListsOK
<1>3. OnePlace
  <2>1. \A w : \A c \in Channel : ~WaitsOn(w, c)
    BY DEF Init, WaitsOn
  <2>2. program.state[Me] = "live"
    BY SchedulerAssumption DEF Init, Me, WPtr
  <2>. QED
    BY <1>2, <2>1, <2>2 DEF OnePlace, Waits
<1>4. Joins /\ Fresh
  <2>1. \A j \in Workspace : Branches(j) = {} /\ count[j] = 0 /\ program.state[j] # "joining"
    BY SchedulerAssumption DEF Init, Branches
  <2>. QED
    BY <2>1, FS_EmptySet DEF Joins, Fresh, Init
<1>. QED
  BY <1>2, <1>3, <1>4, TypeInit DEF IInv, Places

(* What no action but startp and endp changes. *)
LEMMA JoinsKept ==
  ASSUME Places, UNCHANGED count, UNCHANGED program.join,
         \A w \in Workspace : \/ program'.state[w] = program.state[w]
                              \/ {program.state[w], program'.state[w]} \cap {"joining"} = {}
                                 /\ program'.state[w] # "free"
  PROVE  Joins' /\ Fresh'
<1>1. \A j \in Workspace : Branches(j)' = Branches(j)
  BY DEF Branches
<1>. QED
  BY <1>1 DEF Places, Joins, Fresh

LEMMA BranchesFinite ==
  ASSUME NEW j
  PROVE  IsFiniteSet(Branches(j)) /\ Cardinality(Branches(j)) \in Nat
BY SchedulerAssumption, FS_Subset, FS_CardinalityType DEF Branches

(* A branch more, or two, for j; and j is joining.                         *)
LEMMA StartpJoins ==
  ASSUME TypeOK, Places, NEW w \in Workspace, NEW j \in Workspace, startp(w, j)
  PROVE  Joins' /\ Fresh'
<1>1. /\ Me \in Workspace /\ program.state[Me] = "live" /\ program.state[w] = "free" /\ w # j
      /\ program.join[w] = Unset /\ Unset \notin Workspace
      /\ program \in Program /\ count \in [Workspace -> Int]
  BY MeType, SchedulerAssumption DEF TypeOK, Places, OnePlace, Fresh, startp
<1>2. program.join[Me] = j \/ (program.join[Me] = Unset /\ program.state[j] = "free")
  BY DEF startp
<1>3. Me # j /\ Me # w
  <2>1. program.join[Me] = j => Branches(j) # {}
    BY <1>1 DEF Branches
  <2>. QED
    BY <1>1, <1>2, <2>1 DEF Places, Joins
<1>4. /\ \A v \in Workspace :
           /\ program'.join[v] = IF v \in {Me, w} THEN j ELSE program.join[v]
           /\ program'.state[v] = IF v = w THEN "live" ELSE IF v = j THEN "joining" ELSE program.state[v]
      /\ \A v \in Workspace \ {j} : count'[v] = count[v]
      /\ count'[j] = IF count[j] = 0 THEN 2 ELSE count[j] + 1
  BY <1>1, <1>3 DEF startp, Program
<1>5. Branches(j)' = Branches(j) \cup {Me, w} /\ w \notin Branches(j)
  BY <1>1, <1>4 DEF Branches
<1>6. \A v \in Workspace \ {j} : Branches(v)' = Branches(v)
  BY <1>1, <1>2, <1>4 DEF Branches
<1>7. count'[j] = Cardinality(Branches(j)')
  <2>1. CASE program.join[Me] = j
    <3>1. Me \in Branches(j) /\ Branches(j)' = Branches(j) \cup {w}
      BY <2>1, <1>1, <1>5 DEF Branches
    <3>2. Cardinality(Branches(j)') = Cardinality(Branches(j)) + 1
      BY <3>1, <1>5, BranchesFinite, FS_AddElement
    <3>3. count[j] = Cardinality(Branches(j)) /\ count[j] # 0
      BY <3>1, BranchesFinite, FS_EmptySet DEF Places, Joins
    <3>. QED
      BY <3>2, <3>3, <1>4
  <2>2. CASE program.join[Me] = Unset /\ program.state[j] = "free"
    <3>1. Branches(j) = {} /\ count[j] = 0
      BY <2>2, FS_EmptySet DEF Places, Joins
    <3>2. Branches(j)' = {Me} \cup {w} /\ IsFiniteSet({Me}) /\ Cardinality({Me}) = 1
      BY <3>1, <1>5, FS_Singleton
    <3>3. Cardinality(Branches(j)') = 2
      BY <3>2, <1>3, FS_AddElement
    <3>. QED
      BY <3>1, <3>3, <1>4
  <2>. QED
    BY <1>2, <2>1, <2>2
<1>8. Joins'
  <2>1. \A v \in Workspace : count'[v] = Cardinality(Branches(v)')
    BY <1>4, <1>6, <1>7 DEF Places, Joins
  <2>2. \A v \in Workspace : program'.state[v] = "joining" <=> Branches(v)' # {}
    BY <1>1, <1>4, <1>5, <1>6 DEF Places, Joins
  <2>. QED
    BY <2>1, <2>2 DEF Joins
<1>9. Fresh'
  BY <1>1, <1>3, <1>4 DEF Places, Fresh
<1>. QED
  BY <1>8, <1>9

(* A branch fewer for the workspace at which the process joins.            *)
LEMMA EndpJoins ==
  ASSUME TypeOK, Places, NEW j \in Workspace, program.join[Me] = j,
         NEW st \in {"joining", "live"}, st = "live" <=> count[j] = 1,
         count' = [count EXCEPT ![j] = @ - 1],
         \A v \in Workspace :
           /\ program'.join[v] = IF v = Me THEN Unset ELSE program.join[v]
           /\ program'.state[v] = IF v = Me THEN "ended" ELSE
                                  IF v = j THEN st ELSE program.state[v]
  PROVE  Joins' /\ Fresh'
<1>1. /\ Me \in Workspace /\ program.state[Me] = "live" /\ Unset \notin Workspace
      /\ count \in [Workspace -> Int]
      /\ \A v \in Workspace \ {j} : count'[v] = count[v]
      /\ count'[j] = count[j] - 1
  BY MeType, SchedulerAssumption DEF TypeOK, Places, OnePlace
<1>2. Me \in Branches(j) /\ program.state[j] = "joining" /\ Me # j
  BY <1>1 DEF Branches, Places, Joins
<1>5. Branches(j)' = Branches(j) \ {Me}
  BY <1>1 DEF Branches
<1>6. \A v \in Workspace \ {j} : Branches(v)' = Branches(v)
  BY <1>1 DEF Branches
<1>7. Cardinality(Branches(j)') = count'[j]
  <2>1. Cardinality(Branches(j) \ {Me}) = Cardinality(Branches(j)) - 1
    BY <1>2, BranchesFinite, FS_RemoveElement
  <2>2. count[j] = Cardinality(Branches(j))
    BY DEF Places, Joins
  <2>. QED
    BY <1>1, <1>5, <2>1, <2>2
<1>8. st = "joining" <=> Branches(j)' # {}
  <2>1. IsFiniteSet(Branches(j)')
    BY <1>5, BranchesFinite, FS_RemoveElement
  <2>2. Branches(j)' = {} <=> count'[j] = 0
    BY <2>1, <1>7, FS_EmptySet
  <2>. QED
    BY <2>2, <1>1
<1>9. Joins'
  <2>1. \A v \in Workspace : count'[v] = Cardinality(Branches(v)')
    BY <1>1, <1>6, <1>7 DEF Places, Joins
  <2>2. \A v \in Workspace : program'.state[v] = "joining" <=> Branches(v)' # {}
    BY <1>1, <1>2, <1>6, <1>8 DEF Places, Joins
  <2>. QED
    BY <2>1, <2>2 DEF Joins
<1>10. Fresh'
  BY <1>1, <1>2 DEF Places, Fresh
<1>. QED
  BY <1>9, <1>10

LEMMA RunpStates ==
  ASSUME program \in Program, NEW w \in Workspace, NEW p \in Priority, runp(w, p)
  PROVE  /\ program.state[w] \in {"free", "stopped"} /\ program'.join = program.join
         /\ \A v \in Workspace : program'.state[v] = IF v = w THEN "live" ELSE program.state[v]
<1>1. \/ program' = [program EXCEPT !.state[w] = "live"] /\ program.state[w] = "free"
      \/ program' = [program EXCEPT !.state[w] = "live", !.restarts = @ + 1]
         /\ program.state[w] = "stopped"
  BY DEF runp
<1>2. program.state \in [Workspace -> {"free", "live", "stopped", "joining", "ended"}]
  BY DEF Program
<1>3. program'.state = [program.state EXCEPT ![w] = "live"] /\ program'.join = program.join
  BY <1>1 DEF Program
<1>. QED
  BY <1>1, <1>2, <1>3

LEMMA PlacesStep ==
  ASSUME TypeOK, Places, Next, ~ranOn'
  PROVE  Places'
<1>. USE DEF memoryVars
<1>0. /\ Me \in Workspace /\ Pri(Wdesc) \in Priority /\ lists \in Lists
      /\ program \in Program /\ program.state[Me] = "live"
  BY MeType DEF TypeOK, Places, OnePlace
<1>1. ASSUME Wdesc' = Wdesc, UNCHANGED <<channel, program, count>>, ListsOK(lists'),
             lists'.queue = lists.queue
      PROVE  Places'
  <2>1. Me' = Me /\ (\A w : InQueue(w)' <=> InQueue(w))
        /\ (\A w, c : WaitsOn(w, c)' <=> WaitsOn(w, c))
    BY <1>1 DEF Me, InQueue, QueuedIn, WaitsOn
  <2>2. OnePlace'
    BY <2>1, <1>1 DEF Places, OnePlace, Waits
  <2>. QED
    BY <2>2, <1>1, JoinsKept DEF Places
<1>2. CASE other
  BY <1>1, <1>2 DEF other, Proceeds, continue, Places
<1>3. ASSUME NEW p \in Priority, storeFront(p)
      PROVE  Places'
  <2>1. ListsOK(lists') /\ lists'.queue = lists.queue
    <3>1. lists' = [lists EXCEPT !.head[p] = NotProcess] /\ lists.head[p] = Unset
      BY <1>3 DEF storeFront, Proceeds, continue
    <3>2. lists.queue[p] = <<>>
      <4>1. lists.queue[p] # <<>> => lists.queue[p][1] \in Descriptor
        BY <1>0 DEF Lists
      <4>. QED
        BY <4>1, <3>1, SchedulerAssumption DEF Places, ListsOK, ListOf
    <3>3. /\ lists'.queue = lists.queue /\ lists'.tail = lists.tail /\ lists'.link = lists.link
          /\ \A r \in Priority : lists'.head[r] = IF r = p THEN NotProcess ELSE lists.head[r]
      BY <3>1, <1>0 DEF Lists
    <3>4. ASSUME NEW r \in Priority PROVE ListOf(lists', r)
      <4>1. ListOf(lists, r)
        BY DEF Places, ListsOK
      <4>. QED
        BY <4>1, <3>2, <3>3 DEF ListOf
    <3>. QED
      BY <3>3, <3>4 DEF Places, ListsOK, NoneTwice
  <2>. QED
    BY <2>1, <1>1, <1>3 DEF storeFront, Proceeds, continue
<1>4. ASSUME NEW c \in Channel, inWaits(c)
      PROVE  Places'
  <2>1. ListsOK(lists)' /\ OnePlace'
    BY <1>4, Waiting DEF inWaits
  <2>. QED
    BY <1>4, <2>1, JoinsKept DEF inWaits, Places
<1>5. ASSUME NEW c \in Channel, inProceeds(c)
      PROVE  Places'
  <2>1. ListsOK(lists)' /\ OnePlace'
    BY <1>5, Woken DEF inProceeds
  <2>. QED
    BY <1>5, <2>1, JoinsKept DEF inProceeds, Places
<1>6. ASSUME NEW c \in Channel, NEW m \in Message, NEW area \in {c, Temp}, outWaits(c, m, area)
      PROVE  Places'
  <2>1. ListsOK(lists)' /\ OnePlace'
    BY <1>6, Waiting DEF outWaits
  <2>. QED
    BY <1>6, <2>1, JoinsKept DEF outWaits, Places
<1>7. ASSUME NEW c \in Channel, NEW m \in Message, outProceeds(c, m)
      PROVE  Places'
  <2>1. ListsOK(lists)' /\ OnePlace'
    BY <1>7, Woken DEF outProceeds
  <2>. QED
    BY <1>7, <2>1, JoinsKept DEF outProceeds, Places
<1>8. ASSUME NEW w \in Workspace, NEW p \in Priority, NEW saved, QueuesSet,
             program.state[w] # "live", Proceeds(schedule(lists, <<w, p>>), saved),
             UNCHANGED channel, program'.state[w] = "live",
             \A v \in Workspace \ {w} :
               program.state[v] = "live" <=> program'.state[v] = "live"
      PROVE  ListsOK(lists)' /\ OnePlace'
  <2>1. <<w, p>> \in Descriptor /\ WPtr(<<w, p>>) = w
    BY DEF Descriptor, WPtr
  <2>2. ~InQueue(w) /\ ~Waits(w) /\ w # Me
    BY <1>8, <1>0 DEF Places, OnePlace
  <2>3. /\ ListsOK(lists') /\ Me' = Me
        /\ \A v \in Workspace : QueuedIn(lists', v) <=> InQueue(v) \/ v = w
    BY <1>8, <2>1, <2>2, Scheduled
  <2>4. \A v, c : WaitsOn(v, c)' <=> WaitsOn(v, c)
    BY <1>8 DEF WaitsOn
  <2>. QED
    BY <1>0, <1>8, <2>2, <2>3, <2>4 DEF Places, OnePlace, InQueue, Waits
<1>9. ASSUME NEW w \in Workspace, NEW j \in Workspace, startp(w, j)
      PROVE  Places'
  <2>1. program.state[j] # "live" /\ program.state[w] # "live"
    <3>1. program.join[Me] = j => Branches(j) # {}
      BY <1>0 DEF Branches
    <3>. QED
      BY <3>1, <1>9 DEF startp, Places, Joins
  <2>2. \A v \in Workspace :
          program'.state[v] = IF v = j THEN "joining" ELSE IF v = w THEN "live" ELSE program.state[v]
    BY <1>0, <1>9 DEF startp, Program
  <2>3. ListsOK(lists)' /\ OnePlace'
    <3>1. /\ QueuesSet /\ UNCHANGED channel /\ w # j
          /\ Proceeds(schedule(lists, <<w, Pri(Wdesc)>>), [W_IPTR EXCEPT ![w] = <<w, 0>>])
      BY <1>9 DEF startp
    <3>. QED
      BY <3>1, <1>0, <1>8, <2>1, <2>2
  <2>. QED
    BY <1>9, <2>3, StartpJoins DEF Places
<1>10. CASE endpWaits
  <2>. DEFINE j == program.join[Me]
  <2>1. j \in Workspace /\ Me \in Branches(j) /\ program.state[j] = "joining" /\ j # Me
    <3>1. j \in Workspace /\ Me \in Branches(j)
      BY <1>0, <1>10 DEF endpWaits, Program, Branches
    <3>. QED
      BY <3>1, <1>0 DEF Places, Joins
  <2>2. \A v \in Workspace :
          /\ program'.join[v] = IF v = Me THEN Unset ELSE program.join[v]
          /\ program'.state[v] = IF v = Me THEN "ended" ELSE program.state[v]
    BY <1>0, <1>10 DEF endpWaits, Program
  <2>3. Joins' /\ Fresh'
    <3>1. count[j] # 1 /\ count' = [count EXCEPT ![j] = @ - 1]
      BY <1>10 DEF endpWaits
    <3>2. \A v \in Workspace :
            program'.state[v] = IF v = Me THEN "ended" ELSE
                                IF v = j THEN "joining" ELSE program.state[v]
      BY <2>1, <2>2
    <3>. QED
      BY <3>1, <3>2, <2>1, <2>2, EndpJoins
  <2>4. ListsOK(lists)' /\ OnePlace'
    <3>1. lists.head[Pri(Wdesc)] \in Descriptor /\ deschedule(lists, Following, W_IPTR)
      BY <1>10, CanLeave DEF endpWaits, Leaves
    <3>2. UNCHANGED channel
      BY <1>10 DEF endpWaits
    <3>. QED
      BY <3>1, <3>2, <2>2, Gone
  <2>. QED
    BY <2>3, <2>4 DEF Places
<1>11. CASE endpJoins
  <2>. DEFINE j == program.join[Me]
  <2>1. j \in Workspace /\ Me \in Branches(j) /\ program.state[j] = "joining" /\ j # Me
    <3>1. j \in Workspace /\ Me \in Branches(j)
      BY <1>0, <1>11 DEF endpJoins, Program, Branches
    <3>. QED
      BY <3>1, <1>0 DEF Places, Joins
  <2>2. \A v \in Workspace :
          /\ program'.join[v] = IF v = Me THEN Unset ELSE program.join[v]
          /\ program'.state[v] = IF v = Me THEN "ended" ELSE
                                 IF v = j THEN "live" ELSE program.state[v]
    BY <1>0, <1>11, <2>1 DEF endpJoins, Program
  <2>3. Joins' /\ Fresh'
    <3>1. count[j] = 1 /\ count' = [count EXCEPT ![j] = @ - 1]
      BY <1>11 DEF endpJoins
    <3>. QED
      BY <3>1, <2>1, <2>2, EndpJoins
  <2>4. lists' = lists /\ Me' = j /\ channel' = channel
    BY <1>11 DEF endpJoins, continue, Me, WPtr
  <2>5. \A v, c : WaitsOn(v, c)' <=> WaitsOn(v, c)
    BY <2>4 DEF WaitsOn
  <2>6. OnePlace'
    BY <1>0, <2>1, <2>2, <2>4, <2>5 DEF Places, OnePlace, InQueue, Waits
  <2>. QED
    BY <2>3, <2>4, <2>6 DEF Places
<1>12. CASE stopp
  <2>1. /\ lists.head[Pri(Wdesc)] \in Descriptor
        /\ deschedule(lists, Following, [W_IPTR EXCEPT ![Me] = Following])
        /\ UNCHANGED <<channel, count>>
    BY <1>12, CanLeave DEF stopp
  <2>2. /\ program'.join = program.join
        /\ \A v \in Workspace : program'.state[v] = IF v = Me THEN "stopped" ELSE program.state[v]
    BY <1>0, <1>12 DEF stopp, Program
  <2>3. ListsOK(lists)' /\ OnePlace'
    BY <2>1, <2>2, Gone
  <2>4. Joins' /\ Fresh'
    BY <1>0, <2>1, <2>2, JoinsKept
  <2>. QED
    BY <2>3, <2>4 DEF Places
<1>13. ASSUME NEW w \in Workspace, NEW p \in Priority, runp(w, p)
       PROVE  Places'
  <2>1. /\ program.state[w] \in {"free", "stopped"} /\ program'.join = program.join
        /\ \A v \in Workspace : program'.state[v] = IF v = w THEN "live" ELSE program.state[v]
    BY <1>0, <1>13, RunpStates
  <2>2. PICK saved : Proceeds(schedule(lists, <<w, p>>), saved)
    BY <1>13 DEF runp
  <2>3. QueuesSet /\ UNCHANGED <<channel, count>>
    BY <1>13 DEF runp
  <2>4. ListsOK(lists)' /\ OnePlace'
    BY <2>1, <2>2, <2>3, <1>8
  <2>5. Joins' /\ Fresh'
    BY <2>1, <2>3, JoinsKept
  <2>. QED
    BY <2>4, <2>5 DEF Places
<1>14. ASSUME NEW n \in 0 .. Positions - 1, jump(n)
       PROVE  Places'
  <2>. DEFINE ip == <<IPtr[1], n>>
  <2>1. QueuesSet /\ UNCHANGED <<channel, program, count>>
    BY <1>14 DEF jump
  <2>2. CASE DeschedulePending /\ ~RunsOn
    <3>1. lists.head[Pri(Wdesc)] \in Descriptor /\ deschedule(lists, ip, W_IPTR)
      BY <1>14, <2>1, <2>2, CanLeave DEF jump
    <3>2. ListsOK(lists)' /\ OnePlace'
      BY <2>1, <3>1, Gone
    <3>. QED
      BY <2>1, <3>2, JoinsKept DEF Places
  <2>3. CASE ~(DeschedulePending /\ ~RunsOn)
    <3>1. lists' = lists /\ Wdesc' = Wdesc
      BY <1>14, <2>3 DEF jump, deschedule, continue, RunsOn
    <3>. QED
      BY <2>1, <3>1, <1>1 DEF Places
  <2>. QED
    BY <2>2, <2>3
<1>. QED
  BY <1>2, <1>3, <1>4, <1>5, <1>6, <1>7, <1>9, <1>10, <1>11, <1>12, <1>13, <1>14 DEF Next

LEMMA RanOnStays == Next /\ ~ranOn' => ~ranOn
  BY DEF Next, other, storeFront, inWaits, inProceeds, outWaits, outProceeds, startp,
         endpWaits, endpJoins, stopp, runp, jump, Proceeds, Leaves

LEMMA PlacesInductive == IInv /\ [Next]_vars => IInv'
<1>. SUFFICES ASSUME IInv, [Next]_vars PROVE IInv'
  OBVIOUS
<1>1. TypeOK'
  BY TypeStep DEF IInv
<1>2. ASSUME Next, ~ranOn' PROVE Places'
  <2>1. ~ranOn
    BY <1>2, RanOnStays
  <2>. QED
    BY <2>1, <1>2, PlacesStep DEF IInv
<1>3. ASSUME UNCHANGED vars, ~ranOn' PROVE Places'
  <2>1. Me' = Me /\ (\A w : InQueue(w)' <=> InQueue(w)) /\ (\A w : Waits(w)' <=> Waits(w))
        /\ (\A w, c : WaitsOn(w, c)' <=> WaitsOn(w, c)) /\ (\A j : Branches(j)' = Branches(j))
    BY <1>3 DEF vars, memoryVars, Me, InQueue, QueuedIn, Waits, WaitsOn, Branches
  <2>. QED
    BY <2>1, <1>3 DEF vars, memoryVars, IInv, Places, OnePlace, Joins, Fresh
<1>. QED
  BY <1>1, <1>2, <1>3 DEF IInv

(* The lists hold what was scheduled and not yet run, in order.            *)
THEOREM ListsCorrect == Spec => []ListsAreQueues
<1>1. IInv => ListsAreQueues
  BY DEF IInv, Places, ListsOK, ListsAreQueues
<1>. QED
  BY <1>1, PlacesInit, PlacesInductive, PTL DEF Spec

(* No process is in two places, and none that has stopped or ended is in   *)
(* any.                                                                    *)
THEOREM PlacesCorrect == Spec => []EachInOnePlace
<1>1. IInv => EachInOnePlace
  BY DEF IInv, Places, ListsOK, EachInOnePlace
<1>. QED
  BY <1>1, PlacesInit, PlacesInductive, PTL DEF Spec

(* A parallel goes on only when every branch has ended.                    *)
THEOREM JoinsCorrect == Spec => []JoinWhenAllEnded
<1>1. IInv => JoinWhenAllEnded
  BY DEF IInv, Places, JoinWhenAllEnded
<1>. QED
  BY <1>1, PlacesInit, PlacesInductive, PTL DEF Spec

-----------------------------------------------------------------------------
(* Where the processes resume.                                             *)

(* The registers and the workspaces hold where each process left, and the  *)
(* workspaces that no process has used hold nothing else.                  *)
Left ==
  /\ IPtr = at[Me]
  /\ \A w \in Workspace \ {Me} : program.state[w] \in {"live", "stopped"} => W_IPTR[w] = at[w]
  /\ \A w \in Workspace : program.state[w] \in {"free", "joining"} => at[w] = <<w, 0>>

LInv == IInv /\ (~ranOn => Left)

LEMMA LeftInit == Init => LInv
<1>1. Init => Left
  BY SchedulerAssumption DEF Init, Left, Me, WPtr
<1>. QED
  BY <1>1, PlacesInit DEF LInv

(* A process that goes on.                                                 *)
LEMMA LeftProceeds ==
  ASSUME TypeOK, Places, Left, NEW l, NEW saved, Proceeds(l, saved),
         \A w \in Workspace \ {Me} :
           /\ program'.state[w] \in {"live", "stopped"} => saved[w] = at[w]
           /\ program'.state[w] \in {"free", "joining"} => program.state[w] \in {"free", "joining"},
         program'.state[Me] = "live"
  PROVE  Left'
<1>1. Me \in Workspace /\ at \in [Workspace -> Code]
  BY MeType DEF TypeOK
<1>2. /\ Me' = Me /\ IPtr' = Following /\ W_IPTR' = saved
      /\ \A w \in Workspace : at'[w] = IF w = Me THEN Following ELSE at[w]
  BY <1>1 DEF Proceeds, continue, Me
<1>. QED
  BY <1>1, <1>2 DEF Left

(* A process that is left, at ip, for the first of its list.               *)
LEMMA LeftLeaves ==
  ASSUME TypeOK, Places, Left, lists.head[Pri(Wdesc)] \in Descriptor,
         NEW ip, NEW saved \in [Workspace -> Code],
         \A w \in Workspace \ {Me} : saved[w] = W_IPTR[w],
         deschedule(lists, ip, saved), at' = [at EXCEPT ![Me] = ip],
         program'.state[Me] \notin {"free", "joining"},
         \A w \in Workspace \ {Me} : program'.state[w] = program.state[w]
  PROVE  Left'
<1>1. Me \in Workspace /\ at \in [Workspace -> Code]
  BY MeType DEF TypeOK
<1>2. Me' \in Workspace /\ InQueue(Me')
  BY Descheduled DEF Places
<1>3. Me' # Me /\ program.state[Me'] = "live"
  BY <1>2 DEF Places, OnePlace
<1>4. /\ Me' = WPtr(lists.head[Pri(Wdesc)])
      /\ W_IPTR' = [saved EXCEPT ![Me] = ip] /\ IPtr' = W_IPTR'[Me']
  BY SchedulerAssumption DEF deschedule, continue, Me
<1>5. \A w \in Workspace : at'[w] = IF w = Me THEN ip ELSE at[w]
  BY <1>1
<1>6. \A w \in Workspace : W_IPTR'[w] = IF w = Me THEN ip ELSE W_IPTR[w]
  BY <1>1, <1>4
<1>7. IPtr' = at'[Me']
  BY <1>2, <1>3, <1>4, <1>5, <1>6 DEF Left
<1>8. \A w \in Workspace : program'.state[w] \in {"live", "stopped"} => W_IPTR'[w] = at'[w]
  BY <1>5, <1>6 DEF Left
<1>9. \A w \in Workspace : program'.state[w] \in {"free", "joining"} => at'[w] = <<w, 0>>
  BY <1>1, <1>5 DEF Left
<1>. QED
  BY <1>7, <1>8, <1>9 DEF Left

LEMMA LeftStep ==
  ASSUME TypeOK, Places, Left, Next, ~ranOn'
  PROVE  Left'
<1>. USE DEF memoryVars
<1>0. /\ Me \in Workspace /\ program \in Program /\ program.state[Me] = "live"
      /\ W_IPTR \in [Workspace -> Code] /\ at \in [Workspace -> Code]
  BY MeType DEF TypeOK, Places, OnePlace
<1>1. ASSUME NEW l, Proceeds(l, W_IPTR), UNCHANGED program
      PROVE  Left'
  BY <1>0, <1>1, LeftProceeds DEF Left
<1>2. ASSUME QueuesSet, Leaves, program'.state[Me] \notin {"free", "joining"},
             \A w \in Workspace \ {Me} : program'.state[w] = program.state[w]
      PROVE  Left'
  <2>1. /\ lists.head[Pri(Wdesc)] \in Descriptor
        /\ deschedule(lists, Following, W_IPTR) /\ at' = [at EXCEPT ![Me] = Following]
    BY <1>2, CanLeave DEF Leaves, Me
  <2>. QED
    BY <1>0, <1>2, <2>1, LeftLeaves
<1>3. CASE other
  BY <1>1, <1>3 DEF other
<1>4. ASSUME NEW p \in Priority, storeFront(p) PROVE Left'
  BY <1>1, <1>4 DEF storeFront
<1>5. ASSUME NEW c \in Channel, inWaits(c) PROVE Left'
  BY <1>0, <1>2, <1>5 DEF inWaits
<1>6. ASSUME NEW c \in Channel, inProceeds(c) PROVE Left'
  BY <1>1, <1>6 DEF inProceeds
<1>7. ASSUME NEW c \in Channel, NEW m \in Message, NEW area \in {c, Temp}, outWaits(c, m, area)
      PROVE  Left'
  BY <1>0, <1>2, <1>7 DEF outWaits
<1>8. ASSUME NEW c \in Channel, NEW m \in Message, outProceeds(c, m) PROVE Left'
  BY <1>1, <1>8 DEF outProceeds
<1>9. ASSUME NEW w \in Workspace, NEW j \in Workspace, startp(w, j)
      PROVE  Left'
  <2>1. /\ program.state[w] = "free" /\ w # Me /\ w # j
        /\ program.state[j] \in {"free", "joining"} /\ j # Me
    <3>1. program.join[Me] = j => Branches(j) # {}
      BY <1>0 DEF Branches
    <3>. QED
      BY <3>1, <1>0, <1>9 DEF startp, Places, Joins
  <2>2. \A v \in Workspace :
          program'.state[v] = IF v = j THEN "joining" ELSE IF v = w THEN "live" ELSE program.state[v]
    BY <1>0, <1>9 DEF startp, Program
  <2>3. Proceeds(schedule(lists, <<w, Pri(Wdesc)>>), [W_IPTR EXCEPT ![w] = <<w, 0>>])
    BY <1>9 DEF startp
  <2>4. \A v \in Workspace \ {Me} :
          /\ program'.state[v] \in {"live", "stopped"} => [W_IPTR EXCEPT ![w] = <<w, 0>>][v] = at[v]
          /\ program'.state[v] \in {"free", "joining"} => program.state[v] \in {"free", "joining"}
    BY <1>0, <2>1, <2>2 DEF Left
  <2>5. program'.state[Me] = "live"
    BY <1>0, <2>1, <2>2
  <2>. QED
    BY <2>3, <2>4, <2>5, LeftProceeds
<1>10. CASE endpWaits
  <2>1. \A v \in Workspace : program'.state[v] = IF v = Me THEN "ended" ELSE program.state[v]
    BY <1>0, <1>10 DEF endpWaits, Program
  <2>. QED
    BY <1>0, <1>2, <1>10, <2>1 DEF endpWaits
<1>11. CASE endpJoins
  <2>. DEFINE j == program.join[Me]
  <2>1. j \in Workspace /\ program.state[j] = "joining" /\ j # Me
    <3>1. j \in Workspace /\ Me \in Branches(j)
      BY <1>0, <1>11 DEF endpJoins, Program, Branches
    <3>. QED
      BY <3>1, <1>0 DEF Places, Joins
  <2>2. \A v \in Workspace :
          program'.state[v] = IF v = j THEN "live" ELSE IF v = Me THEN "ended" ELSE program.state[v]
    BY <1>0, <1>11, <2>1 DEF endpJoins, Program
  <2>3. Me' = j /\ IPtr' = <<j, 0>> /\ W_IPTR' = W_IPTR /\ at' = at
    BY <1>11 DEF endpJoins, continue, Me, WPtr
  <2>. QED
    BY <2>1, <2>2, <2>3 DEF Left
<1>12. CASE stopp
  <2>1. /\ lists.head[Pri(Wdesc)] \in Descriptor
        /\ deschedule(lists, Following, [W_IPTR EXCEPT ![Me] = Following])
        /\ at' = [at EXCEPT ![Me] = Following]
    BY <1>12, CanLeave DEF stopp
  <2>2. \A v \in Workspace : program'.state[v] = IF v = Me THEN "stopped" ELSE program.state[v]
    BY <1>0, <1>12 DEF stopp, Program
  <2>3. [W_IPTR EXCEPT ![Me] = Following] \in [Workspace -> Code]
    BY <1>0, FollowingType DEF TypeOK
  <2>. QED
    BY <1>0, <2>1, <2>2, <2>3, LeftLeaves
<1>13. ASSUME NEW w \in Workspace, NEW p \in Priority, runp(w, p)
       PROVE  Left'
  <2>1. /\ \A v \in Workspace : program'.state[v] = IF v = w THEN "live" ELSE program.state[v]
        /\ program.state[w] \in {"free", "stopped"}
    BY <1>0, <1>13, RunpStates
  <2>2. CASE program.state[w] = "free"
    <3>1. Proceeds(schedule(lists, <<w, p>>), [W_IPTR EXCEPT ![w] = <<w, 0>>])
      BY <1>13, <2>2 DEF runp
    <3>2. \A v \in Workspace \ {Me} :
            program'.state[v] \in {"live", "stopped"} => [W_IPTR EXCEPT ![w] = <<w, 0>>][v] = at[v]
      BY <1>0, <2>1, <2>2 DEF Left
    <3>3. program'.state[Me] = "live"
      BY <1>0, <2>1
    <3>4. \A v \in Workspace \ {Me} :
            program'.state[v] \in {"free", "joining"} => program.state[v] \in {"free", "joining"}
      BY <2>1
    <3>. QED
      BY <3>1, <3>2, <3>3, <3>4, LeftProceeds
  <2>3. CASE program.state[w] = "stopped"
    <3>1. Proceeds(schedule(lists, <<w, p>>), W_IPTR)
      BY <1>13, <2>3 DEF runp
    <3>2. \A v \in Workspace \ {Me} : program'.state[v] \in {"live", "stopped"} => W_IPTR[v] = at[v]
      BY <2>1, <2>3 DEF Left
    <3>3. program'.state[Me] = "live"
      BY <1>0, <2>1
    <3>4. \A v \in Workspace \ {Me} :
            program'.state[v] \in {"free", "joining"} => program.state[v] \in {"free", "joining"}
      BY <2>1
    <3>. QED
      BY <3>1, <3>2, <3>3, <3>4, LeftProceeds
  <2>. QED
    BY <2>1, <2>2, <2>3
<1>14. ASSUME NEW n \in 0 .. Positions - 1, jump(n)
       PROVE  Left'
  <2>. DEFINE ip == <<IPtr[1], n>>
  <2>1. QueuesSet /\ UNCHANGED program /\ at' = [at EXCEPT ![Me] = ip]
    BY <1>14 DEF jump
  <2>2. CASE DeschedulePending /\ ~RunsOn
    <3>1. lists.head[Pri(Wdesc)] \in Descriptor /\ deschedule(lists, ip, W_IPTR)
      BY <1>14, <2>1, <2>2, CanLeave DEF jump
    <3>. QED
      BY <1>0, <2>1, <3>1, LeftLeaves
  <2>3. CASE ~(DeschedulePending /\ ~RunsOn)
    <3>1. Wdesc' = Wdesc /\ IPtr' = ip /\ W_IPTR' = W_IPTR
      BY <1>14, <2>3 DEF jump, deschedule, continue, RunsOn
    <3>. QED
      BY <1>0, <2>1, <3>1 DEF Left, Me
  <2>. QED
    BY <2>2, <2>3
<1>. QED
  BY <1>3, <1>4, <1>5, <1>6, <1>7, <1>8, <1>9, <1>10, <1>11, <1>12, <1>13, <1>14 DEF Next

(* A process that is not running resumes at the instruction after the last *)
(* it executed.                                                            *)
THEOREM ResumesCorrect == Spec => []ResumesWhereLeft
<1>1. LInv /\ [Next]_vars => LInv'
  <2>. SUFFICES ASSUME LInv, [Next]_vars PROVE LInv'
    OBVIOUS
  <2>1. IInv'
    BY PlacesInductive DEF LInv
  <2>2. ASSUME Next, ~ranOn' PROVE Left'
    <3>1. ~ranOn
      BY <2>2, RanOnStays
    <3>. QED
      BY <3>1, <2>2, LeftStep DEF LInv, IInv
  <2>3. ASSUME UNCHANGED vars, ~ranOn' PROVE Left'
    BY <2>3 DEF LInv, vars, Left, Me
  <2>. QED
    BY <2>1, <2>2, <2>3 DEF LInv
<1>2. LInv => ResumesWhereLeft
  <2>. SUFFICES ASSUME LInv, ~ranOn
                PROVE  IPtr = at[Me] /\ \A w \in Workspace : InQueue(w) \/ Waits(w) => W_IPTR[w] = at[w]
    BY DEF ResumesWhereLeft
  <2>. QED
    BY DEF LInv, IInv, Left, Places, OnePlace
<1>. QED
  BY <1>1, <1>2, LeftInit, PTL DEF Spec
=============================================================================
