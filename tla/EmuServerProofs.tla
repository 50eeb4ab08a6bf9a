--------------------------- MODULE EmuServerProofs ---------------------------
(***************************************************************************)
(* That the boot file is loaded whole and that the IServer's streams agree *)
(* with the host's files, for every boot file, every set of calls, every   *)
(* size of the table of streams and every value that reqOpen's mode may    *)
(* start with.                                                             *)
(*                                                                         *)
(* PlatformOK(p) is kept by every operation of the platform, as long as a  *)
(* file that is opened is not open; so it is by every request.  That a     *)
(* program's request is of a file that it does not have open when it makes *)
(* the call is not enough: the file must not be open when the IServer      *)
(* serves it.  Protocol says where the bytes of a call and of its answer   *)
(* are, and so that nothing is served between the two.                     *)
(*                                                                         *)
(* Then, that the IServer is what FileService promises the program: what   *)
(* each handler does to the handles and files, from the bytes of a frame   *)
(* to those of the answer, and that an answer comes back as it was given.  *)
(***************************************************************************)
EXTENDS EmuServer, SequenceTheorems, WellFoundedInduction, TLAPS

LEMMA Constants ==
  /\ MAX_FILES \in Nat /\ MAX_FILES > 2
  /\ Uninitialised \subseteq SUBSET Flag
  /\ InitialDisk \in [DOMAIN InitialDisk -> Seq(Byte)]
  BY MAX_FILESAssumption, UninitialisedAssumption, DiskAssumption

-----------------------------------------------------------------------------
(* The streams.                                                            *)

Operation == {"IO_NONE", "IO_READ", "IO_WRITE"}
Stream == [name : {nullptr} \cup Seq(Nat), mode : SUBSET Flag, pos : Nat,
           bad : BOOLEAN, lastIOOperation : Operation]

Files(myFiles) == {id \in StreamId : myFiles[id] # nullptr /\ myFiles[id].name # nullptr}
Names(myFiles) == {myFiles[id].name : id \in {i \in StreamId : myFiles[i] # nullptr}}

(* What StreamsOK says of one stream, and that only a stream whose last    *)
(* operation was a read has failed: no write follows.                      *)
Agrees(s, disk) ==
  /\ s.name \in DOMAIN disk
  /\ s.pos <= Len(disk[s.name])
  /\ s.bad => s.pos = Len(disk[s.name]) /\ s.lastIOOperation = "IO_READ"
  /\ s.lastIOOperation = "IO_READ" => "in" \in s.mode
  /\ s.lastIOOperation = "IO_WRITE" => "out" \in s.mode

PlatformType(p) ==
  /\ p = [myFiles |-> p.myFiles, disk |-> p.disk]
  /\ p.myFiles \in [StreamId -> Stream \cup {nullptr}]
  /\ p.disk \in [DOMAIN p.disk -> Seq(Nat)]

PlatformOK(p) ==
  /\ PlatformType(p)
  /\ \A id \in Files(p.myFiles) : Agrees(p.myFiles[id], p.disk)
  /\ \A id, other \in Files(p.myFiles) : id # other => p.myFiles[id].name # p.myFiles[other].name

LEMMA PlatformInit == PlatformOK(ConstructPlatform(InitialDisk))
<1>. DEFINE p == ConstructPlatform(InitialDisk)
<1>1. Seq(Byte) \subseteq Seq(Nat)
  <2>. Byte \subseteq Nat
    BY DEF Byte
  <2>. QED
    BY SeqMonotonic
<1>2. p.disk = InitialDisk /\ p = [myFiles |-> p.myFiles, disk |-> p.disk]
  BY DEF ConstructPlatform
<1>3. ConsoleStream("in") \in Stream /\ ConsoleStream("out") \in Stream
  BY DEF ConsoleStream, Stream, Operation, Flag
<1>4. \A id \in StreamId : p.myFiles[id] \in {ConsoleStream("in"), ConsoleStream("out"), nullptr}
  BY DEF ConstructPlatform
<1>5. p.myFiles \in [StreamId -> Stream \cup {nullptr}]
  BY <1>3, <1>4 DEF ConstructPlatform
<1>6. Files(p.myFiles) = {}
  BY <1>4 DEF Files, ConsoleStream
<1>7. p.disk \in [DOMAIN p.disk -> Seq(Nat)]
  BY <1>1, <1>2, Constants
<1>. QED
  BY <1>2, <1>5, <1>6, <1>7 DEF PlatformOK, PlatformType

(* A stream that is changed, or put in a slot, and the file that changes   *)
(* with it.                                                                *)
LEMMA Replaced ==
  ASSUME NEW p, PlatformOK(p), NEW id \in StreamId, NEW s \in Stream \cup {nullptr}, NEW disk,
         disk \in [DOMAIN disk -> Seq(Nat)],
         s # nullptr /\ s.name # nullptr => Agrees(s, disk),
         \A other \in Files(p.myFiles) \ {id} :
           /\ s # nullptr => p.myFiles[other].name # s.name
           /\ p.myFiles[other].name \in DOMAIN disk
           /\ disk[p.myFiles[other].name] = p.disk[p.myFiles[other].name]
  PROVE  PlatformOK([myFiles |-> [p.myFiles EXCEPT ![id] = s], disk |-> disk])
<1>. DEFINE files == [p.myFiles EXCEPT ![id] = s]
            q == [myFiles |-> files, disk |-> disk]
<1>1. /\ p.myFiles \in [StreamId -> Stream \cup {nullptr}]
      /\ \A i \in Files(p.myFiles) : Agrees(p.myFiles[i], p.disk)
      /\ \A i, j \in Files(p.myFiles) : i # j => p.myFiles[i].name # p.myFiles[j].name
  BY DEF PlatformOK, PlatformType
<1>2. /\ files \in [StreamId -> Stream \cup {nullptr}]
      /\ files[id] = s
      /\ \A i \in StreamId \ {id} : files[i] = p.myFiles[i]
  BY <1>1
<1>3. q.myFiles = files /\ q.disk = disk /\ q = [myFiles |-> q.myFiles, disk |-> q.disk]
  OBVIOUS
<1>. HIDE DEF files, q
<1>4. \A i \in Files(files) : i \in StreamId /\ (i # id => i \in Files(p.myFiles) /\ files[i] = p.myFiles[i])
                               /\ (i = id => s # nullptr /\ s.name # nullptr)
  BY <1>2 DEF Files
<1>5. \A i \in Files(files) : Agrees(files[i], disk)
  <2>. SUFFICES ASSUME NEW i \in Files(files) PROVE Agrees(files[i], disk)
    OBVIOUS
  <2>1. CASE i = id
    BY <2>1, <1>2, <1>4
  <2>2. CASE i # id
    <3>1. Agrees(p.myFiles[i], p.disk) /\ files[i] = p.myFiles[i] /\ i \in Files(p.myFiles) \ {id}
      BY <2>2, <1>1, <1>4
    <3>. QED
      BY <3>1 DEF Agrees
  <2>. QED
    BY <2>1, <2>2
<1>6. \A i, j \in Files(files) : i # j => files[i].name # files[j].name
  BY <1>1, <1>2, <1>4
<1>7. PlatformOK(q)
  BY <1>2, <1>3, <1>5, <1>6 DEF PlatformOK, PlatformType
<1>. QED
  BY <1>7 DEF q, files

LEMMA OnDiskIs ==
  ASSUME NEW disk, disk \in [DOMAIN disk -> Seq(Nat)], NEW name, NEW content \in Seq(Nat),
         NEW d, d = OnDisk(disk, name, content)
  PROVE  /\ DOMAIN d = DOMAIN disk \cup {name}
         /\ d \in [DOMAIN d -> Seq(Nat)]
         /\ d[name] = content
         /\ \A n \in DOMAIN disk : n # name => d[n] = disk[n]
  BY DEF OnDisk

LEMMA FileName ==
  ASSUME NEW p, PlatformOK(p), NEW id \in Files(p.myFiles)
  PROVE  /\ id \in StreamId /\ p.myFiles[id] \in Stream /\ p.myFiles[id].name \in Names(p.myFiles)
         /\ Agrees(p.myFiles[id], p.disk)
         /\ p.disk[p.myFiles[id].name] \in Seq(Nat)
  BY DEF Files, Names, PlatformOK, PlatformType, Agrees

LEMMA Least ==
  ASSUME NEW S, S \subseteq Nat, S # {}
  PROVE  Min(S) \in S
<1>. DEFINE R == OpToRel(<, Nat)
<1>1. R = {ss \in Nat \X Nat : ss[1] < ss[2]}
  BY DEF OpToRel
<1>2. IsWellFoundedOn(R, Nat)
  BY NatLessThanWellFounded
<1>. HIDE DEF R
<1>3. PICK x \in S : \A y \in S : ~(<<y, x>> \in R)
  BY <1>2, WFMin, Zenon
<1>4. ASSUME NEW y \in S PROVE x <= y
  <2>1. x \in Nat /\ y \in Nat /\ <<y, x>> \in Nat \X Nat /\ ~(<<y, x>> \in R)
    BY <1>3
  <2>2. ~(y < x)
    BY <1>1, <2>1
  <2>. QED
    BY <2>1, <2>2
<1>. QED
  BY <1>4 DEF Min

(* What a file holds once it is open, and where a stream on it starts.     *)
LEMMA OpenedIs ==
  ASSUME NEW disk, disk \in [DOMAIN disk -> Seq(Nat)], NEW name, NEW mode
  PROVE  Opened(disk, name, mode) \in Seq(Nat)
<1>1. <<>> \in Seq(Nat)
  OBVIOUS
<1>. QED
  BY <1>1 DEF Opened

JustOpened(s, name, mode, content) ==
  /\ s \in Stream /\ s.name = name /\ s.mode = mode
  /\ s.pos = (IF "ate" \in mode THEN Len(content) ELSE 0)
  /\ s.pos \in 0 .. Len(content)
  /\ ~s.bad /\ s.lastIOOperation = "IO_NONE"
LEMMA FileStreamIs ==
  ASSUME NEW name \in Seq(Nat), NEW mode \in SUBSET Flag, NEW content \in Seq(Nat)
  PROVE  JustOpened(FileStream(name, mode, content), name, mode, content)
<1>. DEFINE pos == IF "ate" \in mode THEN Len(content) ELSE 0
<1>1. pos \in 0 .. Len(content) /\ pos \in Nat
  OBVIOUS
<1>. HIDE DEF pos
<1>. QED
  BY <1>1 DEF JustOpened, FileStream, Stream, Operation, pos

LEMMA OpenKeeps ==
  ASSUME NEW p, PlatformOK(p), NEW name \in Seq(Nat), NEW mode \in SUBSET Flag,
         name \notin Names(p.myFiles), NEW o \in openFileStream(p, name, mode)
  PROVE  PlatformOK(o.p)
<1>. DEFINE free == {id \in StreamId : id >= 2 /\ p.myFiles[id] = nullptr}
            id == Min(free)
            content == Opened(p.disk, name, mode)
            disk == OnDisk(p.disk, name, content)
            s == FileStream(name, mode, content)
<1>1. CASE free = {} \/ ~CanOpen(p.disk, name, mode)
  BY <1>1 DEF openFileStream
<1>2. CASE free # {} /\ CanOpen(p.disk, name, mode)
  <2>1. o.p = [myFiles |-> [p.myFiles EXCEPT ![id] = s], disk |-> disk]
    <3>1. openFileStream(p, name, mode) =
            {[p |-> [myFiles |-> [p.myFiles EXCEPT ![id] = s], disk |-> disk], ex |-> "none", id |-> id]}
      BY <1>2, Zenon DEF openFileStream
    <3>. HIDE DEF id, s, disk
    <3>. QED
      BY <3>1
  <2>2. id \in StreamId
    <3>1. free \subseteq Nat
      BY DEF StreamId
    <3>. QED
      BY <1>2, <3>1, Least
  <2>3. p.disk \in [DOMAIN p.disk -> Seq(Nat)]
    BY DEF PlatformOK, PlatformType
  <2>4. content \in Seq(Nat)
    BY <2>3, OpenedIs
  <2>. HIDE DEF content
  <2>5. /\ s \in Stream /\ s.name = name /\ s.pos \in 0 .. Len(content)
        /\ ~s.bad /\ s.lastIOOperation = "IO_NONE"
    <3>1. JustOpened(s, name, mode, content)
      BY <2>4, FileStreamIs, Zenon
    <3>. HIDE DEF s
    <3>. QED
      BY <3>1 DEF JustOpened
  <2>6. /\ disk \in [DOMAIN disk -> Seq(Nat)]
        /\ name \in DOMAIN disk /\ disk[name] = content
        /\ \A n \in DOMAIN p.disk : n # name => n \in DOMAIN disk /\ disk[n] = p.disk[n]
    BY <2>3, <2>4 DEF OnDisk
  <2>. HIDE DEF s, disk, id
  <2>7. Agrees(s, disk)
    BY <2>4, <2>5, <2>6 DEF Agrees
  <2>8. \A other \in Files(p.myFiles) \ {id} :
          /\ p.myFiles[other].name # s.name
          /\ p.myFiles[other].name \in DOMAIN disk
          /\ disk[p.myFiles[other].name] = p.disk[p.myFiles[other].name]
    BY <2>5, <2>6, FileName DEF Agrees
  <2>9. PlatformOK([myFiles |-> [p.myFiles EXCEPT ![id] = s], disk |-> disk])
    BY <2>2, <2>5, <2>6, <2>7, <2>8, Replaced
  <2>. QED
    BY <2>1, <2>9
<1>. QED
  BY <1>1, <1>2

(* What a stream that is not refused is.                                   *)
LEMMA Accepted ==
  ASSUME NEW p, PlatformOK(p), NEW id, NEW direction, NEW other,
         Refusal(p, id, direction, other) = "none"
  PROVE  /\ id \in StreamId /\ p.myFiles[id] # nullptr /\ p.myFiles[id] \in Stream
         /\ direction \in p.myFiles[id].mode /\ p.myFiles[id].lastIOOperation # other
         /\ p.myFiles[id].name # nullptr => id \in Files(p.myFiles)
<1>1. id \in StreamId /\ p.myFiles[id] # nullptr
  BY DEF Refusal
<1>2. direction \in p.myFiles[id].mode /\ p.myFiles[id].lastIOOperation # other
  BY <1>1 DEF Refusal
<1>3. p.myFiles[id] \in Stream
  BY <1>1 DEF PlatformOK, PlatformType
<1>. QED
  BY <1>1, <1>2, <1>3 DEF Files

(* The other streams do not see what is done with the file of one.         *)
LEMMA OneChanges ==
  ASSUME NEW p, PlatformOK(p), NEW id \in StreamId, p.myFiles[id] # nullptr,
         NEW s \in Stream, s.name = p.myFiles[id].name, NEW content \in Seq(Nat),
         s.name # nullptr =>
           /\ s.pos <= Len(content)
           /\ s.bad => s.pos = Len(content) /\ s.lastIOOperation = "IO_READ"
           /\ s.lastIOOperation = "IO_READ" => "in" \in s.mode
           /\ s.lastIOOperation = "IO_WRITE" => "out" \in s.mode
  PROVE  PlatformOK([myFiles |-> [p.myFiles EXCEPT ![id] = s],
                     disk |-> IF s.name = nullptr THEN p.disk ELSE OnDisk(p.disk, s.name, content)])
<1>. DEFINE disk == IF s.name = nullptr THEN p.disk ELSE OnDisk(p.disk, s.name, content)
<1>1. p.disk \in [DOMAIN p.disk -> Seq(Nat)]
  BY DEF PlatformOK, PlatformType
<1>2. /\ disk \in [DOMAIN disk -> Seq(Nat)]
      /\ DOMAIN p.disk \subseteq DOMAIN disk
      /\ s.name # nullptr => s.name \in DOMAIN disk /\ disk[s.name] = content
      /\ \A n \in DOMAIN p.disk : n # s.name => disk[n] = p.disk[n]
  BY <1>1 DEF OnDisk
<1>. HIDE DEF disk
<1>3. s.name # nullptr => Agrees(s, disk) /\ id \in Files(p.myFiles)
  BY <1>2 DEF Agrees, Files
<1>4. \A other \in Files(p.myFiles) \ {id} :
        /\ p.myFiles[other].name # s.name
        /\ p.myFiles[other].name \in DOMAIN p.disk
  <2>. SUFFICES ASSUME NEW other \in Files(p.myFiles) \ {id}
                PROVE  p.myFiles[other].name # s.name /\ p.myFiles[other].name \in DOMAIN p.disk
    OBVIOUS
  <2>1. p.myFiles[other].name \in DOMAIN p.disk
    BY FileName DEF Agrees
  <2>2. p.myFiles[other].name # nullptr
    BY DEF Files
  <2>. QED
    BY <1>3, <2>1, <2>2 DEF PlatformOK
<1>5. PlatformOK([myFiles |-> [p.myFiles EXCEPT ![id] = s], disk |-> disk])
  BY <1>2, <1>3, <1>4, Replaced
<1>. QED
  BY <1>5 DEF disk

LEMMA WriteKeeps ==
  ASSUME NEW p, PlatformOK(p), NEW id, NEW data \in Seq(Nat), NEW o \in writeStream(p, id, data)
  PROVE  PlatformOK(o.p)
<1>1. CASE Refusal(p, id, "out", "IO_READ") # "none"
  BY <1>1 DEF writeStream
<1>2. CASE Refusal(p, id, "out", "IO_READ") = "none"
  <2>1. PICK n \in 0 .. Len(data) : o.p = StreamWrite(p, id, SubSeq(data, 1, n))
    BY <1>2 DEF writeStream
  <2>. DEFINE part == SubSeq(data, 1, n)
              s == p.myFiles[id]
              old == p.disk[s.name]
              at == WritesAt(s, old)
              rest == SubSeq(old, at + Len(part) + 1, Len(old))
              t == [s EXCEPT !.pos = IF s.name = nullptr THEN 0 ELSE at + Len(part),
                             !.lastIOOperation = "IO_WRITE"]
              content == SubSeq(old, 1, at) \o part \o rest
  <2>2. /\ id \in StreamId /\ s # nullptr /\ s \in Stream
        /\ "out" \in s.mode /\ s.lastIOOperation # "IO_READ"
        /\ s.name # nullptr => id \in Files(p.myFiles)
    BY <1>2, Accepted
  <2>3. p.myFiles \in [StreamId -> Stream \cup {nullptr}]
    BY DEF PlatformOK, PlatformType
  <2>4. o.p = [myFiles |-> [p.myFiles EXCEPT ![id] = t],
               disk |-> IF s.name = nullptr THEN p.disk ELSE OnDisk(p.disk, s.name, content)]
    BY <2>1, <2>2, <2>3 DEF StreamWrite
  <2>5. part \in Seq(Nat) /\ Len(part) \in Nat
    OBVIOUS
  <2>6. s.name # nullptr => /\ old \in Seq(Nat) /\ s.pos \in 0 .. Len(old)
                            /\ ~s.bad
    BY <2>2, FileName DEF Agrees, Stream
  <2>7. s.name # nullptr => at \in 0 .. Len(old)
    <3>. HIDE DEF s, old
    <3>. QED
      BY <2>6 DEF WritesAt
  <2>. HIDE DEF at
  <2>8. /\ t \in Stream /\ t.name = s.name /\ t.mode = s.mode /\ t.bad = s.bad
        /\ t.lastIOOperation = "IO_WRITE"
        /\ s.name # nullptr => t.pos = at + Len(part)
    <3>. DEFINE pos == IF s.name = nullptr THEN 0 ELSE at + Len(part)
    <3>. HIDE DEF s, part, old
    <3>1. pos \in Nat
      BY <2>5, <2>6, <2>7
    <3>2. t = [s EXCEPT !.pos = pos, !.lastIOOperation = "IO_WRITE"]
      OBVIOUS
    <3>3. s.name # nullptr => pos = at + Len(part)
      OBVIOUS
    <3>. HIDE DEF pos, t
    <3>. QED
      BY <2>2, <3>1, <3>2, <3>3 DEF Stream, Operation
  <2>. HIDE DEF t, s, part, old
  <2>9. CASE s.name # nullptr
    <3>1. SubSeq(old, 1, at) \in Seq(Nat) /\ Len(SubSeq(old, 1, at)) = at
      BY <2>6, <2>7, <2>9
    <3>2. rest \in Seq(Nat)
      BY <2>5, <2>6, <2>7, <2>9
    <3>. HIDE DEF rest
    <3>3. content \in Seq(Nat) /\ at + Len(part) <= Len(content)
      BY <2>5, <2>7, <2>9, <3>1, <3>2
    <3>. HIDE DEF content
    <3>4. PlatformOK([myFiles |-> [p.myFiles EXCEPT ![id] = t],
                      disk |-> IF t.name = nullptr THEN p.disk ELSE OnDisk(p.disk, t.name, content)])
      BY <2>2, <2>6, <2>8, <2>9, <3>3, OneChanges DEF s
    <3>. QED
      BY <2>4, <2>8, <3>4
  <2>10. CASE s.name = nullptr
    <3>1. PlatformOK([myFiles |-> [p.myFiles EXCEPT ![id] = t],
                      disk |-> IF t.name = nullptr THEN p.disk ELSE OnDisk(p.disk, t.name, <<>>)])
      <4>1. <<>> \in Seq(Nat)
        OBVIOUS
      <4>. QED
        BY <2>2, <2>8, <2>10, <4>1, OneChanges DEF s
    <3>. QED
      BY <2>4, <2>8, <2>10, <3>1
  <2>. QED
    BY <2>9, <2>10
<1>. QED
  BY <1>1, <1>2

LEMMA Lesser ==
  ASSUME NEW a \in Nat, NEW b \in Nat
  PROVE  Min({a, b}) = IF a <= b THEN a ELSE b
<1>1. Min({a, b}) \in {a, b}
  BY Least
<1>2. \E x \in {a, b} : \A y \in {a, b} : x <= y
  OBVIOUS
<1>3. \A y \in {a, b} : Min({a, b}) <= y
  BY <1>2 DEF Min
<1>. QED
  BY <1>1, <1>3

LEMMA ReadKeeps ==
  ASSUME NEW p, PlatformOK(p), NEW id, NEW size \in Nat, NEW o \in readStream(p, id, size)
  PROVE  PlatformOK(o.p)
<1>1. CASE Refusal(p, id, "in", "IO_WRITE") # "none"
  BY <1>1 DEF readStream
<1>2. CASE Refusal(p, id, "in", "IO_WRITE") = "none"
  <2>1. PICK data \in Readable(p, id, size) : o.p = StreamRead(p, id, size, data)
    BY <1>2 DEF readStream
  <2>. DEFINE s == p.myFiles[id]
              old == p.disk[s.name]
              t == [s EXCEPT !.pos = IF s.name = nullptr THEN 0 ELSE @ + Len(data),
                             !.bad = @ \/ Len(data) # size,
                             !.lastIOOperation = "IO_READ"]
  <2>2. /\ id \in StreamId /\ s # nullptr /\ s \in Stream /\ "in" \in s.mode
        /\ s.name # nullptr => id \in Files(p.myFiles)
    BY <1>2, Accepted
  <2>3. /\ p.myFiles \in [StreamId -> Stream \cup {nullptr}]
        /\ p = [myFiles |-> p.myFiles, disk |-> p.disk]
    BY DEF PlatformOK, PlatformType
  <2>4. o.p = [myFiles |-> [p.myFiles EXCEPT ![id] = t], disk |-> p.disk]
    <3>1. [p EXCEPT !.myFiles[id].pos = IF s.name = nullptr THEN 0 ELSE @ + Len(data),
                    !.myFiles[id].bad = @ \/ Len(data) # size,
                    !.myFiles[id].lastIOOperation = "IO_READ"]
            = [p EXCEPT !.myFiles = [p.myFiles EXCEPT ![id] = t]]
      BY <2>2, <2>3, ZenonT(60)
    <3>. HIDE DEF t
    <3>2. [p EXCEPT !.myFiles = [p.myFiles EXCEPT ![id] = t]] = [myFiles |-> [p.myFiles EXCEPT ![id] = t], disk |-> p.disk]
      BY <2>3
    <3>. QED
      BY <2>1, <3>1, <3>2 DEF StreamRead
  <2>5. s.name # nullptr => /\ old \in Seq(Nat) /\ s.pos \in 0 .. Len(old) /\ s.name \in DOMAIN p.disk
                            /\ s.bad => s.pos = Len(old)
    BY <2>2, FileName DEF Agrees, Stream
  <2>6. s.name # nullptr => /\ Len(data) = (IF s.pos + size <= Len(old) THEN size ELSE Len(old) - s.pos)
    <3>1. ASSUME s.name # nullptr
          PROVE  data = SubSeq(old, s.pos + 1, IF s.pos + size <= Len(old) THEN s.pos + size ELSE Len(old))
      <4>. DEFINE end == IF s.pos + size <= Len(old) THEN s.pos + size ELSE Len(old)
      <4>1. Min({s.pos + size, Len(old)}) = end
        <5>. HIDE DEF s, old
        <5>1. s.pos + size \in Nat /\ Len(old) \in Nat
          BY <2>5, <3>1
        <5>. QED
          BY <5>1, Lesser
      <4>2. data \in {SubSeq(old, s.pos + 1, Min({s.pos + size, Len(old)}))}
        BY <2>1, <3>1 DEF Readable
      <4>. QED
        BY <4>1, <4>2
    <3>. HIDE DEF s, old
    <3>. QED
      BY <2>5, <3>1, SMTT(30)
  <2>7. /\ t \in Stream /\ t.name = s.name /\ t.mode = s.mode
        /\ t.bad <=> s.bad \/ Len(data) # size
        /\ t.lastIOOperation = "IO_READ"
        /\ s.name # nullptr => t.pos = s.pos + Len(data)
    <3>. DEFINE pos == IF s.name = nullptr THEN 0 ELSE s.pos + Len(data)
                bad == s.bad \/ Len(data) # size
    <3>. HIDE DEF s, old
    <3>1. pos \in Nat /\ bad \in BOOLEAN
      BY <2>2, <2>5, <2>6 DEF Stream
    <3>2. t = [s EXCEPT !.pos = pos, !.bad = bad, !.lastIOOperation = "IO_READ"]
      OBVIOUS
    <3>3. /\ s.name # nullptr => pos = s.pos + Len(data)
          /\ bad <=> s.bad \/ Len(data) # size
      OBVIOUS
    <3>. HIDE DEF pos, bad, t
    <3>. QED
      BY <2>2, <3>1, <3>2, <3>3 DEF Stream, Operation
  <2>. HIDE DEF t, s
  <2>8. CASE s.name # nullptr
    <3>1. p.disk \in [DOMAIN p.disk -> Seq(Nat)]
      BY DEF PlatformOK, PlatformType
    <3>2. OnDisk(p.disk, t.name, old) = p.disk
      BY <2>5, <2>7, <2>8, <3>1 DEF OnDisk
    <3>. HIDE DEF old
    <3>3. /\ t.pos <= Len(old) /\ (t.bad => t.pos = Len(old))
      BY <2>5, <2>6, <2>7, <2>8, SMTT(30)
    <3>4. PlatformOK([myFiles |-> [p.myFiles EXCEPT ![id] = t],
                      disk |-> IF t.name = nullptr THEN p.disk ELSE OnDisk(p.disk, t.name, old)])
      BY <2>2, <2>5, <2>7, <2>8, <3>3, OneChanges DEF s
    <3>. QED
      BY <2>4, <3>2, <3>4
  <2>9. CASE s.name = nullptr
    <3>1. PlatformOK([myFiles |-> [p.myFiles EXCEPT ![id] = t],
                      disk |-> IF t.name = nullptr THEN p.disk ELSE OnDisk(p.disk, t.name, <<>>)])
      <4>1. <<>> \in Seq(Nat)
        OBVIOUS
      <4>. QED
        BY <2>2, <2>7, <2>9, <4>1, OneChanges DEF s
    <3>. QED
      BY <2>4, <2>7, <2>9, <3>1
  <2>. QED
    BY <2>8, <2>9
<1>. QED
  BY <1>1, <1>2

LEMMA CloseKeeps ==
  ASSUME NEW p, PlatformOK(p), NEW id, NEW o \in closeStream(p, id)
  PROVE  PlatformOK(o.p)
<1>1. CASE id \notin StreamId \/ p.myFiles[id] = nullptr
  BY <1>1 DEF closeStream
<1>2. CASE id \in StreamId /\ p.myFiles[id] # nullptr
  <2>1. p = [myFiles |-> p.myFiles, disk |-> p.disk] /\ p.disk \in [DOMAIN p.disk -> Seq(Nat)]
    BY DEF PlatformOK, PlatformType
  <2>2. o.p = [myFiles |-> [p.myFiles EXCEPT ![id] = nullptr], disk |-> p.disk]
    BY <1>2, <2>1 DEF closeStream
  <2>3. \A other \in Files(p.myFiles) \ {id} : p.myFiles[other].name \in DOMAIN p.disk
    BY FileName DEF Agrees
  <2>4. PlatformOK([myFiles |-> [p.myFiles EXCEPT ![id] = nullptr], disk |-> p.disk])
    BY <1>2, <2>1, <2>3, Replaced
  <2>. QED
    BY <2>2, <2>4
<1>. QED
  BY <1>1, <1>2

-----------------------------------------------------------------------------
(* The frames of the calls.                                                *)

LEMMA Put16Is ==
  ASSUME NEW n \in Nat
  PROVE  /\ Put16(n) \in Seq(Nat) /\ Len(Put16(n)) = 2
         /\ Get16(Put16(n), 1) = n
<1>. DEFINE a == n % 256
            b == n \div 256
<1>1. a \in Nat /\ b \in Nat /\ a + 256 * b = n
  OBVIOUS
<1>. HIDE DEF a, b
<1>2. Put16(n) = <<a, b>>
  BY DEF Put16, a, b
<1>. QED
  BY <1>1, <1>2 DEF Get16

LEMMA Put32Is ==
  ASSUME NEW n \in Nat
  PROVE  /\ Put32(n) \in Seq(Nat) /\ Len(Put32(n)) = 4
         /\ Get32(Put32(n), 1) = n
<1>. DEFINE a == n \div 256
            b == n \div 65536
            c == n \div 16777216
<1>1. a \in Nat /\ b \in Nat /\ c \in Nat
  OBVIOUS
<1>2. a \div 256 = b /\ b \div 256 = c
  OBVIOUS
<1>3. n = (n % 256) + 256 * a /\ a = (a % 256) + 256 * (a \div 256) /\ b = (b % 256) + 256 * (b \div 256)
  OBVIOUS
<1>4. n % 256 \in Nat /\ a % 256 \in Nat /\ b % 256 \in Nat
  OBVIOUS
<1>5. /\ Put32(n) \in Seq(Nat) /\ Len(Put32(n)) = 4
      /\ Put32(n)[1] = n % 256 /\ Put32(n)[2] = a % 256 /\ Put32(n)[3] = b % 256 /\ Put32(n)[4] = c
  BY <1>1, <1>4 DEF Put32
<1>. HIDE DEF a, b, c
<1>6. n = (n % 256) + 256 * (a % 256) + 65536 * ((b % 256) + 256 * c)
  BY <1>1, <1>2, <1>3, <1>4
<1>. QED
  BY <1>5, <1>6 DEF Get32, Get16

(* u is s and then t.                                                      *)
Joins(u, s, t) ==
  /\ u \in Seq(Nat)
  /\ Len(u) = Len(s) + Len(t) /\ Len(s) \in Nat /\ Len(t) \in Nat
  /\ \A i \in 1 .. Len(s) : u[i] = s[i]
  /\ \A i \in 1 .. Len(t) : u[Len(s) + i] = t[i]

LEMMA Joined == ASSUME NEW s \in Seq(Nat), NEW t \in Seq(Nat) PROVE Joins(s \o t, s, t)
<1>1. /\ s \o t \in Seq(Nat)
      /\ Len(s \o t) = Len(s) + Len(t) /\ Len(s) \in Nat /\ Len(t) \in Nat
      /\ \A i \in 1 .. Len(s) : (s \o t)[i] = s[i]
      /\ \A i \in 1 .. Len(t) : (s \o t)[Len(s) + i] = t[i]
  BY ConcatProperties
<1>. QED
  BY <1>1, Zenon DEF Joins

LEMMA ByteNat == Byte \subseteq Nat /\ Seq(Byte) \subseteq Seq(Nat)
<1>1. Byte \subseteq Nat
  BY DEF Byte
<1>. QED
  BY <1>1, SeqMonotonic, Zenon

LEMMA StrIs ==
  ASSUME NEW s \in Seq(Nat)
  PROVE  /\ Str(s) \in Seq(Nat) /\ Len(s) \in Nat /\ Len(Str(s)) = 2 + Len(s)
         /\ Get16(Str(s), 1) = Len(s)
         /\ \A i \in 1 .. Len(s) : Str(s)[2 + i] = s[i]
<1>. DEFINE n == Put16(Len(s))
<1>1. Len(s) \in Nat
  OBVIOUS
<1>2. n \in Seq(Nat) /\ Len(n) = 2 /\ Get16(n, 1) = Len(s)
  BY <1>1, Put16Is
<1>3. Joins(n \o s, n, s)
  BY <1>2, Joined
<1>4. Joins(Str(s), n, s)
  BY <1>3, Zenon DEF Str
<1>. HIDE DEF n
<1>5. Str(s)[1] = n[1] /\ Str(s)[2] = n[2]
  BY <1>2, <1>4 DEF Joins
<1>6. /\ Str(s) \in Seq(Nat) /\ Len(Str(s)) = 2 + Len(s)
      /\ \A i \in 1 .. Len(s) : Str(s)[2 + i] = s[i]
  BY <1>2, <1>4 DEF Joins
<1>7. Get16(Str(s), 1) = Get16(n, 1)
  BY <1>5 DEF Get16
<1>. QED
  BY <1>1, <1>2, <1>6, <1>7

OpenBody(name, type, mode) == <<REQ_OPEN>> \o Str(name) \o <<type, mode>>
OpenBodyOK(body, name, type, mode) ==
  /\ body \in Seq(Nat) /\ Len(body) = 5 + Len(name)
  /\ body[1] = REQ_OPEN /\ Get16(body, 2) = Len(name)
  /\ \A i \in 1 .. Len(name) : body[3 + i] = name[i]
  /\ body[4 + Len(name)] = type /\ body[5 + Len(name)] = mode

LEMMA OpenBodyIs ==
  ASSUME NEW name \in Seq(Nat), NEW type \in Nat, NEW mode \in Nat
  PROVE  OpenBodyOK(OpenBody(name, type, mode), name, type, mode)
<1>. DEFINE body == OpenBody(name, type, mode)
            tag == <<REQ_OPEN>>
            str == Str(name)
            front == tag \o str
            end == <<type, mode>>
<1>1. /\ str \in Seq(Nat) /\ Len(name) \in Nat /\ Len(str) = 2 + Len(name)
      /\ Get16(str, 1) = Len(name)
      /\ \A i \in 1 .. Len(name) : str[2 + i] = name[i]
  BY StrIs
<1>2. end \in Seq(Nat) /\ Len(end) = 2 /\ end[1] = type /\ end[2] = mode
  OBVIOUS
<1>3. tag \in Seq(Nat) /\ Len(tag) = 1 /\ tag[1] = REQ_OPEN
  BY DEF REQ_OPEN
<1>4. body = front \o end
  BY DEF OpenBody
<1>. HIDE DEF tag, str, end, body
<1>5. Joins(front, tag, str)
  BY <1>1, <1>3, Joined
<1>. HIDE DEF front
<1>6. front \in Seq(Nat) /\ Len(front) = 3 + Len(name)
  BY <1>1, <1>3, <1>5 DEF Joins
<1>7. Joins(body, front, end)
  BY <1>2, <1>4, <1>6, Joined
<1>8. /\ body \in Seq(Nat) /\ Len(body) = 5 + Len(name)
      /\ \A i \in 1 .. 3 + Len(name) : body[i] = front[i]
      /\ \A i \in 1 .. 2 : body[(3 + Len(name)) + i] = end[i]
  BY <1>1, <1>2, <1>6, <1>7 DEF Joins
<1>9. /\ front[1] = tag[1]
      /\ \A i \in 1 .. 2 + Len(name) : front[1 + i] = str[i]
  BY <1>1, <1>3, <1>5 DEF Joins
<1>10. /\ body[1] = REQ_OPEN /\ body[2] = str[1] /\ body[3] = str[2]
  <2>1. body[1] = front[1] /\ body[2] = front[2] /\ body[3] = front[3]
    BY <1>1, <1>8
  <2>2. front[1 + 1] = str[1] /\ front[1 + 2] = str[2]
    BY <1>1, <1>9
  <2>. QED
    BY <1>3, <1>9, <2>1, <2>2
<1>11. body[(3 + Len(name)) + 1] = end[1] /\ body[(3 + Len(name)) + 2] = end[2]
  BY <1>8
<1>12. ASSUME NEW i \in 1 .. Len(name) PROVE body[3 + i] = name[i]
  <2>1. 3 + i \in 1 .. 3 + Len(name) /\ 2 + i \in 1 .. 2 + Len(name) /\ 1 + (2 + i) = 3 + i
    BY <1>1, SMTT(30)
  <2>2. body[3 + i] = front[3 + i] /\ front[1 + (2 + i)] = str[2 + i] /\ str[2 + i] = name[i]
    BY <1>1, <1>8, <1>9, <2>1, Zenon
  <2>. QED
    BY <2>1, <2>2
<1>13. body[4 + Len(name)] = type /\ body[5 + Len(name)] = mode
  <2>1. (3 + Len(name)) + 1 = 4 + Len(name) /\ (3 + Len(name)) + 2 = 5 + Len(name)
    BY <1>1
  <2>. QED
    BY <1>2, <1>11, <2>1
<1>14. Get16(body, 2) = Len(name)
  BY <1>1, <1>10 DEF Get16
<1>. QED
<2>1. OpenBodyOK(body, name, type, mode)
    BY <1>8, <1>10, <1>12, <1>13, <1>14 DEF OpenBodyOK
  <2>. QED
    BY <2>1 DEF body

(* A tag and an id, and what follows them.                                 *)
IdBody(req, id, rest) == <<req>> \o Put32(id) \o rest

IdBodyOK(body, req, id, rest) ==
  /\ body \in Seq(Nat) /\ Len(body) = 5 + Len(rest)
  /\ body[1] = req /\ Get32(body, 2) = id
  /\ \A i \in 1 .. Len(rest) : body[5 + i] = rest[i]

LEMMA IdBodyIs ==
  ASSUME NEW req \in Nat, NEW id \in Nat, NEW rest \in Seq(Nat)
  PROVE  IdBodyOK(IdBody(req, id, rest), req, id, rest)
<1>. DEFINE body == IdBody(req, id, rest)
            tag == <<req>>
            w == Put32(id)
            front == tag \o w
<1>1. w \in Seq(Nat) /\ Len(w) = 4 /\ Get32(w, 1) = id
  BY Put32Is, Zenon
<1>2. tag \in Seq(Nat) /\ Len(tag) = 1 /\ tag[1] = req
  OBVIOUS
<1>3. body = front \o rest
  BY DEF IdBody
<1>. HIDE DEF tag, w, body
<1>4. Joins(front, tag, w)
  BY <1>1, <1>2, Joined
<1>. HIDE DEF front
<1>5. front \in Seq(Nat) /\ Len(front) = 5
  BY <1>1, <1>2, <1>4 DEF Joins
<1>6. Joins(body, front, rest)
  BY <1>3, <1>5, Joined
<1>7. /\ body \in Seq(Nat) /\ Len(rest) \in Nat /\ Len(body) = 5 + Len(rest)
      /\ \A i \in 1 .. 5 : body[i] = front[i]
      /\ \A i \in 1 .. Len(rest) : body[5 + i] = rest[i]
  BY <1>5, <1>6 DEF Joins
<1>8. /\ front[1] = tag[1]
      /\ \A i \in 1 .. 4 : front[1 + i] = w[i]
  BY <1>1, <1>2, <1>4 DEF Joins
<1>9. body[1] = req /\ body[2] = w[1] /\ body[3] = w[2] /\ body[4] = w[3] /\ body[5] = w[4]
  <2>1. body[1] = front[1] /\ body[2] = front[2] /\ body[3] = front[3] /\ body[4] = front[4] /\ body[5] = front[5]
    BY <1>7
  <2>2. front[1 + 1] = w[1] /\ front[1 + 2] = w[2] /\ front[1 + 3] = w[3] /\ front[1 + 4] = w[4]
    BY <1>8
  <2>. QED
    BY <1>2, <1>8, <2>1, <2>2
<1>10. Get32(body, 2) = id
  BY <1>1, <1>9 DEF Get32, Get16
<1>. QED
  <2>1. IdBodyOK(body, req, id, rest)
    BY <1>7, <1>9, <1>10 DEF IdBodyOK
  <2>. QED
    BY <2>1 DEF body

(* A tag, and what follows it.                                             *)
TagBody(req, rest) == <<req>> \o rest

TagBodyOK(body, req, rest) ==
  /\ body \in Seq(Nat) /\ Len(body) = 1 + Len(rest)
  /\ body[1] = req
  /\ \A i \in 1 .. Len(rest) : body[1 + i] = rest[i]

LEMMA TagBodyIs ==
  ASSUME NEW req \in Nat, NEW rest \in Seq(Nat)
  PROVE  TagBodyOK(TagBody(req, rest), req, rest)
<1>. DEFINE body == TagBody(req, rest)
            tag == <<req>>
<1>1. tag \in Seq(Nat) /\ Len(tag) = 1 /\ tag[1] = req
  OBVIOUS
<1>2. body = tag \o rest
  BY DEF TagBody
<1>. HIDE DEF tag, body
<1>3. Joins(body, tag, rest)
  BY <1>1, <1>2, Joined
<1>4. /\ body \in Seq(Nat) /\ Len(rest) \in Nat /\ Len(body) = 1 + Len(rest)
      /\ body[1] = tag[1]
      /\ \A i \in 1 .. Len(rest) : body[1 + i] = rest[i]
  BY <1>1, <1>3 DEF Joins
<1>5. TagBodyOK(body, req, rest)
  BY <1>1, <1>4 DEF TagBodyOK
<1>. QED
  BY <1>5 DEF body

(* What is at each place of a body.                                        *)
FileCall == {"Open", "Close", "Read", "Write", "Puts", "Exit"}
FileTag == {REQ_OPEN, REQ_CLOSE, REQ_READ, REQ_WRITE, REQ_PUTS, REQ_EXIT}
BodyOK(r, body) ==
  /\ r.tag = "Open" => r.name \in Seq(Nat) /\ OpenBodyOK(body, r.name, r.type, r.mode)
  /\ r.tag = "Close" => IdBodyOK(body, REQ_CLOSE, r.id, <<>>)
  /\ r.tag = "Read" => r.size \in Nat /\ IdBodyOK(body, REQ_READ, r.id, Put16(r.size))
  /\ r.tag = "Write" => r.data \in Seq(Nat) /\ IdBodyOK(body, REQ_WRITE, r.id, Str(r.data))
  /\ r.tag = "Puts" => r.data \in Seq(Nat) /\ IdBodyOK(body, REQ_PUTS, r.id, Str(r.data))
  /\ r.tag = "Exit" => r.status \in Seq(Nat) /\ TagBodyOK(body, REQ_EXIT, r.status)
  /\ r.tag \notin FileCall => r.req \notin FileTag /\ r.args \in Seq(Nat) /\ TagBodyOK(body, r.req, r.args)

LEMMA Tags == FileTag \subseteq Nat
  BY DEF FileTag, REQ_OPEN, REQ_CLOSE, REQ_READ, REQ_WRITE, REQ_PUTS, REQ_EXIT

LEMMA BodyIs == ASSUME NEW r \in AnyCall PROVE BodyOK(r, Body(r))
<1>1. CASE r \in [tag : {"Open"}, name : Seq(Byte), type : Byte, mode : Byte]
  <2>1. r.tag = "Open" /\ r.name \in Seq(Byte) /\ r.type \in Byte /\ r.mode \in Byte
    BY <1>1
  <2>2. r.name \in Seq(Nat) /\ r.type \in Nat /\ r.mode \in Nat
    BY <2>1, ByteNat, Zenon
  <2>3. Body(r) = OpenBody(r.name, r.type, r.mode)
    BY <2>1 DEF Body, OpenBody
  <2>4. OpenBodyOK(Body(r), r.name, r.type, r.mode)
    BY <2>2, <2>3, OpenBodyIs, Zenon
  <2>. QED
    BY <2>1, <2>2, <2>4 DEF BodyOK, FileCall
<1>2. CASE r \in [tag : {"Close"}, id : Nat]
  <2>1. r.tag = "Close" /\ r.id \in Nat
    BY <1>2
  <2>2. Body(r) = <<REQ_CLOSE>> \o Put32(r.id)
    BY <2>1 DEF Body
  <2>3. REQ_CLOSE \in Nat /\ Put32(r.id) \in Seq(Nat) /\ <<>> \in Seq(Nat) /\ <<REQ_CLOSE>> \in Seq(Nat)
    BY <2>1, Put32Is DEF REQ_CLOSE
  <2>4. Body(r) = IdBody(REQ_CLOSE, r.id, <<>>)
    <3>1. <<REQ_CLOSE>> \o Put32(r.id) \in Seq(Nat)
      BY <2>3, ConcatProperties
    <3>2. <<REQ_CLOSE>> \o Put32(r.id) \o <<>> = <<REQ_CLOSE>> \o Put32(r.id)
      BY <3>1, ConcatEmptySeq
    <3>. QED
      BY <2>2, <3>2 DEF IdBody
  <2>5. IdBodyOK(Body(r), REQ_CLOSE, r.id, <<>>)
    BY <2>1, <2>3, <2>4, IdBodyIs, Zenon
  <2>. QED
    BY <2>1, <2>5 DEF BodyOK, FileCall
<1>3. CASE r \in [tag : {"Read"}, id : Nat, size : Nat]
  <2>1. r.tag = "Read" /\ r.id \in Nat /\ r.size \in Nat
    BY <1>3
  <2>2. Body(r) = IdBody(REQ_READ, r.id, Put16(r.size))
    BY <2>1 DEF Body, IdBody
  <2>3. REQ_READ \in Nat /\ Put16(r.size) \in Seq(Nat)
    BY <2>1, Put16Is DEF REQ_READ
  <2>4. IdBodyOK(Body(r), REQ_READ, r.id, Put16(r.size))
    BY <2>1, <2>2, <2>3, IdBodyIs, Zenon
  <2>. QED
    BY <2>1, <2>4 DEF BodyOK, FileCall
<1>4. CASE r \in [tag : {"Write", "Puts"}, id : Nat, data : Seq(Byte)]
  <2>1. r.tag \in {"Write", "Puts"} /\ r.id \in Nat /\ r.data \in Seq(Byte)
    BY <1>4
  <2>2. r.data \in Seq(Nat)
    BY <2>1, ByteNat, Zenon
  <2>3. Str(r.data) \in Seq(Nat)
    BY <2>2, StrIs, Zenon
  <2>4. CASE r.tag = "Write"
    <3>1. Body(r) = IdBody(REQ_WRITE, r.id, Str(r.data)) /\ REQ_WRITE \in Nat
      BY <2>4 DEF Body, IdBody, REQ_WRITE
    <3>2. IdBodyOK(Body(r), REQ_WRITE, r.id, Str(r.data))
      BY <2>1, <2>3, <3>1, IdBodyIs, Zenon
    <3>. QED
      BY <2>2, <2>4, <3>2 DEF BodyOK, FileCall
  <2>5. CASE r.tag = "Puts"
    <3>1. Body(r) = IdBody(REQ_PUTS, r.id, Str(r.data)) /\ REQ_PUTS \in Nat
      BY <2>5 DEF Body, IdBody, REQ_PUTS
    <3>2. IdBodyOK(Body(r), REQ_PUTS, r.id, Str(r.data))
      BY <2>1, <2>3, <3>1, IdBodyIs, Zenon
    <3>. QED
      BY <2>2, <2>5, <3>2 DEF BodyOK, FileCall
  <2>. QED
    BY <2>1, <2>4, <2>5
<1>5. CASE r \in [tag : {"Exit"}, status : [1 .. 4 -> Byte], code : Nat]
  <2>1. r.tag = "Exit" /\ r.status \in [1 .. 4 -> Byte]
    BY <1>5
  <2>2. r.status \in Seq(Nat)
    <3>1. r.status \in Seq(Byte)
      <4>1. 4 \in Nat /\ Seq(Byte) = UNION {[1 .. n -> Byte] : n \in Nat}
        BY SeqDef
      <4>2. [1 .. 4 -> Byte] \in {[1 .. n -> Byte] : n \in Nat}
        BY <4>1, Zenon
      <4>. QED
        BY <2>1, <4>1, <4>2
    <3>. QED
      BY <3>1, ByteNat, Zenon
  <2>3. Body(r) = TagBody(REQ_EXIT, r.status) /\ REQ_EXIT \in Nat
    BY <2>1 DEF Body, REQ_EXIT, TagBody
  <2>4. TagBodyOK(Body(r), REQ_EXIT, r.status)
    BY <2>2, <2>3, TagBodyIs, Zenon
  <2>. QED
    BY <2>1, <2>2, <2>4 DEF BodyOK, FileCall
<1>6. CASE r \in [tag : {"GetKey", "PollKey", "PutChar", "Command", "Id", "Unknown"},
                  req : Byte \ FileTag, args : Seq(Byte)]
  <2>1. /\ r.tag \notin {"Open", "Close", "Read", "Write", "Puts", "Exit"}
        /\ r.req \in Byte /\ r.args \in Seq(Byte) /\ r.req \notin FileTag
    BY <1>6
  <2>2. r.req \in Nat /\ r.args \in Seq(Nat)
    BY <2>1, ByteNat, Zenon
  <2>3. Body(r) = TagBody(r.req, r.args)
    BY <2>1 DEF Body, TagBody
  <2>4. TagBodyOK(Body(r), r.req, r.args)
    BY <2>2, <2>3, TagBodyIs, Zenon
  <2>. QED
    BY <2>1, <2>2, <2>4 DEF BodyOK, FileCall
<1>. QED
  BY <1>1, <1>2, <1>3, <1>4, <1>5, <1>6 DEF AnyCall, FileTag

-----------------------------------------------------------------------------
(* A frame: the body is in it from the third place on.                     *)
FrameHolds(f, body) ==
  /\ f \in Seq(Nat) /\ Len(body) + 2 <= Len(f) /\ Len(f) >= 8 /\ Get16(f, 1) \in Nat
  /\ Len(f) = 2 + Get16(f, 1) /\ ~BadFrameSize(Get16(f, 1))
  /\ \A i \in 1 .. Len(body) : f[2 + i] = body[i]

Pad(n) == [i \in 1 .. n |-> 0]

LEMMA PadIs == ASSUME NEW n \in Nat PROVE Pad(n) \in Seq(Nat) /\ Len(Pad(n)) = n
  BY DEF Pad

LEMMA BodySeq == ASSUME NEW r \in AnyCall PROVE Body(r) \in Seq(Nat)
<1>1. BodyOK(r, Body(r))
  BY BodyIs
<1>. QED
  BY <1>1 DEF BodyOK, FileCall, OpenBodyOK, IdBodyOK, TagBodyOK

LEMMA FrameIs == ASSUME NEW r \in Request PROVE FrameHolds(Frame(r), Body(r))
<1>. DEFINE body == Body(r)
            length == Len(body)
            size == IF length < 6 THEN 6 ELSE length + (length % 2)
            f == Frame(r)
            head == Put16(size)
            front == head \o body
            pad == Pad(size - length)
<1>1. r \in AnyCall /\ Len(f) <= 512
  BY RequestAssumption
<1>2. body \in Seq(Nat) /\ length \in Nat
  BY <1>1, BodySeq
<1>3. f = front \o pad
  BY Zenon DEF Frame, Pad
<1>. HIDE DEF body, f
<1>4. size \in Nat /\ size >= 6 /\ size % 2 = 0 /\ size - length \in Nat
  <2>. HIDE DEF length
  <2>. QED
    BY <1>2
<1>. HIDE DEF size
<1>5. head \in Seq(Nat) /\ Len(head) = 2 /\ Get16(head, 1) = size
  BY <1>4, Put16Is
<1>6. pad \in Seq(Nat) /\ Len(pad) = size - length
  BY <1>4, PadIs
<1>. HIDE DEF head, pad
<1>7. Joins(front, head, body)
  BY <1>2, <1>5, Joined
<1>. HIDE DEF front
<1>8. front \in Seq(Nat) /\ Len(front) = 2 + length
  BY <1>5, <1>7 DEF Joins
<1>9. Joins(f, front, pad)
  BY <1>3, <1>6, <1>8, Joined
<1>10. /\ f \in Seq(Nat) /\ Len(f) = 2 + size
       /\ \A i \in 1 .. 2 + length : f[i] = front[i]
  BY <1>2, <1>4, <1>6, <1>8, <1>9 DEF Joins
<1>11. /\ \A i \in 1 .. 2 : front[i] = head[i]
       /\ \A i \in 1 .. length : front[2 + i] = body[i]
  <2>1. /\ \A i \in 1 .. Len(head) : front[i] = head[i]
        /\ \A i \in 1 .. Len(body) : front[Len(head) + i] = body[i]
    BY <1>7, Zenon DEF Joins
  <2>. QED
    BY <1>5, <2>1, Zenon
<1>12. f[1] = head[1] /\ f[2] = head[2]
  BY <1>2, <1>10, <1>11
<1>13. Get16(f, 1) = size
  BY <1>5, <1>12 DEF Get16
<1>14. ASSUME NEW i \in 1 .. length PROVE f[2 + i] = body[i]
  <2>1. 2 + i \in 1 .. 2 + length
    BY <1>2
  <2>. QED
    BY <1>10, <1>11, <2>1, Zenon
<1>15. ~BadFrameSize(size) /\ length + 2 <= Len(f)
  BY <1>1, <1>2, <1>4, <1>10 DEF BadFrameSize
<1>16. FrameHolds(f, body)
  BY <1>4, <1>10, <1>13, <1>14, <1>15 DEF FrameHolds
<1>. QED
  BY <1>16 DEF f, body

(* s is in b from the place after k on.                                    *)
At(b, k, s) == \A i \in 1 .. Len(s) : b[k + i] = s[i]

LEMMA Slice ==
  ASSUME NEW f \in Seq(Nat), NEW s \in Seq(Nat), NEW k \in Nat, k + Len(s) <= Len(f),
         At(f, k, s)
  PROVE  SubSeq(f, k + 1, k + Len(s)) = s
<1>. DEFINE t == SubSeq(f, k + 1, k + Len(s))
            n == Len(s)
<1>1. n \in Nat /\ k + 1 \in 1 .. Len(f) + 1 /\ k + n \in 0 .. Len(f)
  OBVIOUS
<1>2. (IF k + 1 <= k + n THEN (k + n) - (k + 1) + 1 ELSE 0) = n /\ (k + n) - (k + 1) + 1 = n
  BY <1>1
<1>3. ASSUME NEW i \in 1 .. n PROVE (k + 1) + i - 1 = k + i
  BY <1>1
<1>. HIDE DEF n
<1>4. /\ t \in Seq(Nat)
      /\ Len(t) = IF k + 1 <= k + n THEN (k + n) - (k + 1) + 1 ELSE 0
      /\ \A i \in 1 .. (k + n) - (k + 1) + 1 : t[i] = f[(k + 1) + i - 1]
  BY <1>1, SubSeqProperties, SMTT(30) DEF n
<1>. HIDE DEF t
<1>5. t \in Seq(Nat) /\ Len(t) = n /\ \A i \in 1 .. n : t[i] = f[k + i]
  BY <1>2, <1>3, <1>4
<1>6. \A i \in 1 .. n : t[i] = s[i]
  BY <1>5, Zenon DEF n, At
<1>7. t = s
  BY <1>5, <1>6, SeqEqual, Zenon DEF n
<1>. QED
  BY <1>7 DEF t

-----------------------------------------------------------------------------
LEMMA Field16 ==
  ASSUME NEW f, NEW b \in Seq(Nat), FrameHolds(f, b), NEW k \in Nat, k > 0, k + 1 <= Len(b)
  PROVE  Get16(f, k + 2) = Get16(b, k)
<1>1. f[2 + k] = b[k] /\ f[2 + (k + 1)] = b[k + 1]
  <2>1. k \in 1 .. Len(b) /\ k + 1 \in 1 .. Len(b)
    OBVIOUS
  <2>. QED
    BY <2>1, Zenon DEF FrameHolds
<1>2. 2 + k = k + 2 /\ 2 + (k + 1) = (k + 2) + 1
  OBVIOUS
<1>. QED
  BY <1>1, <1>2, ZenonT(40) DEF Get16

LEMMA FieldString ==
  ASSUME NEW f, NEW b \in Seq(Nat), FrameHolds(f, b), NEW k \in Nat, k > 0,
         NEW s \in Seq(Nat), k + 1 + Len(s) <= Len(b), Get16(b, k) = Len(s),
         At(b, k + 1, s)
  PROVE  GetString(f, k + 2) = s
<1>1. Get16(f, k + 2) = Len(s)
  <2>1. k + 1 <= Len(b)
    OBVIOUS
  <2>. QED
    BY <2>1, Field16
<1>2. f \in Seq(Nat) /\ Len(b) + 2 <= Len(f) /\ \A i \in 1 .. Len(b) : f[2 + i] = b[i]
  BY DEF FrameHolds
<1>. DEFINE j == k + 3
<1>3. ASSUME NEW i \in 1 .. Len(s) PROVE f[j + i] = s[i]
  <2>1. (k + 1) + i \in 1 .. Len(b) /\ 2 + ((k + 1) + i) = j + i
    OBVIOUS
  <2>2. b[(k + 1) + i] = s[i]
    BY Zenon DEF At
  <2>. QED
    BY <1>2, <2>1, <2>2, Zenon
<1>4. j \in Nat /\ j + Len(s) <= Len(f)
  BY <1>2
<1>5. j + 1 = (k + 2) + 2 /\ j + Len(s) = (k + 2) + 1 + Len(s)
  OBVIOUS
<1>. HIDE DEF j
<1>6. At(f, j, s)
  BY <1>3, Zenon DEF At
<1>7. SubSeq(f, j + 1, j + Len(s)) = s
  BY <1>2, <1>4, <1>6, Slice, Zenon
<1>. QED
  BY <1>1, <1>5, <1>7, Zenon DEF GetString

(* What the handlers take from the frame of a call.                        *)
IdTag(tag) == CASE tag = "Close" -> REQ_CLOSE [] tag = "Read" -> REQ_READ
                [] tag = "Write" -> REQ_WRITE [] tag = "Puts" -> REQ_PUTS
FrameOK(r, f) ==
  /\ f \in Seq(Nat) /\ Len(f) >= 8 /\ Len(f) = 2 + Get16(f, 1)
  /\ Get16(f, 1) \in Nat /\ ~BadFrameSize(Get16(f, 1))
  /\ r.tag = "Open" =>
       /\ f[3] = REQ_OPEN /\ r.name \in Seq(Nat) /\ GetString(f, 4) = r.name
       /\ f[6 + Len(r.name)] = r.type /\ f[7 + Len(r.name)] = r.mode
  /\ r.tag \in {"Close", "Read", "Write", "Puts"} => f[3] = IdTag(r.tag) /\ Get32(f, 4) = r.id
  /\ r.tag = "Read" => r.size \in Nat /\ Get16(f, 8) = r.size
  /\ r.tag \in {"Write", "Puts"} => r.data \in Seq(Nat) /\ GetString(f, 8) = r.data
  /\ r.tag = "Exit" => f[3] = REQ_EXIT
  /\ r.tag \notin FileCall => f[3] \notin FileTag

LEMMA IdFrame ==
  ASSUME NEW f, NEW b, NEW req, NEW id, NEW rest \in Seq(Nat), FrameHolds(f, b), IdBodyOK(b, req, id, rest)
  PROVE  /\ f[3] = req /\ Get32(f, 4) = id
         /\ b \in Seq(Nat) /\ Len(b) = 5 + Len(rest) /\ Len(rest) \in Nat
<1>1. /\ b \in Seq(Nat) /\ Len(b) = 5 + Len(rest) /\ Len(rest) \in Nat /\ Len(b) \in Nat
      /\ b[1] = req /\ Get32(b, 2) = id
  BY DEF IdBodyOK
<1>2. \A i \in 1 .. Len(b) : f[2 + i] = b[i]
  BY DEF FrameHolds
<1>3. f[2 + 1] = b[1] /\ f[2 + 2] = b[2] /\ f[2 + 3] = b[3] /\ f[2 + 4] = b[4] /\ f[2 + 5] = b[5]
  BY <1>1, <1>2, SMTT(30)
<1>4. Get32(f, 4) = Get32(b, 2)
  BY <1>3 DEF Get32, Get16
<1>. QED
  BY <1>1, <1>3, <1>4

LEMMA DataFrame ==
  ASSUME NEW f, NEW b, NEW req, NEW id, NEW data \in Seq(Nat), FrameHolds(f, b),
         IdBodyOK(b, req, id, Str(data))
  PROVE  f[3] = req /\ Get32(f, 4) = id /\ GetString(f, 8) = data
<1>1. /\ Str(data) \in Seq(Nat) /\ Len(data) \in Nat /\ Len(Str(data)) = 2 + Len(data)
      /\ Get16(Str(data), 1) = Len(data)
      /\ \A i \in 1 .. Len(data) : Str(data)[2 + i] = data[i]
  BY StrIs, Zenon
<1>2. f[3] = req /\ Get32(f, 4) = id /\ b \in Seq(Nat) /\ Len(b) = 5 + Len(Str(data))
  BY <1>1, IdFrame, ZenonT(40)
<1>3. \A i \in 1 .. Len(Str(data)) : b[5 + i] = Str(data)[i]
  BY Zenon DEF IdBodyOK
<1>4. b[5 + 1] = Str(data)[1] /\ b[5 + 2] = Str(data)[2]
  BY <1>1, <1>3
<1>5. Get16(b, 6) = Len(data)
  BY <1>1, <1>4 DEF Get16
<1>6. At(b, 6 + 1, data)
  <2>1. ASSUME NEW i \in 1 .. Len(data) PROVE 2 + i \in 1 .. Len(Str(data)) /\ 5 + (2 + i) = (6 + 1) + i
    BY <1>1
  <2>2. ASSUME NEW i \in 1 .. Len(data) PROVE b[(6 + 1) + i] = data[i]
    BY <1>1, <1>3, <2>1, Zenon
  <2>. QED
    BY <2>2, Zenon DEF At
<1>7. 6 \in Nat /\ 6 > 0 /\ 6 + 1 + Len(data) <= Len(b) /\ 6 + 2 = 8
  BY <1>1, <1>2
<1>8. GetString(f, 6 + 2) = data
  BY <1>2, <1>5, <1>6, <1>7, FieldString, Zenon
<1>. QED
  BY <1>2, <1>7, <1>8

LEMMA OpenFrame ==
  ASSUME NEW f, NEW b, NEW name \in Seq(Nat), NEW type, NEW mode, FrameHolds(f, b),
         OpenBodyOK(b, name, type, mode)
  PROVE  /\ f[3] = REQ_OPEN /\ GetString(f, 4) = name
         /\ f[6 + Len(name)] = type /\ f[7 + Len(name)] = mode
<1>1. /\ b \in Seq(Nat) /\ Len(name) \in Nat /\ Len(b) = 5 + Len(name)
      /\ b[1] = REQ_OPEN /\ Get16(b, 2) = Len(name)
      /\ b[4 + Len(name)] = type /\ b[5 + Len(name)] = mode
  BY DEF OpenBodyOK
<1>2. \A i \in 1 .. Len(b) : f[2 + i] = b[i]
  BY DEF FrameHolds
<1>3. f[2 + 1] = b[1] /\ f[2 + (4 + Len(name))] = b[4 + Len(name)] /\ f[2 + (5 + Len(name))] = b[5 + Len(name)]
  BY <1>1, <1>2
<1>4. 2 + (4 + Len(name)) = 6 + Len(name) /\ 2 + (5 + Len(name)) = 7 + Len(name)
  BY <1>1
<1>5. At(b, 2 + 1, name)
  <2>1. \A i \in 1 .. Len(name) : b[3 + i] = name[i]
    BY Zenon DEF OpenBodyOK
  <2>2. 2 + 1 = 3
    OBVIOUS
  <2>. QED
    BY <2>1, <2>2, Zenon DEF At
<1>6. 2 \in Nat /\ 2 > 0 /\ 2 + 1 + Len(name) <= Len(b) /\ 2 + 2 = 4
  BY <1>1
<1>7. GetString(f, 2 + 2) = name
  BY <1>1, <1>5, <1>6, FieldString, Zenon
<1>8. f[3] = REQ_OPEN
  BY <1>1, <1>3
<1>. QED
  BY <1>1, <1>3, <1>4, <1>6, <1>7, <1>8

LEMMA TagFrame ==
  ASSUME NEW f, NEW b, NEW req, NEW rest \in Seq(Nat), FrameHolds(f, b), TagBodyOK(b, req, rest)
  PROVE  f[3] = req
<1>1. Len(b) \in Nat /\ Len(b) = 1 + Len(rest) /\ Len(rest) \in Nat /\ b[1] = req
  BY DEF TagBodyOK
<1>2. \A i \in 1 .. Len(b) : f[2 + i] = b[i]
  BY DEF FrameHolds
<1>3. 1 \in 1 .. Len(b) /\ 2 + 1 = 3
  BY <1>1
<1>. QED
  BY <1>1, <1>2, <1>3

LEMMA FrameDecodes == ASSUME NEW r \in Request PROVE FrameOK(r, Frame(r))
<1>. DEFINE f == Frame(r)
            b == Body(r)
<1>1. BodyOK(r, b) /\ FrameHolds(f, b)
  BY RequestAssumption, BodyIs, FrameIs
<1>. HIDE DEF f, b
<1>2. /\ f \in Seq(Nat) /\ Len(f) >= 8 /\ Len(f) = 2 + Get16(f, 1)
      /\ Get16(f, 1) \in Nat /\ ~BadFrameSize(Get16(f, 1))
  BY <1>1 DEF FrameHolds
<1>3. CASE r.tag = "Open"
  <2>1. r.name \in Seq(Nat) /\ OpenBodyOK(b, r.name, r.type, r.mode)
    BY <1>1, <1>3 DEF BodyOK
  <2>2. /\ f[3] = REQ_OPEN /\ GetString(f, 4) = r.name
        /\ f[6 + Len(r.name)] = r.type /\ f[7 + Len(r.name)] = r.mode
    BY <1>1, <2>1, OpenFrame, Zenon
  <2>3. FrameOK(r, f)
    BY <1>2, <1>3, <2>1, <2>2 DEF FrameOK, FileCall
  <2>. QED
    BY <2>3 DEF f
<1>4. CASE r.tag = "Close"
  <2>1. IdBodyOK(b, REQ_CLOSE, r.id, <<>>) /\ <<>> \in Seq(Nat)
    BY <1>1, <1>4 DEF BodyOK
  <2>2. f[3] = REQ_CLOSE /\ Get32(f, 4) = r.id
    BY <1>1, <2>1, IdFrame, Zenon
  <2>3. FrameOK(r, f)
    BY <1>2, <1>4, <2>2 DEF FrameOK, FileCall, IdTag
  <2>. QED
    BY <2>3 DEF f
<1>5. CASE r.tag = "Read"
  <2>1. IdBodyOK(b, REQ_READ, r.id, Put16(r.size)) /\ r.size \in Nat
    BY <1>1, <1>5 DEF BodyOK
  <2>2. Put16(r.size) \in Seq(Nat) /\ Len(Put16(r.size)) = 2 /\ Get16(Put16(r.size), 1) = r.size
    BY <2>1, Put16Is
  <2>3. f[3] = REQ_READ /\ Get32(f, 4) = r.id /\ b \in Seq(Nat) /\ Len(b) = 5 + Len(Put16(r.size))
    BY <1>1, <2>1, <2>2, IdFrame, Zenon
  <2>4. b[5 + 1] = Put16(r.size)[1] /\ b[5 + 2] = Put16(r.size)[2]
    <3>1. \A i \in 1 .. Len(Put16(r.size)) : b[5 + i] = Put16(r.size)[i]
      BY <2>1 DEF IdBodyOK
    <3>. QED
      BY <2>2, <3>1
  <2>5. Get16(b, 6) = r.size
    BY <2>2, <2>4 DEF Get16
  <2>6. Get16(f, 6 + 2) = Get16(b, 6) /\ 6 + 2 = 8
    <3>1. 6 \in Nat /\ 6 > 0 /\ 6 + 1 <= Len(b)
      BY <2>2, <2>3
    <3>. QED
      BY <1>1, <2>3, <3>1, Field16
  <2>7. Get16(f, 8) = r.size
    BY <2>5, <2>6
  <2>8. FrameOK(r, f)
    BY <1>2, <1>5, <2>1, <2>3, <2>7 DEF FrameOK, FileCall, IdTag
  <2>. QED
    BY <2>8 DEF f
<1>6. CASE r.tag \in {"Write", "Puts"}
  <2>1. IdBodyOK(b, IdTag(r.tag), r.id, Str(r.data)) /\ r.data \in Seq(Nat)
    BY <1>1, <1>6 DEF BodyOK, IdTag
  <2>2. f[3] = IdTag(r.tag) /\ Get32(f, 4) = r.id /\ GetString(f, 8) = r.data
    BY <1>1, <2>1, DataFrame, Zenon
  <2>3. FrameOK(r, f)
    BY <1>2, <1>6, <2>1, <2>2 DEF FrameOK, FileCall
  <2>. QED
    BY <2>3 DEF f
<1>7. CASE r.tag = "Exit"
  <2>1. TagBodyOK(b, REQ_EXIT, r.status) /\ r.status \in Seq(Nat)
    BY <1>1, <1>7 DEF BodyOK
  <2>2. f[3] = REQ_EXIT
    BY <1>1, <2>1, TagFrame, Zenon
  <2>3. FrameOK(r, f)
    BY <1>2, <1>7, <2>2 DEF FrameOK, FileCall
  <2>. QED
    BY <2>3 DEF f
<1>8. CASE r.tag \notin FileCall
  <2>1. TagBodyOK(b, r.req, r.args) /\ r.args \in Seq(Nat) /\ r.req \notin FileTag
    BY <1>1, <1>8 DEF BodyOK
  <2>2. f[3] = r.req
    BY <1>1, <2>1, TagFrame, Zenon
  <2>3. FrameOK(r, f)
    BY <1>2, <1>8, <2>1, <2>2 DEF FrameOK, FileCall
  <2>. QED
    BY <2>3 DEF f
<1>. QED
  BY <1>3, <1>4, <1>5, <1>6, <1>7, <1>8 DEF FileCall

-----------------------------------------------------------------------------
(* What the handlers put, and what they leave of the platform.             *)
Served(o) == PlatformOK(o.p) /\ o.put \in Seq(Nat)

LEMMA ServedAnswer ==
  ASSUME NEW p, PlatformOK(p), NEW put \in Seq(Nat)
  PROVE  Served(Answer(p, put))
  BY DEF Served, Answer

LEMMA Prefixed ==
  ASSUME NEW x \in Nat, NEW s \in Seq(Nat)
  PROVE  <<x>> \in Seq(Nat) /\ <<x>> \o s \in Seq(Nat)
<1>1. <<x>> \in Seq(Nat)
  OBVIOUS
<1>. QED
  BY <1>1, ConcatProperties

LEMMA Results ==
  /\ RES_SUCCESS \in Nat /\ RES_UNIMPLEMENTED \in Nat /\ RES_ERROR \in Nat
  /\ RES_TRUNCATED \in Nat /\ RES_BADID \in Nat /\ RES_NOPOSN \in Nat
  /\ Key \in Nat /\ <<>> \in Seq(Nat)
  BY KeyAssumption DEF RES_SUCCESS, RES_UNIMPLEMENTED, RES_ERROR, RES_TRUNCATED, RES_BADID, RES_NOPOSN

LEMMA ServedCaught == ASSUME NEW p, PlatformOK(p), NEW ex PROVE Served(Caught(p, ex))
<1>1. ResultOf(ex) \in Nat /\ Put16(0) \in Seq(Nat)
  BY Results, Put16Is, 0 \in Nat DEF ResultOf
<1>2. <<ResultOf(ex)>> \o Put16(0) \in Seq(Nat)
  BY <1>1, Prefixed, Zenon
<1>. QED
  BY <1>2, ServedAnswer, Zenon DEF Caught

LEMMA OpenYields ==
  ASSUME NEW p, NEW name, NEW mode, NEW o \in openFileStream(p, name, mode)
  PROVE  o.id \in Nat
<1>. DEFINE free == {id \in StreamId : id >= 2 /\ p.myFiles[id] = nullptr}
            id == Min(free)
<1>1. CASE free = {} \/ ~CanOpen(p.disk, name, mode)
  BY <1>1 DEF openFileStream
<1>2. CASE free # {} /\ CanOpen(p.disk, name, mode)
  <2>1. free \subseteq Nat
    BY DEF StreamId
  <2>2. id \in free
    BY <1>2, <2>1, Least
  <2>3. id \in Nat
    BY <2>1, <2>2
  <2>4. o.id = id
    <3>1. openFileStream(p, name, mode) =
            {[p |-> [myFiles |-> [p.myFiles EXCEPT ![id] = FileStream(name, mode, Opened(p.disk, name, mode))],
                     disk |-> OnDisk(p.disk, name, Opened(p.disk, name, mode))],
              ex |-> "none", id |-> id]}
      BY <1>2, Zenon DEF openFileStream
    <3>. HIDE DEF id
    <3>. QED
      BY <3>1
  <2>. QED
    BY <2>3, <2>4
<1>. QED
  BY <1>1, <1>2

LEMMA WriteYields ==
  ASSUME NEW p, NEW id, NEW data \in Seq(Nat), NEW o \in writeStream(p, id, data)
  PROVE  o.written \in Nat
<1>1. CASE Refusal(p, id, "out", "IO_READ") # "none"
  BY <1>1 DEF writeStream
<1>2. CASE Refusal(p, id, "out", "IO_READ") = "none"
  <2>1. PICK n \in 0 .. Len(data) : o.written = n
    BY <1>2 DEF writeStream
  <2>. QED
    BY <2>1
<1>. QED
  BY <1>1, <1>2

LEMMA ReadYields ==
  ASSUME NEW p, PlatformOK(p), NEW id, NEW size \in Nat, NEW o \in readStream(p, id, size)
  PROVE  o.data \in Seq(Nat)
<1>1. CASE Refusal(p, id, "in", "IO_WRITE") # "none"
  <2>1. o.data = <<>>
    BY <1>1 DEF readStream
  <2>. QED
    BY <2>1, Results
<1>2. CASE Refusal(p, id, "in", "IO_WRITE") = "none"
  <2>. DEFINE s == p.myFiles[id]
              old == p.disk[s.name]
  <2>1. o.data \in Readable(p, id, size)
    BY <1>2 DEF readStream
  <2>2. /\ id \in StreamId /\ s # nullptr /\ s \in Stream
        /\ s.name # nullptr => id \in Files(p.myFiles)
    BY <1>2, Accepted
  <2>3. CASE s.name = nullptr
    <3>1. PICK n \in 0 .. size : o.data = [i \in 1 .. n |-> Key]
      BY <2>1, <2>3 DEF Readable
    <3>. QED
      BY <3>1, Results
  <2>4. CASE s.name # nullptr
    <3>. DEFINE end == Min({s.pos + size, Len(old)})
    <3>1. old \in Seq(Nat) /\ s.pos \in 0 .. Len(old)
      BY <2>2, <2>4, FileName DEF Agrees, Stream
    <3>. HIDE DEF s, old
    <3>2. s.pos + size \in Nat /\ Len(old) \in Nat
      BY <3>1
    <3>3. end = IF s.pos + size <= Len(old) THEN s.pos + size ELSE Len(old)
      BY <3>2, Lesser
    <3>4. o.data = SubSeq(old, s.pos + 1, end)
      <4>1. Readable(p, id, size) = {SubSeq(old, s.pos + 1, end)}
        BY <2>4, Zenon DEF Readable, s, old
      <4>. QED
        BY <2>1, <4>1, Zenon
    <3>. HIDE DEF end
    <3>5. end \in 0 .. Len(old) /\ s.pos + 1 \in 1 .. Len(old) + 1
      BY <3>1, <3>2, <3>3
    <3>6. SubSeq(old, s.pos + 1, end) \in Seq(Nat)
      BY <3>1, <3>5, SubSeqProperties, SMTT(30)
    <3>. QED
      BY <3>4, <3>6
  <2>. QED
    BY <2>3, <2>4
<1>. QED
  BY <1>1, <1>2

-----------------------------------------------------------------------------
LEMMA OpenServed ==
  ASSUME NEW p, PlatformOK(p), NEW buf, GetString(buf, 4) \in Seq(Nat),
         GetString(buf, 4) \notin Names(p.myFiles), NEW o \in reqOpen(p, buf)
  PROVE  Served(o)
<1>. DEFINE name == GetString(buf, 4)
            openType == buf[6 + Len(name)]
            openMode == buf[7 + Len(name)]
            failed == <<RES_ERROR>> \o Put16(0)
<1>1. failed \in Seq(Nat)
  BY Results, Prefixed, Put16Is, 0 \in Nat
<1>2. CASE openType \notin OPEN_TYPE \/ openMode \notin 1 .. 6
  <2>1. o = Answer(p, failed)
    BY <1>2 DEF reqOpen
  <2>. QED
    BY <1>1, <2>1, ServedAnswer, Zenon
<1>3. CASE openType \in OPEN_TYPE /\ openMode \in 1 .. 6
  <2>. HIDE DEF failed
  <2>0. PICK garbage \in Uninitialised : \E e \in openFileStream(p, name, garbage \cup ModeBits(openMode)) :
          o = Answer(e.p, IF e.ex = "none" THEN <<RES_SUCCESS>> \o Put32(e.id) ELSE failed)
    BY <1>3, Zenon DEF reqOpen, failed
  <2>1. PICK e \in openFileStream(p, name, garbage \cup ModeBits(openMode)) :
          o = Answer(e.p, IF e.ex = "none" THEN <<RES_SUCCESS>> \o Put32(e.id) ELSE failed)
    BY <2>0
  <2>2. garbage \cup ModeBits(openMode) \in SUBSET Flag
    <3>1. ModeBits(openMode) \in SUBSET Flag
      BY <1>3 DEF ModeBits, Flag, REQ_OPEN_MODE_INPUT, REQ_OPEN_MODE_OUTPUT, REQ_OPEN_MODE_APPEND, OPEN_MODE_UPDATE
    <3>. QED
      BY <3>1, Constants
  <2>. HIDE DEF name
  <2>3. PlatformOK(e.p)
    BY <2>2, OpenKeeps DEF name
  <2>4. <<RES_SUCCESS>> \o Put32(e.id) \in Seq(Nat)
    <3>1. e.id \in Nat
      BY OpenYields
    <3>2. Put32(e.id) \in Seq(Nat)
      BY <3>1, Put32Is
    <3>. QED
      BY <3>2, Results, Prefixed
  <2>. QED
    BY <1>1, <2>1, <2>3, <2>4, ServedAnswer, Zenon
<1>. QED
  BY <1>2, <1>3

LEMMA CloseServed ==
  ASSUME NEW p, PlatformOK(p), NEW buf, NEW o \in reqClose(p, buf)
  PROVE  Served(o)
<1>. DEFINE result(e) == IF e.ex # "none" THEN RES_BADID ELSE IF e.closeOk THEN RES_SUCCESS ELSE RES_ERROR
<1>1. PICK e \in closeStream(p, Get32(buf, 4)) : o = Answer(e.p, <<result(e)>>)
  BY DEF reqClose
<1>2. <<result(e)>> \in Seq(Nat)
  BY Results
<1>. HIDE DEF result
<1>3. PlatformOK(e.p)
  BY CloseKeeps
<1>. QED
  BY <1>1, <1>2, <1>3, ServedAnswer, Zenon

LEMMA Reading ==
  ASSUME NEW p, PlatformOK(p), NEW id, NEW size \in Nat, NEW e \in readStream(p, id, size)
  PROVE  /\ Served(Caught(e.p, e.ex))
         /\ Served(Answer(e.p, <<RES_SUCCESS>> \o Put16(Len(e.data)) \o e.data))
         /\ Served(Answer(e.p, <<RES_SUCCESS>> \o e.data))
<1>1. PlatformOK(e.p) /\ e.data \in Seq(Nat) /\ Len(e.data) \in Nat
  BY ReadKeeps, ReadYields
<1>2. Put16(Len(e.data)) \in Seq(Nat)
  BY <1>1, Put16Is
<1>3. <<RES_SUCCESS>> \o Put16(Len(e.data)) \in Seq(Nat) /\ <<RES_SUCCESS>> \o e.data \in Seq(Nat)
  BY <1>1, <1>2, Results, Prefixed
<1>4. <<RES_SUCCESS>> \o Put16(Len(e.data)) \o e.data \in Seq(Nat)
  BY <1>1, <1>3, ConcatProperties
<1>. QED
  BY <1>1, <1>3, <1>4, ServedAnswer, ServedCaught, Zenon

LEMMA ReadServed ==
  ASSUME NEW p, PlatformOK(p), NEW buf, Get16(buf, 8) \in Nat, NEW o \in reqRead(p, buf)
  PROVE  Served(o)
<1>1. PICK e \in readStream(p, Get32(buf, 4), Get16(buf, 8)) :
        o = IF e.ex # "none" THEN Caught(e.p, e.ex)
            ELSE Answer(e.p, <<RES_SUCCESS>> \o Put16(Len(e.data)) \o e.data)
  BY DEF reqRead
<1>. QED
  BY <1>1, Reading

LEMMA GetKeyServed ==
  ASSUME NEW p, PlatformOK(p), NEW o \in reqGetKey(p)
  PROVE  Served(o)
<1>1. PICK e \in readStream(p, FILE_STDIN, 1) :
        o = IF e.ex # "none" THEN Caught(e.p, e.ex) ELSE Answer(e.p, <<RES_SUCCESS>> \o e.data)
  BY DEF reqGetKey
<1>. QED
  BY <1>1, Reading, 1 \in Nat

LEMMA WritesData ==
  ASSUME NEW p, PlatformOK(p), NEW id, NEW data \in Seq(Nat), NEW e \in WriteData(p, id, data)
  PROVE  PlatformOK(e.p) /\ e.written \in Nat
  BY WriteKeeps, WriteYields DEF WriteData

LEMMA WriteServed ==
  ASSUME NEW p, PlatformOK(p), NEW buf, GetString(buf, 8) \in Seq(Nat), NEW o \in reqWrite(p, buf)
  PROVE  Served(o)
<1>1. PICK e \in WriteData(p, Get32(buf, 4), GetString(buf, 8)) :
        o = IF e.ex # "none" THEN Caught(e.p, e.ex) ELSE Answer(e.p, <<RES_SUCCESS>> \o Put16(e.written))
  BY DEF reqWrite
<1>2. PlatformOK(e.p) /\ e.written \in Nat
  BY WritesData
<1>3. <<RES_SUCCESS>> \o Put16(e.written) \in Seq(Nat)
  BY <1>2, Put16Is, Results, Prefixed
<1>. QED
  BY <1>1, <1>2, <1>3, ServedAnswer, ServedCaught, Zenon

LEMMA PutsServed ==
  ASSUME NEW p, PlatformOK(p), NEW buf, GetString(buf, 8) \in Seq(Nat), NEW o \in reqPuts(p, buf)
  PROVE  Served(o)
<1>. DEFINE id == Get32(buf, 4)
<1>1. PICK e \in WriteData(p, id, GetString(buf, 8)) :
        o \in IF e.ex # "none" THEN {Caught(e.p, e.ex)}
              ELSE {IF nl.ex # "none" THEN Caught(nl.p, nl.ex) ELSE Answer(nl.p, <<RES_SUCCESS>>) :
                      nl \in writeStream(e.p, id, <<10>>)}
  BY DEF reqPuts
<1>. HIDE DEF id
<1>2. PlatformOK(e.p)
  BY WritesData
<1>3. CASE e.ex # "none"
  BY <1>1, <1>2, <1>3, ServedCaught, Zenon
<1>4. CASE e.ex = "none"
  <2>1. PICK nl \in writeStream(e.p, id, <<10>>) :
          o = IF nl.ex # "none" THEN Caught(nl.p, nl.ex) ELSE Answer(nl.p, <<RES_SUCCESS>>)
    BY <1>1, <1>4
  <2>2. <<10>> \in Seq(Nat) /\ <<RES_SUCCESS>> \in Seq(Nat)
    BY Results
  <2>3. PlatformOK(nl.p)
    BY <1>2, <2>2, WriteKeeps, Zenon
  <2>. QED
    BY <2>1, <2>2, <2>3, ServedAnswer, ServedCaught, Zenon
<1>. QED
  BY <1>3, <1>4

LEMMA PutCharServed ==
  ASSUME NEW p, PlatformOK(p), NEW buf, buf[4] \in Nat, NEW o \in reqPutChar(p, buf)
  PROVE  Served(o)
<1>. DEFINE result(e) == IF e.ex # "none" THEN ResultOf(e.ex)
                         ELSE IF e.written # 1 THEN RES_TRUNCATED ELSE RES_SUCCESS
<1>1. PICK e \in writeStream(p, FILE_STDOUT, <<buf[4]>>) : o = Answer(e.p, <<result(e)>>)
  BY DEF reqPutChar
<1>2. <<result(e)>> \in Seq(Nat)
  BY Results DEF ResultOf
<1>. HIDE DEF result
<1>3. <<buf[4]>> \in Seq(Nat)
  OBVIOUS
<1>4. PlatformOK(e.p)
  BY <1>3, WriteKeeps
<1>. QED
  BY <1>1, <1>2, <1>4, ServedAnswer, Zenon

LEMMA CommandServed ==
  ASSUME NEW p, PlatformOK(p), NEW buf, NEW o \in reqCommand(p, buf)
  PROVE  Served(o)
<1>. DEFINE line == IF buf[4] # 0 THEN <<Key, Key>> ELSE <<Key>>
<1>1. line \in Seq(Nat) /\ Len(line) \in Nat
  BY Results
<1>2. o = Answer(p, <<RES_SUCCESS>> \o Put16(Len(line)) \o line)
  BY DEF reqCommand
<1>. HIDE DEF line
<1>3. <<RES_SUCCESS>> \o Put16(Len(line)) \in Seq(Nat)
  BY <1>1, Put16Is, Results, Prefixed
<1>4. <<RES_SUCCESS>> \o Put16(Len(line)) \o line \in Seq(Nat)
  BY <1>1, <1>3, ConcatProperties
<1>. QED
  BY <1>2, <1>4, ServedAnswer, Zenon

LEMMA Dispatches ==
  ASSUME NEW p, NEW f
  PROVE  /\ f[3] = REQ_OPEN => requestResponse(p, f) = reqOpen(p, f)
         /\ f[3] = REQ_CLOSE => requestResponse(p, f) = reqClose(p, f)
         /\ f[3] = REQ_READ => requestResponse(p, f) = reqRead(p, f)
         /\ f[3] = REQ_WRITE => requestResponse(p, f) = reqWrite(p, f)
         /\ f[3] = REQ_PUTS => requestResponse(p, f) = reqPuts(p, f)
<1>. DEFINE tag == f[3]
<1>. HIDE DEF tag
<1>1. /\ tag = REQ_OPEN => requestResponse(p, f) = reqOpen(p, f)
      /\ tag = REQ_CLOSE => requestResponse(p, f) = reqClose(p, f)
      /\ tag = REQ_READ => requestResponse(p, f) = reqRead(p, f)
      /\ tag = REQ_WRITE => requestResponse(p, f) = reqWrite(p, f)
      /\ tag = REQ_PUTS => requestResponse(p, f) = reqPuts(p, f)
  BY DEF requestResponse, tag, REQ_OPEN, REQ_CLOSE, REQ_READ, REQ_WRITE, REQ_PUTS, REQ_GETKEY, REQ_POLLKEY,
         REQ_EXIT, REQ_COMMAND, REQ_ID, REQ_PUTCHAR
<1>. QED
  BY <1>1 DEF tag

(* Every call of the program's is served, whatever it is, without harm to  *)
(* the platform: as long as the file that it opens is not open.            *)
LEMMA RequestServed ==
  ASSUME NEW p, PlatformOK(p), NEW r \in Request, r.tag = "Open" => r.name \notin Names(p.myFiles),
         NEW o \in requestResponse(p, Frame(r))
  PROVE  Served(o)
<1>. DEFINE f == Frame(r)
<1>1. FrameOK(r, f)
  BY FrameDecodes
<1>. HIDE DEF f
<1>2. o \in requestResponse(p, f)
  BY DEF f
<1>3. CASE r.tag = "Open"
  <2>1. f[3] = REQ_OPEN /\ GetString(f, 4) \in Seq(Nat) /\ GetString(f, 4) \notin Names(p.myFiles)
    BY <1>1, <1>3 DEF FrameOK
  <2>2. o \in reqOpen(p, f)
    BY <1>2, <2>1, Dispatches
  <2>. QED
    BY <2>1, <2>2, OpenServed, Zenon
<1>4. CASE r.tag \in {"Close", "Read", "Write", "Puts"}
  <2>1. /\ f[3] = IdTag(r.tag)
        /\ r.tag = "Read" => Get16(f, 8) \in Nat
        /\ r.tag \in {"Write", "Puts"} => GetString(f, 8) \in Seq(Nat)
    BY <1>1, <1>4 DEF FrameOK
  <2>2. CASE r.tag = "Close"
    <3>1. o \in reqClose(p, f)
      BY <1>2, <2>1, <2>2, Dispatches DEF IdTag
    <3>. QED
      BY <3>1, CloseServed, Zenon
  <2>3. CASE r.tag = "Read"
    <3>1. o \in reqRead(p, f)
      BY <1>2, <2>1, <2>3, Dispatches DEF IdTag
    <3>. QED
      BY <2>1, <2>3, <3>1, ReadServed, Zenon
  <2>4. CASE r.tag = "Write"
    <3>1. o \in reqWrite(p, f)
      BY <1>2, <2>1, <2>4, Dispatches DEF IdTag
    <3>. QED
      BY <2>1, <2>4, <3>1, WriteServed
  <2>5. CASE r.tag = "Puts"
    <3>1. o \in reqPuts(p, f)
      BY <1>2, <2>1, <2>5, Dispatches DEF IdTag
    <3>. QED
      BY <2>1, <2>5, <3>1, PutsServed
  <2>. QED
    BY <1>4, <2>2, <2>3, <2>4, <2>5
<1>5. CASE r.tag \notin {"Open", "Close", "Read", "Write", "Puts"}
  <2>1. f[3] \notin {REQ_OPEN, REQ_CLOSE, REQ_READ, REQ_WRITE, REQ_PUTS}
    <3>1. CASE r.tag = "Exit"
      BY <1>1, <3>1 DEF FrameOK, REQ_OPEN, REQ_CLOSE, REQ_READ, REQ_WRITE, REQ_PUTS, REQ_EXIT
    <3>2. CASE r.tag # "Exit"
      BY <1>1, <1>5, <3>2 DEF FrameOK, FileCall, FileTag
    <3>. QED
      BY <3>1, <3>2
  <2>2. f[4] \in Nat
    <3>1. f \in Seq(Nat) /\ Len(f) >= 8
      BY <1>1 DEF FrameOK
    <3>. QED
      BY <3>1
  <2>3. o \in reqGetKey(p) \/ o \in reqPollKey(p) \/ o \in reqExit(p) \/ o \in reqCommand(p, f)
          \/ o \in reqId(p) \/ o \in reqPutChar(p, f) \/ o \in {Answer(p, <<RES_UNIMPLEMENTED>>)}
    BY <1>2, <2>1 DEF requestResponse
  <2>4. CASE o \in reqPollKey(p)
    <3>1. <<RES_SUCCESS, Key>> \in Seq(Nat) /\ <<RES_ERROR>> \in Seq(Nat)
      BY Results
    <3>. QED
      BY <2>4, <3>1, ServedAnswer, Zenon DEF reqPollKey
  <2>5. CASE o \in reqExit(p) \/ o \in {Answer(p, <<RES_UNIMPLEMENTED>>)}
    <3>1. <<RES_SUCCESS>> \in Seq(Nat) /\ <<RES_UNIMPLEMENTED>> \in Seq(Nat)
      BY Results
    <3>. QED
      BY <2>5, <3>1, ServedAnswer, Zenon DEF reqExit
  <2>6. CASE o \in reqId(p)
    <3>1. <<RES_SUCCESS, 0, 1, 8, 0>> \in Seq(Nat)
      BY Results
    <3>. QED
      BY <2>6, <3>1, ServedAnswer, Zenon DEF reqId
  <2>. QED
    BY <2>2, <2>3, <2>4, <2>5, <2>6, GetKeyServed, CommandServed, PutCharServed, Zenon
<1>. QED
  BY <1>3, <1>4, <1>5

-----------------------------------------------------------------------------
(* bytes of message that are on their way: n have been taken up, then come *)
(* those read, the one on the link and those still to write.               *)
Transit(message, n, in, byte, out) ==
  /\ message \in Seq(Nat) /\ in \in Seq(Nat) /\ byte \in Seq(Nat) /\ out \in Seq(Nat)
  /\ n \in Nat /\ Len(byte) <= 1
  /\ n + Len(in) + Len(byte) + Len(out) = Len(message)
  /\ At(message, n, in)
  /\ At(message, n + Len(in), byte)
  /\ At(message, n + Len(in) + Len(byte), out)

Pokes == BootFile.pokes
CodeStart == 9 * Len(Pokes)          \* what comes before the length of the code
RestStart == CodeStart + 1 + Len(BootFile.code)

(* The first pokes have been made, and the first bytes of the code are in  *)
(* memory.                                                                 *)
Poked(memory, count) ==
  \A i \in 1 .. count, k \in 1 .. 4 :
    Pokes[i].addr <= MemEnd => memory[Pokes[i].addr + k - 1] = Pokes[i].word[k]
Coded(memory, count) == \A i \in 1 .. count : memory[MemStart + i - 1] = BootFile.code[i]

ShapeOK ==
  /\ DOMAIN server = {"pc", "out", "in", "exitCode", "exit"}
  /\ DOMAIN cpu = {"pc", "out", "in", "call", "result", "calls"}
  /\ link \in [{"A", "B"} -> Seq(Nat)]
  /\ DOMAIN myMemory = 0 .. MemEnd
  /\ PlatformOK(myPlatform)
  /\ cpu.pc # "boot" => Poked(myMemory, Len(Pokes)) /\ Coded(myMemory, Len(BootFile.code))

(* main is still sending the boot file, or the CPU is still reading it.    *)
Loads(n) == Transit(BootBytes, n, cpu.in, link["A"], server.out)
Poking ==
  \E i \in Nat :
    /\ i < Len(Pokes) /\ Poked(myMemory, i)
    /\ Loads(9 * i) /\ Len(cpu.in) < 9
Coding ==
  /\ Poked(myMemory, Len(Pokes)) /\ Coded(myMemory, Len(cpu.in) - 1)
  /\ Loads(CodeStart) /\ Len(cpu.in) <= Len(BootFile.code)
Loading ==
  /\ cpu.call = NoCall /\ cpu.out = <<>> /\ server.in = <<>> /\ link["B"] = <<>>
  /\ server.pc = IF server.out = <<>> THEN "readFrame" ELSE "sendFile"
  /\ \/ cpu.pc = "boot" /\ (Poking \/ Coding)
     \/ cpu.pc = "load" /\ Loads(RestStart) /\ Len(cpu.in) < Len(BootFile.rest)

(* The two bytes of a bad size, the second not yet read: what the program  *)
(* sends next waits behind it.                                             *)
Refusing ==
  \E first, second \in Nat :
    /\ server.in = <<first>> /\ link["B"] = <<second>>
    /\ BadFrameSize(first + 256 * second)
Sent(message) ==
  \/ Transit(message, 0, server.in, link["B"], cpu.out)
  \/ cpu.out = message /\ Refusing
Quiet == server.in = <<>> /\ link["B"] = <<>>

(* main waits for a frame, and no answer is on its way.                    *)
Waiting == server.pc = "readFrame" /\ server.out = <<>> /\ link["A"] = <<>> /\ cpu.in = <<>>

(* The file that the program is about to open is not open.                 *)
Fresh == cpu.call.tag = "Open" => cpu.call.name \notin Names(myPlatform.myFiles)

Running ==
  /\ cpu.pc = "run" /\ cpu.call = NoCall /\ cpu.out = <<>>
  /\ Waiting /\ (Quiet \/ Refusing)
SendingBad ==
  /\ cpu.pc = "send" /\ cpu.call = NoCall /\ cpu.out # <<>>
  /\ Waiting /\ \E size \in BadSize : Sent(Put16(size))
Calling ==
  /\ cpu.pc = "send" /\ cpu.call \in Request /\ cpu.out # <<>>
  /\ Waiting /\ Fresh /\ Sent(Frame(cpu.call))
Arriving ==
  /\ cpu.pc = "receive" /\ cpu.call \in Request /\ cpu.out = <<>>
  /\ Waiting /\ Fresh /\ Transit(Frame(cpu.call), 0, server.in, link["B"], <<>>) /\ link["B"] # <<>>
Serving ==
  /\ cpu.pc = "receive" /\ cpu.call \in Request /\ cpu.out = <<>>
  /\ server.pc = "requestResponse" /\ link["A"] = <<>> /\ cpu.in = <<>>
  /\ Fresh /\ server.in = Frame(cpu.call) /\ link["B"] = <<>>
Returning ==
  /\ cpu.pc = "receive" /\ cpu.call \in Request /\ cpu.out = <<>>
  /\ server.in = <<>> /\ link["B"] = <<>>
  /\ \E frame \in Seq(Nat) :
       /\ Get16(frame, 1) \in Nat /\ Len(frame) = 2 + Get16(frame, 1)
       /\ Transit(frame, 0, cpu.in, link["A"], server.out)
  /\ server.exit <=> cpu.call.tag = "Exit"
  /\ \/ server.pc = "writeFrame" /\ server.out # <<>>
     \/ /\ server.out = <<>> /\ link["A"] # <<>>
        /\ server.pc = IF server.exit THEN "join" ELSE "readFrame"
Ending ==
  /\ cpu.pc \in {"exit", "terminated"} /\ cpu.call = NoCall
  /\ server.pc \in {"join", "exited"} \/ (server.pc = "readFrame" /\ (Quiet \/ Refusing))

Protocol ==
  \/ Loading \/ Running \/ SendingBad \/ Calling \/ Arriving \/ Serving \/ Returning \/ Ending
-----------------------------------------------------------------------------
LEMMA Nothing == ASSUME NEW m, NEW k PROVE At(m, k, <<>>) /\ Len(<<>>) = 0 /\ <<>> \in Seq(Nat)
<1>1. Len(<<>>) = 0 /\ <<>> \in Seq(Nat) /\ 1 .. 0 = {}
  OBVIOUS
<1>. QED
  BY <1>1, Zenon DEF At

LEMMA TransitStart == ASSUME NEW m \in Seq(Nat) PROVE Transit(m, 0, <<>>, <<>>, m)
<1>1. At(m, 0, m)
  <2>1. ASSUME NEW i \in 1 .. Len(m) PROVE 0 + i = i
    OBVIOUS
  <2>. QED
    BY <2>1, Zenon DEF At
<1>2. 0 + Len(<<>>) = 0 /\ 0 + Len(<<>>) + Len(<<>>) = 0 /\ 0 + Len(<<>>) + Len(<<>>) + Len(m) = Len(m) /\ 0 <= 1
  OBVIOUS
<1>3. At(m, 0, <<>>) /\ Len(<<>>) = 0 /\ <<>> \in Seq(Nat) /\ 0 \in Nat
  BY Nothing
<1>. QED
  BY <1>1, <1>2, <1>3, Zenon DEF Transit

LEMMA TransitPut ==
  ASSUME NEW m, NEW n, NEW in, NEW out, Transit(m, n, in, <<>>, out), out # <<>>
  PROVE  Transit(m, n, in, <<Head(out)>>, Tail(out))
<1>. DEFINE b == <<Head(out)>>
            rest == Tail(out)
            k == n + Len(in)
<1>1. /\ m \in Seq(Nat) /\ in \in Seq(Nat) /\ out \in Seq(Nat) /\ n \in Nat
      /\ n + Len(in) + Len(<<>>) + Len(out) = Len(m)
  BY Zenon DEF Transit
<1>0. At(m, n, in) /\ At(m, n + Len(in) + Len(<<>>), out)
  BY Zenon DEF Transit
<1>2. /\ Len(<<>>) = 0 /\ Len(in) \in Nat /\ Len(out) \in Nat /\ Len(m) \in Nat
      /\ b \in Seq(Nat) /\ Len(b) = 1 /\ b[1] = out[1]
      /\ rest \in Seq(Nat) /\ Len(rest) = Len(out) - 1
      /\ \A i \in 1 .. Len(out) - 1 : rest[i] = out[i + 1]
      /\ Len(out) >= 1
  BY <1>1
<1>. HIDE DEF b, rest
<1>9. n \in Nat /\ Len(in) \in Nat /\ Len(out) \in Nat /\ Len(m) \in Nat /\ Len(out) >= 1 /\ Len(<<>>) = 0
       /\ n + Len(in) + Len(<<>>) + Len(out) = Len(m) /\ Len(b) = 1 /\ Len(rest) = Len(out) - 1
  BY <1>1, <1>2, Zenon
<1>3. k \in Nat /\ k + Len(<<>>) = k /\ n + Len(in) + Len(b) = k + 1 /\ Len(b) <= 1
      /\ n + Len(in) + Len(b) + Len(rest) = Len(m) /\ n + Len(in) = k /\ Len(out) >= 1
  BY <1>9
<1>. HIDE DEF k
<1>4. At(m, k, out)
  BY <1>0, <1>3, Zenon
<1>5. m[k + 1] = out[1]
  <2>1. 1 \in 1 .. Len(out)
    BY <1>2, <1>3
  <2>. QED
    BY <1>4, <2>1, Zenon DEF At
<1>6. At(m, k, b)
  <2>1. 1 .. Len(b) = {1}
    BY <1>2
  <2>. QED
    BY <1>2, <1>5, <2>1, Zenon DEF At
<1>7. At(m, k + 1, rest)
  <2>1. ASSUME NEW i \in 1 .. Len(rest)
        PROVE  i \in 1 .. Len(out) - 1 /\ i + 1 \in 1 .. Len(out) /\ (k + 1) + i = k + (i + 1)
    BY <1>2, <1>3
  <2>2. ASSUME NEW i \in 1 .. Len(rest) PROVE m[(k + 1) + i] = rest[i]
    BY <1>2, <1>4, <2>1, Zenon DEF At
  <2>. QED
    BY <2>2, Zenon DEF At
<1>8. Transit(m, n, in, b, rest)
  BY <1>0, <1>1, <1>2, <1>3, <1>6, <1>7, Zenon DEF Transit
<1>. QED
  BY <1>8 DEF b, rest

LEMMA TransitTake ==
  ASSUME NEW m, NEW n, NEW in, NEW byte, NEW out, Transit(m, n, in, byte, out), byte # <<>>
  PROVE  /\ Transit(m, n, Append(in, byte[1]), <<>>, out)
         /\ Len(Append(in, byte[1])) = Len(in) + 1
<1>. DEFINE read == Append(in, byte[1])
            k == n + Len(in)
<1>1. /\ m \in Seq(Nat) /\ in \in Seq(Nat) /\ byte \in Seq(Nat) /\ out \in Seq(Nat) /\ n \in Nat
      /\ Len(byte) <= 1 /\ n + Len(in) + Len(byte) + Len(out) = Len(m)
  BY Zenon DEF Transit
<1>0. At(m, n, in) /\ At(m, n + Len(in), byte) /\ At(m, n + Len(in) + Len(byte), out)
  BY Zenon DEF Transit
<1>2. /\ Len(byte) = 1 /\ Len(in) \in Nat /\ Len(out) \in Nat /\ Len(m) \in Nat
      /\ read \in Seq(Nat) /\ Len(read) = Len(in) + 1 /\ read[Len(in) + 1] = byte[1]
      /\ \A i \in 1 .. Len(in) : read[i] = in[i]
  <2>1. Len(byte) = 1 /\ byte[1] \in Nat /\ Len(in) \in Nat /\ Len(out) \in Nat /\ Len(m) \in Nat
    <3>. DEFINE l == Len(byte)
    <3>1. Len(in) \in Nat /\ Len(out) \in Nat /\ Len(m) \in Nat /\ l \in Nat
      BY <1>1
    <3>2. l # 0
      BY <1>1
    <3>3. l <= 1
      BY <1>1, Zenon
    <3>. HIDE DEF l
    <3>4. l = 1
      BY <3>1, <3>2, <3>3
    <3>5. 1 \in 1 .. l
      BY <3>4
    <3>6. byte[1] \in Nat
      BY <1>1, <3>5, ElementOfSeq, Zenon DEF l
    <3>. QED
      BY <3>1, <3>4, <3>6 DEF l
  <2>2. /\ read \in Seq(Nat) /\ Len(read) = Len(in) + 1
        /\ \A i \in 1 .. Len(in) : read[i] = in[i]
        /\ read[Len(in) + 1] = byte[1]
    BY <1>1, <2>1, AppendProperties
  <2>. QED
    BY <2>1, <2>2
<1>. HIDE DEF read
<1>3. /\ Len(<<>>) = 0 /\ Len(<<>>) <= 1 /\ n + Len(read) = k + 1 /\ n + Len(read) + Len(<<>>) = k + 1
      /\ n + Len(read) + Len(<<>>) + Len(out) = Len(m) /\ n + Len(in) + Len(byte) = k + 1
      /\ k + 1 = n + (Len(in) + 1)
  BY <1>1, <1>2
<1>4. m[k + 1] = byte[1]
  <2>1. 1 \in 1 .. Len(byte)
    BY <1>2
  <2>. QED
    BY <1>0, <2>1, Zenon DEF At
<1>. HIDE DEF k
<1>5. At(m, n, read)
  <2>1. ASSUME NEW i \in 1 .. Len(read) PROVE i \in 1 .. Len(in) \/ i = Len(in) + 1
    BY <1>2
  <2>2. ASSUME NEW i \in 1 .. Len(read) PROVE m[n + i] = read[i]
    <3>1. CASE i \in 1 .. Len(in)
      BY <1>0, <1>2, <3>1, Zenon DEF At
    <3>2. CASE i = Len(in) + 1
      BY <1>2, <1>3, <1>4, <3>2, Zenon
    <3>. QED
      BY <2>1, <3>1, <3>2
  <2>. QED
    BY <2>2, Zenon DEF At
<1>6. At(m, k + 1, out)
  BY <1>0, <1>3, Zenon
<1>7. <<>> \in Seq(Nat) /\ At(m, k + 1, <<>>)
  BY Nothing
<1>8. Transit(m, n, read, <<>>, out)
  BY <1>1, <1>2, <1>3, <1>5, <1>6, <1>7, Zenon DEF Transit
<1>. QED
  BY <1>2, <1>8 DEF read

LEMMA TransitDrop ==
  ASSUME NEW m, NEW n, NEW in, NEW byte, NEW out, Transit(m, n, in, byte, out)
  PROVE  Transit(m, n + Len(in), <<>>, byte, out)
<1>. DEFINE k == n + Len(in)
<1>1. /\ m \in Seq(Nat) /\ in \in Seq(Nat) /\ byte \in Seq(Nat) /\ out \in Seq(Nat) /\ n \in Nat
      /\ Len(byte) <= 1 /\ n + Len(in) + Len(byte) + Len(out) = Len(m)
      /\ At(m, n + Len(in), byte) /\ At(m, n + Len(in) + Len(byte), out)
  BY Zenon DEF Transit
<1>2. k \in Nat /\ k + Len(<<>>) = k /\ n + Len(in) = k
  BY <1>1
<1>3. <<>> \in Seq(Nat) /\ At(m, k, <<>>)
  BY Nothing
<1>. HIDE DEF k
<1>4. Transit(m, k, <<>>, byte, out)
  BY <1>1, <1>2, <1>3, Zenon DEF Transit
<1>. QED
  BY <1>4 DEF k

LEMMA TransitDone ==
  ASSUME NEW m, NEW in, Transit(m, 0, in, <<>>, <<>>)
  PROVE  in = m
<1>1. m \in Seq(Nat) /\ in \in Seq(Nat) /\ 0 + Len(in) + Len(<<>>) + Len(<<>>) = Len(m) /\ At(m, 0, in)
  BY Zenon DEF Transit
<1>2. Len(in) = Len(m)
  BY <1>1
<1>3. ASSUME NEW i \in 1 .. Len(in) PROVE 0 + i = i
  BY <1>1
<1>4. \A i \in 1 .. Len(in) : in[i] = m[i]
  BY <1>1, <1>3, Zenon DEF At
<1>. QED
  BY <1>1, <1>2, <1>4, SeqEqual, Zenon

(* The reader of a sized message knows when it has read all of it.         *)
LEMMA TransitWhole ==
  ASSUME NEW m, NEW in, NEW out, Transit(m, 0, in, <<>>, out),
         Get16(m, 1) \in Nat, Len(m) = 2 + Get16(m, 1)
  PROVE  /\ Len(in) >= 2 => Get16(in, 1) = Get16(m, 1)
         /\ (Len(in) >= 2 /\ Len(in) = 2 + Get16(in, 1)) <=> out = <<>>
<1>1. /\ m \in Seq(Nat) /\ in \in Seq(Nat) /\ out \in Seq(Nat)
      /\ 0 + Len(in) + Len(<<>>) + Len(out) = Len(m) /\ At(m, 0, in)
  BY Zenon DEF Transit
<1>2. Len(in) \in Nat /\ Len(out) \in Nat /\ Len(in) + Len(out) = Len(m) /\ (Len(out) = 0 <=> out = <<>>)
  BY <1>1
<1>3. Len(in) >= 2 => Get16(in, 1) = Get16(m, 1)
  <2>. SUFFICES ASSUME Len(in) >= 2 PROVE Get16(in, 1) = Get16(m, 1)
    OBVIOUS
  <2>1. 1 \in 1 .. Len(in) /\ 2 \in 1 .. Len(in) /\ 0 + 1 = 1 /\ 0 + 2 = 2 /\ 1 + 1 = 2
    BY <1>2
  <2>2. in[1] = m[1] /\ in[2] = m[2]
    <3>1. \A i \in 1 .. Len(in) : m[0 + i] = in[i]
      BY <1>1, Zenon DEF At
    <3>2. m[0 + 1] = in[1] /\ m[0 + 2] = in[2]
      BY <2>1, <3>1, Zenon
    <3>. QED
      BY <3>2
  <2>. QED
    BY <2>1, <2>2, ZenonT(40) DEF Get16
<1>. QED
  BY <1>2, <1>3

-----------------------------------------------------------------------------
(* What fillInFrameSize makes says how long it is.                         *)
Sized(m) == m \in Seq(Nat) /\ Get16(m, 1) \in Nat /\ Len(m) = 2 + Get16(m, 1)

LEMMA SizedIs == ASSUME NEW s \in Seq(Nat) PROVE Sized(Put16(Len(s)) \o s)
<1>. DEFINE n == Put16(Len(s))
            m == n \o s
<1>1. Len(s) \in Nat
  OBVIOUS
<1>2. n \in Seq(Nat) /\ Len(n) = 2 /\ Get16(n, 1) = Len(s)
  BY <1>1, Put16Is
<1>. HIDE DEF n
<1>3. Joins(m, n, s)
  BY <1>2, Joined
<1>. HIDE DEF m
<1>4. m[1] = n[1] /\ m[2] = n[2] /\ m \in Seq(Nat) /\ Len(m) = 2 + Len(s)
  BY <1>2, <1>3 DEF Joins
<1>5. Get16(m, 1) = Len(s)
  BY <1>2, <1>4 DEF Get16
<1>6. Sized(m)
  BY <1>1, <1>4, <1>5 DEF Sized
<1>. QED
  BY <1>6 DEF m, n

LEMMA FillIs == ASSUME NEW put \in Seq(Nat) PROVE Sized(fillInFrameSize(put))
<1>. DEFINE padded == IF Len(put) % 2 = 1 THEN Append(put, 0) ELSE put
<1>1. Append(put, 0) \in Seq(Nat)
  OBVIOUS
<1>2. padded \in Seq(Nat)
  BY <1>1, Zenon
<1>3. fillInFrameSize(put) = Put16(Len(padded)) \o padded
  BY Zenon DEF fillInFrameSize
<1>. HIDE DEF padded
<1>. QED
  BY <1>2, <1>3, SizedIs, Zenon

-----------------------------------------------------------------------------
(* The boot file.                                                          *)
LEMMA BootFileIs ==
  /\ MemStart \in Nat /\ MemEnd \in Nat
  /\ Pokes \in Seq([addr : Nat, word : [1 .. 4 -> Byte]]) /\ Len(Pokes) \in Nat
  /\ \A i \in 1 .. Len(Pokes) : Pokes[i] \in [addr : Nat, word : [1 .. 4 -> Byte]]
  /\ BootFile.code \in Seq(Nat) /\ Len(BootFile.code) \in 2 .. 255
  /\ BootFile.rest \in Seq(Nat) /\ Len(BootFile.rest) \in Nat \ {0}
  /\ MemStart + Len(BootFile.code) <= MemEnd + 1
<1>1. /\ MemStart \in Nat /\ MemEnd \in Nat
      /\ Pokes \in Seq([addr : Nat, word : [1 .. 4 -> Byte]])
      /\ BootFile.code \in Seq(Byte) /\ Len(BootFile.code) \in 2 .. 255
      /\ BootFile.rest \in Seq(Byte) /\ BootFile.rest # <<>>
      /\ MemStart + Len(BootFile.code) <= MemEnd + 1
  BY BootFileAssumption, Zenon DEF Pokes
<1>2. BootFile.code \in Seq(Nat) /\ BootFile.rest \in Seq(Nat)
  BY <1>1, ByteNat, Zenon
<1>3. Len(Pokes) \in Nat /\ Len(BootFile.rest) \in Nat \ {0}
  BY <1>1, SMTT(60)
<1>4. \A i \in 1 .. Len(Pokes) : Pokes[i] \in [addr : Nat, word : [1 .. 4 -> Byte]]
  BY <1>1, ElementOfSeq, Zenon
<1>. QED
  BY <1>1, <1>2, <1>3, <1>4, Zenon

PokeType == [addr : Nat, word : [1 .. 4 -> Byte]]

LEMMA PokeIs ==
  ASSUME NEW poke \in PokeType
  PROVE  /\ Poke(poke) \in Seq(Nat) /\ Len(Poke(poke)) = 9
         /\ Poke(poke)[1] = 0 /\ Get32(Poke(poke), 2) = poke.addr
         /\ \A k \in 1 .. 4 : Poke(poke)[5 + k] = poke.word[k]
<1>1. poke.addr \in Nat /\ poke.word \in [1 .. 4 -> Byte] /\ 0 \in Nat
  BY DEF PokeType
<1>2. poke.word \in Seq(Nat) /\ Len(poke.word) = 4
  <2>1. 4 \in Nat /\ Seq(Byte) = UNION {[1 .. n -> Byte] : n \in Nat}
    BY SeqDef
  <2>2. [1 .. 4 -> Byte] \in {[1 .. n -> Byte] : n \in Nat}
    BY <2>1, Zenon
  <2>3. poke.word \in Seq(Byte)
    BY <1>1, <2>1, <2>2
  <2>4. DOMAIN poke.word = 1 .. 4
    BY <1>1
  <2>5. Len(poke.word) = 4
    <3>. DEFINE l == Len(poke.word)
    <3>1. l \in Nat /\ 1 .. l = 1 .. 4
      BY <2>3, <2>4, LenProperties, Zenon
    <3>. HIDE DEF l
    <3>2. 4 \in 1 .. l /\ 5 \notin 1 .. l
      BY <3>1
    <3>3. l = 4
      BY <3>1, <3>2
    <3>. QED
      BY <3>3 DEF l
  <2>. QED
    BY <2>3, <2>5, ByteNat, Zenon
<1>3. Poke(poke) = IdBody(0, poke.addr, poke.word)
  BY DEF Poke, IdBody
<1>4. IdBodyOK(Poke(poke), 0, poke.addr, poke.word)
  BY <1>1, <1>2, <1>3, IdBodyIs, Zenon
<1>. QED
  BY <1>2, <1>4 DEF IdBodyOK

PokeBytes == [i \in 1 .. 9 * Len(Pokes) |-> Poke(Pokes[1 + ((i - 1) \div 9)])[1 + ((i - 1) % 9)]]

LEMMA PokeBytesIs ==
  /\ PokeBytes \in Seq(Nat) /\ Len(PokeBytes) = 9 * Len(Pokes)
  /\ \A i \in Nat : i < Len(Pokes) => At(PokeBytes, 9 * i, Poke(Pokes[i + 1]))
<1>. DEFINE P == Len(Pokes)
<1>1. P \in Nat /\ \A i \in 1 .. P : Pokes[i] \in PokeType
  BY BootFileIs, Zenon DEF PokeType
<1>2. ASSUME NEW n \in 1 .. 9 * P
      PROVE  PokeBytes[n] = Poke(Pokes[1 + ((n - 1) \div 9)])[1 + ((n - 1) % 9)]
  BY Zenon DEF PokeBytes
<1>. HIDE DEF P
<1>3. ASSUME NEW n \in 1 .. 9 * P
      PROVE  1 + ((n - 1) \div 9) \in 1 .. P /\ 1 + ((n - 1) % 9) \in 1 .. 9
  BY <1>1
<1>4. ASSUME NEW n \in 1 .. 9 * P PROVE PokeBytes[n] \in Nat
  <2>. DEFINE poke == Pokes[1 + ((n - 1) \div 9)]
              j == 1 + ((n - 1) % 9)
  <2>1. poke \in PokeType /\ j \in 1 .. 9 /\ PokeBytes[n] = Poke(poke)[j]
    BY <1>1, <1>2, <1>3, Zenon
  <2>. HIDE DEF poke, j
  <2>2. Poke(poke) \in Seq(Nat) /\ Len(Poke(poke)) = 9
    BY <2>1, PokeIs
  <2>3. Poke(poke)[j] \in Nat
    BY <2>1, <2>2, ElementOfSeq, Zenon
  <2>. QED
    BY <2>1, <2>3
<1>5. PokeBytes \in [1 .. 9 * P -> Nat]
  <2>1. PokeBytes = [n \in 1 .. 9 * P |-> PokeBytes[n]]
    BY Zenon DEF PokeBytes, P
  <2>. QED
    BY <1>4, <2>1
<1>6. PokeBytes \in Seq(Nat) /\ Len(PokeBytes) = 9 * P
  <2>1. 9 * P \in Nat
    BY <1>1
  <2>2. PokeBytes \in UNION {[1 .. n -> Nat] : n \in Nat}
    BY <1>5, <2>1, Zenon
  <2>3. PokeBytes \in Seq(Nat)
    BY <2>2, SeqDef
  <2>4. DOMAIN PokeBytes = 1 .. 9 * P
    BY <1>5
  <2>. QED
    BY <2>1, <2>3, <2>4, LenProperties
<1>7. ASSUME NEW i \in Nat, i < P PROVE At(PokeBytes, 9 * i, Poke(Pokes[i + 1]))
  <2>. DEFINE poke == Pokes[i + 1]
  <2>1. poke \in PokeType
    <3>1. i + 1 \in 1 .. P
      BY <1>1, <1>7
    <3>. QED
      BY <1>1, <3>1
  <2>2. Len(Poke(poke)) = 9
    BY <2>1, PokeIs
  <2>3. ASSUME NEW j \in 1 .. 9 PROVE PokeBytes[9 * i + j] = Poke(poke)[j]
    <3>. DEFINE n == 9 * i + j
    <3>1. n \in 1 .. 9 * P /\ (n - 1) \div 9 = i /\ (n - 1) % 9 = j - 1 /\ 1 + i = i + 1 /\ 1 + (j - 1) = j
      BY <1>1, <1>7
    <3>. HIDE DEF n
    <3>2. PokeBytes[n] = Poke(Pokes[1 + i])[1 + (j - 1)]
      BY <1>2, <3>1, Zenon
    <3>. QED
      BY <3>1, <3>2, Zenon DEF n
  <2>. HIDE DEF poke
  <2>4. At(PokeBytes, 9 * i, Poke(poke))
    BY <2>2, <2>3, Zenon DEF At
  <2>. QED
    BY <2>4 DEF poke
<1>. QED
  BY <1>6, <1>7 DEF P

LEMMA JoinsAt == ASSUME NEW u, NEW s, NEW t, Joins(u, s, t) PROVE At(u, 0, s) /\ At(u, Len(s), t)
<1>1. ASSUME NEW i \in 1 .. Len(s) PROVE 0 + i = i
  BY DEF Joins
<1>. QED
  BY <1>1, Zenon DEF Joins, At

(* What is at a place of the first of two sequences is there in both, and  *)
(* what is at a place of the second is that much further on.               *)
LEMMA AtFirst ==
  ASSUME NEW u, NEW s, NEW t, Joins(u, s, t), NEW k \in Nat, NEW v \in Seq(Nat), At(s, k, v), k + Len(v) <= Len(s)
  PROVE  At(u, k, v)
<1>1. Len(s) \in Nat /\ Len(v) \in Nat
  BY DEF Joins
<1>2. ASSUME NEW i \in 1 .. Len(v) PROVE k + i \in 1 .. Len(s)
  BY <1>1
<1>. QED
  BY <1>2, Zenon DEF Joins, At

LEMMA AtSecond ==
  ASSUME NEW u, NEW s, NEW t, Joins(u, s, t), NEW k \in Nat, NEW v \in Seq(Nat), At(t, k, v), k + Len(v) <= Len(t)
  PROVE  At(u, Len(s) + k, v)
<1>1. Len(s) \in Nat /\ Len(t) \in Nat /\ Len(v) \in Nat
  BY DEF Joins
<1>2. ASSUME NEW i \in 1 .. Len(v) PROVE k + i \in 1 .. Len(t) /\ (Len(s) + k) + i = Len(s) + (k + i)
  BY <1>1
<1>. QED
  BY <1>2, Zenon DEF Joins, At

LEMMA BootBytesIs ==
  /\ BootBytes \in Seq(Nat) /\ Len(BootBytes) = RestStart + Len(BootFile.rest)
  /\ \A i \in Nat : i < Len(Pokes) => At(BootBytes, 9 * i, Poke(Pokes[i + 1]))
  /\ BootBytes[CodeStart + 1] = Len(BootFile.code)
  /\ At(BootBytes, CodeStart + 1, BootFile.code)
  /\ At(BootBytes, RestStart, BootFile.rest)
<1>. DEFINE code == BootFile.code
            rest == BootFile.rest
            length == <<Len(code)>>
            sized == length \o code
            front == PokeBytes \o sized
            P == Len(Pokes)
<1>1. /\ code \in Seq(Nat) /\ Len(code) \in Nat /\ rest \in Seq(Nat) /\ Len(rest) \in Nat /\ P \in Nat
  BY BootFileIs, SMTT(60)
<1>2. PokeBytes \in Seq(Nat) /\ Len(PokeBytes) = 9 * P
  BY PokeBytesIs
<1>3. BootBytes = front \o rest
  BY Zenon DEF BootBytes, PokeBytes, Pokes
<1>4. \A i \in 1 .. P : Pokes[i] \in PokeType
  BY BootFileIs DEF PokeType
<1>. HIDE DEF code, rest, P
<1>5. length \in Seq(Nat) /\ Len(length) = 1 /\ length[1] = Len(code)
  BY <1>1
<1>. HIDE DEF length
<1>6. Joins(sized, length, code)
  BY <1>1, <1>5, Joined
<1>. HIDE DEF sized
<1>7. sized \in Seq(Nat) /\ Len(sized) = 1 + Len(code) /\ sized[1] = Len(code) /\ At(sized, 1, code)
  <2>1. sized \in Seq(Nat) /\ Len(sized) = 1 + Len(code) /\ sized[1] = Len(code)
    BY <1>5, <1>6 DEF Joins
  <2>2. At(sized, Len(length), code)
    BY <1>6, JoinsAt, Zenon
  <2>. QED
    BY <1>5, <2>1, <2>2, Zenon
<1>8. Joins(front, PokeBytes, sized)
  BY <1>2, <1>7, Joined
<1>. HIDE DEF front
<1>9. front \in Seq(Nat) /\ Len(front) = 9 * P + 1 + Len(code) /\ front[9 * P + 1] = Len(code)
  <2>1. front \in Seq(Nat) /\ Len(front) = Len(PokeBytes) + Len(sized) /\ 1 \in 1 .. Len(sized)
    BY <1>1, <1>7, <1>8 DEF Joins
  <2>2. front[Len(PokeBytes) + 1] = sized[1]
    BY <1>8, <2>1, Zenon DEF Joins
  <2>. QED
    BY <1>1, <1>2, <1>7, <2>1, <2>2
<1>10. Joins(BootBytes, front, rest)
  BY <1>1, <1>3, <1>9, Joined
<1>. HIDE DEF rest
<1>11. BootBytes \in Seq(Nat) /\ Len(BootBytes) = 9 * P + 1 + Len(code) + Len(rest)
  BY <1>1, <1>9, <1>10 DEF Joins
<1>12. BootBytes[9 * P + 1] = Len(code)
  <2>1. 9 * P + 1 \in 1 .. Len(front)
    BY <1>1, <1>9
  <2>. QED
    BY <1>9, <1>10, <2>1, Zenon DEF Joins
<1>13. At(BootBytes, 9 * P + 1, code)
  <2>1. 1 \in Nat /\ 1 + Len(code) <= Len(sized) /\ 9 * P + 1 \in Nat /\ (9 * P + 1) + Len(code) <= Len(front)
    BY <1>1, <1>7, <1>9
  <2>2. At(front, 9 * P + 1, code)
    BY <1>1, <1>2, <1>7, <1>8, <2>1, AtSecond, Zenon
  <2>. QED
    BY <1>1, <1>10, <2>1, <2>2, AtFirst, Zenon
<1>14. At(BootBytes, 9 * P + 1 + Len(code), rest)
  BY <1>9, <1>10, JoinsAt, Zenon
<1>15. ASSUME NEW i \in Nat, i < P PROVE At(BootBytes, 9 * i, Poke(Pokes[i + 1]))
  <2>. DEFINE poke == Poke(Pokes[i + 1])
  <2>1. i + 1 \in 1 .. P
    BY <1>1, <1>15
  <2>2. poke \in Seq(Nat) /\ Len(poke) = 9
    BY <1>4, <2>1, PokeIs
  <2>3. At(PokeBytes, 9 * i, poke)
    BY <1>15, PokeBytesIs DEF P
  <2>. HIDE DEF poke
  <2>4. 9 * i \in Nat /\ 9 * i + Len(poke) <= Len(PokeBytes) /\ 9 * i + Len(poke) <= Len(front)
    BY <1>1, <1>2, <1>9, <1>15, <2>2
  <2>5. At(front, 9 * i, poke)
    BY <1>8, <2>2, <2>3, <2>4, AtFirst, Zenon
  <2>6. At(BootBytes, 9 * i, poke)
    BY <1>10, <2>2, <2>4, <2>5, AtFirst, Zenon
  <2>. QED
    BY <2>6 DEF poke
<1>16. CodeStart = 9 * P /\ RestStart = 9 * P + 1 + Len(code)
  BY DEF CodeStart, RestStart, P, code
<1>. QED
  BY <1>11, <1>12, <1>13, <1>14, <1>15, <1>16, Zenon DEF code, rest, P

-----------------------------------------------------------------------------
Inv == ShapeOK /\ Protocol

LEMMA WritesA ==
  ASSUME link \in [{"A", "B"} -> Seq(Nat)], NEW b \in Nat, writeByte("A", b)
  PROVE  /\ link["A"] = <<>> /\ link' \in [{"A", "B"} -> Seq(Nat)]
         /\ link'["A"] = <<b>> /\ link'["B"] = link["B"]
<1>1. <<b>> \in Seq(Nat)
  OBVIOUS
<1>. QED
  BY <1>1 DEF writeByte

LEMMA WritesB ==
  ASSUME link \in [{"A", "B"} -> Seq(Nat)], NEW b \in Nat, writeByte("B", b)
  PROVE  /\ link["B"] = <<>> /\ link' \in [{"A", "B"} -> Seq(Nat)]
         /\ link'["B"] = <<b>> /\ link'["A"] = link["A"]
<1>1. <<b>> \in Seq(Nat)
  OBVIOUS
<1>. QED
  BY <1>1 DEF writeByte

LEMMA ReadsA ==
  ASSUME link \in [{"A", "B"} -> Seq(Nat)], readByte("A")
  PROVE  /\ link["A"] # <<>> /\ link' \in [{"A", "B"} -> Seq(Nat)]
         /\ link'["A"] = <<>> /\ link'["B"] = link["B"]
<1>1. <<>> \in Seq(Nat)
  OBVIOUS
<1>. QED
  BY <1>1 DEF readByte

LEMMA ReadsB ==
  ASSUME link \in [{"A", "B"} -> Seq(Nat)], readByte("B")
  PROVE  /\ link["B"] # <<>> /\ link' \in [{"A", "B"} -> Seq(Nat)]
         /\ link'["B"] = <<>> /\ link'["A"] = link["A"]
<1>1. <<>> \in Seq(Nat)
  OBVIOUS
<1>. QED
  BY <1>1 DEF readByte

LEMMA TransitTypes ==
  ASSUME NEW m, NEW n, NEW in, NEW byte, NEW out, Transit(m, n, in, byte, out)
  PROVE  /\ in \in Seq(Nat) /\ out \in Seq(Nat) /\ Len(in) \in Nat /\ Len(out) \in Nat /\ n \in Nat
         /\ out # <<>> => Head(out) \in Nat /\ Tail(out) \in Seq(Nat) /\ (Len(out) = 1 <=> Tail(out) = <<>>)
<1>1. in \in Seq(Nat) /\ out \in Seq(Nat) /\ n \in Nat
  BY Zenon DEF Transit
<1>2. Len(in) \in Nat
  BY <1>1
<1>3. ASSUME out # <<>> PROVE Head(out) \in Nat /\ Tail(out) \in Seq(Nat) /\ (Len(out) = 1 <=> Tail(out) = <<>>)
  <2>. DEFINE l == Len(out)
              t == Tail(out)
  <2>1. l \in Nat /\ (l = 0 <=> out = <<>>)
    BY <1>1
  <2>2. l # 0
    BY <1>3, <2>1, Zenon
  <2>3. Head(out) \in Nat /\ t \in Seq(Nat) /\ Len(t) = l - 1 /\ Len(t) \in Nat /\ (Len(t) = 0 <=> t = <<>>)
    <3>. HIDE <1>3
    <3>1. 1 \in 1 .. Len(out)
      BY <2>1, <2>2
    <3>2. out[1] \in Nat
      BY <1>1, <3>1, ElementOfSeq, Zenon
    <3>3. Head(out) = out[1]
      BY <1>1
    <3>4. t \in Seq(Nat) /\ Len(t) = l - 1
      BY <1>1, <3>1
    <3>5. Len(t) \in Nat /\ (Len(t) = 0 <=> t = <<>>)
      <4>. DEFINE k == Len(t)
      <4>1. k \in Nat
        BY <3>4
      <4>2. t # <<>> => k \in Nat \ {0}
        BY <3>4, EmptySeq, Zenon
      <4>3. t = <<>> => k = 0
        BY EmptySeq, Zenon
      <4>. QED
        BY <4>1, <4>2, <4>3
    <3>6. Head(out) \in Nat
      BY <3>2, <3>3, Zenon
    <3>. QED
      BY <3>4, <3>5, <3>6, Zenon
  <2>. DEFINE k == Len(t)
  <2>. HIDE DEF l, t
  <2>4. k \in Nat /\ k = l - 1
    BY <2>3, Zenon
  <2>. HIDE DEF k
  <2>5. l = 1 <=> k = 0
    BY <2>1, <2>4
  <2>6. l = 1 <=> t = <<>>
    BY <2>3, <2>5, Zenon DEF k
  <2>. QED
    BY <2>3, <2>6, Zenon DEF l, t
<1>4. Len(out) \in Nat
  BY <1>1
<1>. QED
  BY <1>1, <1>2, <1>3, <1>4, Zenon

-----------------------------------------------------------------------------
LEMMA SendFileStep ==
  ASSUME Inv, sendFileOverLink
  PROVE  Inv'
<1>. DEFINE out == Tail(server.out)
            pc == IF Len(server.out) = 1 THEN "readFrame" ELSE server.pc
<1>1. Loading /\ server.out # <<>> /\ server.pc = "sendFile"
  <2>1. server.pc = "sendFile"
    BY DEF sendFileOverLink
  <2>2. Loading
    BY <2>1 DEF Inv, Protocol, Waiting, Running, SendingBad, Calling, Arriving, Serving, Returning, Ending
  <2>. QED
    BY <2>1, <2>2 DEF Loading
<1>2. \E n : Loads(n)
  BY <1>1 DEF Loading, Poking, Coding
<1>3. /\ server.out \in Seq(Nat) /\ Head(server.out) \in Nat
      /\ out \in Seq(Nat) /\ (Len(server.out) = 1 <=> out = <<>>)
  BY <1>1, <1>2, TransitTypes DEF Loads
<1>4. /\ link["A"] = <<>> /\ link' \in [{"A", "B"} -> Seq(Nat)]
      /\ link'["A"] = <<Head(server.out)>> /\ link'["B"] = link["B"]
  BY <1>3, WritesA DEF Inv, ShapeOK, sendFileOverLink
<1>5. /\ server' = [server EXCEPT !.out = out, !.pc = pc]
      /\ UNCHANGED <<myPlatform, cpu, myMemory, answer>>
  BY DEF sendFileOverLink
<1>6. pc = IF out = <<>> THEN "readFrame" ELSE "sendFile"
  BY <1>1, <1>3
<1>. HIDE DEF pc, out
<1>7. /\ server'.out = out /\ server'.pc = pc /\ server'.in = server.in
      /\ DOMAIN server' = DOMAIN server
  <2>1. DOMAIN server = {"pc", "out", "in", "exitCode", "exit"}
    BY DEF Inv, ShapeOK
  <2>. QED
    BY <1>5, <2>1
<1>8. ASSUME NEW n, Loads(n) PROVE Loads(n)'
  <2>1. Transit(BootBytes, n, cpu.in, <<>>, server.out)
    BY <1>4, <1>8, Zenon DEF Loads
  <2>2. Transit(BootBytes, n, cpu.in, <<Head(server.out)>>, out)
    BY <1>1, <2>1, TransitPut, Zenon DEF out
  <2>. QED
    BY <1>4, <1>5, <1>7, <2>2 DEF Loads
<1>9. ShapeOK'
  BY <1>4, <1>5, <1>7 DEF Inv, ShapeOK
<1>10. Poking => Poking'
  BY <1>5, <1>8 DEF Poking
<1>11. Coding => Coding'
  BY <1>5, <1>8 DEF Coding
<1>12. Loading'
  BY <1>1, <1>4, <1>5, <1>6, <1>7, <1>8, <1>10, <1>11 DEF Loading
<1>. QED
  BY <1>9, <1>12 DEF Inv, Protocol

-----------------------------------------------------------------------------
Area(memory) == DOMAIN memory = 0 .. MemEnd

LEMMA PokeAddr == \A j \in 1 .. Len(Pokes) : Pokes[j].addr \in Nat
<1>1. ASSUME NEW j \in 1 .. Len(Pokes) PROVE Pokes[j].addr \in Nat
  <2>. DEFINE poke == Pokes[j]
  <2>1. poke \in [addr : Nat, word : [1 .. 4 -> Byte]]
    BY BootFileIs, Zenon
  <2>. HIDE DEF poke
  <2>2. poke.addr \in Nat
    BY <2>1
  <2>. QED
    BY <2>2 DEF poke
<1>. QED
  BY <1>1

LEMMA PokesApart ==
  ASSUME NEW i \in 1 .. Len(Pokes), Pokes[i].addr <= MemEnd
  PROVE  /\ Pokes[i].addr \in Nat /\ Pokes[i].word \in [1 .. 4 -> Byte]
         /\ \A a \in Pokes[i].addr .. Pokes[i].addr + 3 :
              /\ a \in 0 .. MemEnd
              /\ a \notin MemStart .. MemStart + Len(BootFile.code) - 1
              /\ \A j \in 1 .. Len(Pokes) : j # i => a \notin Pokes[j].addr .. Pokes[j].addr + 3
<1>. DEFINE words(j) == Pokes[j].addr .. Pokes[j].addr + 3
<1>1. Pokes[i].addr \in Nat /\ Pokes[i].word \in [1 .. 4 -> Byte] /\ DOMAIN Pokes = 1 .. Len(Pokes)
  BY BootFileIs, SMTT(60)
<1>2. i \in {k \in DOMAIN Pokes : Pokes[k].addr <= MemEnd}
  BY <1>1
<1>3. /\ words(i) \subseteq 0 .. MemEnd
      /\ words(i) \cap (MemStart .. MemStart + Len(BootFile.code) - 1) = {}
      /\ \A j \in DOMAIN Pokes \ {i} : words(i) \cap words(j) = {}
  BY <1>2, BootFileAssumption, Zenon DEF Pokes
<1>. QED
  BY <1>1, <1>3, Zenon

LEMMA PokeMakes ==
  ASSUME Area(myMemory), NEW i \in Nat, i < Len(Pokes), Poked(myMemory, i),
         NEW next, next = setWord(Pokes[i + 1].addr, Pokes[i + 1].word)
  PROVE  Area(next) /\ Poked(next, i + 1)
<1>. DEFINE m == setWord(Pokes[i + 1].addr, Pokes[i + 1].word)
            P == Len(Pokes)
            addr == Pokes[i + 1].addr
            word == Pokes[i + 1].word
<1>0. /\ Len(Pokes) \in Nat /\ i + 1 \in 1 .. Len(Pokes)
      /\ \A j \in 1 .. Len(Pokes) : Pokes[j].addr \in Nat
      /\ MemEnd \in Nat
  <2>1. Len(Pokes) \in Nat /\ MemEnd \in Nat
    BY BootFileIs, Zenon
  <2>2. i + 1 \in 1 .. Len(Pokes)
    BY <2>1
  <2>. QED
    BY <2>1, <2>2, PokeAddr, Zenon
<1>1. CASE addr > MemEnd
  <2>1. m = myMemory
    BY <1>1 DEF setWord
  <2>2. ~(addr <= MemEnd)
    BY <1>0, <1>1
  <2>. HIDE DEF m, addr, word
  <2>3. ASSUME NEW j \in 1 .. i + 1, NEW k \in 1 .. 4, Pokes[j].addr <= MemEnd
        PROVE  m[Pokes[j].addr + k - 1] = Pokes[j].word[k]
    <3>1. j \in 1 .. i
      <4>1. j # i + 1
        BY <2>2, <2>3 DEF addr
      <4>. QED
        BY <4>1
    <3>. QED
      BY <2>1, <2>3, <3>1, Zenon DEF Poked
  <2>4. Area(m) /\ Poked(m, i + 1)
    BY <2>1, <2>3, Zenon DEF Poked
  <2>. QED
    BY <2>4 DEF m
<1>2. CASE ~(addr > MemEnd)
  <2>1. addr <= MemEnd
    BY <1>0, <1>2
  <2>2. /\ addr \in Nat
        /\ \A a \in addr .. addr + 3 :
             /\ a \in 0 .. MemEnd
             /\ \A j \in 1 .. Len(Pokes) : j # i + 1 => a \notin Pokes[j].addr .. Pokes[j].addr + 3
    BY <1>0, <2>1, PokesApart
  <2>3. DOMAIN myMemory = 0 .. MemEnd
    BY DEF Area
  <2>4. m = [a \in 0 .. MemEnd |-> IF a \in addr .. addr + 3 THEN word[a - addr + 1] ELSE myMemory[a]]
    BY <1>2, <2>3, Zenon DEF setWord
  <2>. HIDE DEF m, addr, word
  <2>5. /\ Area(m)
        /\ \A a \in 0 .. MemEnd : a \in addr .. addr + 3 => m[a] = word[a - addr + 1]
        /\ \A a \in 0 .. MemEnd : a \notin addr .. addr + 3 => m[a] = myMemory[a]
    BY <2>4 DEF Area
  <2>6. ASSUME NEW j \in 1 .. i + 1, NEW k \in 1 .. 4, Pokes[j].addr <= MemEnd
        PROVE  m[Pokes[j].addr + k - 1] = Pokes[j].word[k]
    <3>. DEFINE a == Pokes[j].addr + k - 1
    <3>1. j \in 1 .. Len(Pokes) /\ Pokes[j].addr \in Nat
      BY <1>0
    <3>2. a \in Pokes[j].addr .. Pokes[j].addr + 3 /\ a - Pokes[j].addr + 1 = k
      BY <3>1
    <3>3. a \in 0 .. MemEnd
      BY <2>6, <3>1, <3>2, PokesApart, Zenon
    <3>. HIDE DEF a
    <3>4. CASE j = i + 1
      BY <2>5, <3>2, <3>3, <3>4, Zenon DEF a, addr, word
    <3>5. CASE j # i + 1
      <4>1. a \notin addr .. addr + 3
        BY <2>2, <3>1, <3>2, <3>5, Zenon
      <4>2. j \in 1 .. i
        BY <3>5
      <4>3. myMemory[a] = Pokes[j].word[k]
        BY <2>6, <4>2, Zenon DEF Poked, a
      <4>. QED
        BY <2>5, <3>3, <4>1, <4>3, Zenon DEF a
    <3>. QED
      BY <3>4, <3>5
  <2>7. Poked(m, i + 1)
    BY <2>6, Zenon DEF Poked
  <2>. QED
    BY <2>5, <2>7 DEF m
<1>3. Area(m) /\ Poked(m, i + 1)
  BY <1>1, <1>2
<1>. HIDE DEF m
<1>4. next = m
  BY DEF m
<1>. QED
  BY <1>3, <1>4

LEMMA CodeStores ==
  ASSUME NEW memory, Area(memory), Poked(memory, Len(Pokes)), NEW n \in 1 .. Len(BootFile.code), Coded(memory, n - 1),
         NEW m, m = [memory EXCEPT ![MemStart + n - 1] = BootFile.code[n]]
  PROVE  Area(m) /\ Poked(m, Len(Pokes)) /\ Coded(m, n)
<1>. DEFINE at == MemStart + n - 1
<1>0. /\ MemStart \in Nat /\ MemEnd \in Nat /\ Len(BootFile.code) \in Nat
      /\ MemStart + Len(BootFile.code) <= MemEnd + 1
  BY BootFileIs, SMTT(60)
<1>1. at \in MemStart .. MemStart + Len(BootFile.code) - 1 /\ at \in 0 .. MemEnd
  BY <1>0
<1>. HIDE DEF at
<1>2. /\ Area(m) /\ m[at] = BootFile.code[n]
      /\ \A a \in 0 .. MemEnd : a # at => m[a] = memory[a]
  <2>. DEFINE c == BootFile.code[n]
  <2>1. m = [memory EXCEPT ![at] = c]
    BY DEF at
  <2>. HIDE DEF c
  <2>2. Area(m) /\ m[at] = c /\ \A a \in 0 .. MemEnd : a # at => m[a] = memory[a]
    BY <1>1, <2>1 DEF Area
  <2>. QED
    BY <2>2 DEF c
<1>3. ASSUME NEW j \in 1 .. Len(Pokes), NEW k \in 1 .. 4, Pokes[j].addr <= MemEnd
      PROVE  m[Pokes[j].addr + k - 1] = Pokes[j].word[k]
  <2>. DEFINE a == Pokes[j].addr + k - 1
  <2>1. Pokes[j].addr \in Nat
    BY PokeAddr, Zenon
  <2>2. a \in Pokes[j].addr .. Pokes[j].addr + 3
    BY <2>1
  <2>. HIDE DEF a
  <2>3. a \in 0 .. MemEnd /\ a # at
    BY <1>1, <1>3, <2>2, PokesApart, Zenon
  <2>4. memory[a] = Pokes[j].word[k]
    BY <1>3, Zenon DEF Poked, a
  <2>. QED
    BY <1>2, <2>3, <2>4, Zenon DEF a
<1>4. Poked(m, Len(Pokes))
  BY <1>3, Zenon DEF Poked
<1>5. ASSUME NEW j \in 1 .. n PROVE m[MemStart + j - 1] = BootFile.code[j]
  <2>1. CASE j = n
    BY <1>2, <2>1, Zenon DEF at
  <2>2. CASE j # n
    <3>1. j \in 1 .. n - 1 /\ MemStart + j - 1 \in 0 .. MemEnd /\ MemStart + j - 1 # at
      BY <1>0, <2>2 DEF at
    <3>2. memory[MemStart + j - 1] = BootFile.code[j]
      BY <3>1, Zenon DEF Coded
    <3>. QED
      BY <1>2, <3>1, <3>2, Zenon
  <2>. QED
    BY <2>1, <2>2
<1>6. Coded(m, n)
  BY <1>5, Zenon DEF Coded
<1>. QED
  BY <1>2, <1>4, <1>6

-----------------------------------------------------------------------------
(* The steps of main.                                                      *)

LEMMA Appended ==
  ASSUME NEW s \in Seq(Nat), NEW b \in Nat
  PROVE  /\ Len(Append(s, b)) = Len(s) + 1 /\ Append(s, b)[Len(s) + 1] = b
         /\ \A i \in 1 .. Len(s) : Append(s, b)[i] = s[i]
  BY AppendProperties

LEMMA CallFrame ==
  ASSUME NEW r \in Request
  PROVE  /\ Frame(r) \in Seq(Nat) /\ Len(Frame(r)) >= 8 /\ Sized(Frame(r))
         /\ ~BadFrameSize(Get16(Frame(r), 1))
  BY FrameDecodes DEF FrameOK, Sized

LEMMA BadFrame ==
  ASSUME NEW size \in BadSize
  PROVE  Put16(size) \in Seq(Nat) /\ Len(Put16(size)) = 2 /\ Get16(Put16(size), 1) = size /\ BadFrameSize(size)
<1>1. size \in Short /\ BadFrameSize(size)
  BY BadSizeAssumption, Zenon
<1>2. size \in Nat
  BY <1>1, SMTT(60) DEF Short
<1>. QED
  BY <1>1, <1>2, Put16Is, Zenon

Refused(buf) == Len(buf) >= 2 /\ BadFrameSize(Get16(buf, 1))
Ended(buf) == Len(buf) >= 2 /\ Len(buf) = Get16(buf, 1) + 2

LEMMA ReadFrameDoes ==
  ASSUME Inv, readFrame, NEW buf, buf = Append(server.in, link["B"][1])
  PROVE  /\ server.pc = "readFrame" /\ link["B"] # <<>>
         /\ link'["B"] = <<>> /\ link'["A"] = link["A"]
         /\ server'.in = IF Refused(buf) THEN <<>> ELSE buf
         /\ server'.pc = IF ~Refused(buf) /\ Ended(buf) THEN "requestResponse" ELSE "readFrame"
         /\ server'.out = server.out
         /\ UNCHANGED <<myPlatform, cpu, myMemory>>
         /\ ShapeOK'
<1>. DEFINE in == IF Refused(buf) THEN <<>> ELSE buf
            pc == IF ~Refused(buf) /\ Ended(buf) THEN "requestResponse" ELSE server.pc
<1>1. server.pc = "readFrame" /\ UNCHANGED <<myPlatform, cpu, myMemory>>
  BY DEF readFrame
<1>2. /\ link["B"] # <<>> /\ link' \in [{"A", "B"} -> Seq(Nat)]
      /\ link'["B"] = <<>> /\ link'["A"] = link["A"]
  BY ReadsB DEF readFrame, Inv, ShapeOK
<1>3. server' = [server EXCEPT !.in = in, !.pc = pc]
  BY Zenon DEF readFrame, Refused, Ended, readShort
<1>4. pc = IF ~Refused(buf) /\ Ended(buf) THEN "requestResponse" ELSE "readFrame"
  BY <1>1
<1>. HIDE DEF pc
<1>5. in = IF Refused(buf) THEN <<>> ELSE buf
  OBVIOUS
<1>. HIDE DEF in
<1>6. server'.in = in /\ server'.pc = pc /\ server'.out = server.out /\ DOMAIN server' = DOMAIN server
  <2>1. DOMAIN server = {"pc", "out", "in", "exitCode", "exit"}
    BY DEF Inv, ShapeOK
  <2>. QED
    BY <1>3, <2>1
<1>7. ShapeOK'
  BY <1>1, <1>2, <1>6 DEF Inv, ShapeOK, Poked, Coded
<1>. QED
  BY <1>1, <1>2, <1>4, <1>5, <1>6, <1>7, Zenon

LEMMA RefuseStep ==
  ASSUME Inv, readFrame, Refusing
  PROVE  server'.in = <<>> /\ server'.pc = "readFrame"
<1>. DEFINE buf == Append(server.in, link["B"][1])
<1>1. PICK first \in Nat, second \in Nat :
        server.in = <<first>> /\ link["B"] = <<second>> /\ BadFrameSize(first + 256 * second)
  BY Zenon DEF Refusing
<1>2. first \in Nat /\ second \in Nat
  BY <1>1, Zenon
<1>3. Refused(buf)
  <2>. DEFINE s == <<first>>
              t == Append(s, second)
  <2>1. s \in Seq(Nat) /\ Len(s) = 1 /\ s[1] = first /\ <<second>>[1] = second
    BY <1>2
  <2>2. buf = t
    BY <1>1, <2>1, Zenon
  <2>. HIDE DEF s, buf
  <2>3. Len(t) = 2 /\ t[1] = first /\ t[2] = second
    <3>1. /\ Len(t) = Len(s) + 1 /\ t[Len(s) + 1] = second
          /\ \A i \in 1 .. Len(s) : t[i] = s[i]
      BY <1>2, <2>1, Appended, Zenon
    <3>. HIDE DEF t
    <3>. QED
      BY <2>1, <3>1
  <2>. HIDE DEF t
  <2>4. Len(buf) >= 2 /\ Get16(buf, 1) = first + 256 * second
    BY <2>2, <2>3 DEF Get16
  <2>. QED
    BY <1>1, <2>4, Zenon DEF Refused
<1>. HIDE DEF buf
<1>4. /\ server'.in = IF Refused(buf) THEN <<>> ELSE buf
      /\ server'.pc = IF ~Refused(buf) /\ Ended(buf) THEN "requestResponse" ELSE "readFrame"
  BY ReadFrameDoes, Zenon DEF buf
<1>. QED
  BY <1>3, <1>4, Zenon

LEMMA FrameArrives ==
  ASSUME Inv, readFrame
  PROVE  \/ Refusing /\ (Running \/ Ending)
         \/ Refusing /\ SendingBad /\ \E size \in BadSize : cpu.out = Put16(size)
         \/ Refusing /\ Calling /\ cpu.out = Frame(cpu.call)
         \/ SendingBad /\ \E size \in BadSize : Transit(Put16(size), 0, server.in, link["B"], cpu.out)
         \/ Calling /\ Transit(Frame(cpu.call), 0, server.in, link["B"], cpu.out)
         \/ Arriving
<1>1. server.pc = "readFrame" /\ link["B"] # <<>>
  BY DEF readFrame, readByte
<1>2. ~Loading /\ ~Returning /\ ~Quiet
  BY <1>1 DEF Loading, Returning, Quiet
<1>3. ~Serving
  BY <1>1 DEF Serving
<1>4. Running => Refusing
  BY <1>2, Zenon DEF Running
<1>5. Ending => Refusing
  BY <1>1, <1>2 DEF Ending
<1>6. SendingBad => \E size \in BadSize : Sent(Put16(size))
  BY Zenon DEF SendingBad
<1>7. Calling => Sent(Frame(cpu.call))
  BY Zenon DEF Calling
<1>. QED
  BY <1>2, <1>3, <1>4, <1>5, <1>6, <1>7, Zenon DEF Inv, Protocol, Sent

LEMMA ReadFrameStep ==
  ASSUME Inv, readFrame
  PROVE  Inv'
<1>. DEFINE buf == Append(server.in, link["B"][1])
<1>1. /\ server.pc = "readFrame" /\ link["B"] # <<>>
      /\ link'["B"] = <<>> /\ link'["A"] = link["A"]
      /\ server'.in = IF Refused(buf) THEN <<>> ELSE buf
      /\ server'.pc = IF ~Refused(buf) /\ Ended(buf) THEN "requestResponse" ELSE "readFrame"
      /\ server'.out = server.out
      /\ UNCHANGED <<myPlatform, cpu, myMemory>>
      /\ ShapeOK'
  BY ReadFrameDoes, Zenon
<1>0. cpu' = cpu /\ myPlatform' = myPlatform
  BY <1>1
<1>2. Fresh => Fresh'
  BY <1>0 DEF Fresh
<1>3. Waiting /\ server'.pc = "readFrame" => Waiting'
  BY <1>0, <1>1 DEF Waiting
<1>. HIDE DEF buf
<1>4. Refusing => server'.in = <<>> /\ server'.pc = "readFrame"
  BY RefuseStep, Zenon
<1>5. Refusing => Quiet'
  BY <1>1, <1>4 DEF Quiet
<1>6. CASE Refusing /\ Running
  <2>1. Running'
    BY <1>0, <1>3, <1>4, <1>5, <1>6 DEF Running
  <2>. QED
    BY <1>1, <2>1 DEF Inv, Protocol
<1>7. CASE Refusing /\ Ending
  <2>1. Ending'
    BY <1>0, <1>4, <1>5, <1>7 DEF Ending
  <2>. QED
    BY <1>1, <2>1 DEF Inv, Protocol
<1>8. ASSUME NEW m \in Seq(Nat), Refusing, cpu.out = m PROVE Sent(m)'
  <2>1. Transit(m, 0, <<>>, <<>>, m)
    BY TransitStart
  <2>2. server'.in = <<>> /\ link'["B"] = <<>> /\ cpu'.out = m
    BY <1>0, <1>1, <1>4, <1>8, Zenon
  <2>. QED
    BY <2>1, <2>2, Zenon DEF Sent
<1>9. CASE Refusing /\ SendingBad /\ \E size \in BadSize : cpu.out = Put16(size)
  <2>1. PICK size \in BadSize : cpu.out = Put16(size)
    BY <1>9
  <2>2. Sent(Put16(size))'
    BY <1>8, <1>9, <2>1, BadFrame, Zenon
  <2>3. SendingBad'
    BY <1>0, <1>3, <1>4, <1>9, <2>2, Zenon DEF SendingBad
  <2>. QED
    BY <1>1, <2>3 DEF Inv, Protocol
<1>10. CASE Refusing /\ Calling /\ cpu.out = Frame(cpu.call)
  <2>1. cpu.call \in Request
    BY <1>10 DEF Calling
  <2>2. Sent(Frame(cpu.call))'
    BY <1>0, <1>8, <1>10, <2>1, CallFrame, Zenon
  <2>3. Calling'
    BY <1>0, <1>2, <1>3, <1>4, <1>10, <2>2, Zenon DEF Calling
  <2>. QED
    BY <1>1, <2>3 DEF Inv, Protocol
<1>11. ASSUME NEW m, Transit(m, 0, server.in, link["B"], cpu.out)
       PROVE  Transit(m, 0, buf, <<>>, cpu.out) /\ m \in Seq(Nat) /\ buf \in Seq(Nat) /\ Len(buf) \in Nat
  <2>1. Transit(m, 0, buf, <<>>, cpu.out)
    BY <1>1, <1>11, TransitTake, Zenon DEF buf
  <2>2. m \in Seq(Nat) /\ buf \in Seq(Nat)
    BY <2>1, Zenon DEF Transit
  <2>. QED
    BY <2>1, <2>2
<1>12. ASSUME NEW m, Transit(m, 0, server.in, link["B"], cpu.out), ~Refused(buf)
       PROVE  Transit(m, 0, server.in, link["B"], cpu.out)'
  BY <1>0, <1>1, <1>11, <1>12, Zenon
<1>13. CASE SendingBad /\ \E size \in BadSize : Transit(Put16(size), 0, server.in, link["B"], cpu.out)
  <2>1. PICK size \in BadSize : Transit(Put16(size), 0, server.in, link["B"], cpu.out)
    BY <1>13
  <2>. DEFINE m == Put16(size)
              l == Len(cpu.out)
  <2>2. Len(m) = 2
    BY BadFrame
  <2>3. Transit(m, 0, buf, <<>>, cpu.out) /\ Len(buf) \in Nat
    BY <1>11, <2>1, Zenon
  <2>. HIDE DEF m
  <2>4. 0 + Len(buf) + 0 + l = 2 /\ cpu.out \in Seq(Nat)
    BY <2>2, <2>3, Nothing, Zenon DEF Transit
  <2>5. l \in Nat \ {0}
    BY <1>13, <2>4, EmptySeq, Zenon DEF SendingBad
  <2>. HIDE DEF l
  <2>6. ~(Len(buf) >= 2)
    BY <2>3, <2>4, <2>5
  <2>7. ~Refused(buf) /\ ~Ended(buf)
    BY <2>6 DEF Refused, Ended
  <2>8. Sent(m)'
    BY <1>12, <2>1, <2>7, Zenon DEF Sent, m
  <2>9. server'.pc = "readFrame"
    BY <1>1, <2>7, Zenon
  <2>10. SendingBad'
    BY <1>0, <1>3, <1>13, <2>8, <2>9, Zenon DEF SendingBad, m
  <2>. QED
    BY <1>1, <2>10 DEF Inv, Protocol
<1>14. ASSUME cpu.call \in Request, Transit(Frame(cpu.call), 0, server.in, link["B"], cpu.out)
       PROVE  ~Refused(buf) /\ (Ended(buf) <=> cpu.out = <<>>)
  <2>. DEFINE m == Frame(cpu.call)
              size == Get16(m, 1)
  <2>1. Sized(m) /\ ~BadFrameSize(size)
    BY <1>14, CallFrame, Zenon
  <2>2. Transit(m, 0, buf, <<>>, cpu.out) /\ Len(buf) \in Nat
    BY <1>11, <1>14, Zenon
  <2>. HIDE DEF m
  <2>3. /\ Len(buf) >= 2 => Get16(buf, 1) = size
        /\ (Len(buf) >= 2 /\ Len(buf) = 2 + Get16(buf, 1)) <=> cpu.out = <<>>
    BY <2>1, <2>2, TransitWhole, Zenon DEF Sized
  <2>4. size \in Nat
    BY <2>1 DEF Sized
  <2>5. ~Refused(buf)
    BY <2>1, <2>3, Zenon DEF Refused
  <2>. HIDE DEF size
  <2>6. Ended(buf) <=> (Len(buf) >= 2 /\ Len(buf) = 2 + Get16(buf, 1))
    BY <2>3, <2>4 DEF Ended
  <2>. QED
    BY <2>3, <2>5, <2>6, Zenon
<1>15. CASE Calling /\ Transit(Frame(cpu.call), 0, server.in, link["B"], cpu.out)
  <2>1. cpu.call \in Request /\ cpu.out # <<>>
    BY <1>15, Zenon DEF Calling
  <2>2. ~Refused(buf) /\ ~Ended(buf)
    BY <1>14, <1>15, <2>1, Zenon
  <2>3. Sent(Frame(cpu.call))'
    BY <1>0, <1>12, <1>15, <2>2, Zenon DEF Sent
  <2>4. server'.pc = "readFrame"
    BY <1>1, <2>2, Zenon
  <2>5. Calling'
    BY <1>0, <1>2, <1>3, <1>15, <2>3, <2>4, Zenon DEF Calling
  <2>. QED
    BY <1>1, <2>5 DEF Inv, Protocol
<1>16. CASE Arriving
  <2>1. /\ cpu.call \in Request /\ cpu.out = <<>> /\ cpu.pc = "receive" /\ Fresh
        /\ Transit(Frame(cpu.call), 0, server.in, link["B"], cpu.out)
        /\ link["A"] = <<>> /\ cpu.in = <<>>
    BY <1>16, Zenon DEF Arriving, Waiting
  <2>2. ~Refused(buf) /\ Ended(buf)
    BY <1>14, <2>1, Zenon
  <2>3. server'.in = buf /\ server'.pc = "requestResponse"
    BY <1>1, <2>2, Zenon
  <2>4. buf = Frame(cpu.call)
    BY <1>11, <2>1, TransitDone, Zenon
  <2>5. Serving'
    BY <1>0, <1>1, <1>2, <2>1, <2>3, <2>4, Zenon DEF Serving
  <2>. QED
    BY <1>1, <2>5 DEF Inv, Protocol
<1>. QED
  BY <1>6, <1>7, <1>9, <1>10, <1>13, <1>15, <1>16, FrameArrives, Zenon

-----------------------------------------------------------------------------
LEMMA ExitFrame == ASSUME NEW r \in Request PROVE r.tag = "Exit" <=> Frame(r)[3] = REQ_EXIT
<1>. DEFINE f == Frame(r)
<1>1. FrameOK(r, f)
  BY FrameDecodes
<1>. HIDE DEF f
<1>2. r.tag = "Exit" => f[3] = REQ_EXIT
  BY <1>1 DEF FrameOK
<1>3. r.tag = "Open" => f[3] # REQ_EXIT
  BY <1>1 DEF FrameOK, REQ_OPEN, REQ_EXIT
<1>4. r.tag \in {"Close", "Read", "Write", "Puts"} => f[3] # REQ_EXIT
  BY <1>1, SMTT(30) DEF FrameOK, IdTag, REQ_CLOSE, REQ_READ, REQ_WRITE, REQ_PUTS, REQ_EXIT
<1>5. r.tag \notin FileCall => f[3] # REQ_EXIT
  BY <1>1 DEF FrameOK, FileTag
<1>6. r.tag = "Exit" <=> f[3] = REQ_EXIT
  BY <1>2, <1>3, <1>4, <1>5 DEF FileCall
<1>. QED
  BY <1>6 DEF f

LEMMA RequestResponseStep ==
  ASSUME Inv, RequestResponse
  PROVE  Inv'
<1>1. server.pc = "requestResponse" /\ UNCHANGED <<link, cpu, myMemory>>
  BY DEF RequestResponse
<1>2. Serving
  BY <1>1 DEF Inv, Protocol, Loading, Waiting, Running, SendingBad, Calling, Arriving, Returning, Ending
<1>3. /\ cpu.pc = "receive" /\ cpu.call \in Request /\ cpu.out = <<>> /\ link["A"] = <<>> /\ cpu.in = <<>>
      /\ server.in = Frame(cpu.call) /\ link["B"] = <<>>
      /\ cpu.call.tag = "Open" => cpu.call.name \notin Names(myPlatform.myFiles)
  BY <1>2, Zenon DEF Serving, Fresh
<1>4. PICK o \in requestResponse(myPlatform, server.in) :
        /\ myPlatform' = o.p
        /\ server' = [server EXCEPT !.out = fillInFrameSize(o.put),
                                    !.in = <<>>,
                                    !.pc = "writeFrame",
                                    !.exitCode = ExitCode(server.in, @),
                                    !.exit = server.in[3] = REQ_EXIT]
  BY Zenon DEF RequestResponse
<1>. DEFINE frame == fillInFrameSize(o.put)
            exitCode == ExitCode(server.in, server.exitCode)
            exit == server.in[3] = REQ_EXIT
<1>5. Served(o)
  BY <1>3, <1>4, RequestServed, Zenon DEF Inv, ShapeOK
<1>6. Sized(frame)
  BY <1>5, FillIs, Zenon DEF Served
<1>7. exit <=> cpu.call.tag = "Exit"
  BY <1>3, ExitFrame, Zenon
<1>8. server' = [server EXCEPT !.out = frame, !.in = <<>>, !.pc = "writeFrame",
                               !.exitCode = exitCode, !.exit = exit]
  BY <1>4, Zenon
<1>. HIDE DEF frame, exitCode, exit
<1>9. /\ server'.out = frame /\ server'.in = <<>> /\ server'.pc = "writeFrame"
      /\ server'.exit <=> cpu.call.tag = "Exit"
      /\ DOMAIN server' = DOMAIN server
  <2>1. DOMAIN server = {"pc", "out", "in", "exitCode", "exit"}
    BY DEF Inv, ShapeOK
  <2>2. /\ server'.out = frame /\ server'.in = <<>> /\ server'.pc = "writeFrame"
        /\ server'.exit = exit /\ DOMAIN server' = DOMAIN server
    BY <1>8, <2>1
  <2>. QED
    BY <1>7, <2>2, Zenon
<1>10. Transit(frame, 0, <<>>, <<>>, frame) /\ frame \in Seq(Nat) /\ frame # <<>>
  <2>1. frame \in Seq(Nat) /\ Len(frame) > 0
    BY <1>6 DEF Sized
  <2>2. Len(<<>>) = 0
    OBVIOUS
  <2>3. frame # <<>>
    BY <2>1, <2>2
  <2>. QED
    BY <2>1, <2>3, TransitStart, Zenon
<1>11. link' = link /\ cpu' = cpu /\ myMemory' = myMemory
  BY <1>1
<1>12. ShapeOK'
  <2>1. PlatformOK(myPlatform)'
    BY <1>4, <1>5, Zenon DEF Served
  <2>. QED
    BY <1>9, <1>11, <2>1 DEF Inv, ShapeOK, Poked, Coded
<1>13. Transit(frame, 0, cpu.in, link["A"], server.out)'
  BY <1>3, <1>9, <1>10, <1>11, Zenon
<1>14. \E f \in Seq(Nat) :
         /\ Get16(f, 1) \in Nat /\ Len(f) = 2 + Get16(f, 1)
         /\ Transit(f, 0, cpu.in, link["A"], server.out)'
  BY <1>6, <1>10, <1>13, Zenon DEF Sized
<1>15. Returning'
  BY <1>3, <1>9, <1>10, <1>11, <1>14, Zenon DEF Returning
<1>. QED
  BY <1>12, <1>15, Zenon DEF Inv, Protocol

LEMMA WriteFrameStep ==
  ASSUME Inv, writeFrame
  PROVE  Inv'
<1>. DEFINE out == Tail(server.out)
            pc == IF Len(server.out) > 1 THEN server.pc ELSE IF server.exit THEN "join" ELSE "readFrame"
<1>1. server.pc = "writeFrame" /\ UNCHANGED <<myPlatform, cpu, myMemory>>
  BY DEF writeFrame
<1>2. Returning
  BY <1>1 DEF Inv, Protocol, Loading, Waiting, Running, SendingBad, Calling, Arriving, Serving, Ending
<1>3. server.out # <<>> /\ cpu.pc = "receive"
  BY <1>1, <1>2 DEF Returning
<1>4. PICK frame \in Seq(Nat) :
        /\ Get16(frame, 1) \in Nat /\ Len(frame) = 2 + Get16(frame, 1)
        /\ Transit(frame, 0, cpu.in, link["A"], server.out)
  BY <1>2, Zenon DEF Returning
<1>5. /\ Head(server.out) \in Nat /\ server.out \in Seq(Nat) /\ Len(server.out) \in Nat
      /\ (Len(server.out) = 1 <=> out = <<>>)
  BY <1>3, <1>4, TransitTypes, Zenon
<1>6. /\ link["A"] = <<>> /\ link' \in [{"A", "B"} -> Seq(Nat)]
      /\ link'["A"] = <<Head(server.out)>> /\ link'["B"] = link["B"]
  BY <1>5, WritesA DEF Inv, ShapeOK, writeFrame, writeBytes
<1>7. server' = [server EXCEPT !.out = out, !.pc = pc]
  BY Zenon DEF writeFrame
<1>8. pc = IF out # <<>> THEN "writeFrame" ELSE IF server.exit THEN "join" ELSE "readFrame"
  <2>. DEFINE l == Len(server.out)
  <2>1. l \in Nat \ {0}
    BY <1>3, <1>5, EmptySeq, Zenon
  <2>2. l = 1 <=> out = <<>>
    BY <1>5
  <2>3. pc = IF l > 1 THEN "writeFrame" ELSE IF server.exit THEN "join" ELSE "readFrame"
    BY <1>1
  <2>. HIDE DEF l, pc, out
  <2>. QED
    BY <2>1, <2>2, <2>3
<1>9. Transit(frame, 0, cpu.in, <<Head(server.out)>>, out)
  BY <1>3, <1>4, <1>6, TransitPut, Zenon
<1>. HIDE DEF pc, out
<1>10. /\ server'.out = out /\ server'.pc = pc /\ server'.in = server.in /\ server'.exit = server.exit
       /\ DOMAIN server' = DOMAIN server
  <2>1. DOMAIN server = {"pc", "out", "in", "exitCode", "exit"}
    BY DEF Inv, ShapeOK
  <2>. QED
    BY <1>7, <2>1
<1>11. myPlatform' = myPlatform /\ cpu' = cpu /\ myMemory' = myMemory
  BY <1>1
<1>12. ShapeOK'
  BY <1>6, <1>10, <1>11 DEF Inv, ShapeOK, Poked, Coded
<1>13. Transit(frame, 0, cpu.in, link["A"], server.out)'
  BY <1>6, <1>9, <1>10, <1>11, Zenon
<1>14. \E f \in Seq(Nat) :
         /\ Get16(f, 1) \in Nat /\ Len(f) = 2 + Get16(f, 1)
         /\ Transit(f, 0, cpu.in, link["A"], server.out)'
  BY <1>4, <1>13, Zenon
<1>15. link'["A"] # <<>>
  <2>1. Len(<<Head(server.out)>>) = 1 /\ Len(<<>>) = 0
    OBVIOUS
  <2>2. <<Head(server.out)>> # <<>>
    BY <2>1
  <2>. QED
    BY <1>6, <2>2, Zenon
<1>16. \/ server'.pc = "writeFrame" /\ server'.out # <<>>
       \/ /\ server'.out = <<>> /\ link'["A"] # <<>>
          /\ server'.pc = IF server'.exit THEN "join" ELSE "readFrame"
  BY <1>8, <1>10, <1>15, Zenon
<1>17. /\ cpu.call \in Request /\ cpu.out = <<>> /\ server.in = <<>> /\ link["B"] = <<>>
       /\ server.exit <=> cpu.call.tag = "Exit"
  BY <1>2, Zenon DEF Returning
<1>18. Returning'
  BY <1>3, <1>6, <1>10, <1>11, <1>14, <1>16, <1>17, Zenon DEF Returning
<1>. QED
  BY <1>12, <1>18, Zenon DEF Inv, Protocol

LEMMA JoinStep ==
  ASSUME Inv, join
  PROVE  Inv'
<1>1. /\ server.pc = "join" /\ cpu.pc = "terminated"
      /\ server' = [server EXCEPT !.pc = "exited"]
      /\ UNCHANGED <<link, myPlatform, cpu, myMemory, answer>>
  BY DEF join
<1>2. Ending
  BY <1>1 DEF Inv, Protocol, Loading, Running, SendingBad, Calling, Arriving, Serving, Returning
<1>3. server'.pc = "exited" /\ DOMAIN server' = DOMAIN server
  BY <1>1 DEF Inv, ShapeOK
<1>4. link' = link /\ myPlatform' = myPlatform /\ cpu' = cpu /\ myMemory' = myMemory
  BY <1>1
<1>5. ShapeOK'
  BY <1>3, <1>4 DEF Inv, ShapeOK, Poked, Coded
<1>6. Ending'
  BY <1>1, <1>2, <1>3, <1>4 DEF Ending
<1>. QED
  BY <1>5, <1>6, Zenon DEF Inv, Protocol

-----------------------------------------------------------------------------
(* The steps of the CPU, once it has been booted.                          *)

LEMMA PastBoot ==
  ASSUME Inv, cpu.pc # "boot", link' \in [{"A", "B"} -> Seq(Nat)],
         UNCHANGED <<server, myPlatform, myMemory>>, DOMAIN cpu' = DOMAIN cpu
  PROVE  ShapeOK'
<1>1. server' = server /\ myPlatform' = myPlatform /\ myMemory' = myMemory
  OBVIOUS
<1>2. Poked(myMemory, Len(Pokes)) /\ Coded(myMemory, Len(BootFile.code))
  BY DEF Inv, ShapeOK
<1>3. Poked(myMemory', Len(Pokes)) /\ Coded(myMemory', Len(BootFile.code))
  BY <1>1, <1>2, Zenon
<1>4. (Poked(myMemory, Len(Pokes)) /\ Coded(myMemory, Len(BootFile.code)))'
  BY <1>3, Zenon DEF Poked, Coded
<1>. QED
  BY <1>1, <1>4 DEF Inv, ShapeOK

LEMMA CallStep ==
  ASSUME Inv, NEW r \in Request, Call(r)
  PROVE  Inv'
<1>. DEFINE frame == Frame(r)
            calls == cpu.calls + 1
<1>1. /\ cpu.pc = "run"
      /\ r.tag = "Open" => r.name \notin OpenNames
      /\ cpu' = [cpu EXCEPT !.pc = "send", !.out = frame, !.in = <<>>, !.call = r,
                            !.result = NoAnswer, !.calls = calls]
      /\ UNCHANGED <<link, server, myPlatform, myMemory>>
  BY DEF Call
<1>2. Running
  BY <1>1 DEF Inv, Protocol, Loading, SendingBad, Calling, Arriving, Serving, Returning, Ending
<1>3. frame \in Seq(Nat) /\ Len(frame) >= 8
  BY CallFrame
<1>. HIDE DEF frame, calls
<1>4. frame # <<>>
  <2>1. Len(<<>>) = 0
    OBVIOUS
  <2>. QED
    BY <1>3, <2>1
<1>5. /\ cpu'.pc = "send" /\ cpu'.out = frame /\ cpu'.in = <<>> /\ cpu'.call = r
      /\ DOMAIN cpu' = DOMAIN cpu
  <2>1. DOMAIN cpu = {"pc", "out", "in", "call", "result", "calls"}
    BY DEF Inv, ShapeOK
  <2>. QED
    BY <1>1, <2>1
<1>6. link' = link /\ server' = server /\ myPlatform' = myPlatform /\ myMemory' = myMemory
  BY <1>1
<1>7. ShapeOK'
  <2>1. link' \in [{"A", "B"} -> Seq(Nat)]
    BY <1>6 DEF Inv, ShapeOK
  <2>. QED
    BY <1>1, <1>5, <1>6, <2>1, PastBoot
<1>8. Waiting /\ (Quiet \/ Refusing)
  BY <1>2, Zenon DEF Running
<1>9. Waiting'
  BY <1>5, <1>6, <1>8 DEF Waiting
<1>10. Fresh'
  <2>1. OpenNames = Names(myPlatform.myFiles)
    BY Zenon DEF OpenNames, Names
  <2>2. r.tag = "Open" => r.name \notin Names(myPlatform'.myFiles)
    BY <1>1, <1>6, <2>1, Zenon
  <2>. QED
    BY <1>5, <2>2, Zenon DEF Fresh
<1>11. Sent(frame)'
  <2>1. CASE Quiet
    <3>1. Transit(frame, 0, <<>>, <<>>, frame)
      BY <1>3, TransitStart, Zenon
    <3>2. server'.in = <<>> /\ link'["B"] = <<>> /\ cpu'.out = frame
      BY <1>5, <1>6, <2>1, Zenon DEF Quiet
    <3>. QED
      BY <3>1, <3>2, Zenon DEF Sent
  <2>2. CASE Refusing
    <3>1. Refusing'
      BY <1>6, <2>2, Zenon DEF Refusing
    <3>. QED
      BY <1>5, <3>1, Zenon DEF Sent
  <2>. QED
    BY <1>8, <2>1, <2>2
<1>12. Calling'
  <2>1. Sent(Frame(cpu.call))'
    BY <1>5, <1>11, Zenon DEF frame
  <2>. QED
    BY <1>4, <1>5, <1>9, <1>10, <2>1, Zenon DEF Calling
<1>. QED
  BY <1>7, <1>12, Zenon DEF Inv, Protocol

LEMMA SendBadSizeStep ==
  ASSUME Inv, NEW size \in BadSize, SendBadSize(size)
  PROVE  Inv'
<1>. DEFINE m == Put16(size)
            calls == cpu.calls + 1
<1>1. /\ cpu.pc = "run"
      /\ cpu' = [cpu EXCEPT !.pc = "send", !.out = m, !.calls = calls]
      /\ UNCHANGED <<link, server, myPlatform, myMemory>>
  BY DEF SendBadSize
<1>2. Running
  BY <1>1 DEF Inv, Protocol, Loading, SendingBad, Calling, Arriving, Serving, Returning, Ending
<1>3. m \in Seq(Nat) /\ Len(m) = 2
  BY BadFrame
<1>. HIDE DEF m, calls
<1>4. m # <<>>
  <2>1. Len(<<>>) = 0
    OBVIOUS
  <2>. QED
    BY <1>3, <2>1, SMTT(30)
<1>5. /\ cpu'.pc = "send" /\ cpu'.out = m /\ cpu'.in = cpu.in /\ cpu'.call = cpu.call
      /\ DOMAIN cpu' = DOMAIN cpu
  <2>1. DOMAIN cpu = {"pc", "out", "in", "call", "result", "calls"}
    BY DEF Inv, ShapeOK
  <2>. QED
    BY <1>1, <2>1
<1>6. link' = link /\ server' = server /\ myPlatform' = myPlatform /\ myMemory' = myMemory
  BY <1>1
<1>7. ShapeOK'
  <2>1. link' \in [{"A", "B"} -> Seq(Nat)]
    BY <1>6 DEF Inv, ShapeOK
  <2>. QED
    BY <1>1, <1>5, <1>6, <2>1, PastBoot
<1>8. Waiting /\ cpu.call = NoCall /\ (Quiet \/ Refusing)
  BY <1>2, Zenon DEF Running
<1>9. Waiting'
  BY <1>5, <1>6, <1>8 DEF Waiting
<1>10. Sent(m)'
  <2>1. CASE Quiet
    <3>1. Transit(m, 0, <<>>, <<>>, m)
      BY <1>3, TransitStart, Zenon
    <3>2. server'.in = <<>> /\ link'["B"] = <<>> /\ cpu'.out = m
      BY <1>5, <1>6, <2>1, Zenon DEF Quiet
    <3>. QED
      BY <3>1, <3>2, Zenon DEF Sent
  <2>2. CASE Refusing
    <3>1. Refusing'
      BY <1>6, <2>2, Zenon DEF Refusing
    <3>. QED
      BY <1>5, <3>1, Zenon DEF Sent
  <2>. QED
    BY <1>8, <2>1, <2>2
<1>11. SendingBad'
  BY <1>4, <1>5, <1>8, <1>9, <1>10, Zenon DEF SendingBad, m
<1>. QED
  BY <1>7, <1>11, Zenon DEF Inv, Protocol

(* The last byte of a bad size leaves it to be refused.                    *)
BadSizeIn(in, byte) ==
  \E first, second \in Nat : in = <<first>> /\ byte = <<second>> /\ BadFrameSize(first + 256 * second)

LEMMA BadSent ==
  ASSUME NEW size \in BadSize, NEW in, NEW b \in Nat, NEW byte, byte = <<b>>,
         Transit(Put16(size), 0, in, byte, <<>>)
  PROVE  BadSizeIn(in, byte)
<1>. DEFINE m == Put16(size)
<1>1. m \in Seq(Nat) /\ Len(m) = 2 /\ Get16(m, 1) = size /\ BadFrameSize(size)
  BY BadFrame
<1>2. byte \in Seq(Nat) /\ Len(byte) = 1 /\ byte[1] = b
  OBVIOUS
<1>. HIDE DEF m
<1>3. /\ in \in Seq(Nat) /\ 0 + Len(in) + Len(byte) + 0 = Len(m)
      /\ At(m, 0, in) /\ At(m, 0 + Len(in), byte)
  BY Nothing, Zenon DEF Transit, m
<1>4. Len(in) = 1
  BY <1>1, <1>2, <1>3
<1>5. in[1] = m[1] /\ b = m[2] /\ in[1] \in Nat
  <2>1. 1 \in 1 .. Len(in) /\ 1 \in 1 .. Len(byte) /\ 0 + 1 = 1 /\ (0 + Len(in)) + 1 = 2
    BY <1>2, <1>4
  <2>2. m[0 + 1] = in[1] /\ m[(0 + Len(in)) + 1] = byte[1] /\ in[1] \in Nat
    BY <1>3, <2>1, ElementOfSeq, Zenon DEF At
  <2>. QED
    BY <1>2, <2>1, <2>2, Zenon
<1>6. in = <<in[1]>>
  <2>. DEFINE c == in[1]
              s == <<c>>
  <2>1. s \in Seq(Nat) /\ Len(s) = 1 /\ s[1] = c
    BY <1>5
  <2>2. \A i \in 1 .. Len(in) : in[i] = s[i]
    BY <1>4, <2>1
  <2>. HIDE DEF s
  <2>3. in = s
    BY <1>3, <1>4, <2>1, <2>2, SeqEqual, Zenon
  <2>. QED
    BY <2>3 DEF s
<1>7. in[1] + 256 * b = size
  BY <1>1, <1>5 DEF Get16
<1>. QED
  BY <1>1, <1>5, <1>6, <1>7, ZenonT(40) DEF BadSizeIn

LEMMA SendStep ==
  ASSUME Inv, Send
  PROVE  Inv'
<1>. DEFINE out == Tail(cpu.out)
            pc == IF Len(cpu.out) > 1 THEN cpu.pc ELSE IF cpu.call = NoCall THEN "run" ELSE "receive"
<1>1. cpu.pc = "send" /\ link["B"] = <<>> /\ UNCHANGED <<server, myPlatform, myMemory>>
  BY DEF Send, writeByte
<1>2. SendingBad \/ Calling
  BY <1>1 DEF Inv, Protocol, Loading, Running, Arriving, Serving, Returning, Ending
<1>3. cpu.out # <<>> /\ Waiting
  BY <1>2, Zenon DEF SendingBad, Calling
<1>4. ~Refusing
  <2>1. SUFFICES ASSUME NEW s \in Nat, link["B"] = <<s>> PROVE FALSE
    BY Zenon DEF Refusing
  <2>2. Len(<<s>>) = 1 /\ Len(<<>>) = 0
    OBVIOUS
  <2>3. <<s>> # <<>>
    BY <2>2
  <2>. QED
    BY <1>1, <2>1, <2>3, Zenon
<1>5. ASSUME NEW m, Sent(m)
      PROVE  /\ Head(cpu.out) \in Nat /\ out \in Seq(Nat)
             /\ pc = IF out # <<>> THEN "send" ELSE IF cpu.call = NoCall THEN "run" ELSE "receive"
             /\ Transit(m, 0, server.in, <<Head(cpu.out)>>, out)
  <2>1. Transit(m, 0, server.in, <<>>, cpu.out)
    BY <1>1, <1>4, <1>5, Zenon DEF Sent
  <2>2. /\ Head(cpu.out) \in Nat /\ cpu.out \in Seq(Nat) /\ Len(cpu.out) \in Nat /\ out \in Seq(Nat)
        /\ (Len(cpu.out) = 1 <=> out = <<>>)
    BY <1>3, <2>1, TransitTypes, Zenon
  <2>3. Transit(m, 0, server.in, <<Head(cpu.out)>>, out)
    BY <1>3, <2>1, TransitPut, Zenon
  <2>4. pc = IF out # <<>> THEN "send" ELSE IF cpu.call = NoCall THEN "run" ELSE "receive"
    <3>. DEFINE l == Len(cpu.out)
    <3>1. l \in Nat \ {0}
      BY <1>3, <2>2, EmptySeq, Zenon
    <3>2. l = 1 <=> out = <<>>
      BY <2>2
    <3>3. pc = IF l > 1 THEN "send" ELSE IF cpu.call = NoCall THEN "run" ELSE "receive"
      BY <1>1
    <3>. HIDE DEF l, pc, out
    <3>. QED
      BY <3>1, <3>2, <3>3
  <2>. QED
    BY <2>2, <2>3, <2>4, Zenon
<1>6. \E m : Sent(m)
  BY <1>2, Zenon DEF SendingBad, Calling
<1>7. /\ Head(cpu.out) \in Nat /\ out \in Seq(Nat)
      /\ pc = IF out # <<>> THEN "send" ELSE IF cpu.call = NoCall THEN "run" ELSE "receive"
  BY <1>5, <1>6, Zenon
<1>8. /\ link' \in [{"A", "B"} -> Seq(Nat)]
      /\ link'["B"] = <<Head(cpu.out)>> /\ link'["A"] = link["A"]
  BY <1>7, WritesB DEF Inv, ShapeOK, Send
<1>9. cpu' = [cpu EXCEPT !.out = out, !.pc = pc]
  BY Zenon DEF Send
<1>10. ASSUME NEW m, Sent(m) PROVE Transit(m, 0, server.in, <<Head(cpu.out)>>, out)
  BY <1>5, <1>10
<1>. HIDE DEF out, pc
<1>11. /\ cpu'.out = out /\ cpu'.pc = pc /\ cpu'.in = cpu.in /\ cpu'.call = cpu.call
       /\ DOMAIN cpu' = DOMAIN cpu
  <2>1. DOMAIN cpu = {"pc", "out", "in", "call", "result", "calls"}
    BY DEF Inv, ShapeOK
  <2>. QED
    BY <1>9, <2>1
<1>12. server' = server /\ myPlatform' = myPlatform /\ myMemory' = myMemory
  BY <1>1
<1>13. ShapeOK'
  BY <1>1, <1>8, <1>11, PastBoot
<1>14. Waiting'
  BY <1>3, <1>8, <1>11, <1>12 DEF Waiting
<1>15. Fresh => Fresh'
  BY <1>11, <1>12 DEF Fresh
<1>16. ASSUME NEW m, Sent(m) PROVE Transit(m, 0, server.in, link["B"], cpu.out)'
  BY <1>8, <1>10, <1>11, <1>12, <1>16, Zenon
<1>17. link'["B"] # <<>>
  <2>1. Len(<<Head(cpu.out)>>) = 1 /\ Len(<<>>) = 0
    OBVIOUS
  <2>2. <<Head(cpu.out)>> # <<>>
    BY <2>1
  <2>. QED
    BY <1>8, <2>2, Zenon
<1>18. CASE SendingBad
  <2>1. PICK size \in BadSize : Sent(Put16(size))
    BY <1>18, Zenon DEF SendingBad
  <2>2. cpu.call = NoCall
    BY <1>18, Zenon DEF SendingBad
  <2>3. CASE out # <<>>
    <3>1. Sent(Put16(size))'
      BY <1>16, <2>1, Zenon DEF Sent
    <3>2. SendingBad'
      BY <1>7, <1>11, <1>14, <2>2, <2>3, <3>1, Zenon DEF SendingBad
    <3>. QED
      BY <1>13, <3>2, Zenon DEF Inv, Protocol
  <2>4. CASE out = <<>>
    <3>1. Transit(Put16(size), 0, server.in, link'["B"], <<>>)
      BY <1>8, <1>10, <2>1, <2>4, Zenon
    <3>2. BadSizeIn(server.in, link'["B"])
      BY <1>7, <1>8, <2>1, <3>1, BadSent, Zenon
    <3>3. Refusing'
      BY <1>12, <3>2, Zenon DEF Refusing, BadSizeIn
    <3>4. Running'
      BY <1>7, <1>11, <1>14, <2>2, <2>4, <3>3, Zenon DEF Running
    <3>. QED
      BY <1>13, <3>4, Zenon DEF Inv, Protocol
  <2>. QED
    BY <2>3, <2>4
<1>19. CASE Calling
  <2>1. cpu.call \in Request /\ cpu.call # NoCall /\ Sent(Frame(cpu.call)) /\ Fresh
    BY <1>19, RequestAssumption, Zenon DEF Calling
  <2>2. Transit(Frame(cpu.call), 0, server.in, link["B"], cpu.out)'
    BY <1>11, <1>16, <2>1, Zenon
  <2>3. CASE out # <<>>
    <3>1. Sent(Frame(cpu.call))'
      BY <2>2, Zenon DEF Sent
    <3>2. Calling'
      BY <1>7, <1>11, <1>14, <1>15, <2>1, <2>3, <3>1, ZenonT(40) DEF Calling
    <3>. QED
      BY <1>13, <3>2, Zenon DEF Inv, Protocol
  <2>4. CASE out = <<>>
    <3>1. Arriving'
      BY <1>7, <1>11, <1>14, <1>15, <1>17, <2>1, <2>2, <2>4, Zenon DEF Arriving
    <3>. QED
      BY <1>13, <3>1, Zenon DEF Inv, Protocol
  <2>. QED
    BY <2>3, <2>4
<1>. QED
  BY <1>2, <1>18, <1>19

-----------------------------------------------------------------------------
LEMMA ReceiveStep ==
  ASSUME Inv, Receive
  PROVE  Inv'
<1>. DEFINE in == Append(cpu.in, link["A"][1])
            whole == Len(in) >= 2 /\ Len(in) = 2 + Get16(in, 1)
            result == Understand(cpu.call, in)
            pc == IF cpu.call.tag = "Exit" THEN "exit" ELSE "run"
<1>1. cpu.pc = "receive" /\ link["A"] # <<>> /\ UNCHANGED <<server, myPlatform, myMemory>>
  BY DEF Receive, readByte
<1>2. Returning
  BY <1>1 DEF Inv, Protocol, Loading, Running, SendingBad, Calling, Waiting, Arriving, Serving, Ending
<1>3. PICK frame \in Seq(Nat) :
        /\ Get16(frame, 1) \in Nat /\ Len(frame) = 2 + Get16(frame, 1)
        /\ Transit(frame, 0, cpu.in, link["A"], server.out)
  BY <1>2, Zenon DEF Returning
<1>4. Transit(frame, 0, in, <<>>, server.out)
  BY <1>1, <1>3, TransitTake, Zenon
<1>5. whole <=> server.out = <<>>
  BY <1>3, <1>4, TransitWhole, Zenon
<1>6. /\ link' \in [{"A", "B"} -> Seq(Nat)]
      /\ link'["A"] = <<>> /\ link'["B"] = link["B"]
  BY ReadsA DEF Inv, ShapeOK, Receive
<1>7. cpu' = IF whole THEN [cpu EXCEPT !.in = <<>>, !.call = NoCall, !.result = result, !.pc = pc]
             ELSE [cpu EXCEPT !.in = in]
  BY Zenon DEF Receive
<1>8. server' = server /\ myPlatform' = myPlatform /\ myMemory' = myMemory
  BY <1>1
<1>. HIDE DEF in, whole, result
<1>9. DOMAIN cpu = {"pc", "out", "in", "call", "result", "calls"}
  BY DEF Inv, ShapeOK
<1>10. /\ cpu.call \in Request /\ cpu.out = <<>> /\ server.in = <<>> /\ link["B"] = <<>>
       /\ server.exit <=> cpu.call.tag = "Exit"
       /\ \/ server.pc = "writeFrame" /\ server.out # <<>>
          \/ server.out = <<>> /\ server.pc = IF server.exit THEN "join" ELSE "readFrame"
  BY <1>2, Zenon DEF Returning
<1>11. CASE whole
  <2>. HIDE DEF pc
  <2>1. /\ cpu'.in = <<>> /\ cpu'.call = NoCall /\ cpu'.pc = pc /\ cpu'.out = cpu.out
        /\ DOMAIN cpu' = DOMAIN cpu
    BY <1>7, <1>9, <1>11
  <2>2. ShapeOK'
    BY <1>1, <1>6, <2>1, PastBoot
  <2>3. server.out = <<>> /\ server.pc = IF server.exit THEN "join" ELSE "readFrame"
    BY <1>5, <1>10, <1>11, Zenon
  <2>4. Quiet'
    BY <1>6, <1>8, <1>10, Zenon DEF Quiet
  <2>5. CASE cpu.call.tag = "Exit"
    <3>1. pc = "exit" /\ server.pc = "join"
      BY <1>10, <2>3, <2>5, Zenon DEF pc
    <3>2. Ending'
      BY <1>8, <2>1, <3>1 DEF Ending
    <3>. QED
      BY <2>2, <3>2, Zenon DEF Inv, Protocol
  <2>6. CASE cpu.call.tag # "Exit"
    <3>1. pc = "run" /\ server.pc = "readFrame"
      BY <1>10, <2>3, <2>6, Zenon DEF pc
    <3>2. Running'
      BY <1>6, <1>8, <1>10, <2>1, <2>3, <2>4, <3>1, Zenon DEF Running, Waiting
    <3>. QED
      BY <2>2, <3>2, Zenon DEF Inv, Protocol
  <2>. QED
    BY <2>5, <2>6
<1>12. CASE ~whole
  <2>1. /\ cpu'.in = in /\ cpu'.call = cpu.call /\ cpu'.pc = cpu.pc /\ cpu'.out = cpu.out
        /\ DOMAIN cpu' = DOMAIN cpu
    BY <1>7, <1>9, <1>12
  <2>2. ShapeOK'
    BY <1>1, <1>6, <2>1, PastBoot
  <2>3. server.pc = "writeFrame" /\ server.out # <<>>
    BY <1>5, <1>10, <1>12, Zenon
  <2>4. Transit(frame, 0, cpu.in, link["A"], server.out)'
    BY <1>4, <1>6, <1>8, <2>1, Zenon
  <2>5. \E f \in Seq(Nat) :
          /\ Get16(f, 1) \in Nat /\ Len(f) = 2 + Get16(f, 1)
          /\ Transit(f, 0, cpu.in, link["A"], server.out)'
    BY <1>3, <2>4, Zenon
  <2>6. Returning'
    BY <1>1, <1>6, <1>8, <1>10, <2>1, <2>3, <2>5, Zenon DEF Returning
  <2>. QED
    BY <2>2, <2>6, Zenon DEF Inv, Protocol
<1>. QED
  BY <1>11, <1>12

LEMMA TerminateStep ==
  ASSUME Inv, terminate
  PROVE  Inv'
<1>1. /\ cpu.pc \in {"run", "exit"} /\ cpu' = [cpu EXCEPT !.pc = "terminated"]
      /\ UNCHANGED <<link, server, myPlatform, myMemory>>
  BY DEF terminate
<1>2. Running \/ Ending
  BY <1>1 DEF Inv, Protocol, Loading, SendingBad, Calling, Arriving, Serving, Returning
<1>3. cpu'.pc = "terminated" /\ cpu'.call = cpu.call /\ DOMAIN cpu' = DOMAIN cpu
  BY <1>1 DEF Inv, ShapeOK
<1>4. link' = link /\ server' = server /\ myPlatform' = myPlatform /\ myMemory' = myMemory
  BY <1>1
<1>5. ShapeOK'
  <2>1. link' \in [{"A", "B"} -> Seq(Nat)] /\ cpu.pc # "boot"
    BY <1>1, <1>4 DEF Inv, ShapeOK
  <2>. QED
    BY <1>1, <1>3, <2>1, PastBoot
<1>6. /\ cpu.call = NoCall
      /\ server.pc \in {"join", "exited"} \/ (server.pc = "readFrame" /\ (Quiet \/ Refusing))
  BY <1>2 DEF Running, Waiting, Ending
<1>7. (Quiet => Quiet') /\ (Refusing => Refusing')
  BY <1>4, Zenon DEF Quiet, Refusing
<1>8. Ending'
  BY <1>3, <1>4, <1>6, <1>7 DEF Ending
<1>. QED
  BY <1>5, <1>8, Zenon DEF Inv, Protocol

LEMMA LoadStep ==
  ASSUME Inv, Load
  PROVE  Inv'
<1>. DEFINE in == Append(cpu.in, link["A"][1])
            R == Len(BootFile.rest)
<1>1. cpu.pc = "load" /\ link["A"] # <<>> /\ UNCHANGED <<server, myPlatform, myMemory>>
  BY DEF Load, readByte
<1>2. Loading
  BY <1>1 DEF Inv, Protocol, Running, SendingBad, Calling, Arriving, Serving, Returning, Ending
<1>3. /\ Loads(RestStart) /\ Len(cpu.in) < R
      /\ cpu.call = NoCall /\ cpu.out = <<>> /\ server.in = <<>> /\ link["B"] = <<>>
      /\ server.pc = IF server.out = <<>> THEN "readFrame" ELSE "sendFile"
  BY <1>1, <1>2 DEF Loading
<1>4. Transit(BootBytes, RestStart, cpu.in, link["A"], server.out)
  BY <1>3, Zenon DEF Loads
<1>5. Transit(BootBytes, RestStart, in, <<>>, server.out) /\ Len(in) = Len(cpu.in) + 1
  BY <1>1, <1>4, TransitTake, ZenonT(40)
<1>6. /\ link' \in [{"A", "B"} -> Seq(Nat)]
      /\ link'["A"] = <<>> /\ link'["B"] = link["B"]
  BY ReadsA DEF Inv, ShapeOK, Load
<1>7. cpu' = IF Len(in) = R THEN [cpu EXCEPT !.in = <<>>, !.pc = "run"] ELSE [cpu EXCEPT !.in = in]
  BY Zenon DEF Load
<1>8. server' = server /\ myPlatform' = myPlatform /\ myMemory' = myMemory
  BY <1>1
<1>9. DOMAIN cpu = {"pc", "out", "in", "call", "result", "calls"}
  BY DEF Inv, ShapeOK
<1>10. R \in Nat /\ Len(cpu.in) \in Nat
  <2>1. Len(cpu.in) \in Nat
    BY <1>4, TransitTypes, Zenon
  <2>2. R \in Nat
    BY BootFileIs
  <2>. QED
    BY <2>1, <2>2
<1>. HIDE DEF in, R
<1>11. CASE Len(in) = R
  <2>1. /\ cpu'.in = <<>> /\ cpu'.call = cpu.call /\ cpu'.pc = "run" /\ cpu'.out = cpu.out
        /\ DOMAIN cpu' = DOMAIN cpu
    BY <1>7, <1>9, <1>11
  <2>2. ShapeOK'
    BY <1>1, <1>6, <2>1, PastBoot
  <2>3. server.out = <<>>
    <3>. DEFINE l == Len(server.out)
    <3>1. /\ RestStart + Len(in) + 0 + l = Len(BootBytes) /\ RestStart \in Nat
          /\ server.out \in Seq(Nat)
      BY <1>5, Nothing, Zenon DEF Transit
    <3>2. Len(BootBytes) = RestStart + R
      BY BootBytesIs DEF R
    <3>3. l \in Nat
      BY <3>1
    <3>4. server.out # <<>> => l \in Nat \ {0}
      BY <3>1, EmptySeq, Zenon
    <3>. HIDE DEF l
    <3>5. l = 0
      BY <1>10, <1>11, <3>1, <3>2, <3>3
    <3>. QED
      BY <3>4, <3>5
  <2>4. server.pc = "readFrame"
    BY <1>3, <2>3, Zenon
  <2>5. Running'
    BY <1>3, <1>6, <1>8, <2>1, <2>3, <2>4, Zenon DEF Running, Waiting, Quiet
  <2>. QED
    BY <2>2, <2>5, Zenon DEF Inv, Protocol
<1>12. CASE Len(in) # R
  <2>1. /\ cpu'.in = in /\ cpu'.call = cpu.call /\ cpu'.pc = cpu.pc /\ cpu'.out = cpu.out
        /\ DOMAIN cpu' = DOMAIN cpu
    BY <1>7, <1>9, <1>12
  <2>2. ShapeOK'
    BY <1>1, <1>6, <2>1, PastBoot
  <2>3. Len(in) < R
    BY <1>3, <1>5, <1>10, <1>12
  <2>4. Loads(RestStart)'
    BY <1>5, <1>6, <1>8, <2>1, Zenon DEF Loads
  <2>5. Len(cpu'.in) < Len(BootFile.rest)
    BY <2>1, <2>3, Zenon DEF R
  <2>6. Loading'
    BY <1>1, <1>3, <1>6, <1>8, <2>1, <2>4, <2>5, Zenon DEF Loading
  <2>. QED
    BY <2>2, <2>6, Zenon DEF Inv, Protocol
<1>. QED
  BY <1>11, <1>12

-----------------------------------------------------------------------------
(* The steps of the boot.                                                  *)

LEMMA WordRead ==
  ASSUME NEW poke \in PokeType, NEW in \in Seq(Nat), in = Poke(poke)
  PROVE  in[1] = 0 /\ Get32(in, 2) = poke.addr /\ SubSeq(in, 6, 9) = poke.word
<1>. DEFINE p == Poke(poke)
            word == poke.word
<1>1. /\ p \in Seq(Nat) /\ Len(p) = 9 /\ p[1] = 0 /\ Get32(p, 2) = poke.addr
      /\ \A k \in 1 .. 4 : p[5 + k] = word[k]
  BY PokeIs
<1>2. word \in [1 .. 4 -> Byte]
  BY DEF PokeType
<1>3. word \in Seq(Byte) /\ Len(word) = 4
  <2>. HIDE DEF word
  <2>1. word \in Seq(Byte)
    <3>1. word \in UNION {[1 .. n -> Byte] : n \in Nat}
      BY <1>2, 4 \in Nat, Zenon
    <3>. QED
      BY <3>1, SeqDef
  <2>2. DOMAIN word = 1 .. 4
    BY <1>2
  <2>. QED
    BY <2>1, <2>2, LenProperties
<1>. HIDE DEF p, word
<1>4. in = p
  BY DEF p
<1>5. Len(in) = 9 /\ \A k \in 1 .. 4 : in[5 + k] = word[k]
  BY <1>1, <1>4, Zenon
<1>6. word \in Seq(Nat)
  BY <1>3, ByteNat, Zenon
<1>7. 5 \in Nat /\ 5 + 1 = 6 /\ 5 + 4 = 9 /\ 5 + 4 <= 9
  OBVIOUS
<1>8. At(in, 5, word) /\ 5 + Len(word) <= Len(in)
  BY <1>3, <1>5, <1>7, Zenon DEF At
<1>9. SubSeq(in, 5 + 1, 5 + Len(word)) = word
  BY <1>6, <1>7, <1>8, Slice, Zenon
<1>10. SubSeq(in, 6, 9) = word
  BY <1>3, <1>7, <1>9
<1>. QED
  BY <1>1, <1>4, <1>10, Zenon DEF word, p

(* What every byte of the boot changes, and what it leaves.                *)
LEMMA StartDoes ==
  ASSUME Inv, start, NEW in, in = Append(cpu.in, link["A"][1])
  PROVE  /\ Loading /\ cpu.pc = "boot" /\ link["A"] # <<>>
         /\ link' \in [{"A", "B"} -> Seq(Nat)] /\ link'["A"] = <<>> /\ link'["B"] = link["B"]
         /\ server' = server /\ myPlatform' = myPlatform
         /\ BootPoke(in) \/ BootCode(in)
<1>1. /\ cpu.pc = "boot" /\ link["A"] # <<>> /\ UNCHANGED <<server, myPlatform>>
      /\ BootPoke(in) \/ BootCode(in)
  BY Zenon DEF start, readByte
<1>2. Loading
  BY <1>1 DEF Inv, Protocol, Running, SendingBad, Calling, Arriving, Serving, Returning, Ending
<1>3. /\ link' \in [{"A", "B"} -> Seq(Nat)]
      /\ link'["A"] = <<>> /\ link'["B"] = link["B"]
  BY ReadsA DEF Inv, ShapeOK, start
<1>. QED
  BY <1>1, <1>2, <1>3, Zenon

LEMMA StartShape ==
  ASSUME Inv, server' = server, myPlatform' = myPlatform, link' \in [{"A", "B"} -> Seq(Nat)],
         DOMAIN cpu' = DOMAIN cpu, Area(myMemory'),
         cpu'.pc # "boot" => Poked(myMemory, Len(Pokes))' /\ Coded(myMemory, Len(BootFile.code))'
  PROVE  ShapeOK'
  BY DEF Inv, ShapeOK, Area

LEMMA StartLoads ==
  ASSUME Loading, server' = server, link'["A"] = <<>>, link'["B"] = link["B"],
         cpu'.call = cpu.call, cpu'.out = cpu.out,
         \/ cpu'.pc = "boot" /\ (Poking' \/ Coding')
         \/ cpu'.pc = "load" /\ Loads(RestStart)' /\ Len(cpu'.in) < Len(BootFile.rest)
  PROVE  Loading'
  BY Zenon DEF Loading

-----------------------------------------------------------------------------
LEMMA PokingStep ==
  ASSUME Inv, start, Poking
  PROVE  Inv'
<1>. DEFINE in == Append(cpu.in, link["A"][1])
            P == Len(Pokes)
            l == Len(in)
            k == Len(cpu.in)
<1>1. /\ Loading /\ cpu.pc = "boot" /\ link["A"] # <<>>
      /\ link' \in [{"A", "B"} -> Seq(Nat)] /\ link'["A"] = <<>> /\ link'["B"] = link["B"]
      /\ server' = server /\ myPlatform' = myPlatform
      /\ BootPoke(in) \/ BootCode(in)
  BY StartDoes, Zenon
<1>2. PICK i \in Nat :
        /\ i < Len(Pokes) /\ Poked(myMemory, i)
        /\ Loads(9 * i) /\ Len(cpu.in) < 9
  BY Zenon DEF Poking
<1>. DEFINE poke == Pokes[i + 1]
            p == Poke(poke)
            n == 9 * i
<1>0. Transit(BootBytes, n, cpu.in, link["A"], server.out) /\ k < 9
  BY <1>2, Zenon DEF Loads
<1>. HIDE DEF n
<1>3. Transit(BootBytes, n, in, <<>>, server.out) /\ l = k + 1
  <2>1. link["A"] # <<>>
    BY <1>1, Zenon
  <2>. QED
    BY <1>0, <2>1, TransitTake, Zenon
<1>4. i + 1 \in 1 .. P /\ P \in Nat /\ poke \in PokeType
  <2>1. P \in Nat
    BY BootFileIs
  <2>2. i + 1 \in 1 .. P
    BY <1>2, <2>1
  <2>3. \A j \in 1 .. P : Pokes[j] \in PokeType
    BY BootFileIs, Zenon DEF PokeType
  <2>. QED
    BY <2>1, <2>2, <2>3, Zenon
<1>5. p \in Seq(Nat) /\ Len(p) = 9 /\ p[1] = 0
  BY <1>4, PokeIs, Zenon
<1>6. At(BootBytes, n, p)
  BY <1>2, BootBytesIs, Zenon DEF n
<1>7. in \in Seq(Nat) /\ l \in 1 .. 9
  <2>1. in \in Seq(Nat) /\ k \in Nat
    BY <1>0, <1>3, TransitTypes, Zenon
  <2>. HIDE DEF in, l, k
  <2>. QED
    BY <1>0, <1>3, <2>1
<1>. HIDE DEF in, p, poke, P
<1>8. \A j \in 1 .. Len(in) : j \in 1 .. Len(p) => in[j] = p[j]
  <2>1. At(BootBytes, n, in)
    BY <1>3, Zenon DEF Transit
  <2>. QED
    BY <1>6, <2>1, Zenon DEF At
<1>9. in[1] = 0
  <2>1. 1 \in 1 .. Len(in) /\ 1 \in 1 .. Len(p)
    BY <1>5, <1>7, SMTT(30) DEF l
  <2>. QED
    BY <1>5, <1>8, <2>1, Zenon
<1>10. BootPoke(in)
  <2>1. ~(in[1] > 1)
    BY <1>9
  <2>. QED
    BY <1>1, <2>1, Zenon DEF BootCode
<1>11. DOMAIN cpu = {"pc", "out", "in", "call", "result", "calls"} /\ Area(myMemory)
  BY DEF Inv, ShapeOK, Area
<1>. HIDE DEF k, l
<1>12. CASE l = 9
  <2>1. in = p
    <3>1. Len(in) = Len(p)
      BY <1>5, <1>12 DEF l
    <3>2. \A j \in 1 .. Len(in) : in[j] = p[j]
      BY <1>8, <3>1, Zenon
    <3>. QED
      BY <1>5, <1>7, <3>1, <3>2, SeqEqual, Zenon
  <2>2. readWord(in, 2) = poke.addr /\ SubSeq(in, 6, 9) = poke.word
    BY <1>4, <1>7, <2>1, WordRead, Zenon DEF p, readWord
  <2>3. myMemory' = setWord(readWord(in, 2), SubSeq(in, 6, 9)) /\ cpu' = [cpu EXCEPT !.in = <<>>]
    BY <1>10, <1>12, Zenon DEF BootPoke, l
  <2>4. myMemory' = setWord(Pokes[i + 1].addr, Pokes[i + 1].word)
    BY <2>2, <2>3, Zenon DEF poke
  <2>5. Area(myMemory') /\ Poked(myMemory', i + 1)
    BY <1>2, <1>11, <2>4, PokeMakes, Zenon
  <2>6. /\ cpu'.in = <<>> /\ cpu'.call = cpu.call /\ cpu'.out = cpu.out /\ cpu'.pc = cpu.pc
        /\ DOMAIN cpu' = DOMAIN cpu
    BY <1>11, <2>3
  <2>7. ShapeOK'
    BY <1>1, <2>5, <2>6, StartShape, Zenon
  <2>8. Loads(n + 9)'
    <3>1. Transit(BootBytes, n + 9, <<>>, <<>>, server.out)
      BY <1>3, <1>12, TransitDrop, Zenon DEF l
    <3>. QED
      BY <1>1, <2>6, <3>1, Zenon DEF Loads
  <2>9. Len(cpu'.in) = 0
    BY <2>6, Nothing, Zenon
  <2>10. CASE i + 1 < P
    <3>1. n + 9 = 9 * (i + 1) /\ i + 1 \in Nat
      BY DEF n
    <3>2. Loads(9 * (i + 1))' /\ Poked(myMemory, i + 1)' /\ Len(cpu.in)' < 9
      <4>1. 0 < 9
        OBVIOUS
      <4>. QED
        BY <2>5, <2>8, <2>9, <3>1, <4>1, Zenon DEF Poked, Loads
    <3>3. Poking'
      BY <2>10, <3>1, <3>2, Zenon DEF Poking, P
    <3>4. Loading'
      BY <1>1, <2>6, <3>3, StartLoads, Zenon
    <3>. QED
      BY <2>7, <3>4, Zenon DEF Inv, Protocol
  <2>11. CASE ~(i + 1 < P)
    <3>1. i + 1 = P /\ n + 9 = 9 * P
      BY <1>2, <1>4, <2>11 DEF P, n
    <3>2. Loads(CodeStart)' /\ Poked(myMemory, Len(Pokes))'
      BY <2>5, <2>8, <3>1, Zenon DEF CodeStart, P, Poked, Loads
    <3>3. Coded(myMemory, Len(cpu.in) - 1)' /\ Len(cpu'.in) <= Len(BootFile.code)
      <4>1. Len(cpu'.in) - 1 = -1 /\ 1 .. -1 = {}
        BY <2>9
      <4>2. 0 <= Len(BootFile.code)
        BY BootFileIs, SMTT(30)
      <4>. QED
        BY <2>9, <4>1, <4>2, Zenon DEF Coded
    <3>4. Coding'
      BY <3>2, <3>3, Zenon DEF Coding
    <3>5. Loading'
      BY <1>1, <2>6, <3>4, StartLoads, Zenon
    <3>. QED
      BY <2>7, <3>5, Zenon DEF Inv, Protocol
  <2>. QED
    BY <2>10, <2>11
<1>13. CASE l # 9
  <2>1. cpu' = [cpu EXCEPT !.in = in] /\ myMemory' = myMemory
    BY <1>10, <1>13, Zenon DEF BootPoke, l
  <2>2. /\ cpu'.in = in /\ cpu'.call = cpu.call /\ cpu'.out = cpu.out /\ cpu'.pc = cpu.pc
        /\ DOMAIN cpu' = DOMAIN cpu
    BY <1>11, <2>1
  <2>3. ShapeOK'
    BY <1>1, <1>11, <2>1, <2>2, StartShape, Zenon
  <2>4. Loads(9 * i)' /\ Poked(myMemory, i)'
    BY <1>1, <1>2, <1>3, <2>1, <2>2, Zenon DEF Loads, Poked, n
  <2>5. Len(cpu'.in) < 9
    <3>1. l < 9
      BY <1>7, <1>13
    <3>. QED
      BY <2>2, <3>1, Zenon DEF l
  <2>6. Poking'
    BY <1>2, <2>4, <2>5, Zenon DEF Poking
  <2>7. Loading'
    BY <1>1, <2>2, <2>6, StartLoads, Zenon
  <2>. QED
    BY <2>3, <2>7, Zenon DEF Inv, Protocol
<1>. QED
  BY <1>12, <1>13

LEMMA CodingStep ==
  ASSUME Inv, start, Coding
  PROVE  Inv'
<1>. DEFINE in == Append(cpu.in, link["A"][1])
            code == BootFile.code
            l == Len(in)
            k == Len(cpu.in)
            C == Len(code)
<1>1. /\ Loading /\ cpu.pc = "boot" /\ link["A"] # <<>>
      /\ link' \in [{"A", "B"} -> Seq(Nat)] /\ link'["A"] = <<>> /\ link'["B"] = link["B"]
      /\ server' = server /\ myPlatform' = myPlatform
      /\ BootPoke(in) \/ BootCode(in)
  BY StartDoes, Zenon
<1>2. /\ Poked(myMemory, Len(Pokes)) /\ Coded(myMemory, Len(cpu.in) - 1)
      /\ Loads(CodeStart) /\ k <= C
  BY Zenon DEF Coding
<1>0. Transit(BootBytes, CodeStart, cpu.in, link["A"], server.out)
  BY <1>2, Zenon DEF Loads
<1>3. Transit(BootBytes, CodeStart, in, <<>>, server.out) /\ l = k + 1
  <2>1. link["A"] # <<>>
    BY <1>1, Zenon
  <2>. QED
    BY <1>0, <2>1, TransitTake, Zenon
<1>4. code \in Seq(Nat) /\ C \in 2 .. 255 /\ BootBytes[CodeStart + 1] = C /\ At(BootBytes, CodeStart + 1, code)
  BY BootFileIs, BootBytesIs, Zenon
<1>5. in \in Seq(Nat) /\ l \in 1 .. C + 1 /\ k = l - 1
  <2>1. in \in Seq(Nat) /\ k \in Nat /\ k <= C /\ C \in 2 .. 255
    BY <1>0, <1>2, <1>3, <1>4, TransitTypes, Zenon
  <2>. HIDE DEF in, l, k, C
  <2>. QED
    BY <1>3, <2>1
<1>. HIDE DEF in, C, l
<1>6. \A j \in 1 .. l : in[j] = BootBytes[CodeStart + j]
  BY <1>3, Zenon DEF Transit, At, l
<1>7. in[1] = C
  <2>1. 1 \in 1 .. l
    BY <1>5
  <2>. QED
    BY <1>4, <1>6, <2>1, Zenon
<1>8. BootCode(in)
  <2>1. in[1] # 0
    BY <1>4, <1>7
  <2>. QED
    BY <1>1, <2>1, Zenon DEF BootPoke
<1>9. /\ myMemory' = IF l > 1 THEN [myMemory EXCEPT ![MemStart + l - 2] = in[l]] ELSE myMemory
      /\ cpu' = IF l = 1 + C THEN [cpu EXCEPT !.in = <<>>, !.pc = "load"] ELSE [cpu EXCEPT !.in = in]
  BY <1>7, <1>8, Zenon DEF BootCode, l
<1>. HIDE DEF code, k
<1>10. DOMAIN cpu = {"pc", "out", "in", "call", "result", "calls"} /\ Area(myMemory)
  BY DEF Inv, ShapeOK, Area
<1>11. Area(myMemory') /\ Poked(myMemory', Len(Pokes)) /\ Coded(myMemory', l - 1)
  <2>1. CASE l > 1
    <3>. DEFINE n == l - 1
    <3>1. n \in 1 .. C /\ k - 1 = n - 1 /\ l \in 1 .. l /\ CodeStart + l = (CodeStart + 1) + n
      <4>1. CodeStart \in Nat
        BY <1>3, TransitTypes, Zenon
      <4>. QED
        BY <1>4, <1>5, <2>1, <4>1
    <3>2. in[l] = code[n]
      BY <1>4, <1>6, <3>1, Zenon DEF At, C
    <3>3. MemStart + l - 2 = MemStart + n - 1
      <4>1. MemStart \in Nat
        BY BootFileIs
      <4>. QED
        BY <1>5, <4>1
    <3>. HIDE DEF n
    <3>4. myMemory' = [myMemory EXCEPT ![MemStart + n - 1] = BootFile.code[n]]
      BY <1>9, <2>1, <3>2, <3>3, Zenon DEF code
    <3>5. n \in 1 .. Len(BootFile.code) /\ Coded(myMemory, n - 1)
      BY <1>2, <3>1, Zenon DEF C, code, k
    <3>6. Area(myMemory') /\ Poked(myMemory', Len(Pokes)) /\ Coded(myMemory', n)
      BY <1>2, <1>10, <3>4, <3>5, CodeStores, Zenon
    <3>. QED
      BY <3>6 DEF n
  <2>2. CASE ~(l > 1)
    <3>1. l - 1 = 0 /\ 1 .. 0 = {}
      BY <1>4, <1>5, <2>2
    <3>2. myMemory' = myMemory
      BY <1>9, <2>2, Zenon
    <3>. QED
      BY <1>2, <1>10, <3>1, <3>2, Zenon DEF Coded
  <2>. QED
    BY <2>1, <2>2
<1>12. CASE l = 1 + C
  <2>1. /\ cpu'.in = <<>> /\ cpu'.pc = "load" /\ cpu'.call = cpu.call /\ cpu'.out = cpu.out
        /\ DOMAIN cpu' = DOMAIN cpu
    BY <1>9, <1>10, <1>12
  <2>2. l - 1 = C
    BY <1>4, <1>12
  <2>3. Poked(myMemory, Len(Pokes))' /\ Coded(myMemory, Len(BootFile.code))'
    BY <1>11, <2>2, Zenon DEF Poked, Coded, C, code
  <2>4. ShapeOK'
    BY <1>1, <1>11, <2>1, <2>3, StartShape, Zenon
  <2>5. CodeStart + l = RestStart
    <3>1. CodeStart \in Nat
      BY <1>3, TransitTypes, Zenon
    <3>2. CodeStart + 1 + C = CodeStart + (1 + C)
      BY <1>4, <3>1
    <3>. QED
      BY <1>12, <3>2, Zenon DEF RestStart, C, code
  <2>6. Loads(RestStart)'
    <3>1. Transit(BootBytes, CodeStart + l, <<>>, <<>>, server.out)
      BY <1>3, TransitDrop, Zenon DEF l
    <3>. QED
      BY <1>1, <2>1, <2>5, <3>1, Zenon DEF Loads
  <2>7. Len(cpu'.in) < Len(BootFile.rest)
    <3>1. Len(cpu'.in) = 0
      BY <2>1, Nothing, Zenon
    <3>2. 0 < Len(BootFile.rest)
      BY BootFileIs, SMTT(60)
    <3>. QED
      BY <3>1, <3>2, Zenon
  <2>8. Loading'
    BY <1>1, <2>1, <2>6, <2>7, StartLoads, Zenon
  <2>. QED
    BY <2>4, <2>8, Zenon DEF Inv, Protocol
<1>13. CASE l # 1 + C
  <2>1. /\ cpu'.in = in /\ cpu'.pc = cpu.pc /\ cpu'.call = cpu.call /\ cpu'.out = cpu.out
        /\ DOMAIN cpu' = DOMAIN cpu
    BY <1>9, <1>10, <1>13
  <2>2. ShapeOK'
    BY <1>1, <1>11, <2>1, StartShape, Zenon
  <2>3. l <= C
    BY <1>4, <1>5, <1>13
  <2>4. /\ Poked(myMemory, Len(Pokes))' /\ Coded(myMemory, Len(cpu.in) - 1)'
        /\ Loads(CodeStart)' /\ Len(cpu'.in) <= Len(BootFile.code)
    BY <1>1, <1>3, <1>11, <2>1, <2>3, Zenon DEF Poked, Coded, Loads, C, code, l
  <2>5. Coding'
    BY <2>4, Zenon DEF Coding
  <2>6. Loading'
    BY <1>1, <2>1, <2>5, StartLoads, Zenon
  <2>. QED
    BY <2>2, <2>6, Zenon DEF Inv, Protocol
<1>. QED
  BY <1>12, <1>13

LEMMA StartStep ==
  ASSUME Inv, start
  PROVE  Inv'
<1>1. Loading /\ cpu.pc = "boot"
  BY StartDoes, Zenon
<1>2. Poking \/ Coding
  BY <1>1 DEF Loading
<1>. QED
  BY <1>2, PokingStep, CodingStep

-----------------------------------------------------------------------------
LEMMA InitInv == ASSUME Init PROVE Inv
<1>1. /\ link = [e \in {"A", "B"} |-> <<>>]
      /\ server = [pc |-> "sendFile", out |-> BootBytes, in |-> <<>>, exitCode |-> 0, exit |-> FALSE]
      /\ cpu = [pc |-> "boot", out |-> <<>>, in |-> <<>>, call |-> NoCall, result |-> NoAnswer, calls |-> 0]
      /\ myMemory = [a \in 0 .. MemEnd |-> 0]
      /\ myPlatform = ConstructPlatform(InitialDisk)
  BY DEF Init
<1>2. link \in [{"A", "B"} -> Seq(Nat)] /\ link["A"] = <<>> /\ link["B"] = <<>>
  <2>1. <<>> \in Seq(Nat)
    OBVIOUS
  <2>. QED
    BY <1>1, <2>1
<1>3. /\ DOMAIN server = {"pc", "out", "in", "exitCode", "exit"}
      /\ server.pc = "sendFile" /\ server.out = BootBytes /\ server.in = <<>>
  BY <1>1
<1>4. /\ DOMAIN cpu = {"pc", "out", "in", "call", "result", "calls"}
      /\ cpu.pc = "boot" /\ cpu.out = <<>> /\ cpu.in = <<>> /\ cpu.call = NoCall
  BY <1>1
<1>5. DOMAIN myMemory = 0 .. MemEnd
  BY <1>1
<1>6. PlatformOK(myPlatform)
  BY <1>1, PlatformInit, Zenon
<1>7. ShapeOK
  BY <1>2, <1>3, <1>4, <1>5, <1>6 DEF ShapeOK
<1>8. BootBytes \in Seq(Nat) /\ Len(BootBytes) = RestStart + Len(BootFile.rest)
  BY BootBytesIs, Zenon
<1>9. BootBytes # <<>>
  <2>. DEFINE P == Len(Pokes)
             C == Len(BootFile.code)
             R == Len(BootFile.rest)
  <2>1. RestStart + R > 0
    <3>1. P \in Nat /\ C \in 2 .. 255 /\ R \in Nat \ {0}
      BY BootFileIs, Zenon
    <3>2. RestStart = 9 * P + 1 + C
      BY DEF RestStart, CodeStart
    <3>. HIDE DEF P, C, R
    <3>. QED
      BY <3>1, <3>2
  <2>2. Len(<<>>) = 0
    OBVIOUS
  <2>3. Len(BootBytes) # 0
    <3>1. Len(BootBytes) = RestStart + R
      BY <1>8
    <3>. QED
      BY <2>1, <3>1
  <2>. QED
    BY <2>2, <2>3, Zenon
<1>10. Loads(0)
  BY <1>2, <1>3, <1>4, <1>8, TransitStart, Zenon DEF Loads
<1>11. Poked(myMemory, 0)
  <2>1. 1 .. 0 = {}
    OBVIOUS
  <2>. QED
    BY <2>1, Zenon DEF Poked
<1>12. Len(cpu.in) = 0
  BY <1>4, Nothing, Zenon
<1>13. CASE Len(Pokes) > 0
  <2>1. 0 \in Nat /\ 0 < Len(Pokes) /\ 9 * 0 = 0 /\ 0 < 9
    BY <1>13, BootFileIs, SMTT(30)
  <2>2. Poking
    BY <1>10, <1>11, <1>12, <2>1, Zenon DEF Poking
  <2>. QED
    BY <1>2, <1>3, <1>4, <1>7, <1>9, <2>2, Zenon DEF Inv, Protocol, Loading
<1>14. CASE ~(Len(Pokes) > 0)
  <2>1. Len(Pokes) = 0 /\ 0 <= Len(BootFile.code)
    <3>1. Len(Pokes) \in Nat /\ Len(BootFile.code) \in 2 .. 255
      BY BootFileIs, Zenon
    <3>. QED
      BY <1>14, <3>1, SMTT(30)
  <2>2. CodeStart = 0
    BY <2>1 DEF CodeStart
  <2>3. Coded(myMemory, Len(cpu.in) - 1)
    <3>1. Len(cpu.in) - 1 = -1 /\ 1 .. -1 = {}
      BY <1>12
    <3>. QED
      BY <3>1, Zenon DEF Coded
  <2>4. Coding
    BY <1>10, <1>11, <1>12, <2>1, <2>2, <2>3, Zenon DEF Coding
  <2>. QED
    BY <1>2, <1>3, <1>4, <1>7, <1>9, <2>4, Zenon DEF Inv, Protocol, Loading
<1>. QED
  BY <1>13, <1>14

LEMMA StutterInv == ASSUME Inv, UNCHANGED vars PROVE Inv'
<1>1. link' = link /\ server' = server /\ myPlatform' = myPlatform /\ cpu' = cpu /\ myMemory' = myMemory
  BY DEF vars
<1>2. ShapeOK => ShapeOK'
  BY <1>1 DEF ShapeOK, Poked, Coded
<1>3. /\ (Waiting => Waiting') /\ (Quiet => Quiet') /\ (Fresh => Fresh')
      /\ Refusing => Refusing'
  BY <1>1, Zenon DEF Waiting, Quiet, Fresh, Refusing
<1>4. /\ Poking => Poking'
      /\ Coding => Coding'
      /\ Loads(RestStart) => Loads(RestStart)'
  BY <1>1, Zenon DEF Poking, Coding, Loads, Poked, Coded
<1>5. Loading => Loading'
  BY <1>1, <1>4, Zenon DEF Loading
<1>6. ASSUME NEW m, Sent(m) PROVE Sent(m)'
  BY <1>1, <1>3, <1>6, Zenon DEF Sent
<1>7. Running => Running'
  BY <1>1, <1>3, Zenon DEF Running
<1>8. SendingBad => SendingBad'
  BY <1>1, <1>3, <1>6, Zenon DEF SendingBad
<1>9. Calling => Calling'
  <2>1. Sent(Frame(cpu.call)) => Sent(Frame(cpu.call))'
    BY <1>1, <1>3, Zenon DEF Sent
  <2>. QED
    BY <1>1, <1>3, <2>1, Zenon DEF Calling
<1>10. Arriving => Arriving'
  BY <1>1, <1>3, Zenon DEF Arriving
<1>11. Serving => Serving'
  BY <1>1, <1>3, Zenon DEF Serving
<1>12. Returning => Returning'
  BY <1>1, Zenon DEF Returning
<1>13. Ending => Ending'
  BY <1>1, <1>3, Zenon DEF Ending
<1>. QED
  BY <1>2, <1>5, <1>7, <1>8, <1>9, <1>10, <1>11, <1>12, <1>13, Zenon DEF Inv, Protocol

(* The invariant is inductive.                                             *)
LEMMA Inductive == Spec => []Inv
<1>1. Init => Inv
  BY InitInv
<1>2. Inv /\ [Next]_vars => Inv'
  <2>. SUFFICES ASSUME Inv, [Next]_vars PROVE Inv'
    OBVIOUS
  <2>1. CASE sendFileOverLink
    BY <2>1, SendFileStep
  <2>2. CASE readFrame
    BY <2>2, ReadFrameStep
  <2>3. CASE RequestResponse
    BY <2>3, RequestResponseStep
  <2>4. CASE writeFrame
    BY <2>4, WriteFrameStep
  <2>5. CASE join
    BY <2>5, JoinStep
  <2>6. CASE start
    BY <2>6, StartStep
  <2>7. CASE Load
    BY <2>7, LoadStep
  <2>8. ASSUME NEW r \in Request, Call(r) PROVE Inv'
    BY <2>8, CallStep
  <2>9. ASSUME NEW size \in BadSize, SendBadSize(size) PROVE Inv'
    BY <2>9, SendBadSizeStep
  <2>10. CASE Send
    BY <2>10, SendStep
  <2>11. CASE Receive
    BY <2>11, ReceiveStep
  <2>12. CASE terminate
    BY <2>12, TerminateStep
  <2>13. CASE UNCHANGED vars
    BY <2>13, StutterInv
  <2>. QED
    BY <2>1, <2>2, <2>3, <2>4, <2>5, <2>6, <2>7, <2>8, <2>9, <2>10, <2>11, <2>12, <2>13, Zenon DEF Next, Main, Cpu
<1>. QED
  BY <1>1, <1>2, PTL DEF Spec

-----------------------------------------------------------------------------
(* The streams agree with the host's files: a stream's file exists, its    *)
(* position is in it, it has failed only at its end, what was last done is *)
(* what its mode allows, and no file is open in two streams.               *)
THEOREM StreamsCorrect == Spec => []StreamsOK
<1>1. Inv => StreamsOK
  <2>. SUFFICES ASSUME Inv, NEW id \in FileStreams PROVE
           LET s == myPlatform.myFiles[id]
           IN /\ s.name \in DOMAIN myPlatform.disk
              /\ s.pos <= Len(myPlatform.disk[s.name])
              /\ s.bad => s.pos = Len(myPlatform.disk[s.name])
              /\ s.lastIOOperation = "IO_READ" => "in" \in s.mode
              /\ s.lastIOOperation = "IO_WRITE" => "out" \in s.mode
              /\ \A other \in FileStreams \ {id} : myPlatform.myFiles[other].name # s.name
    BY Zenon DEF StreamsOK
  <2>1. FileStreams = Files(myPlatform.myFiles)
    BY Zenon DEF FileStreams, Files
  <2>2. Agrees(myPlatform.myFiles[id], myPlatform.disk)
    BY <2>1, Zenon DEF Inv, ShapeOK, PlatformOK
  <2>3. \A other \in FileStreams \ {id} : myPlatform.myFiles[other].name # myPlatform.myFiles[id].name
    BY <2>1, Zenon DEF Inv, ShapeOK, PlatformOK
  <2>. QED
    BY <2>2, <2>3, Zenon DEF Agrees
<1>. QED
  BY <1>1, Inductive, PTL

(* Once the boot has taken its part of the boot file, what is on its way   *)
(* is the rest of it.                                                      *)
LEMMA RestLeft ==
  ASSUME NEW in, NEW byte, NEW out, Transit(BootBytes, RestStart, in, byte, out)
  PROVE  in \o byte \o out = BootFile.rest
<1>. DEFINE rest == BootFile.rest
            n == RestStart
            front == in \o byte
            s == front \o out
<1>1. /\ in \in Seq(Nat) /\ byte \in Seq(Nat) /\ out \in Seq(Nat) /\ n \in Nat
      /\ n + Len(in) + Len(byte) + Len(out) = Len(BootBytes)
      /\ At(BootBytes, n, in) /\ At(BootBytes, n + Len(in), byte)
      /\ At(BootBytes, n + Len(in) + Len(byte), out)
  BY Zenon DEF Transit
<1>2. rest \in Seq(Nat) /\ Len(BootBytes) = n + Len(rest) /\ At(BootBytes, n, rest)
  BY BootFileIs, BootBytesIs, Zenon
<1>3. Joins(front, in, byte)
  BY <1>1, Joined, Zenon
<1>. HIDE DEF n, front, rest
<1>4. front \in Seq(Nat) /\ Len(front) = Len(in) + Len(byte)
  BY <1>3, Zenon DEF Joins
<1>5. Joins(s, front, out)
  BY <1>1, <1>4, Joined, Zenon
<1>. HIDE DEF s
<1>6. s \in Seq(Nat) /\ Len(s) = Len(front) + Len(out)
  BY <1>5, Zenon DEF Joins
<1>7. Len(in) \in Nat /\ Len(byte) \in Nat /\ Len(out) \in Nat /\ Len(rest) \in Nat /\ Len(front) \in Nat
  BY <1>1, <1>2, <1>4
<1>8. Len(s) = Len(rest)
  BY <1>1, <1>2, <1>4, <1>6, <1>7
<1>9. ASSUME NEW i \in 1 .. Len(in) PROVE front[i] = BootBytes[n + i]
  BY <1>1, <1>3, Zenon DEF Joins, At
<1>10. ASSUME NEW i \in 1 .. Len(byte) PROVE front[Len(in) + i] = BootBytes[n + (Len(in) + i)]
  <2>1. (n + Len(in)) + i = n + (Len(in) + i)
    BY <1>1, <1>7
  <2>. QED
    BY <1>1, <1>3, <2>1, Zenon DEF Joins, At
<1>11. ASSUME NEW i \in 1 .. Len(front) PROVE front[i] = BootBytes[n + i]
  <2>1. CASE i \in 1 .. Len(in)
    BY <1>9, <2>1
  <2>2. CASE i \notin 1 .. Len(in)
    <3>. DEFINE j == i - Len(in)
    <3>1. j \in 1 .. Len(byte) /\ Len(in) + j = i
      BY <1>4, <1>7, <2>2
    <3>. HIDE DEF j
    <3>. QED
      BY <1>10, <3>1
  <2>. QED
    BY <2>1, <2>2
<1>12. ASSUME NEW i \in 1 .. Len(out) PROVE s[Len(front) + i] = BootBytes[n + (Len(front) + i)]
  <2>1. (n + Len(in) + Len(byte)) + i = n + (Len(front) + i)
    BY <1>1, <1>4, <1>7
  <2>. QED
    BY <1>1, <1>5, <2>1, Zenon DEF Joins, At
<1>13. ASSUME NEW i \in 1 .. Len(s) PROVE s[i] = rest[i]
  <2>1. s[i] = BootBytes[n + i]
    <3>1. CASE i \in 1 .. Len(front)
      BY <1>5, <1>11, <3>1, Zenon DEF Joins
    <3>2. CASE i \notin 1 .. Len(front)
      <4>. DEFINE j == i - Len(front)
      <4>1. j \in 1 .. Len(out) /\ Len(front) + j = i
        BY <1>6, <1>7, <3>2
      <4>. HIDE DEF j
      <4>. QED
        BY <1>12, <4>1
    <3>. QED
      BY <3>1, <3>2
  <2>2. i \in 1 .. Len(rest)
    BY <1>8
  <2>. QED
    BY <1>2, <2>1, <2>2, Zenon DEF At
<1>14. s = rest
  BY <1>2, <1>6, <1>8, <1>13, SeqEqual, Zenon
<1>. QED
  BY <1>14 DEF s, front, rest

(* The boot code and the pokes are in memory before the program starts,    *)
(* and the program gets the rest of the boot file and nothing else.        *)
THEOREM BootLoads == Spec => []LoadsWhole
<1>1. Inv => LoadsWhole
  <2>. SUFFICES ASSUME Inv PROVE LoadsWhole
    OBVIOUS
  <2>1. ASSUME cpu.pc # "boot"
        PROVE  /\ \A i \in DOMAIN BootFile.code : myMemory[MemStart + i - 1] = BootFile.code[i]
               /\ \A i \in DOMAIN BootFile.pokes, k \in 1 .. 4 :
                    BootFile.pokes[i].addr <= MemEnd =>
                      myMemory[BootFile.pokes[i].addr + k - 1] = BootFile.pokes[i].word[k]
    <3>1. Poked(myMemory, Len(Pokes)) /\ Coded(myMemory, Len(BootFile.code))
      BY <2>1, Zenon DEF Inv, ShapeOK
    <3>2. DOMAIN Pokes = 1 .. Len(Pokes) /\ DOMAIN BootFile.code = 1 .. Len(BootFile.code)
      BY BootFileIs, SMTT(30)
    <3>. QED
      BY <3>1, <3>2, Zenon DEF Poked, Coded, Pokes
  <2>2. ASSUME cpu.pc = "load" PROVE cpu.in \o link["A"] \o server.out = BootFile.rest
    <3>1. Loading
      BY <2>2 DEF Inv, Protocol, Running, SendingBad, Calling, Arriving, Serving, Returning, Ending
    <3>2. Loads(RestStart)
      BY <2>2, <3>1 DEF Loading
    <3>. QED
      BY <3>2, RestLeft, Zenon DEF Loads
  <2>3. ASSUME cpu.pc \notin {"boot", "load"} PROVE server.pc # "sendFile"
    BY <2>3 DEF Inv, Protocol, Loading, Waiting, Running, SendingBad, Calling, Arriving, Serving, Returning, Ending
  <2>. QED
    BY <2>1, <2>2, <2>3, Zenon DEF LoadsWhole
<1>. QED
  BY <1>1, Inductive, PTL

-----------------------------------------------------------------------------
(* The answers as the program understands them.  An answer that is put is  *)
(* in its frame from the third place on.                                   *)
Holds(f, put) == f \in Seq(Nat) /\ Len(put) + 2 <= Len(f) /\ \A i \in 1 .. Len(put) : f[2 + i] = put[i]

LEMMA FillHolds == ASSUME NEW put \in Seq(Nat) PROVE Holds(fillInFrameSize(put), put)
<1>. DEFINE padded == IF Len(put) % 2 = 1 THEN Append(put, 0) ELSE put
            f == fillInFrameSize(put)
            n == Put16(Len(padded))
<1>1. /\ padded \in Seq(Nat) /\ Len(padded) \in Nat /\ Len(put) \in Nat /\ Len(put) <= Len(padded)
      /\ \A i \in 1 .. Len(put) : padded[i] = put[i]
  <2>1. CASE Len(put) % 2 = 1
    <3>1. 0 \in Nat
      OBVIOUS
    <3>2. /\ Append(put, 0) \in Seq(Nat) /\ Len(Append(put, 0)) = Len(put) + 1
          /\ \A i \in 1 .. Len(put) : Append(put, 0)[i] = put[i]
      BY <3>1, AppendProperties
    <3>. QED
      BY <2>1, <3>2
  <2>2. CASE Len(put) % 2 # 1
    BY <2>2
  <2>. QED
    BY <2>1, <2>2
<1>2. f = n \o padded
  BY Zenon DEF fillInFrameSize
<1>. HIDE DEF padded
<1>3. n \in Seq(Nat) /\ Len(n) = 2
  BY <1>1, Put16Is
<1>. HIDE DEF n, f
<1>4. Joins(f, n, padded)
  BY <1>1, <1>2, <1>3, Joined, Zenon
<1>5. f \in Seq(Nat) /\ Len(f) = 2 + Len(padded)
  BY <1>3, <1>4 DEF Joins
<1>6. ASSUME NEW i \in 1 .. Len(put) PROVE f[2 + i] = put[i]
  <2>1. i \in 1 .. Len(padded)
    BY <1>1
  <2>. QED
    BY <1>1, <1>3, <1>4, <2>1, Zenon DEF Joins
<1>7. Holds(f, put)
  BY <1>1, <1>5, <1>6 DEF Holds
<1>. QED
  BY <1>7 DEF f

LEMMA CaughtPuts ==
  ASSUME NEW p, NEW ex
  PROVE  LET put == Caught(p, ex).put
         IN put \in Seq(Nat) /\ put # <<>> /\ put[1] # RES_SUCCESS /\ Caught(p, ex).p = p
<1>. DEFINE r == ResultOf(ex)
            rest == Put16(0)
<1>1. r \in Nat /\ r # RES_SUCCESS
  BY DEF ResultOf, RES_NOPOSN, RES_BADID, RES_SUCCESS
<1>2. rest \in Seq(Nat) /\ 0 \in Nat
  BY Put16Is
<1>3. Caught(p, ex).put = TagBody(r, rest) /\ Caught(p, ex).p = p
  BY DEF Caught, Answer, TagBody
<1>. HIDE DEF r, rest
<1>4. TagBodyOK(TagBody(r, rest), r, rest)
  BY <1>1, <1>2, TagBodyIs
<1>. DEFINE put == TagBody(r, rest)
<1>. HIDE DEF put
<1>5. put \in Seq(Nat) /\ Len(put) = 1 + Len(rest) /\ put[1] = r /\ Len(rest) \in Nat
  BY <1>2, <1>4 DEF TagBodyOK, put
<1>6. put # <<>>
  BY <1>5
<1>. QED
  BY <1>1, <1>3, <1>5, <1>6 DEF put

LEMMA OpenAnswer ==
  ASSUME NEW id \in Nat, NEW f, Holds(f, <<RES_SUCCESS>> \o Put32(id)), NEW call, call.tag = "Open"
  PROVE  Understand(call, f) = [result |-> RES_SUCCESS, value |-> <<id>>]
<1>. DEFINE w == Put32(id)
            put == <<RES_SUCCESS>> \o w
<1>1. w \in Seq(Nat) /\ Len(w) = 4 /\ Get32(w, 1) = id
  BY Put32Is
<1>2. RES_SUCCESS \in Nat /\ put = TagBody(RES_SUCCESS, w)
  BY Results DEF TagBody
<1>. HIDE DEF w
<1>3. TagBodyOK(put, RES_SUCCESS, w)
  BY <1>1, <1>2, TagBodyIs
<1>. HIDE DEF put
<1>4. /\ Len(put) = 5 /\ put[1] = RES_SUCCESS
      /\ put[1 + 1] = w[1] /\ put[1 + 2] = w[2] /\ put[1 + 3] = w[3] /\ put[1 + 4] = w[4]
  BY <1>1, <1>3 DEF TagBodyOK
<1>5. \A i \in 1 .. Len(put) : f[2 + i] = put[i]
  BY DEF Holds, put, w
<1>6. f[2 + 1] = put[1] /\ f[2 + 2] = put[2] /\ f[2 + 3] = put[3] /\ f[2 + 4] = put[4] /\ f[2 + 5] = put[5]
  BY <1>4, <1>5
<1>7. Get32(f, 4) = Get32(w, 1)
  BY <1>4, <1>6 DEF Get32, Get16
<1>. QED
  BY <1>1, <1>4, <1>6, <1>7 DEF Understand

LEMMA ReadAnswer ==
  ASSUME NEW data \in Seq(Nat), NEW f, Holds(f, <<RES_SUCCESS>> \o Put16(Len(data)) \o data), NEW call, call.tag = "Read"
  PROVE  Understand(call, f) = [result |-> RES_SUCCESS, value |-> data]
<1>. DEFINE str == Str(data)
            put == <<RES_SUCCESS>> \o Put16(Len(data)) \o data
<1>1. /\ str \in Seq(Nat) /\ Len(data) \in Nat /\ Len(str) = 2 + Len(data) /\ Get16(str, 1) = Len(data)
      /\ \A i \in 1 .. Len(data) : str[2 + i] = data[i]
  BY StrIs
<1>2. RES_SUCCESS \in Nat /\ put = TagBody(RES_SUCCESS, str)
  <2>1. Put16(Len(data)) \in Seq(Nat)
    BY <1>1, Put16Is
  <2>2. RES_SUCCESS \in Nat /\ <<RES_SUCCESS>> \in Seq(Nat)
    BY Results
  <2>. DEFINE a == <<RES_SUCCESS>>
              b == Put16(Len(data))
  <2>. HIDE DEF a, b
  <2>3. (a \o b) \o data = a \o (b \o data)
    <3>1. a \in Seq(Nat) /\ b \in Seq(Nat)
      BY <2>1, <2>2 DEF a, b
    <3>. QED
      BY <3>1, ConcatAssociative, SMTT(30)
  <2>. QED
    BY <2>2, <2>3 DEF TagBody, Str, a, b
<1>. HIDE DEF str
<1>3. TagBodyOK(put, RES_SUCCESS, str)
  BY <1>1, <1>2, TagBodyIs
<1>. HIDE DEF put
<1>4. /\ Len(put) = 3 + Len(data) /\ put[1] = RES_SUCCESS
      /\ put[1 + 1] = str[1] /\ put[1 + 2] = str[2] /\ put \in Seq(Nat)
  BY <1>1, <1>3 DEF TagBodyOK
<1>5. f \in Seq(Nat) /\ Len(put) + 2 <= Len(f) /\ \A i \in 1 .. Len(put) : f[2 + i] = put[i]
  BY DEF Holds, put
<1>6. f[2 + 1] = put[1] /\ f[2 + 2] = put[2] /\ f[2 + 3] = put[3]
  <2>1. 1 \in 1 .. Len(put) /\ 2 \in 1 .. Len(put) /\ 3 \in 1 .. Len(put)
    BY <1>1, <1>4
  <2>. QED
    BY <1>5, <2>1, Zenon
<1>7. Get16(f, 4) = Len(data)
  BY <1>1, <1>4, <1>6, SMTT(30) DEF Get16
<1>8. At(f, 5, data) /\ 5 + Len(data) <= Len(f)
  <2>1. ASSUME NEW i \in 1 .. Len(data) PROVE f[5 + i] = data[i]
    <3>1. 2 + i \in 1 .. Len(str) /\ 3 + i \in 1 .. Len(put) /\ 1 + (2 + i) = 3 + i /\ 2 + (3 + i) = 5 + i
      BY <1>1, <1>4
    <3>2. put[1 + (2 + i)] = str[2 + i]
      BY <1>3, <3>1 DEF TagBodyOK
    <3>. QED
      BY <1>1, <1>5, <3>1, <3>2, Zenon
  <2>. QED
    BY <1>1, <1>4, <1>5, <2>1 DEF At
<1>9. SubSeq(f, 5 + 1, 5 + Len(data)) = data /\ 5 + 1 = 6
  BY <1>5, <1>8, Slice, 5 \in Nat
<1>10. f[3] = RES_SUCCESS
  BY <1>4, <1>6
<1>11. Understand(call, f) = [result |-> f[3], value |-> SubSeq(f, 6, 5 + Get16(f, 4))]
  BY <1>10 DEF Understand
<1>. QED
  BY <1>7, <1>9, <1>10, <1>11, Zenon

LEMMA WriteAnswer ==
  ASSUME NEW n \in Nat, NEW f, Holds(f, <<RES_SUCCESS>> \o Put16(n)), NEW call, call.tag = "Write"
  PROVE  Understand(call, f) = [result |-> RES_SUCCESS, value |-> <<n>>]
<1>. DEFINE w == Put16(n)
            put == <<RES_SUCCESS>> \o w
<1>1. w \in Seq(Nat) /\ Len(w) = 2 /\ Get16(w, 1) = n
  BY Put16Is
<1>2. RES_SUCCESS \in Nat /\ put = TagBody(RES_SUCCESS, w)
  BY Results DEF TagBody
<1>. HIDE DEF w
<1>3. TagBodyOK(put, RES_SUCCESS, w)
  BY <1>1, <1>2, TagBodyIs
<1>. HIDE DEF put
<1>4. /\ Len(put) = 3 /\ put[1] = RES_SUCCESS
      /\ put[1 + 1] = w[1] /\ put[1 + 2] = w[2]
  BY <1>1, <1>3 DEF TagBodyOK
<1>5. \A i \in 1 .. Len(put) : f[2 + i] = put[i]
  BY DEF Holds, put, w
<1>6. f[2 + 1] = put[1] /\ f[2 + 2] = put[2] /\ f[2 + 3] = put[3]
  BY <1>4, <1>5
<1>7. Get16(f, 4) = Get16(w, 1)
  BY <1>4, <1>6 DEF Get16
<1>. QED
  BY <1>1, <1>4, <1>6, <1>7 DEF Understand

(* Any other answer has a result and nothing more.                         *)
LEMMA PlainAnswer ==
  ASSUME NEW put \in Seq(Nat), put # <<>>, NEW f, Holds(f, put), NEW call,
         call.tag \notin {"Open", "Read", "Write"} \/ put[1] # RES_SUCCESS
  PROVE  Understand(call, f) = [result |-> put[1], value |-> <<>>] /\ put[1] \in Nat
<1>1. 1 \in 1 .. Len(put) /\ put[1] \in Nat
  OBVIOUS
<1>2. f[2 + 1] = put[1]
  BY <1>1 DEF Holds
<1>. QED
  BY <1>1, <1>2 DEF Understand

-----------------------------------------------------------------------------
(* What a read that is not refused does: t is the stream s after it.       *)
Reads(s, old, size, data, t) ==
  /\ t \in Stream /\ t.name = s.name /\ t.mode = s.mode /\ t.lastIOOperation = "IO_READ"
  /\ t.bad <=> s.bad \/ Len(data) # size
  /\ s.name # nullptr =>
       /\ t.pos = s.pos + Len(data)
       /\ data = SubSeq(old, s.pos + 1, s.pos + Len(data))
       /\ Len(data) = IF s.pos + size <= Len(old) THEN size ELSE Len(old) - s.pos

LEMMA ReadDoes ==
  ASSUME NEW p, PlatformOK(p), NEW id, NEW size \in Nat, NEW o \in readStream(p, id, size),
         Refusal(p, id, "in", "IO_WRITE") = "none"
  PROVE  LET s == p.myFiles[id]
         IN /\ o.ex = "none"
            /\ \E t : /\ o.p = [myFiles |-> [p.myFiles EXCEPT ![id] = t], disk |-> p.disk]
                      /\ Reads(s, p.disk[s.name], size, o.data, t)
<1>1. PICK data \in Readable(p, id, size) : o.p = StreamRead(p, id, size, data) /\ o.ex = "none" /\ o.data = data
  BY DEF readStream
<1>. DEFINE s == p.myFiles[id]
            old == p.disk[s.name]
            t == [s EXCEPT !.pos = IF s.name = nullptr THEN 0 ELSE @ + Len(data),
                           !.bad = @ \/ Len(data) # size,
                           !.lastIOOperation = "IO_READ"]
<1>2. /\ id \in StreamId /\ s # nullptr /\ s \in Stream /\ "in" \in s.mode
      /\ s.name # nullptr => id \in Files(p.myFiles)
  BY Accepted
<1>3. /\ p.myFiles \in [StreamId -> Stream \cup {nullptr}]
      /\ p = [myFiles |-> p.myFiles, disk |-> p.disk]
  BY DEF PlatformOK, PlatformType
<1>4. o.p = [myFiles |-> [p.myFiles EXCEPT ![id] = t], disk |-> p.disk]
  <2>1. [p EXCEPT !.myFiles[id].pos = IF s.name = nullptr THEN 0 ELSE @ + Len(data),
                  !.myFiles[id].bad = @ \/ Len(data) # size,
                  !.myFiles[id].lastIOOperation = "IO_READ"]
          = [p EXCEPT !.myFiles = [p.myFiles EXCEPT ![id] = t]]
    BY <1>2, <1>3, ZenonT(60)
  <2>. HIDE DEF t
  <2>2. [p EXCEPT !.myFiles = [p.myFiles EXCEPT ![id] = t]] = [myFiles |-> [p.myFiles EXCEPT ![id] = t], disk |-> p.disk]
    BY <1>3
  <2>. QED
    BY <1>1, <2>1, <2>2 DEF StreamRead
<1>5. s.name # nullptr => old \in Seq(Nat) /\ s.pos \in 0 .. Len(old)
  BY <1>2, FileName DEF Agrees, Stream
<1>6. ASSUME s.name # nullptr
      PROVE  /\ Len(data) = (IF s.pos + size <= Len(old) THEN size ELSE Len(old) - s.pos)
             /\ data = SubSeq(old, s.pos + 1, s.pos + Len(data))
  <2>. DEFINE end == IF s.pos + size <= Len(old) THEN s.pos + size ELSE Len(old)
  <2>1. data = SubSeq(old, s.pos + 1, end)
    <3>1. Min({s.pos + size, Len(old)}) = end
      <4>. HIDE DEF s, old
      <4>1. s.pos + size \in Nat /\ Len(old) \in Nat
        BY <1>5, <1>6
      <4>. QED
        BY <4>1, Lesser
    <3>2. data \in {SubSeq(old, s.pos + 1, Min({s.pos + size, Len(old)}))}
      BY <1>1, <1>6 DEF Readable
    <3>. QED
      BY <3>1, <3>2
  <2>. HIDE DEF s, old
  <2>2. end \in Nat /\ end >= s.pos /\ end <= Len(old)
        /\ end - s.pos = IF s.pos + size <= Len(old) THEN size ELSE Len(old) - s.pos
    BY <1>5, <1>6
  <2>. HIDE DEF end
  <2>3. Len(data) = end - s.pos
    BY <1>5, <1>6, <2>1, <2>2, SMTT(30)
  <2>4. s.pos + Len(data) = end
    BY <1>5, <1>6, <2>2, <2>3
  <2>. QED
    BY <2>1, <2>2, <2>3, <2>4, Zenon
<1>7. /\ t \in Stream /\ t.name = s.name /\ t.mode = s.mode
      /\ t.bad <=> s.bad \/ Len(data) # size
      /\ t.lastIOOperation = "IO_READ"
      /\ s.name # nullptr => t.pos = s.pos + Len(data)
  <2>. DEFINE pos == IF s.name = nullptr THEN 0 ELSE s.pos + Len(data)
              bad == s.bad \/ Len(data) # size
  <2>. HIDE DEF s, old
  <2>1. pos \in Nat /\ bad \in BOOLEAN
    <3>1. s.name # nullptr => Len(data) \in Nat
      BY <1>5, <1>6
    <3>. QED
      BY <1>2, <3>1 DEF Stream
  <2>2. t = [s EXCEPT !.pos = pos, !.bad = bad, !.lastIOOperation = "IO_READ"]
    OBVIOUS
  <2>3. /\ s.name # nullptr => pos = s.pos + Len(data)
        /\ bad <=> s.bad \/ Len(data) # size
    OBVIOUS
  <2>. HIDE DEF pos, bad, t
  <2>. QED
    BY <1>2, <2>1, <2>2, <2>3 DEF Stream, Operation
<1>. HIDE DEF t, s, old
<1>8. Reads(s, old, size, data, t)
  BY <1>6, <1>7, Zenon DEF Reads
<1>. QED
  BY <1>1, <1>4, <1>8, Zenon DEF s, old

(* What a write of part at pos makes of a file.                            *)
Over(old, pos, part) == SubSeq(old, 1, pos) \o part \o SubSeq(old, pos + Len(part) + 1, Len(old))

Writes(s, old, part, t) ==
  /\ t \in Stream /\ t.name = s.name /\ t.mode = s.mode /\ t.lastIOOperation = "IO_WRITE" /\ t.bad = s.bad
  /\ s.name # nullptr => t.pos = WritesAt(s, old) + Len(part)

LEMMA WriteDoes ==
  ASSUME NEW p, PlatformOK(p), NEW id, NEW data \in Seq(Nat), NEW o \in writeStream(p, id, data),
         Refusal(p, id, "out", "IO_READ") = "none"
  PROVE  LET s == p.myFiles[id]
             old == p.disk[s.name]
         IN /\ o.ex = "none" /\ o.written \in 0 .. Len(data)
            /\ \E t : LET part == SubSeq(data, 1, o.written)
                      IN /\ o.p = [myFiles |-> [p.myFiles EXCEPT ![id] = t],
                                   disk |-> IF s.name = nullptr THEN p.disk
                                            ELSE OnDisk(p.disk, s.name, Over(old, WritesAt(s, old), part))]
                         /\ Writes(s, old, part, t)
<1>1. PICK n \in 0 .. Len(data) : o.p = StreamWrite(p, id, SubSeq(data, 1, n)) /\ o.ex = "none" /\ o.written = n
  BY DEF writeStream
<1>. DEFINE part == SubSeq(data, 1, n)
            s == p.myFiles[id]
            old == p.disk[s.name]
            at == WritesAt(s, old)
            t == [s EXCEPT !.pos = IF s.name = nullptr THEN 0 ELSE at + Len(part),
                           !.lastIOOperation = "IO_WRITE"]
<1>2. id \in StreamId /\ s # nullptr /\ s \in Stream
  BY Accepted
<1>3. p.myFiles \in [StreamId -> Stream \cup {nullptr}]
  BY DEF PlatformOK, PlatformType
<1>4. o.p = [myFiles |-> [p.myFiles EXCEPT ![id] = t],
             disk |-> IF s.name = nullptr THEN p.disk ELSE OnDisk(p.disk, s.name, Over(old, at, part))]
  BY <1>1, <1>2, <1>3 DEF StreamWrite, Over
<1>5. Len(part) \in Nat /\ (s.name # nullptr => at \in Nat)
  <2>1. s.name # nullptr => old \in Seq(Nat) /\ s.pos \in Nat
    BY <1>2, FileName DEF Files, Stream
  <2>2. Len(part) \in Nat
    OBVIOUS
  <2>. HIDE DEF s, old
  <2>. QED
    BY <2>1, <2>2 DEF WritesAt
<1>. HIDE DEF at
<1>6. /\ t \in Stream /\ t.name = s.name /\ t.mode = s.mode /\ t.bad = s.bad
      /\ t.lastIOOperation = "IO_WRITE"
      /\ s.name # nullptr => t.pos = at + Len(part)
  <2>. DEFINE pos == IF s.name = nullptr THEN 0 ELSE at + Len(part)
  <2>. HIDE DEF s, part
  <2>1. pos \in Nat
    BY <1>2, <1>5 DEF Stream
  <2>2. t = [s EXCEPT !.pos = pos, !.lastIOOperation = "IO_WRITE"]
    OBVIOUS
  <2>3. s.name # nullptr => pos = at + Len(part)
    OBVIOUS
  <2>. HIDE DEF pos, t
  <2>. QED
    BY <1>2, <2>1, <2>2, <2>3 DEF Stream, Operation
<1>. HIDE DEF t, s, part, old
<1>7. Writes(s, old, part, t)
  BY <1>6, Zenon DEF Writes, at
<1>. QED
  BY <1>1, <1>4, <1>7, Zenon DEF s, part, old, at

-----------------------------------------------------------------------------
(* The open files of a platform as the program knows them.                 *)
HandleOf(s) == [name |-> s.name, mode |-> s.mode, pos |-> s.pos, used |-> Used(s)]
HandlesOf(p) == [id \in Files(p.myFiles) |-> HandleOf(p.myFiles[id])]

LEMMA StreamIs == ASSUME NEW s \in Stream, s.name # nullptr PROVE s # nullptr
<1>1. s.name \in Seq(Nat) /\ s = [name |-> s.name, mode |-> s.mode, pos |-> s.pos, bad |-> s.bad, lastIOOperation |-> s.lastIOOperation]
  BY DEF Stream
<1>2. s \in [name : Seq(Nat), mode : SUBSET Flag, pos : Nat, bad : BOOLEAN,
             lastIOOperation : {"IO_NONE", "IO_READ", "IO_WRITE"}]
  BY <1>1 DEF Stream, Operation
<1>. QED
  BY <1>2, NullptrAssumption

(* A stream of the console or of a file stays one when it is used.         *)
LEMMA Moves ==
  ASSUME NEW p, PlatformOK(p), NEW id \in StreamId, p.myFiles[id] # nullptr,
         NEW t \in Stream, t.name = p.myFiles[id].name, t.mode = p.myFiles[id].mode,
         NEW q, q.myFiles = [p.myFiles EXCEPT ![id] = t]
  PROVE  /\ Files(q.myFiles) = Files(p.myFiles)
         /\ id \notin Files(p.myFiles) => HandlesOf(q) = HandlesOf(p)
         /\ HandlesOf(q) = [HandlesOf(p) EXCEPT ![id] = [name |-> @.name, mode |-> @.mode,
                                                         pos |-> t.pos, used |-> Used(t)]]
         /\ \A i \in Files(p.myFiles) \ {id} : q.myFiles[i] = p.myFiles[i]
         /\ q.myFiles[id] = t
<1>. DEFINE s == p.myFiles[id]
<1>1. /\ p.myFiles \in [StreamId -> Stream \cup {nullptr}]
      /\ q.myFiles[id] = t /\ \A i \in StreamId \ {id} : q.myFiles[i] = p.myFiles[i]
  BY DEF PlatformOK, PlatformType
<1>2. t.name # nullptr => t # nullptr
  BY StreamIs
<1>3. Files(q.myFiles) = Files(p.myFiles)
  <2>1. ASSUME NEW i \in StreamId PROVE i \in Files(q.myFiles) <=> i \in Files(p.myFiles)
    <3>1. CASE i = id
      BY <1>1, <1>2, <3>1 DEF Files
    <3>2. CASE i # id
      BY <1>1, <3>2 DEF Files
    <3>. QED
      BY <3>1, <3>2
  <2>2. Files(q.myFiles) \subseteq StreamId /\ Files(p.myFiles) \subseteq StreamId
    BY DEF Files
  <2>. QED
    BY <2>1, <2>2
<1>0. Files(p.myFiles) \subseteq StreamId
  BY DEF Files
<1>4. ASSUME NEW i \in Files(p.myFiles), i # id PROVE HandleOf(q.myFiles[i]) = HandleOf(p.myFiles[i])
  BY <1>0, <1>1, <1>4
<1>. DEFINE h == HandlesOf(p)
            k == HandlesOf(q)
            now == [name |-> h[id].name, mode |-> h[id].mode, pos |-> t.pos, used |-> Used(t)]
<1>6. /\ DOMAIN h = Files(p.myFiles) /\ \A i \in Files(p.myFiles) : h[i] = HandleOf(p.myFiles[i])
      /\ DOMAIN k = Files(p.myFiles) /\ \A i \in Files(p.myFiles) : k[i] = HandleOf(q.myFiles[i])
      /\ h = [i \in Files(p.myFiles) |-> h[i]] /\ k = [i \in Files(p.myFiles) |-> k[i]]
  BY <1>3, Zenon DEF HandlesOf
<1>5. ASSUME id \in Files(p.myFiles) PROVE k[id] = now
  <2>1. k[id] = HandleOf(t) /\ h[id] = HandleOf(s)
    BY <1>1, <1>5, <1>6, Zenon
  <2>. HIDE DEF h, k, s
  <2>2. h[id].name = s.name /\ h[id].mode = s.mode
    BY <2>1 DEF HandleOf
  <2>3. t.name = s.name /\ t.mode = s.mode
    BY DEF s
  <2>. QED
    BY <2>1, <2>2, <2>3, Zenon DEF HandleOf
<1>. HIDE DEF h, k, now
<1>7. ASSUME id \notin Files(p.myFiles) PROVE k = h
  <2>1. \A i \in Files(p.myFiles) : k[i] = h[i]
    BY <1>4, <1>6, <1>7
  <2>. QED
    BY <1>6, <2>1
<1>8. k = [h EXCEPT ![id] = now]
  <2>1. CASE id \notin Files(p.myFiles)
    BY <1>6, <1>7, <2>1
  <2>2. CASE id \in Files(p.myFiles)
    <3>2. \A i \in Files(p.myFiles) : i # id => k[i] = h[i]
      BY <1>4, <1>6
    <3>. QED
      BY <1>5, <1>6, <2>2, <3>2
  <2>. QED
    BY <2>1, <2>2
<1>9. [h EXCEPT ![id] = now] = [h EXCEPT ![id] = [name |-> @.name, mode |-> @.mode, pos |-> t.pos, used |-> Used(t)]]
  BY DEF now
<1>10. /\ \A i \in Files(p.myFiles) \ {id} : q.myFiles[i] = p.myFiles[i]
       /\ q.myFiles[id] = t
  BY <1>0, <1>1
<1>. QED
  BY <1>3, <1>7, <1>8, <1>9, <1>10 DEF h, k

(* What the program can tell of a handle.                                  *)
LEMMA HandleIs ==
  ASSUME NEW p, NEW id \in Files(p.myFiles)
  PROVE  LET s == p.myFiles[id]
         IN /\ id \in DOMAIN HandlesOf(p) /\ HandlesOf(p)[id].name = s.name /\ HandlesOf(p)[id].pos = s.pos
            /\ HandlesOf(p)[id].mode = s.mode /\ HandlesOf(p)[id].used = Used(s)
<1>. DEFINE s == p.myFiles[id]
<1>1. HandlesOf(p)[id] = HandleOf(s) /\ DOMAIN HandlesOf(p) = Files(p.myFiles)
  BY Zenon DEF HandlesOf
<1>. HIDE DEF s
<1>2. HandleOf(s).name = s.name /\ HandleOf(s).pos = s.pos /\ HandleOf(s).mode = s.mode /\ HandleOf(s).used = Used(s)
  BY DEF HandleOf
<1>. QED
  BY <1>1, <1>2 DEF s

LEMMA UsedIs ==
  ASSUME NEW s, s.lastIOOperation \in Operation
  PROVE  /\ s.lastIOOperation = "IO_READ" <=> Used(s) = "read"
         /\ s.lastIOOperation = "IO_WRITE" <=> Used(s) = "write"
         /\ s.lastIOOperation = "IO_NONE" <=> Used(s) = "none"
  BY DEF Used, Operation

(* The direction is one that the handle may be used in exactly when the    *)
(* stream is not refused.                                                  *)
LEMMA MayUse ==
  ASSUME NEW p, PlatformOK(p), NEW id \in Files(p.myFiles)
  PROVE  LET h == HandlesOf(p)[id]
         IN /\ Refusal(p, id, "in", "IO_WRITE") = "none" <=> "in" \in h.mode /\ h.used # "write"
            /\ Refusal(p, id, "out", "IO_READ") = "none" <=> "out" \in h.mode /\ h.used # "read"
<1>. DEFINE s == p.myFiles[id]
<1>1. id \in StreamId /\ s \in Stream /\ s # nullptr
  BY FileName DEF Files
<1>2. s.lastIOOperation \in Operation
  BY <1>1 DEF Stream
<1>3. /\ Refusal(p, id, "in", "IO_WRITE") = "none" <=> "in" \in s.mode /\ s.lastIOOperation # "IO_WRITE"
      /\ Refusal(p, id, "out", "IO_READ") = "none" <=> "out" \in s.mode /\ s.lastIOOperation # "IO_READ"
  BY <1>1 DEF Refusal
<1>4. HandlesOf(p)[id].mode = s.mode /\ HandlesOf(p)[id].used = Used(s)
  BY HandleIs
<1>. HIDE DEF s
<1>. QED
  BY <1>2, <1>3, <1>4, UsedIs

-----------------------------------------------------------------------------
(* What opening and closing do to the handles.                             *)
WithHandle(p, id, handle) ==
  [h \in DOMAIN HandlesOf(p) \cup {id} |-> IF h = id THEN handle ELSE HandlesOf(p)[h]]
NewHandle(name, mode, content) ==
  [name |-> name, mode |-> mode, pos |-> IF "ate" \in mode THEN Len(content) ELSE 0, used |-> "none"]

OpenedAt(p, q, id, name, mode) ==
  /\ id \in StreamId /\ id >= 2 /\ id \notin Files(p.myFiles)
  /\ Files(q.myFiles) = Files(p.myFiles) \cup {id}
  /\ HandlesOf(q) = WithHandle(p, id, NewHandle(name, mode, Opened(p.disk, name, mode)))
  /\ q.disk = OnDisk(p.disk, name, Opened(p.disk, name, mode))
  /\ CanOpen(p.disk, name, mode)

LEMMA OpenDoes ==
  ASSUME NEW p, PlatformOK(p), NEW name \in Seq(Nat), NEW mode \in SUBSET Flag,
         NEW o \in openFileStream(p, name, mode)
  PROVE  IF o.ex = "none" THEN OpenedAt(p, o.p, o.id, name, mode) ELSE o.p = p
<1>. DEFINE free == {id \in StreamId : id >= 2 /\ p.myFiles[id] = nullptr}
            id == Min(free)
            content == Opened(p.disk, name, mode)
            disk == OnDisk(p.disk, name, content)
            s == FileStream(name, mode, content)
<1>1. CASE free = {} \/ ~CanOpen(p.disk, name, mode)
  BY <1>1 DEF openFileStream
<1>2. CASE free # {} /\ CanOpen(p.disk, name, mode)
  <2>1. /\ o.p = [myFiles |-> [p.myFiles EXCEPT ![id] = s], disk |-> disk]
        /\ o.ex = "none" /\ o.id = id
    <3>1. openFileStream(p, name, mode) =
            {[p |-> [myFiles |-> [p.myFiles EXCEPT ![id] = s], disk |-> disk], ex |-> "none", id |-> id]}
      BY <1>2, Zenon DEF openFileStream
    <3>. HIDE DEF id, s, disk
    <3>. QED
      BY <3>1
  <2>2. id \in StreamId /\ id >= 2 /\ p.myFiles[id] = nullptr
    <3>1. free \subseteq Nat
      BY DEF StreamId
    <3>2. id \in free
      BY <1>2, <3>1, Least
    <3>. HIDE DEF id
    <3>. QED
      BY <3>2
  <2>3. /\ s \in Stream /\ s.name = name /\ s.mode = mode /\ s.lastIOOperation = "IO_NONE"
        /\ s.pos = (IF "ate" \in mode THEN Len(content) ELSE 0)
    <3>1. content \in Seq(Nat)
      BY OpenedIs DEF PlatformOK, PlatformType
    <3>. HIDE DEF content
    <3>2. JustOpened(s, name, mode, content)
      BY <3>1, FileStreamIs, Zenon
    <3>. HIDE DEF s
    <3>. QED
      BY <3>2 DEF JustOpened
  <2>4. name # nullptr
    BY NullptrAssumption
  <2>5. s # nullptr
    BY <2>3, <2>4, StreamIs
  <2>. HIDE DEF content
  <2>6. HandleOf(s) = NewHandle(name, mode, content)
    <3>1. Used(s) = "none"
      BY <2>3 DEF Used
    <3>. HIDE DEF s
    <3>. QED
      BY <2>3, <3>1, Zenon DEF HandleOf, NewHandle
  <2>. DEFINE files == [p.myFiles EXCEPT ![id] = s]
  <2>. HIDE DEF s, disk, id, free
  <2>7. p.myFiles \in [StreamId -> Stream \cup {nullptr}]
    BY DEF PlatformOK, PlatformType
  <2>8. files[id] = s /\ \A i \in StreamId \ {id} : files[i] = p.myFiles[i]
    BY <2>2, <2>7
  <2>. HIDE DEF files
  <2>9. id \notin Files(p.myFiles) /\ Files(p.myFiles) \subseteq StreamId
    BY <2>2 DEF Files
  <2>10. Files(files) = Files(p.myFiles) \cup {id}
    BY <2>2, <2>3, <2>4, <2>5, <2>8 DEF Files
  <2>11. o.p.myFiles = files /\ o.p.disk = disk
    BY <2>1 DEF files
  <2>. DEFINE h == HandlesOf(p)
              k == HandlesOf(o.p)
  <2>12. /\ DOMAIN h = Files(p.myFiles) /\ \A i \in Files(p.myFiles) : h[i] = HandleOf(p.myFiles[i])
         /\ k = [i \in Files(p.myFiles) \cup {id} |-> HandleOf(files[i])]
    BY <2>10, <2>11, Zenon DEF HandlesOf
  <2>. HIDE DEF h, k
  <2>13. \A i \in Files(p.myFiles) : i # id /\ HandleOf(files[i]) = h[i]
    BY <2>8, <2>9, <2>12
  <2>14. HandleOf(files[id]) = NewHandle(name, mode, content)
    BY <2>6, <2>8
  <2>15. k = [i \in DOMAIN h \cup {id} |-> IF i = id THEN NewHandle(name, mode, content) ELSE h[i]]
    BY <2>12, <2>13, <2>14
  <2>16. k = WithHandle(p, id, NewHandle(name, mode, content))
    BY <2>15, Zenon DEF WithHandle, h
  <2>. QED
    BY <1>2, <2>1, <2>2, <2>9, <2>10, <2>11, <2>16, Zenon DEF OpenedAt, disk, content, k
<1>. QED
  BY <1>1, <1>2

Closed(p, id) == [h \in DOMAIN HandlesOf(p) \ {id} |-> HandlesOf(p)[h]]
LEMMA CloseDoes ==
  ASSUME NEW p, PlatformOK(p), NEW id, NEW o \in closeStream(p, id)
  PROVE  /\ o.p.disk = p.disk /\ Files(o.p.myFiles) = Files(p.myFiles) \ {id}
         /\ HandlesOf(o.p) = Closed(p, id)
         /\ id \notin Files(p.myFiles) => HandlesOf(o.p) = HandlesOf(p)
<1>1. Files(p.myFiles) \subseteq StreamId
  BY DEF Files
<1>. DEFINE h == HandlesOf(p)
            k == HandlesOf(o.p)
<1>2. /\ DOMAIN h = Files(p.myFiles) /\ \A i \in Files(p.myFiles) : h[i] = HandleOf(p.myFiles[i])
      /\ h = [i \in Files(p.myFiles) |-> h[i]]
      /\ k = [i \in Files(o.p.myFiles) |-> HandleOf(o.p.myFiles[i])]
  BY Zenon DEF HandlesOf
<1>. HIDE DEF h, k
<1>3. /\ o.p.disk = p.disk /\ Files(o.p.myFiles) = Files(p.myFiles) \ {id}
      /\ \A i \in Files(p.myFiles) \ {id} : o.p.myFiles[i] = p.myFiles[i]
  <2>1. CASE id \notin StreamId \/ p.myFiles[id] = nullptr
    <3>1. o.p = p
      BY <2>1 DEF closeStream
    <3>2. id \notin Files(p.myFiles)
      BY <2>1 DEF Files
    <3>. QED
      BY <3>1, <3>2
  <2>2. CASE id \in StreamId /\ p.myFiles[id] # nullptr
    <3>1. p = [myFiles |-> p.myFiles, disk |-> p.disk] /\ p.myFiles \in [StreamId -> Stream \cup {nullptr}]
      BY DEF PlatformOK, PlatformType
    <3>2. o.p = [myFiles |-> [p.myFiles EXCEPT ![id] = nullptr], disk |-> p.disk]
      BY <2>2, <3>1 DEF closeStream
    <3>. DEFINE files == [p.myFiles EXCEPT ![id] = nullptr]
    <3>3. files[id] = nullptr /\ \A i \in StreamId \ {id} : files[i] = p.myFiles[i]
      BY <2>2, <3>1
    <3>4. o.p.myFiles = files /\ o.p.disk = p.disk
      BY <3>2
    <3>. HIDE DEF files
    <3>5. Files(files) = Files(p.myFiles) \ {id}
      BY <2>2, <3>3 DEF Files
    <3>. QED
      BY <1>1, <3>3, <3>4, <3>5
  <2>. QED
    BY <2>1, <2>2
<1>4. \A i \in Files(p.myFiles) \ {id} : HandleOf(o.p.myFiles[i]) = h[i]
  BY <1>2, <1>3
<1>5. k = [i \in DOMAIN h \ {id} |-> h[i]]
  BY <1>2, <1>3, <1>4
<1>6. id \notin Files(p.myFiles) => k = h
  BY <1>2, <1>5
<1>. QED
  BY <1>3, <1>5, <1>6, Zenon DEF Closed, h, k

-----------------------------------------------------------------------------
(* What using a stream does to the handles.                                *)
MovedTo(p, id, pos, used) ==
  [HandlesOf(p) EXCEPT ![id] = [name |-> @.name, mode |-> @.mode, pos |-> pos, used |-> used]]
Pos(p, id) == HandlesOf(p)[id].pos
Content(p, id) == p.disk[HandlesOf(p)[id].name]
Same(p, q) == HandlesOf(q) = HandlesOf(p) /\ q.disk = p.disk /\ Files(q.myFiles) = Files(p.myFiles)

ReadAt(p, q, id, size, data) ==
  /\ q.disk = p.disk /\ Files(q.myFiles) = Files(p.myFiles)
  /\ HandlesOf(q) = MovedTo(p, id, Pos(p, id) + Len(data), "read")
  /\ data = SubSeq(Content(p, id), Pos(p, id) + 1, Pos(p, id) + Len(data))
  /\ Len(data) = size \/ (Len(data) < size /\ Pos(p, id) + Len(data) = Len(Content(p, id)))

LEMMA ReadingDoes ==
  ASSUME NEW p, PlatformOK(p), NEW id, NEW size \in Nat, NEW o \in readStream(p, id, size)
  PROVE  IF Refusal(p, id, "in", "IO_WRITE") = "none"
         THEN /\ o.ex = "none"
              /\ id \in Files(p.myFiles) => ReadAt(p, o.p, id, size, o.data)
              /\ id \notin Files(p.myFiles) => Same(p, o.p)
         ELSE o.ex # "none" /\ o.p = p
<1>1. CASE Refusal(p, id, "in", "IO_WRITE") # "none"
  BY <1>1 DEF readStream
<1>2. CASE Refusal(p, id, "in", "IO_WRITE") = "none"
  <2>. DEFINE s == p.myFiles[id]
              old == p.disk[s.name]
              q == o.p
              data == o.data
  <2>1. o.ex = "none" /\ id \in StreamId /\ s # nullptr /\ s \in Stream
    BY <1>2, ReadDoes, Accepted
  <2>2. PICK t : /\ q = [myFiles |-> [p.myFiles EXCEPT ![id] = t], disk |-> p.disk]
                 /\ Reads(s, old, size, data, t)
    BY <1>2, ReadDoes
  <2>3. q.myFiles = [p.myFiles EXCEPT ![id] = t] /\ q.disk = p.disk
    BY <2>2
  <2>4. t \in Stream /\ t.name = s.name /\ t.mode = s.mode /\ t.lastIOOperation = "IO_READ"
    BY <2>2, Zenon DEF Reads
  <2>. HIDE DEF q, data
  <2>5. /\ Files(q.myFiles) = Files(p.myFiles)
        /\ id \notin Files(p.myFiles) => HandlesOf(q) = HandlesOf(p)
        /\ HandlesOf(q) = MovedTo(p, id, t.pos, Used(t))
    BY <2>1, <2>3, <2>4, Moves DEF MovedTo
  <2>6. Used(t) = "read"
    BY <2>4 DEF Used
  <2>7. CASE id \notin Files(p.myFiles)
    <3>1. Same(p, q)
      BY <2>3, <2>5, <2>7, Zenon DEF Same
    <3>. QED
      BY <1>2, <2>1, <2>7, <3>1 DEF q
  <2>8. CASE id \in Files(p.myFiles)
    <3>1. HandlesOf(p)[id].name = s.name /\ HandlesOf(p)[id].pos = s.pos
      BY <2>8, HandleIs
    <3>2. s.name # nullptr /\ old \in Seq(Nat) /\ s.pos \in 0 .. Len(old)
      BY <2>8, FileName DEF Agrees, Stream, Files
    <3>. HIDE DEF s
    <3>3. /\ t.pos = s.pos + Len(data)
          /\ data = SubSeq(old, s.pos + 1, s.pos + Len(data))
          /\ Len(data) = IF s.pos + size <= Len(old) THEN size ELSE Len(old) - s.pos
      BY <2>2, <3>2, Zenon DEF Reads
    <3>4. Len(old) \in Nat
      BY <3>2
    <3>. DEFINE l == Len(data)
                m == Len(old)
    <3>. HIDE DEF l, m
    <3>5. l = size \/ (l < size /\ s.pos + l = m)
      <4>1. l = (IF s.pos + size <= m THEN size ELSE m - s.pos) /\ m \in Nat /\ s.pos \in 0 .. m
        BY <3>2, <3>3, <3>4 DEF l, m
      <4>. QED
        BY <4>1
    <3>6. Pos(p, id) = s.pos /\ Content(p, id) = old
      BY <3>1 DEF Pos, Content
    <3>7. ReadAt(p, q, id, size, data)
      BY <2>3, <2>5, <2>6, <3>3, <3>5, <3>6, Zenon DEF ReadAt, l, m
    <3>. QED
      BY <1>2, <2>1, <2>8, <3>7 DEF q, data
  <2>. QED
    BY <2>7, <2>8
<1>. QED
  BY <1>1, <1>2

(* The position that a write goes to.                                      *)
WritePos(p, id) == IF "app" \in HandlesOf(p)[id].mode THEN Len(Content(p, id)) ELSE Pos(p, id)
StoredAt(p, q, id, part) ==
  /\ q.disk = [p.disk EXCEPT ![HandlesOf(p)[id].name] = Over(Content(p, id), WritePos(p, id), part)]
  /\ HandlesOf(q) = MovedTo(p, id, WritePos(p, id) + Len(part), "write")
  /\ Files(q.myFiles) = Files(p.myFiles)

LEMMA WritingDoes ==
  ASSUME NEW p, PlatformOK(p), NEW id, NEW data \in Seq(Nat), NEW o \in writeStream(p, id, data)
  PROVE  IF Refusal(p, id, "out", "IO_READ") = "none"
         THEN /\ o.ex = "none" /\ o.written \in 0 .. Len(data)
              /\ id \in Files(p.myFiles) => StoredAt(p, o.p, id, SubSeq(data, 1, o.written))
              /\ id \notin Files(p.myFiles) => Same(p, o.p)
         ELSE o.ex # "none" /\ o.p = p
<1>1. CASE Refusal(p, id, "out", "IO_READ") # "none"
  BY <1>1 DEF writeStream
<1>2. CASE Refusal(p, id, "out", "IO_READ") = "none"
  <2>. DEFINE s == p.myFiles[id]
              old == p.disk[s.name]
              at == WritesAt(s, old)
              q == o.p
              part == SubSeq(data, 1, o.written)
  <2>1. id \in StreamId /\ s # nullptr /\ s \in Stream
    BY <1>2, Accepted
  <2>0. o.ex = "none" /\ o.written \in 0 .. Len(data)
    BY <1>2, WriteDoes
  <2>2. PICK t : /\ q = [myFiles |-> [p.myFiles EXCEPT ![id] = t],
                         disk |-> IF s.name = nullptr THEN p.disk
                                  ELSE OnDisk(p.disk, s.name, Over(old, at, part))]
                 /\ Writes(s, old, part, t)
    BY <1>2, WriteDoes
  <2>3. /\ q.myFiles = [p.myFiles EXCEPT ![id] = t]
        /\ q.disk = IF s.name = nullptr THEN p.disk
                    ELSE OnDisk(p.disk, s.name, Over(old, at, part))
    BY <2>2
  <2>4. t \in Stream /\ t.name = s.name /\ t.mode = s.mode /\ t.lastIOOperation = "IO_WRITE"
    BY <2>2, Zenon DEF Writes
  <2>. HIDE DEF q, part, at
  <2>5. /\ Files(q.myFiles) = Files(p.myFiles)
        /\ id \notin Files(p.myFiles) => HandlesOf(q) = HandlesOf(p)
        /\ HandlesOf(q) = MovedTo(p, id, t.pos, Used(t))
    BY <2>1, <2>3, <2>4, Moves DEF MovedTo
  <2>6. Used(t) = "write"
    BY <2>4 DEF Used
  <2>7. CASE id \notin Files(p.myFiles)
    <3>1. s.name = nullptr
      BY <2>1, <2>7 DEF Files
    <3>2. Same(p, q)
      BY <2>3, <2>5, <2>7, <3>1, Zenon DEF Same
    <3>. QED
      BY <1>2, <2>0, <2>7, <3>2 DEF q
  <2>8. CASE id \in Files(p.myFiles)
    <3>1. /\ HandlesOf(p)[id].name = s.name /\ HandlesOf(p)[id].pos = s.pos
          /\ HandlesOf(p)[id].mode = s.mode
      BY <2>8, HandleIs
    <3>2. s.name # nullptr /\ s.name \in DOMAIN p.disk
      BY <2>8, FileName DEF Agrees, Files
    <3>3. t.pos = at + Len(part)
      BY <2>2, <3>2, Zenon DEF Writes, at
    <3>. HIDE DEF s
    <3>6. WritePos(p, id) = at /\ Content(p, id) = old
      BY <3>1 DEF WritePos, WritesAt, Pos, Content, at
    <3>. DEFINE content == Over(old, at, part)
    <3>. HIDE DEF content
    <3>7. OnDisk(p.disk, s.name, content) = [p.disk EXCEPT ![s.name] = content]
      <4>1. p.disk \in [DOMAIN p.disk -> Seq(Nat)]
        BY DEF PlatformOK, PlatformType
      <4>. QED
        BY <3>2, <4>1 DEF OnDisk
    <3>8. q.disk = [p.disk EXCEPT ![s.name] = content]
      BY <2>3, <3>2, <3>7 DEF content
    <3>9. StoredAt(p, q, id, part)
      BY <2>5, <2>6, <3>1, <3>3, <3>6, <3>8, Zenon DEF StoredAt, content
    <3>. QED
      BY <1>2, <2>0, <2>8, <3>9 DEF q, part
  <2>. QED
    BY <2>7, <2>8
<1>. QED
  BY <1>1, <1>2

-----------------------------------------------------------------------------
(* Two writes, one after the other, are one of both parts.                 *)
OverOK(u, old, pos, part) ==
  /\ u \in Seq(Nat) /\ Len(u) = IF pos + Len(part) >= Len(old) THEN pos + Len(part) ELSE Len(old)
  /\ \A i \in 1 .. Len(u) :
       u[i] = IF i <= pos THEN old[i] ELSE IF i <= pos + Len(part) THEN part[i - pos] ELSE old[i]
LEMMA OverIs ==
  ASSUME NEW old \in Seq(Nat), NEW pos \in 0 .. Len(old), NEW part \in Seq(Nat)
  PROVE  OverOK(Over(old, pos, part), old, pos, part)
<1>. DEFINE u == Over(old, pos, part)
            a == SubSeq(old, 1, pos)
            c == SubSeq(old, pos + Len(part) + 1, Len(old))
            n == pos + Len(part)
<1>1. /\ a \in Seq(Nat) /\ Len(a) = pos /\ \A i \in 1 .. pos : a[i] = old[i]
      /\ Len(part) \in Nat /\ Len(old) \in Nat
  OBVIOUS
<1>2. /\ c \in Seq(Nat) /\ Len(c) = (IF n >= Len(old) THEN 0 ELSE Len(old) - n)
      /\ \A i \in 1 .. Len(c) : c[i] = old[n + i]
  <2>1. n \in Nat /\ Len(old) \in Nat
    BY <1>1
  <2>. HIDE DEF n
  <2>2. c = SubSeq(old, n + 1, Len(old))
    BY DEF n
  <2>3. \A i \in n + 1 .. Len(old) : old[i] \in Nat
    BY <2>1
  <2>. DEFINE l == Len(old)
  <2>4. n + 1 \in Int /\ l \in Int /\ l - (n + 1) + 1 = l - n
    BY <2>1
  <2>5. /\ c \in Seq(Nat)
        /\ Len(c) = IF n + 1 <= l THEN l - (n + 1) + 1 ELSE 0
        /\ \A i \in 1 .. l - (n + 1) + 1 : c[i] = old[(n + 1) + i - 1]
    BY <2>2, <2>3, <2>4, SubSeqProperties, SMTT(30)
  <2>. HIDE DEF c, l
  <2>6. Len(c) = IF n >= l THEN 0 ELSE l - n
    <3>. DEFINE k == Len(c)
    <3>1. k = IF n + 1 <= l THEN l - (n + 1) + 1 ELSE 0
      BY <2>5
    <3>. HIDE DEF k
    <3>2. k = IF n >= l THEN 0 ELSE l - n
      BY <2>1, <2>4, <3>1
    <3>. QED
      BY <3>2 DEF k
  <2>7. ASSUME NEW i \in 1 .. Len(c) PROVE c[i] = old[n + i]
    <3>1. i \in 1 .. l - (n + 1) + 1 /\ (n + 1) + i - 1 = n + i
      BY <2>1, <2>6 DEF l
    <3>. QED
      BY <2>5, <3>1
  <2>. QED
    BY <2>5, <2>6, <2>7 DEF l
<1>3. u = (a \o part) \o c
  BY DEF Over
<1>. HIDE DEF a, c, u
<1>4. Joins(a \o part, a, part)
  BY <1>1, Joined
<1>. DEFINE b == a \o part
<1>. HIDE DEF b
<1>5. /\ b \in Seq(Nat) /\ Len(b) = n
      /\ \A i \in 1 .. Len(a) : b[i] = a[i]
      /\ \A i \in 1 .. Len(part) : b[Len(a) + i] = part[i]
  BY <1>1, <1>4 DEF Joins, b
<1>6. Joins(u, b, c)
  BY <1>2, <1>3, <1>5, Joined DEF b
<1>7. /\ u \in Seq(Nat) /\ Len(u) = n + Len(c)
      /\ \A i \in 1 .. n : u[i] = b[i]
      /\ \A i \in 1 .. Len(c) : u[n + i] = c[i]
  BY <1>5, <1>6 DEF Joins
<1>8. n \in Nat /\ pos \in Nat /\ Len(c) \in Nat
  BY <1>1, <1>2
<1>9. Len(u) = IF n >= Len(old) THEN n ELSE Len(old)
  <2>. DEFINE l == Len(old)
              k == Len(c)
  <2>1. l \in Nat /\ k = (IF n >= l THEN 0 ELSE l - n) /\ Len(u) = n + k
    BY <1>1, <1>2, <1>7
  <2>. HIDE DEF l, k, n
  <2>2. Len(u) = IF n >= l THEN n ELSE l
    BY <1>8, <2>1
  <2>. QED
    BY <2>2 DEF l
<1>10. ASSUME NEW i \in 1 .. Len(u)
       PROVE  u[i] = IF i <= pos THEN old[i] ELSE IF i <= n THEN part[i - pos] ELSE old[i]
  <2>1. CASE i <= pos
    <3>1. i \in 1 .. n /\ i \in 1 .. pos
      BY <1>1, <2>1
    <3>. QED
      BY <1>1, <1>5, <1>7, <2>1, <3>1
  <2>2. CASE i > pos /\ i <= n
    <3>. DEFINE j == i - pos
    <3>1. i \in 1 .. n /\ j \in 1 .. Len(part) /\ pos + j = i /\ ~(i <= pos)
      BY <1>1, <2>2
    <3>. HIDE DEF j
    <3>2. u[i] = part[j]
      BY <1>1, <1>5, <1>7, <3>1
    <3>. QED
      BY <2>2, <3>1, <3>2 DEF j
  <2>3. CASE i > n
    <3>. DEFINE j == i - n
    <3>1. j \in 1 .. Len(c) /\ n + j = i /\ ~(i <= pos) /\ ~(i <= n)
      BY <1>1, <1>7, <1>8, <2>3
    <3>. HIDE DEF j
    <3>2. u[i] = old[i]
      BY <1>2, <1>7, <3>1
    <3>. QED
      BY <3>1, <3>2
  <2>. QED
    BY <1>7, <1>8, <2>1, <2>2, <2>3
<1>11. OverOK(u, old, pos, part)
  BY <1>7, <1>9, <1>10 DEF OverOK
<1>. QED
  BY <1>11 DEF u

LEMMA OverOver ==
  ASSUME NEW old \in Seq(Nat), NEW pos \in 0 .. Len(old), NEW first \in Seq(Nat), NEW second \in Seq(Nat)
  PROVE  Over(Over(old, pos, first), pos + Len(first), second) = Over(old, pos, first \o second)
<1>. DEFINE m == Over(old, pos, first)
            u == Over(m, pos + Len(first), second)
            both == first \o second
            v == Over(old, pos, both)
            F == Len(first)
            S == Len(second)
            L == Len(old)
<1>1. Joins(both, first, second)
  BY Joined
<1>2. F \in Nat /\ S \in Nat /\ L \in Nat
  OBVIOUS
<1>. HIDE DEF both
<1>3. /\ both \in Seq(Nat) /\ Len(both) = F + S
      /\ \A i \in 1 .. F : both[i] = first[i]
      /\ \A i \in 1 .. S : both[F + i] = second[i]
  BY <1>1 DEF Joins
<1>4. /\ m \in Seq(Nat) /\ Len(m) = IF pos + F >= L THEN pos + F ELSE L
      /\ \A i \in 1 .. Len(m) : m[i] = IF i <= pos THEN old[i] ELSE IF i <= pos + F THEN first[i - pos] ELSE old[i]
  BY OverIs DEF OverOK
<1>. HIDE DEF m
<1>5. pos + F \in 0 .. Len(m)
  BY <1>2, <1>4
<1>12. OverOK(u, m, pos + F, second) /\ OverOK(v, old, pos, both)
  BY <1>3, <1>4, <1>5, OverIs, Zenon
<1>. HIDE DEF u, v
<1>6. /\ u \in Seq(Nat) /\ Len(u) = IF (pos + F) + S >= Len(m) THEN (pos + F) + S ELSE Len(m)
      /\ \A i \in 1 .. Len(u) : u[i] = IF i <= pos + F THEN m[i]
                                       ELSE IF i <= (pos + F) + S THEN second[i - (pos + F)] ELSE m[i]
  BY <1>12 DEF OverOK
<1>7. /\ v \in Seq(Nat) /\ Len(v) = IF pos + Len(both) >= L THEN pos + Len(both) ELSE L
      /\ \A i \in 1 .. Len(v) : v[i] = IF i <= pos THEN old[i]
                                       ELSE IF i <= pos + Len(both) THEN both[i - pos] ELSE old[i]
  BY <1>12 DEF OverOK
<1>. HIDE DEF F, S, L
<1>8. pos \in Nat
  BY <1>2 DEF L
<1>9. Len(u) = Len(v) /\ Len(u) \in Nat /\ Len(u) >= pos + F + S /\ Len(u) >= Len(m) /\ (Len(m) = L \/ Len(m) = pos + F)
  <2>. DEFINE M == Len(m)
              U == Len(u)
              V == Len(v)
              B == Len(both)
  <2>1. /\ B = F + S /\ M = (IF pos + F >= L THEN pos + F ELSE L)
        /\ U = (IF (pos + F) + S >= M THEN (pos + F) + S ELSE M)
        /\ V = (IF pos + B >= L THEN pos + B ELSE L)
    BY <1>3, <1>4, <1>6, <1>7, Zenon
  <2>. HIDE DEF M, U, V, B
  <2>2. U = V /\ U \in Nat /\ U >= pos + F + S /\ U >= M /\ (M = L \/ M = pos + F)
    BY <1>2, <1>8, <2>1
  <2>. QED
    BY <2>2 DEF M, U, V
<1>. DEFINE M == Len(m)
            B == Len(both)
<1>14. B = F + S /\ M = IF pos + F >= L THEN pos + F ELSE L
  BY <1>3, <1>4, Zenon DEF M, B
<1>13. Len(u) = IF (pos + F) + S >= M THEN (pos + F) + S ELSE M
  BY <1>6, Zenon DEF M
<1>. HIDE DEF M, B
<1>10. ASSUME NEW i \in 1 .. Len(u) PROVE u[i] = v[i]
  <2>0. i \in Nat /\ i >= 1
    BY <1>9
  <2>1. CASE i <= pos
    <3>1. i <= pos + F /\ i \in 1 .. M
      BY <1>2, <1>8, <1>14, <2>0, <2>1
    <3>. QED
      BY <1>4, <1>6, <1>7, <1>9, <2>1, <3>1 DEF M
  <2>2. CASE i > pos /\ i <= pos + F
    <3>. DEFINE j == i - pos
    <3>1. i \in 1 .. M /\ ~(i <= pos) /\ j \in 1 .. F /\ i <= pos + B
      BY <1>2, <1>8, <1>14, <2>0, <2>2
    <3>2. u[i] = first[j]
      BY <1>4, <1>6, <2>2, <3>1 DEF M
    <3>3. v[i] = both[j]
      BY <1>7, <1>9, <3>1 DEF B
    <3>. HIDE DEF j
    <3>. QED
      BY <1>3, <3>1, <3>2, <3>3
  <2>3. CASE i > pos + F /\ i <= pos + F + S
    <3>. DEFINE j == i - (pos + F)
                k == i - pos
    <3>1. j \in 1 .. S /\ k = F + j /\ ~(i <= pos) /\ ~(i <= pos + F) /\ i <= (pos + F) + S /\ i <= pos + B
      BY <1>2, <1>8, <1>14, <2>0, <2>3
    <3>2. u[i] = second[j]
      BY <1>6, <3>1
    <3>3. v[i] = both[k]
      BY <1>7, <1>9, <3>1 DEF B
    <3>. HIDE DEF j, k
    <3>. QED
      BY <1>3, <3>1, <3>2, <3>3
  <2>4. CASE i > pos + F + S
    <3>1. /\ ~(i <= pos) /\ ~(i <= pos + F) /\ ~(i <= (pos + F) + S) /\ ~(i <= pos + B)
          /\ i \in 1 .. M
      BY <1>2, <1>8, <1>14, <1>13, <2>0, <2>4
    <3>. QED
      BY <1>4, <1>6, <1>7, <1>9, <3>1 DEF M, B
  <2>. QED
    BY <1>2, <1>8, <2>0, <2>1, <2>2, <2>3, <2>4
<1>11. u = v
  BY <1>6, <1>7, <1>9, <1>10, SeqEqual, Zenon
<1>. QED
  BY <1>11 DEF u, v, m, both, F

-----------------------------------------------------------------------------
LEMMA StoredTwice ==
  ASSUME NEW p, PlatformOK(p), NEW q, PlatformOK(q), NEW r, NEW id \in Files(p.myFiles),
         NEW first \in Seq(Nat), NEW second \in Seq(Nat),
         StoredAt(p, q, id, first), StoredAt(q, r, id, second)
  PROVE  StoredAt(p, r, id, first \o second)
<1>. DEFINE h == HandlesOf(p)
            name == h[id].name
            old == p.disk[name]
            app == "app" \in h[id].mode
            pos == IF app THEN Len(old) ELSE h[id].pos
            both == first \o second
            F == Len(first)
            S == Len(second)
            m == Over(old, pos, first)
<1>1. /\ name = p.myFiles[id].name /\ h[id].pos = p.myFiles[id].pos
      /\ id \in DOMAIN h
  BY HandleIs
<1>2. /\ name \in DOMAIN p.disk /\ old \in Seq(Nat) /\ pos \in 0 .. Len(old)
      /\ app => pos = Len(old)
  <2>1. /\ p.myFiles[id] \in Stream /\ Agrees(p.myFiles[id], p.disk)
        /\ p.disk[p.myFiles[id].name] \in Seq(Nat)
    BY FileName
  <2>2. p.myFiles[id].pos \in Nat
    BY <2>1 DEF Stream
  <2>. QED
    BY <1>1, <2>1, <2>2 DEF Agrees
<1>3. /\ q.disk = [p.disk EXCEPT ![name] = m]
      /\ HandlesOf(q) = [h EXCEPT ![id] = [name |-> @.name, mode |-> @.mode, pos |-> pos + F, used |-> "write"]]
      /\ Files(q.myFiles) = Files(p.myFiles)
  BY DEF StoredAt, MovedTo, WritePos, Pos, Content
<1>4. both \in Seq(Nat) /\ Len(both) = F + S /\ F \in Nat /\ S \in Nat
  BY ConcatProperties
<1>. HIDE DEF h
<1>. DEFINE now == [name |-> h[id].name, mode |-> h[id].mode, pos |-> pos + F, used |-> "write"]
            k == HandlesOf(q)
<1>. HIDE DEF pos
<1>5. k = [h EXCEPT ![id] = now]
  BY <1>3
<1>6. now.name = name /\ now.mode = h[id].mode /\ now.pos = pos + F
  OBVIOUS
<1>. HIDE DEF now
<1>7. k[id] = now
  BY <1>1, <1>5
<1>13. app => Len(m) = pos + F
  <2>1. Len(m) = IF pos + F >= Len(old) THEN pos + F ELSE Len(old)
    BY <1>2, OverIs DEF OverOK
  <2>. HIDE DEF m, F, old, app
  <2>. QED
    BY <1>2, <1>4, <2>1
<1>. HIDE DEF k, m, both, F, S, old
<1>8. q.disk[name] = m
  BY <1>2, <1>3
<1>9. /\ r.disk = [q.disk EXCEPT ![name] = Over(m, pos + F, second)]
      /\ HandlesOf(r) = [k EXCEPT ![id] = [name |-> @.name, mode |-> @.mode, pos |-> (pos + F) + S, used |-> "write"]]
      /\ Files(r.myFiles) = Files(q.myFiles)
  <2>1. WritePos(q, id) = pos + F /\ Content(q, id) = m /\ HandlesOf(q)[id].name = name
    BY <1>6, <1>7, <1>8, <1>13 DEF WritePos, Pos, Content, k
  <2>2. /\ r.disk = [q.disk EXCEPT ![HandlesOf(q)[id].name] = Over(Content(q, id), WritePos(q, id), second)]
        /\ HandlesOf(r) = MovedTo(q, id, WritePos(q, id) + Len(second), "write")
        /\ Files(r.myFiles) = Files(q.myFiles)
    BY Zenon DEF StoredAt
  <2>3. HandlesOf(r) = MovedTo(q, id, (pos + F) + S, "write")
    BY <2>1, <2>2, Zenon DEF S
  <2>. QED
    BY <2>1, <2>2, <2>3 DEF MovedTo, k
<1>10. Over(m, pos + F, second) = Over(old, pos, both)
  BY <1>2, OverOver, Zenon DEF m, F, both
<1>11. r.disk = [p.disk EXCEPT ![name] = Over(old, pos, both)]
  <2>. DEFINE c == Over(old, pos, both)
  <2>1. r.disk = [q.disk EXCEPT ![name] = c]
    BY <1>9, <1>10
  <2>. HIDE DEF c
  <2>2. r.disk = [p.disk EXCEPT ![name] = c]
    BY <1>3, <2>1
  <2>. QED
    BY <2>2 DEF c
<1>12. HandlesOf(r) = [h EXCEPT ![id] = [name |-> @.name, mode |-> @.mode, pos |-> pos + Len(both), used |-> "write"]]
  <2>1. (pos + F) + S = pos + Len(both)
    BY <1>2, <1>4
  <2>. DEFINE last == [name |-> name, mode |-> h[id].mode, pos |-> pos + Len(both), used |-> "write"]
  <2>2. HandlesOf(r) = [k EXCEPT ![id] = last]
    BY <1>6, <1>7, <1>9, <2>1
  <2>3. [h EXCEPT ![id] = last] = [h EXCEPT ![id] = [name |-> @.name, mode |-> @.mode, pos |-> pos + Len(both), used |-> "write"]]
    OBVIOUS
  <2>. HIDE DEF last
  <2>4. HandlesOf(r) = [h EXCEPT ![id] = last]
    BY <1>5, <2>2
  <2>. QED
    BY <2>3, <2>4
<1>. QED
  BY <1>3, <1>9, <1>11, <1>12 DEF StoredAt, MovedTo, WritePos, Pos, Content, h, pos, old, both

(* A stream that has been written to can be written to again.              *)
LEMMA WritesAgain ==
  ASSUME NEW p, PlatformOK(p), NEW id \in Files(p.myFiles), NEW q, PlatformOK(q), NEW part,
         StoredAt(p, q, id, part), Refusal(p, id, "out", "IO_READ") = "none"
  PROVE  Refusal(q, id, "out", "IO_READ") = "none"
<1>. DEFINE h == HandlesOf(p)
            k == HandlesOf(q)
            pos == WritePos(p, id) + Len(part)
            now == [name |-> h[id].name, mode |-> h[id].mode, pos |-> pos, used |-> "write"]
<1>1. "out" \in h[id].mode /\ id \in DOMAIN h
  BY MayUse, HandleIs
<1>2. Files(q.myFiles) = Files(p.myFiles)
      /\ k = [h EXCEPT ![id] = [name |-> @.name, mode |-> @.mode, pos |-> pos, used |-> "write"]]
  BY DEF StoredAt, MovedTo
<1>. HIDE DEF h, k, pos
<1>3. k = [h EXCEPT ![id] = now] /\ now.mode = h[id].mode /\ now.used = "write"
  BY <1>2
<1>. HIDE DEF now
<1>4. k[id] = now
  BY <1>1, <1>3
<1>5. "out" \in k[id].mode /\ k[id].used # "read"
  BY <1>1, <1>3, <1>4
<1>. QED
  BY <1>2, <1>5, MayUse DEF k

-----------------------------------------------------------------------------
(* What each kind of call does to the handles and what it is answered.     *)
AnswerType == [result : Nat, value : Seq(Nat)]
AnswerTo(o, call) == Understand(call, fillInFrameSize(o.put))
Succeeded(value) == [result |-> RES_SUCCESS, value |-> value]
CanRead(p, id) == "in" \in HandlesOf(p)[id].mode /\ HandlesOf(p)[id].used # "write"
CanWrite(p, id) == "out" \in HandlesOf(p)[id].mode /\ HandlesOf(p)[id].used # "read"

LEMMA SucceededType == ASSUME NEW value \in Seq(Nat) PROVE Succeeded(value) \in AnswerType
  BY Results DEF Succeeded, AnswerType

LEMMA PlainOf ==
  ASSUME NEW o, o.put \in Seq(Nat), o.put # <<>>, NEW call,
         call.tag \notin {"Open", "Read", "Write"} \/ o.put[1] # RES_SUCCESS
  PROVE  /\ AnswerTo(o, call) = [result |-> o.put[1], value |-> <<>>]
         /\ AnswerTo(o, call) \in AnswerType
<1>. DEFINE f == fillInFrameSize(o.put)
<1>1. Holds(f, o.put)
  BY FillHolds
<1>. HIDE DEF f
<1>2. Understand(call, f) = [result |-> o.put[1], value |-> <<>>] /\ o.put[1] \in Nat
  BY <1>1, PlainAnswer
<1>3. <<>> \in Seq(Nat)
  OBVIOUS
<1>. QED
  BY <1>2, <1>3 DEF AnswerTo, AnswerType, f

LEMMA CaughtAnswer ==
  ASSUME NEW p, NEW ex, NEW call
  PROVE  /\ AnswerTo(Caught(p, ex), call).result # RES_SUCCESS
         /\ AnswerTo(Caught(p, ex), call) \in AnswerType
         /\ Caught(p, ex).p = p
<1>. DEFINE o == Caught(p, ex)
<1>1. o.put \in Seq(Nat) /\ o.put # <<>> /\ o.put[1] # RES_SUCCESS /\ o.p = p
  BY CaughtPuts
<1>. HIDE DEF o
<1>2. AnswerTo(o, call) = [result |-> o.put[1], value |-> <<>>] /\ AnswerTo(o, call) \in AnswerType
  BY <1>1, PlainOf
<1>. QED
  BY <1>1, <1>2 DEF o

LEMMA ShortPuts ==
  ASSUME NEW x \in Nat
  PROVE  LET put == <<x>> \o Put16(0) IN put \in Seq(Nat) /\ put # <<>> /\ put[1] = x
<1>. DEFINE rest == Put16(0)
            put == TagBody(x, rest)
<1>1. rest \in Seq(Nat) /\ Len(rest) = 2
  BY Put16Is, 0 \in Nat
<1>. HIDE DEF rest
<1>2. TagBodyOK(put, x, rest)
  BY <1>1, TagBodyIs
<1>. HIDE DEF put
<1>3. put \in Seq(Nat) /\ Len(put) = 3 /\ put[1] = x
  BY <1>1, <1>2 DEF TagBodyOK
<1>4. put # <<>>
  BY <1>3, SMTT(30)
<1>. QED
  BY <1>3, <1>4 DEF put, rest, TagBody

LEMMA ModeIs ==
  ASSUME NEW m \in 1 .. 6
  PROVE  /\ ModeBits(m) \in SUBSET Flag
         /\ m = 1 => ModeBits(m) = {"in"}
         /\ m = 2 => ModeBits(m) = {"out", "trunc"}
         /\ m = 3 => ModeBits(m) = {}
         /\ m \in {4, 5, 6} => ModeBits(m) = {"in", "out"}
  BY DEF ModeBits, Flag, REQ_OPEN_MODE_INPUT, REQ_OPEN_MODE_OUTPUT, REQ_OPEN_MODE_APPEND, OPEN_MODE_UPDATE

LEMMA AnswerIs == ASSUME NEW p, NEW put PROVE Answer(p, put).p = p /\ Answer(p, put).put = put
  BY DEF Answer

LEMMA SameSelf == ASSUME NEW p PROVE Same(p, p)
  BY DEF Same

OpenEffect(p, q, r, ans) ==
  \/ /\ r.mode \in 1 .. 6
     /\ \E garbage \in Uninitialised : \E id :
          OpenedAt(p, q, id, r.name, garbage \cup ModeBits(r.mode)) /\ ans = Succeeded(<<id>>)
  \/ ans.result # RES_SUCCESS /\ Same(p, q)

LEMMA OpenHas ==
  ASSUME NEW p, PlatformOK(p), NEW r, r.tag = "Open", r.name \in Seq(Nat),
         NEW f, GetString(f, 4) = r.name, f[7 + Len(r.name)] = r.mode, NEW o \in reqOpen(p, f)
  PROVE  OpenEffect(p, o.p, r, AnswerTo(o, r)) /\ AnswerTo(o, r) \in AnswerType
<1>. DEFINE openType == f[6 + Len(r.name)]
            openMode == f[7 + Len(r.name)]
            failed == <<RES_ERROR>> \o Put16(0)
<1>1. /\ failed \in Seq(Nat) /\ failed # <<>> /\ failed[1] # RES_SUCCESS
  <2>1. /\ failed \in Seq(Nat) /\ failed # <<>> /\ failed[1] = RES_ERROR
    BY ShortPuts, Results
  <2>. QED
    BY <2>1 DEF RES_ERROR, RES_SUCCESS
<1>. HIDE DEF failed
<1>2. ASSUME o = Answer(p, failed) PROVE OpenEffect(p, o.p, r, AnswerTo(o, r)) /\ AnswerTo(o, r) \in AnswerType
  <2>1. o.p = p /\ o.put = failed
    BY <1>2, AnswerIs
  <2>2. AnswerTo(o, r) = [result |-> failed[1], value |-> <<>>] /\ AnswerTo(o, r) \in AnswerType
    BY <1>1, <2>1, PlainOf
  <2>3. AnswerTo(o, r).result # RES_SUCCESS
    BY <1>1, <2>2
  <2>. QED
    BY <2>1, <2>2, <2>3, SameSelf, Zenon DEF OpenEffect
<1>3. CASE openType \notin OPEN_TYPE \/ openMode \notin 1 .. 6
  <2>1. o = Answer(p, failed)
    BY <1>3 DEF reqOpen, failed
  <2>. QED
    BY <1>2, <2>1
<1>4. CASE openType \in OPEN_TYPE /\ openMode \in 1 .. 6
  <2>1. PICK garbage \in Uninitialised : \E e \in openFileStream(p, r.name, garbage \cup ModeBits(openMode)) :
          o = Answer(e.p, IF e.ex = "none" THEN <<RES_SUCCESS>> \o Put32(e.id) ELSE failed)
    BY <1>4, Zenon DEF reqOpen, failed
  <2>. DEFINE bits == garbage \cup ModeBits(openMode)
  <2>3. PICK e \in openFileStream(p, r.name, bits) :
          o = Answer(e.p, IF e.ex = "none" THEN <<RES_SUCCESS>> \o Put32(e.id) ELSE failed)
    BY <2>1
  <2>4. bits \in SUBSET Flag
    <3>1. ModeBits(openMode) \in SUBSET Flag
      BY <1>4, ModeIs, Zenon
    <3>. QED
      BY <3>1, Constants
  <2>. HIDE DEF bits
  <2>6. IF e.ex = "none" THEN OpenedAt(p, e.p, e.id, r.name, bits) ELSE e.p = p
    BY <2>4, OpenDoes
  <2>7. CASE e.ex # "none"
    BY <1>2, <2>3, <2>6, <2>7
  <2>8. CASE e.ex = "none"
    <3>1. OpenedAt(p, e.p, e.id, r.name, bits)
      BY <2>6, <2>8
    <3>2. e.id \in Nat
      BY <3>1 DEF OpenedAt, StreamId
    <3>. DEFINE put == <<RES_SUCCESS>> \o Put32(e.id)
    <3>3. put \in Seq(Nat)
      <4>1. Put32(e.id) \in Seq(Nat)
        BY <3>2, Put32Is
      <4>. QED
        BY <4>1, Results, Prefixed, Zenon
    <3>4. o.p = e.p /\ o.put = put
      <4>1. o = Answer(e.p, put)
        BY <2>3, <2>8, Zenon
      <4>. HIDE DEF put
      <4>. QED
        BY <4>1, AnswerIs, Zenon
    <3>5. Holds(fillInFrameSize(put), put)
      BY <3>3, FillHolds, Zenon
    <3>6. AnswerTo(o, r) = Succeeded(<<e.id>>)
      <4>1. Understand(r, fillInFrameSize(put)) = [result |-> RES_SUCCESS, value |-> <<e.id>>]
        BY <3>2, <3>5, OpenAnswer, Zenon
      <4>. QED
        BY <3>4, <4>1, Zenon DEF AnswerTo, Succeeded
    <3>7. <<e.id>> \in Seq(Nat)
      BY <3>2
    <3>9. r.mode \in 1 .. 6 /\ bits = garbage \cup ModeBits(r.mode) /\ garbage \in Uninitialised
      BY <1>4, <2>1 DEF bits
    <3>. HIDE DEF put
    <3>10. OpenEffect(p, o.p, r, AnswerTo(o, r))
      BY <3>1, <3>4, <3>6, <3>9, Zenon DEF OpenEffect
    <3>. QED
      BY <3>6, <3>7, <3>10, SucceededType, Zenon
  <2>. QED
    BY <2>7, <2>8
<1>. QED
  BY <1>3, <1>4

CloseEffect(p, q, id, ans) ==
  /\ ans.value = <<>>
  /\ q.disk = p.disk /\ Files(q.myFiles) = Files(p.myFiles) \ {id}
  /\ HandlesOf(q) = Closed(p, id)
  /\ id \notin Files(p.myFiles) => HandlesOf(q) = HandlesOf(p)

LEMMA CloseHas ==
  ASSUME NEW p, PlatformOK(p), NEW r, r.tag = "Close", NEW f, Get32(f, 4) = r.id, NEW o \in reqClose(p, f)
  PROVE  CloseEffect(p, o.p, r.id, AnswerTo(o, r)) /\ AnswerTo(o, r) \in AnswerType
<1>. DEFINE result(e) == IF e.ex # "none" THEN RES_BADID ELSE IF e.closeOk THEN RES_SUCCESS ELSE RES_ERROR
<1>1. PICK e \in closeStream(p, r.id) : o = Answer(e.p, <<result(e)>>)
  BY DEF reqClose
<1>2. <<result(e)>> \in Seq(Nat) /\ <<result(e)>> # <<>>
  BY Results
<1>. HIDE DEF result
<1>3. o.p = e.p /\ o.put = <<result(e)>>
  BY <1>1, AnswerIs
<1>4. r.tag \notin {"Open", "Read", "Write"} /\ o.put \in Seq(Nat) /\ o.put # <<>>
  BY <1>2, <1>3
<1>. HIDE <1>1, <1>2, <1>3
<1>5. AnswerTo(o, r) = [result |-> o.put[1], value |-> <<>>] /\ AnswerTo(o, r) \in AnswerType
  BY <1>4, PlainOf
<1>7. AnswerTo(o, r).value = <<>>
  BY <1>5
<1>6. /\ e.p.disk = p.disk /\ Files(e.p.myFiles) = Files(p.myFiles) \ {r.id}
      /\ HandlesOf(e.p) = Closed(p, r.id)
      /\ r.id \notin Files(p.myFiles) => HandlesOf(e.p) = HandlesOf(p)
  BY CloseDoes
<1>. QED
  BY <1>3, <1>5, <1>6, <1>7, Zenon DEF CloseEffect

ReadEffect(p, q, r, ans) ==
  \/ /\ r.id \in Files(p.myFiles) /\ CanRead(p, r.id)
     /\ \E data : ReadAt(p, q, r.id, r.size, data) /\ ans = Succeeded(data)
  \/ Same(p, q) /\ (r.id \in Files(p.myFiles) => ~CanRead(p, r.id))

LEMMA MayBeUsed ==
  ASSUME NEW p, PlatformOK(p), NEW id \in Files(p.myFiles)
  PROVE  /\ Refusal(p, id, "in", "IO_WRITE") = "none" <=> CanRead(p, id)
         /\ Refusal(p, id, "out", "IO_READ") = "none" <=> CanWrite(p, id)
  BY MayUse DEF CanRead, CanWrite

LEMMA ReadHas ==
  ASSUME NEW p, PlatformOK(p), NEW r, r.tag = "Read", r.size \in Nat, NEW f, Get32(f, 4) = r.id,
         Get16(f, 8) = r.size, NEW o \in reqRead(p, f)
  PROVE  ReadEffect(p, o.p, r, AnswerTo(o, r)) /\ AnswerTo(o, r) \in AnswerType
<1>1. PICK e \in readStream(p, r.id, r.size) :
        o = IF e.ex # "none" THEN Caught(e.p, e.ex)
            ELSE Answer(e.p, <<RES_SUCCESS>> \o Put16(Len(e.data)) \o e.data)
  BY DEF reqRead
<1>2. IF Refusal(p, r.id, "in", "IO_WRITE") = "none"
      THEN /\ e.ex = "none"
           /\ r.id \in Files(p.myFiles) => ReadAt(p, e.p, r.id, r.size, e.data)
           /\ r.id \notin Files(p.myFiles) => Same(p, e.p)
      ELSE e.ex # "none" /\ e.p = p
  BY ReadingDoes
<1>3. e.data \in Seq(Nat)
  BY ReadYields
<1>4. CASE Refusal(p, r.id, "in", "IO_WRITE") # "none"
  <2>1. o = Caught(p, e.ex)
    BY <1>1, <1>2, <1>4
  <2>2. o.p = p /\ AnswerTo(o, r) \in AnswerType
    BY <2>1, CaughtAnswer
  <2>. QED
    BY <1>4, <2>2, SameSelf, MayBeUsed, Zenon DEF ReadEffect
<1>5. CASE Refusal(p, r.id, "in", "IO_WRITE") = "none"
  <2>. DEFINE put == <<RES_SUCCESS>> \o Put16(Len(e.data)) \o e.data
  <2>1. put \in Seq(Nat)
    <3>1. Len(e.data) \in Nat
      BY <1>3
    <3>2. Put16(Len(e.data)) \in Seq(Nat)
      BY <3>1, Put16Is
    <3>3. <<RES_SUCCESS>> \o Put16(Len(e.data)) \in Seq(Nat)
      BY <3>2, Results, Prefixed
    <3>. QED
      BY <1>3, <3>3, ConcatProperties
  <2>2. o.p = e.p /\ o.put = put
    BY <1>1, <1>2, <1>5, AnswerIs, ZenonT(60)
  <2>3. Holds(fillInFrameSize(put), put)
    BY <2>1, FillHolds, Zenon
  <2>4. Understand(r, fillInFrameSize(put)) = [result |-> RES_SUCCESS, value |-> e.data]
    BY <1>3, <2>3, ReadAnswer, Zenon
  <2>5. AnswerTo(o, r) = Succeeded(e.data)
    BY <2>2, <2>4, Zenon DEF AnswerTo, Succeeded
  <2>6. AnswerTo(o, r) \in AnswerType
    BY <1>3, <2>5, SucceededType, Zenon
  <2>. HIDE DEF put
  <2>. QED
    BY <1>2, <1>5, <2>2, <2>5, <2>6, MayBeUsed, Zenon DEF ReadEffect
<1>. QED
  BY <1>4, <1>5

WriteEffect(p, q, r, ans) ==
  \/ /\ r.id \in Files(p.myFiles) /\ CanWrite(p, r.id) /\ r.data # <<>>
     /\ \E n \in 0 .. Len(r.data) : StoredAt(p, q, r.id, SubSeq(r.data, 1, n)) /\ ans = Succeeded(<<n>>)
  \/ Same(p, q) /\ (r.id \in Files(p.myFiles) => r.data = <<>> \/ ~CanWrite(p, r.id))

LEMMA WriteHas ==
  ASSUME NEW p, PlatformOK(p), NEW r, r.tag = "Write", r.data \in Seq(Nat), NEW f, Get32(f, 4) = r.id,
         GetString(f, 8) = r.data, NEW o \in reqWrite(p, f)
  PROVE  WriteEffect(p, o.p, r, AnswerTo(o, r)) /\ AnswerTo(o, r) \in AnswerType
<1>1. PICK e \in WriteData(p, r.id, r.data) :
        o = IF e.ex # "none" THEN Caught(e.p, e.ex) ELSE Answer(e.p, <<RES_SUCCESS>> \o Put16(e.written))
  BY DEF reqWrite
<1>. DEFINE put == <<RES_SUCCESS>> \o Put16(e.written)
<1>2. ASSUME e.ex = "none", e.written \in Nat
      PROVE  o.p = e.p /\ AnswerTo(o, r) = Succeeded(<<e.written>>) /\ AnswerTo(o, r) \in AnswerType
  <2>1. put \in Seq(Nat)
    <3>1. Put16(e.written) \in Seq(Nat)
      BY <1>2, Put16Is
    <3>. QED
      BY <3>1, Results, Prefixed, Zenon
  <2>2. o.p = e.p /\ o.put = put
    <3>1. o = Answer(e.p, put)
      BY <1>1, <1>2, Zenon
    <3>. HIDE DEF put
    <3>. QED
      BY <3>1, AnswerIs, Zenon
  <2>3. Holds(fillInFrameSize(put), put)
    BY <2>1, FillHolds, Zenon
  <2>4. Understand(r, fillInFrameSize(put)) = [result |-> RES_SUCCESS, value |-> <<e.written>>]
    BY <1>2, <2>3, WriteAnswer, Zenon
  <2>5. AnswerTo(o, r) = Succeeded(<<e.written>>)
    BY <2>2, <2>4, Zenon DEF AnswerTo, Succeeded
  <2>6. <<e.written>> \in Seq(Nat)
    BY <1>2
  <2>. QED
    BY <2>2, <2>5, <2>6, SucceededType, Zenon
<1>3. CASE r.data = <<>>
  <2>1. e.p = p /\ e.ex = "none" /\ e.written = 0
    BY <1>3 DEF WriteData
  <2>2. o.p = p /\ AnswerTo(o, r) \in AnswerType
    BY <1>2, <2>1, 0 \in Nat
  <2>. QED
    BY <1>3, <2>2, SameSelf, Zenon DEF WriteEffect
<1>4. CASE r.data # <<>>
  <2>0. e \in writeStream(p, r.id, r.data)
    BY <1>4 DEF WriteData
  <2>1. IF Refusal(p, r.id, "out", "IO_READ") = "none"
        THEN /\ e.ex = "none" /\ e.written \in 0 .. Len(r.data)
             /\ r.id \in Files(p.myFiles) => StoredAt(p, e.p, r.id, SubSeq(r.data, 1, e.written))
             /\ r.id \notin Files(p.myFiles) => Same(p, e.p)
        ELSE e.ex # "none" /\ e.p = p
    BY <2>0, WritingDoes
  <2>2. CASE Refusal(p, r.id, "out", "IO_READ") # "none"
    <3>1. o = Caught(p, e.ex)
      BY <1>1, <2>1, <2>2
    <3>2. o.p = p /\ AnswerTo(o, r) \in AnswerType
      BY <3>1, CaughtAnswer
    <3>. QED
      BY <2>2, <3>2, SameSelf, MayBeUsed, Zenon DEF WriteEffect
  <2>3. CASE Refusal(p, r.id, "out", "IO_READ") = "none"
    <3>1. e.ex = "none" /\ e.written \in 0 .. Len(r.data) /\ e.written \in Nat
      BY <2>1, <2>3
    <3>2. o.p = e.p /\ AnswerTo(o, r) = Succeeded(<<e.written>>) /\ AnswerTo(o, r) \in AnswerType
      BY <1>2, <3>1
    <3>. QED
      BY <1>4, <2>1, <2>3, <3>1, <3>2, MayBeUsed, Zenon DEF WriteEffect
  <2>. QED
    BY <2>2, <2>3
<1>. QED
  BY <1>3, <1>4

-----------------------------------------------------------------------------
PutsEffect(p, q, r, ans) ==
  \/ /\ r.id \in Files(p.myFiles) /\ CanWrite(p, r.id) /\ ans = Succeeded(<<>>)
     /\ \E n \in 0 .. Len(r.data), newline \in {<<>>, <<10>>} :
          StoredAt(p, q, r.id, SubSeq(r.data, 1, n) \o newline)
  \/ Same(p, q) /\ (r.id \in Files(p.myFiles) => ~CanWrite(p, r.id))

LEMMA NewlineParts ==
  ASSUME NEW n \in 0 .. Len(<< 10 >>)
  PROVE  SubSeq(<<10>>, 1, n) \in {<<>>, <<10>>} /\ SubSeq(<<10>>, 1, n) \in Seq(Nat)
<1>1. n = 0 \/ n = 1
  OBVIOUS
<1>2. SubSeq(<<10>>, 1, 0) = <<>>
  BY SubSeqEmpty, 0 < 1, 0 \in Int, 1 \in Int
<1>3. SubSeq(<<10>>, 1, 1) = <<10>>
  <2>1. <<10>> \in Seq(Nat) /\ Len(<<10>>) = 1
    OBVIOUS
  <2>. QED
    BY <2>1, SubSeqFull
<1>4. <<>> \in Seq(Nat) /\ <<10>> \in Seq(Nat)
  OBVIOUS
<1>. QED
  BY <1>1, <1>2, <1>3, <1>4, Zenon

LEMMA PutsHas ==
  ASSUME NEW p, PlatformOK(p), NEW r, r.tag = "Puts", r.data \in Seq(Nat), NEW f, Get32(f, 4) = r.id,
         GetString(f, 8) = r.data, NEW o \in reqPuts(p, f)
  PROVE  PutsEffect(p, o.p, r, AnswerTo(o, r)) /\ AnswerTo(o, r) \in AnswerType
<1>. DEFINE id == r.id
            nl10 == <<10>>
<1>1. PICK e \in WriteData(p, id, r.data) :
        o \in IF e.ex # "none" THEN {Caught(e.p, e.ex)}
              ELSE {IF nl.ex # "none" THEN Caught(nl.p, nl.ex) ELSE Answer(nl.p, <<RES_SUCCESS>>) :
                      nl \in writeStream(e.p, id, nl10)}
  BY DEF reqPuts
<1>2. nl10 \in Seq(Nat)
  OBVIOUS
<1>3. PlatformOK(e.p)
  BY WritesData
<1>4. ASSUME NEW q, NEW ex, o = Caught(q, ex) PROVE o.p = q /\ AnswerTo(o, r) \in AnswerType
  BY <1>4, CaughtAnswer
<1>5. ASSUME NEW q, o = Answer(q, <<RES_SUCCESS>>)
      PROVE  o.p = q /\ AnswerTo(o, r) = Succeeded(<<>>) /\ AnswerTo(o, r) \in AnswerType
  <2>. DEFINE put == <<RES_SUCCESS>>
  <2>1. put \in Seq(Nat) /\ put # <<>> /\ put[1] = RES_SUCCESS
    BY Results
  <2>2. o.p = q /\ o.put = put
    BY <1>5, AnswerIs
  <2>3. r.tag \notin {"Open", "Read", "Write"}
    OBVIOUS
  <2>. HIDE DEF put
  <2>4. AnswerTo(o, r) = [result |-> o.put[1], value |-> <<>>] /\ AnswerTo(o, r) \in AnswerType
    BY <2>1, <2>2, <2>3, PlainOf
  <2>. QED
    BY <2>1, <2>2, <2>4, Zenon DEF Succeeded
<1>. HIDE DEF nl10
<1>6. e.ex = "none" => \E nl \in writeStream(e.p, id, nl10) :
        o = IF nl.ex # "none" THEN Caught(nl.p, nl.ex) ELSE Answer(nl.p, <<RES_SUCCESS>>)
  BY <1>1
<1>7. r.data = <<>> => e.p = p /\ e.ex = "none"
  BY DEF WriteData
<1>8. r.data # <<>> => e \in writeStream(p, id, r.data)
  BY DEF WriteData
<1>9. CASE Refusal(p, id, "out", "IO_READ") # "none"
  <2>1. CASE r.data = <<>>
    <3>1. PICK nl \in writeStream(p, id, nl10) :
            o = IF nl.ex # "none" THEN Caught(nl.p, nl.ex) ELSE Answer(nl.p, <<RES_SUCCESS>>)
      BY <1>6, <1>7, <2>1
    <3>2. nl.ex # "none" /\ nl.p = p
      BY <1>2, <1>9, WritingDoes
    <3>3. o.p = p /\ AnswerTo(o, r) \in AnswerType
      BY <1>4, <3>1, <3>2
    <3>. QED
      BY <1>9, <3>3, SameSelf, MayBeUsed, Zenon DEF PutsEffect
  <2>2. CASE r.data # <<>>
    <3>1. e.ex # "none" /\ e.p = p
      BY <1>8, <1>9, <2>2, WritingDoes
    <3>2. o = Caught(p, e.ex)
      BY <1>1, <3>1
    <3>3. o.p = p /\ AnswerTo(o, r) \in AnswerType
      BY <1>4, <3>2
    <3>. QED
      BY <1>9, <3>3, SameSelf, MayBeUsed, Zenon DEF PutsEffect
  <2>. QED
    BY <2>1, <2>2
<1>10. CASE Refusal(p, id, "out", "IO_READ") = "none"
  <2>1. e.ex = "none"
    BY <1>7, <1>8, <1>10, WritingDoes
  <2>2. PICK nl \in writeStream(e.p, id, nl10) :
          o = IF nl.ex # "none" THEN Caught(nl.p, nl.ex) ELSE Answer(nl.p, <<RES_SUCCESS>>)
    BY <1>6, <2>1
  <2>3. /\ o.p = nl.p /\ AnswerTo(o, r) \in AnswerType
        /\ nl.ex = "none" => AnswerTo(o, r) = Succeeded(<<>>)
    <3>1. CASE nl.ex # "none"
      BY <1>4, <2>2, <3>1
    <3>2. CASE nl.ex = "none"
      BY <1>5, <2>2, <3>2
    <3>. QED
      BY <3>1, <3>2
  <2>4. IF Refusal(e.p, id, "out", "IO_READ") = "none"
        THEN /\ nl.ex = "none" /\ nl.written \in 0 .. Len(nl10)
             /\ id \in Files(e.p.myFiles) => StoredAt(e.p, nl.p, id, SubSeq(nl10, 1, nl.written))
             /\ id \notin Files(e.p.myFiles) => Same(e.p, nl.p)
        ELSE nl.ex # "none" /\ nl.p = e.p
    BY <1>2, <1>3, WritingDoes
  <2>5. CASE id \notin Files(p.myFiles)
    <3>1. Same(p, e.p)
      <4>1. CASE r.data = <<>>
        BY <1>7, <4>1, SameSelf
      <4>2. CASE r.data # <<>>
        BY <1>8, <1>10, <2>5, <4>2, WritingDoes
      <4>. QED
        BY <4>1, <4>2
    <3>2. id \notin Files(e.p.myFiles)
      BY <2>5, <3>1 DEF Same
    <3>3. Same(p, nl.p)
      BY <2>4, <3>1, <3>2 DEF Same
    <3>. QED
      BY <2>3, <2>5, <3>3, Zenon DEF PutsEffect
  <2>6. CASE id \in Files(p.myFiles)
    <3>0. CanWrite(p, id)
      BY <1>10, <2>6, MayBeUsed
    <3>. DEFINE line == SubSeq(nl10, 1, nl.written)
    <3>1. CASE r.data = <<>>
      <4>1. e.p = p
        BY <1>7, <3>1
      <4>2. nl.ex = "none" /\ StoredAt(p, nl.p, id, line) /\ nl.written \in 0 .. Len(nl10)
        BY <1>10, <2>4, <2>6, <4>1
      <4>3. line \in {<<>>, <<10>>} /\ line \in Seq(Nat)
        BY <4>2, NewlineParts DEF nl10
      <4>. HIDE DEF line
      <4>4. SubSeq(r.data, 1, 0) = <<>> /\ 0 \in 0 .. Len(r.data)
        <5>1. SubSeq(r.data, 1, 0) = <<>>
          BY SubSeqEmpty, 0 < 1, 0 \in Int, 1 \in Int
        <5>. QED
          BY <5>1
      <4>5. <<>> \o line = line
        BY <4>3
      <4>6. StoredAt(p, nl.p, id, SubSeq(r.data, 1, 0) \o line)
        BY <4>2, <4>4, <4>5
      <4>7. \E n \in 0 .. Len(r.data), newline \in {<<>>, <<10>>} :
              StoredAt(p, nl.p, r.id, SubSeq(r.data, 1, n) \o newline)
        BY <4>3, <4>4, <4>6, Zenon
      <4>. QED
        BY <2>3, <2>6, <3>0, <4>2, <4>7, Zenon DEF PutsEffect
    <3>2. CASE r.data # <<>>
      <4>. DEFINE part == SubSeq(r.data, 1, e.written)
      <4>1. e.written \in 0 .. Len(r.data) /\ StoredAt(p, e.p, id, part)
        BY <1>8, <1>10, <2>6, <3>2, WritingDoes
      <4>2. part \in Seq(Nat)
        BY <4>1
      <4>3. Files(e.p.myFiles) = Files(p.myFiles)
        BY <4>1, Zenon DEF StoredAt
      <4>. HIDE DEF part
      <4>4. Refusal(e.p, id, "out", "IO_READ") = "none"
        BY <1>3, <1>10, <2>6, <4>1, WritesAgain, Zenon
      <4>5. nl.ex = "none" /\ StoredAt(e.p, nl.p, id, line) /\ nl.written \in 0 .. Len(nl10)
        BY <2>4, <2>6, <4>3, <4>4
      <4>6. line \in {<<>>, <<10>>} /\ line \in Seq(Nat)
        BY <4>5, NewlineParts DEF nl10
      <4>. HIDE DEF line
      <4>7. StoredAt(p, nl.p, id, part \o line)
        BY <1>3, <2>6, <4>1, <4>2, <4>5, <4>6, StoredTwice, Zenon
      <4>8. \E n \in 0 .. Len(r.data), newline \in {<<>>, <<10>>} :
              StoredAt(p, nl.p, r.id, SubSeq(r.data, 1, n) \o newline)
        BY <4>1, <4>6, <4>7, Zenon DEF part
      <4>. QED
        BY <2>3, <2>6, <3>0, <4>5, <4>8, Zenon DEF PutsEffect
    <3>. QED
      BY <3>1, <3>2
  <2>. QED
    BY <2>5, <2>6
<1>. QED
  BY <1>9, <1>10

-----------------------------------------------------------------------------
(* The other calls leave the files alone, those to the console because its *)
(* streams are not files.                                                  *)
ConsoleOnly(p) == FILE_STDIN \notin Files(p.myFiles) /\ FILE_STDOUT \notin Files(p.myFiles)
Leaves(p, o, r) == Same(p, o.p) /\ AnswerTo(o, r) \in AnswerType

LEMMA PlainLeaves ==
  ASSUME NEW p, NEW q, Same(p, q), NEW put \in Seq(Nat), put # <<>>, NEW r, r.tag \notin {"Open", "Read", "Write"}
  PROVE  Leaves(p, Answer(q, put), r)
<1>. DEFINE o == Answer(q, put)
<1>1. o.p = q /\ o.put = put
  BY AnswerIs
<1>. HIDE DEF o
<1>2. o.put \in Seq(Nat) /\ o.put # <<>>
  BY <1>1
<1>3. AnswerTo(o, r) \in AnswerType
  BY <1>2, PlainOf, Zenon
<1>. QED
  BY <1>1, <1>3, Zenon DEF Leaves, o

LEMMA CaughtLeaves == ASSUME NEW p, NEW q, Same(p, q), NEW ex, NEW r PROVE Leaves(p, Caught(q, ex), r)
  BY CaughtAnswer, Zenon DEF Leaves

LEMMA GetKeyHas ==
  ASSUME NEW p, PlatformOK(p), ConsoleOnly(p), NEW r, r.tag \notin {"Open", "Read", "Write"}, NEW o \in reqGetKey(p)
  PROVE  Leaves(p, o, r)
<1>1. PICK e \in readStream(p, FILE_STDIN, 1) :
        o = IF e.ex # "none" THEN Caught(e.p, e.ex) ELSE Answer(e.p, <<RES_SUCCESS>> \o e.data)
  BY DEF reqGetKey
<1>2. Same(p, e.p)
  <2>1. IF Refusal(p, FILE_STDIN, "in", "IO_WRITE") = "none"
        THEN /\ e.ex = "none"
             /\ FILE_STDIN \in Files(p.myFiles) => ReadAt(p, e.p, FILE_STDIN, 1, e.data)
             /\ FILE_STDIN \notin Files(p.myFiles) => Same(p, e.p)
        ELSE e.ex # "none" /\ e.p = p
    BY ReadingDoes, 1 \in Nat
  <2>. QED
    BY <2>1, SameSelf, Zenon DEF ConsoleOnly
<1>3. e.data \in Seq(Nat)
  BY ReadYields, 1 \in Nat
<1>. DEFINE put == <<RES_SUCCESS>> \o e.data
<1>4. put \in Seq(Nat)
  BY <1>3, Results, Prefixed, Zenon
<1>5. put # <<>>
  <2>1. put = TagBody(RES_SUCCESS, e.data)
    BY DEF TagBody
  <2>2. TagBodyOK(TagBody(RES_SUCCESS, e.data), RES_SUCCESS, e.data)
    BY <1>3, Results, TagBodyIs, Zenon
  <2>. HIDE DEF put
  <2>3. Len(put) = 1 + Len(e.data) /\ Len(e.data) \in Nat
    BY <1>3, <2>1, <2>2 DEF TagBodyOK
  <2>. QED
    BY <2>3
<1>. HIDE DEF put
<1>6. o = Caught(e.p, e.ex) \/ o = Answer(e.p, put)
  BY <1>1 DEF put
<1>. QED
  BY <1>2, <1>4, <1>5, <1>6, PlainLeaves, CaughtLeaves, Zenon

LEMMA PutCharHas ==
  ASSUME NEW p, PlatformOK(p), ConsoleOnly(p), NEW r, r.tag \notin {"Open", "Read", "Write"},
         NEW f, f[4] \in Nat, NEW o \in reqPutChar(p, f)
  PROVE  Leaves(p, o, r)
<1>. DEFINE result(e) == IF e.ex # "none" THEN ResultOf(e.ex)
                         ELSE IF e.written # 1 THEN RES_TRUNCATED ELSE RES_SUCCESS
<1>1. PICK e \in writeStream(p, FILE_STDOUT, <<f[4]>>) : o = Answer(e.p, <<result(e)>>)
  BY DEF reqPutChar
<1>2. result(e) \in Nat
  BY Results DEF ResultOf
<1>. HIDE DEF result
<1>3. <<result(e)>> \in Seq(Nat) /\ <<result(e)>> # <<>>
  BY <1>2
<1>4. <<f[4]>> \in Seq(Nat)
  OBVIOUS
<1>5. Same(p, e.p)
  <2>. DEFINE data == <<f[4]>>
  <2>0. data \in Seq(Nat) /\ e \in writeStream(p, FILE_STDOUT, data)
    BY <1>4
  <2>. HIDE DEF data
  <2>1. IF Refusal(p, FILE_STDOUT, "out", "IO_READ") = "none"
        THEN FILE_STDOUT \notin Files(p.myFiles) => Same(p, e.p)
        ELSE e.p = p
    BY <2>0, WritingDoes
  <2>. QED
    BY <2>1, SameSelf, Zenon DEF ConsoleOnly
<1>. QED
  BY <1>1, <1>3, <1>5, PlainLeaves, Zenon

LEMMA CommandHas ==
  ASSUME NEW p, NEW r, r.tag \notin {"Open", "Read", "Write"}, NEW f, NEW o \in reqCommand(p, f)
  PROVE  Leaves(p, o, r)
<1>. DEFINE line == IF f[4] # 0 THEN <<Key, Key>> ELSE <<Key>>
            rest == Put16(Len(line)) \o line
            put == <<RES_SUCCESS>> \o Put16(Len(line)) \o line
<1>1. line \in Seq(Nat) /\ Len(line) \in Nat
  BY Results
<1>2. o = Answer(p, put)
  BY DEF reqCommand
<1>. HIDE DEF line
<1>3. <<RES_SUCCESS>> \o Put16(Len(line)) \in Seq(Nat) /\ Put16(Len(line)) \in Seq(Nat)
  BY <1>1, Put16Is, Results, Prefixed
<1>. DEFINE head == <<RES_SUCCESS>> \o Put16(Len(line))
<1>4. Joins(put, head, line)
  BY <1>1, <1>3, Joined, Zenon
<1>5. Joins(head, <<RES_SUCCESS>>, Put16(Len(line))) /\ Len(<<RES_SUCCESS>>) = 1
  <2>1. <<RES_SUCCESS>> \in Seq(Nat) /\ Len(<<RES_SUCCESS>>) = 1
    BY Results
  <2>. QED
    BY <1>3, <2>1, Joined, Zenon
<1>. HIDE DEF put, head
<1>6. put \in Seq(Nat) /\ Len(put) >= 1
  BY <1>4, <1>5 DEF Joins
<1>7. put # <<>>
  BY <1>6
<1>. QED
  BY <1>2, <1>6, <1>7, SameSelf, PlainLeaves, Zenon

LEMMA OtherHas ==
  ASSUME NEW p, PlatformOK(p), ConsoleOnly(p), NEW r,
         r.tag \notin {"Open", "Close", "Read", "Write", "Puts"}, NEW f, FrameOK(r, f),
         NEW o \in requestResponse(p, f)
  PROVE  Leaves(p, o, r)
<1>0. r.tag \notin {"Open", "Read", "Write"}
  OBVIOUS
<1>1. f[3] \notin {REQ_OPEN, REQ_CLOSE, REQ_READ, REQ_WRITE, REQ_PUTS}
  <2>1. CASE r.tag = "Exit"
    BY <2>1 DEF FrameOK, REQ_OPEN, REQ_CLOSE, REQ_READ, REQ_WRITE, REQ_PUTS, REQ_EXIT
  <2>2. CASE r.tag # "Exit"
    BY <2>2 DEF FrameOK, FileCall, FileTag
  <2>. QED
    BY <2>1, <2>2
<1>2. f[4] \in Nat
  <2>1. f \in Seq(Nat) /\ Len(f) >= 8
    BY DEF FrameOK
  <2>. QED
    BY <2>1
<1>3. o \in reqGetKey(p) \/ o \in reqPollKey(p) \/ o \in reqExit(p) \/ o \in reqCommand(p, f)
        \/ o \in reqId(p) \/ o \in reqPutChar(p, f) \/ o \in {Answer(p, <<RES_UNIMPLEMENTED>>)}
  BY <1>1 DEF requestResponse
<1>4. ASSUME NEW put \in Seq(Nat), put # <<>>, o = Answer(p, put) PROVE Leaves(p, o, r)
  BY <1>0, <1>4, SameSelf, PlainLeaves, Zenon
<1>5. CASE o \in reqPollKey(p)
  <2>1. /\ <<RES_SUCCESS, Key>> \in Seq(Nat) /\ <<RES_SUCCESS, Key>> # <<>>
        /\ <<RES_ERROR>> \in Seq(Nat) /\ <<RES_ERROR>> # <<>>
    BY Results
  <2>. QED
    BY <1>4, <1>5, <2>1, Zenon DEF reqPollKey
<1>6. CASE o \in reqExit(p) \/ o \in {Answer(p, <<RES_UNIMPLEMENTED>>)}
  <2>1. /\ <<RES_SUCCESS>> \in Seq(Nat) /\ <<RES_SUCCESS>> # <<>>
        /\ <<RES_UNIMPLEMENTED>> \in Seq(Nat) /\ <<RES_UNIMPLEMENTED>> # <<>>
    BY Results
  <2>. QED
    BY <1>4, <1>6, <2>1, Zenon DEF reqExit
<1>7. CASE o \in reqId(p)
  <2>1. <<RES_SUCCESS, 0, 1, 8, 0>> \in Seq(Nat) /\ <<RES_SUCCESS, 0, 1, 8, 0>> # <<>>
    BY Results
  <2>. QED
    BY <1>4, <1>7, <2>1, Zenon DEF reqId
<1>. QED
  BY <1>0, <1>2, <1>3, <1>5, <1>6, <1>7, GetKeyHas, CommandHas, PutCharHas, Zenon

-----------------------------------------------------------------------------
(* All that a call of the program's does.                                  *)
Effect(p, q, r, ans) ==
  /\ ans \in AnswerType
  /\ r.tag = "Open" => OpenEffect(p, q, r, ans)
  /\ r.tag = "Close" => CloseEffect(p, q, r.id, ans)
  /\ r.tag = "Read" => ReadEffect(p, q, r, ans)
  /\ r.tag = "Write" => WriteEffect(p, q, r, ans)
  /\ r.tag = "Puts" => PutsEffect(p, q, r, ans)
  /\ r.tag \notin {"Open", "Close", "Read", "Write", "Puts"} => Same(p, q)

LEMMA RequestHas ==
  ASSUME NEW p, PlatformOK(p), ConsoleOnly(p), NEW r \in Request,
         NEW o \in requestResponse(p, Frame(r))
  PROVE  Effect(p, o.p, r, AnswerTo(o, r))
<1>. DEFINE f == Frame(r)
            ans == AnswerTo(o, r)
<1>1. FrameOK(r, f)
  BY FrameDecodes
<1>. HIDE DEF f
<1>2. o \in requestResponse(p, f)
  BY DEF f
<1>3. CASE r.tag = "Open"
  <2>1. f[3] = REQ_OPEN /\ r.name \in Seq(Nat) /\ GetString(f, 4) = r.name /\ f[7 + Len(r.name)] = r.mode
    BY <1>1, <1>3 DEF FrameOK
  <2>2. o \in reqOpen(p, f)
    BY <1>2, <2>1, Dispatches
  <2>3. OpenEffect(p, o.p, r, ans) /\ ans \in AnswerType
    BY <1>3, <2>1, <2>2, OpenHas, Zenon
  <2>. HIDE DEF ans
  <2>. QED
    BY <1>3, <2>3 DEF Effect, ans
<1>4. CASE r.tag = "Close"
  <2>1. f[3] = REQ_CLOSE /\ Get32(f, 4) = r.id
    BY <1>1, <1>4 DEF FrameOK, IdTag
  <2>2. o \in reqClose(p, f)
    BY <1>2, <2>1, Dispatches
  <2>3. CloseEffect(p, o.p, r.id, ans) /\ ans \in AnswerType
    BY <1>4, <2>1, <2>2, CloseHas, Zenon
  <2>. HIDE DEF ans
  <2>. QED
    BY <1>4, <2>3 DEF Effect, ans
<1>5. CASE r.tag = "Read"
  <2>1. f[3] = REQ_READ /\ Get32(f, 4) = r.id /\ r.size \in Nat /\ Get16(f, 8) = r.size
    BY <1>1, <1>5 DEF FrameOK, IdTag
  <2>2. o \in reqRead(p, f)
    BY <1>2, <2>1, Dispatches
  <2>3. ReadEffect(p, o.p, r, ans) /\ ans \in AnswerType
    BY <1>5, <2>1, <2>2, ReadHas, Zenon
  <2>. HIDE DEF ans
  <2>. QED
    BY <1>5, <2>3 DEF Effect, ans
<1>6. CASE r.tag = "Write"
  <2>1. f[3] = REQ_WRITE /\ Get32(f, 4) = r.id /\ r.data \in Seq(Nat) /\ GetString(f, 8) = r.data
    BY <1>1, <1>6 DEF FrameOK, IdTag
  <2>2. o \in reqWrite(p, f)
    BY <1>2, <2>1, Dispatches
  <2>3. WriteEffect(p, o.p, r, ans) /\ ans \in AnswerType
    BY <1>6, <2>1, <2>2, WriteHas, Zenon
  <2>. HIDE DEF ans
  <2>. QED
    BY <1>6, <2>3 DEF Effect, ans
<1>7. CASE r.tag = "Puts"
  <2>1. f[3] = REQ_PUTS /\ Get32(f, 4) = r.id /\ r.data \in Seq(Nat) /\ GetString(f, 8) = r.data
    BY <1>1, <1>7 DEF FrameOK, IdTag
  <2>2. o \in reqPuts(p, f)
    BY <1>2, <2>1, Dispatches
  <2>3. PutsEffect(p, o.p, r, ans) /\ ans \in AnswerType
    BY <1>7, <2>1, <2>2, PutsHas, Zenon
  <2>. HIDE DEF ans
  <2>. QED
    BY <1>7, <2>3 DEF Effect, ans
<1>8. CASE r.tag \notin {"Open", "Close", "Read", "Write", "Puts"}
  <2>1. Same(p, o.p) /\ ans \in AnswerType
    BY <1>1, <1>2, <1>8, OtherHas, Zenon DEF Leaves
  <2>. HIDE DEF ans
  <2>. QED
    BY <1>8, <2>1 DEF Effect, ans
<1>. QED
  BY <1>3, <1>4, <1>5, <1>6, <1>7, <1>8

LEMMA ConsoleStays ==
  ASSUME NEW p, ConsoleOnly(p), NEW q, NEW r, NEW ans, Effect(p, q, r, ans)
  PROVE  ConsoleOnly(q)
<1>1. \/ Files(q.myFiles) \subseteq Files(p.myFiles)
      \/ \E id \in StreamId : id >= 2 /\ Files(q.myFiles) = Files(p.myFiles) \cup {id}
  <2>1. CASE r.tag = "Open"
    BY <2>1 DEF Effect, OpenEffect, OpenedAt, Same
  <2>2. CASE r.tag = "Close"
    BY <2>2 DEF Effect, CloseEffect
  <2>3. CASE r.tag = "Read"
    BY <2>3, Zenon DEF Effect, ReadEffect, ReadAt, Same
  <2>4. CASE r.tag = "Write"
    BY <2>4, Zenon DEF Effect, WriteEffect, StoredAt, Same
  <2>5. CASE r.tag = "Puts"
    BY <2>5, Zenon DEF Effect, PutsEffect, StoredAt, Same
  <2>6. CASE r.tag \notin {"Open", "Close", "Read", "Write", "Puts"}
    BY <2>6, Zenon DEF Effect, Same
  <2>. QED
    BY <2>1, <2>2, <2>3, <2>4, <2>5, <2>6
<1>. QED
  BY <1>1 DEF ConsoleOnly, FILE_STDIN, FILE_STDOUT

-----------------------------------------------------------------------------
(* Each effect is what FileService lets the call do.                       *)
LEMMA HandlesAre ==
  /\ Handles = HandlesOf(myPlatform)
  /\ Handles' = HandlesOf(myPlatform')
  /\ Files(myPlatform.myFiles) = DOMAIN Handles
<1>1. FileStreams = Files(myPlatform.myFiles)
  BY Zenon DEF FileStreams, Files
<1>2. FileStreams' = Files(myPlatform'.myFiles)
  BY Zenon DEF FileStreams, Files
<1>3. Handles = [id \in FileStreams |-> HandleOf(myPlatform.myFiles[id])]
  BY Zenon DEF Handles, HandleOf
<1>4. Handles' = [id \in FileStreams' |-> HandleOf(myPlatform'.myFiles[id])]
  BY Zenon DEF Handles, HandleOf
<1>. QED
  BY <1>1, <1>2, <1>3, <1>4, Zenon DEF HandlesOf

(* The variables of FileService before and after the step, by their names. *)
Step(p, q, r, ans) ==
  /\ cpu.call = r /\ answer' = ans /\ myPlatform = p /\ myPlatform' = q

LEMMA OpenServes ==
  ASSUME NEW p, NEW q, NEW r, NEW ans, Step(p, q, r, ans), r.tag = "Open", OpenEffect(p, q, r, ans)
  PROVE  (\E id \in StreamId : Service!Open(id)) \/ Service!Other
<1>0. /\ Handles = HandlesOf(p) /\ Handles' = HandlesOf(q) /\ cpu.call = r /\ answer' = ans
      /\ myPlatform.disk = p.disk /\ (myPlatform.disk)' = q.disk
      /\ Files(p.myFiles) = DOMAIN HandlesOf(p)
  BY HandlesAre DEF Step
<1>1. CASE ans.result # RES_SUCCESS /\ Same(p, q)
  <2>1. Service!Other
    BY <1>0, <1>1 DEF Service!Other, Service!RES_SUCCESS, RES_SUCCESS, Same
  <2>. QED
    BY <2>1
<1>2. ASSUME r.mode \in 1 .. 6, NEW garbage \in Uninitialised,
             NEW id, OpenedAt(p, q, id, r.name, garbage \cup ModeBits(r.mode)), ans = Succeeded(<<id>>)
      PROVE  id \in StreamId /\ Service!Open(id)
  <2>. DEFINE mode == garbage \cup ModeBits(r.mode)
              content == Opened(p.disk, r.name, mode)
              handle == NewHandle(r.name, mode, content)
  <2>1. /\ id \in StreamId /\ id \notin Files(p.myFiles)
        /\ HandlesOf(q) = WithHandle(p, id, handle)
        /\ q.disk = OnDisk(p.disk, r.name, content)
        /\ CanOpen(p.disk, r.name, mode)
    BY <1>2, Zenon DEF OpenedAt
  <2>2. r.mode \in DOMAIN Service!OpenModes /\ ModeBits(r.mode) = Service!OpenModes[r.mode]
    <3>1. /\ r.mode = 1 => ModeBits(r.mode) = {"in"}
          /\ r.mode = 2 => ModeBits(r.mode) = {"out", "trunc"}
          /\ r.mode = 3 => ModeBits(r.mode) = {}
          /\ r.mode \in {4, 5, 6} => ModeBits(r.mode) = {"in", "out"}
      BY <1>2, ModeIs, Zenon
    <3>. QED
      BY <1>2, <3>1 DEF Service!OpenModes
  <2>. HIDE DEF mode
  <2>3. Service!Opens(mode, r.name \in DOMAIN myPlatform.disk)
    BY <1>0, <2>1 DEF CanOpen, Service!Opens
  <2>4. content = IF Service!Empties(mode) \/ r.name \notin DOMAIN myPlatform.disk THEN <<>>
                  ELSE myPlatform.disk[r.name]
    BY <1>0, Zenon DEF Opened, Truncates, Service!Empties
  <2>. HIDE DEF content
  <2>5. (myPlatform.disk)' = [n \in DOMAIN myPlatform.disk \cup {r.name} |->
                                IF n = r.name THEN content ELSE myPlatform.disk[n]]
    BY <1>0, <2>1, Zenon DEF OnDisk
  <2>6. handle = [name |-> r.name, mode |-> mode,
                  pos |-> IF "ate" \in mode THEN Len(content) ELSE 0, used |-> "none"]
    BY Zenon DEF NewHandle
  <2>. HIDE DEF handle
  <2>7. Handles' = [h \in DOMAIN Handles \cup {id} |-> IF h # id THEN Handles[h] ELSE handle]
    BY <1>0, <2>1 DEF WithHandle
  <2>8. ans = Service!Success(<<id>>)
    BY <1>2 DEF Succeeded, Service!Success, Service!RES_SUCCESS, RES_SUCCESS
  <2>9. ~Service!Held(id)
    BY <1>0, <2>1 DEF Service!Held
  <2>10. Service!Opening(id, r.name, mode)
    BY <2>3, <2>4, <2>5, <2>6, <2>7, Zenon DEF Service!Opening
  <2>11. Service!Opening(id, cpu.call.name, garbage \cup Service!OpenModes[cpu.call.mode])
    BY <1>0, <2>2, <2>10, Zenon DEF mode
  <2>12. Service!Open(id)
    BY <1>0, <1>2, <2>2, <2>8, <2>9, <2>11, Zenon DEF Service!Open
  <2>. QED
    BY <2>1, <2>12
<1>. QED
  BY <1>1, <1>2, Zenon DEF OpenEffect

LEMMA CloseServes ==
  ASSUME NEW p, NEW q, NEW r, NEW ans, Step(p, q, r, ans), r.tag = "Close", CloseEffect(p, q, r.id, ans)
  PROVE  (\E id \in StreamId : Service!Close(id)) \/ Service!Other
<1>0. /\ Handles = HandlesOf(p) /\ Handles' = HandlesOf(q) /\ cpu.call = r /\ answer' = ans
      /\ myPlatform.disk = p.disk /\ (myPlatform.disk)' = q.disk
      /\ Files(p.myFiles) = DOMAIN HandlesOf(p)
  BY HandlesAre DEF Step
<1>1. /\ ans.value = <<>> /\ q.disk = p.disk /\ HandlesOf(q) = Closed(p, r.id)
      /\ r.id \notin Files(p.myFiles) => HandlesOf(q) = HandlesOf(p)
  BY DEF CloseEffect
<1>2. CASE r.id \in Files(p.myFiles)
  <2>1. r.id \in StreamId
    BY <1>2 DEF Files
  <2>2. Handles' = [h \in DOMAIN Handles \ {r.id} |-> Handles[h]]
    BY <1>0, <1>1 DEF Closed
  <2>3. Service!Close(r.id)
    BY <1>0, <1>1, <1>2, <2>2 DEF Service!Close, Service!Held
  <2>. QED
    BY <2>1, <2>3
<1>3. CASE r.id \notin Files(p.myFiles)
  <2>1. ~Service!Held(r.id)
    BY <1>0, <1>3 DEF Service!Held
  <2>2. Service!Other
    BY <1>0, <1>1, <1>3, <2>1 DEF Service!Other
  <2>. QED
    BY <2>2
<1>. QED
  BY <1>2, <1>3

LEMMA ReadServes ==
  ASSUME NEW p, NEW q, NEW r, NEW ans, Step(p, q, r, ans), r.tag = "Read", ReadEffect(p, q, r, ans)
  PROVE  (\E id \in StreamId : Service!Read(id)) \/ Service!Other
<1>0. /\ Handles = HandlesOf(p) /\ Handles' = HandlesOf(q) /\ cpu.call = r /\ answer' = ans
      /\ myPlatform.disk = p.disk /\ (myPlatform.disk)' = q.disk
      /\ Files(p.myFiles) = DOMAIN HandlesOf(p)
  BY HandlesAre DEF Step
<1>1. Service!MayRead(r.id) <=> r.id \in Files(p.myFiles) /\ CanRead(p, r.id)
  BY <1>0, Zenon DEF Service!MayRead, Service!Held, CanRead
<1>2. CASE Same(p, q) /\ (r.id \in Files(p.myFiles) => ~CanRead(p, r.id))
  <2>1. ~Service!MayRead(r.id)
    BY <1>1, <1>2
  <2>2. ~Service!Usable(r.id)
    BY <1>0, <2>1 DEF Service!Usable
  <2>3. Service!Other
    BY <1>0, <1>2, <2>2 DEF Service!Other, Same
  <2>. QED
    BY <2>3
<1>3. ASSUME r.id \in Files(p.myFiles), CanRead(p, r.id),
             NEW data, ReadAt(p, q, r.id, r.size, data), ans = Succeeded(data)
      PROVE  r.id \in StreamId /\ Service!Read(r.id)
  <2>1. r.id \in StreamId
    BY <1>3 DEF Files
  <2>2. /\ q.disk = p.disk
        /\ HandlesOf(q) = MovedTo(p, r.id, Pos(p, r.id) + Len(data), "read")
        /\ data = SubSeq(Content(p, r.id), Pos(p, r.id) + 1, Pos(p, r.id) + Len(data))
        /\ Len(data) = r.size \/ (Len(data) < r.size /\ Pos(p, r.id) + Len(data) = Len(Content(p, r.id)))
    BY <1>3, Zenon DEF ReadAt
  <2>3. Pos(p, r.id) = Handles[r.id].pos /\ Content(p, r.id) = Service!Content(r.id)
    BY <1>0, Zenon DEF Pos, Content, Service!Content
  <2>4. ans.value = data /\ ans = Service!Success(data)
    BY <1>3 DEF Succeeded, Service!Success, Service!RES_SUCCESS, RES_SUCCESS
  <2>5. Service!Moved(r.id, Handles[r.id].pos + Len(data), "read")
    BY <1>0, <2>2, <2>3, Zenon DEF MovedTo, Service!Moved
  <2>6. Service!MayRead(r.id)
    BY <1>1, <1>3
  <2>7. answer' = Service!Success(SubSeq(Service!Content(r.id), Handles[r.id].pos + 1, Handles[r.id].pos + Len(data)))
    BY <1>0, <2>2, <2>3, <2>4, Zenon
  <2>8. \/ Len(data) = r.size
        \/ Len(data) < r.size /\ Handles[r.id].pos + Len(data) = Len(Service!Content(r.id))
    BY <2>2, <2>3, Zenon
  <2>9. /\ cpu.call.tag = "Read" /\ cpu.call.id = r.id /\ cpu.call.size = r.size
        /\ answer'.value = data /\ UNCHANGED myPlatform.disk
    BY <1>0, <2>2, <2>4
  <2>10. Service!Read(r.id)
    BY <2>5, <2>6, <2>7, <2>8, <2>9, Zenon DEF Service!Read
  <2>. QED
    BY <2>1, <2>10
<1>. QED
  BY <1>2, <1>3, Zenon DEF ReadEffect

-----------------------------------------------------------------------------
LEMMA StoredServes ==
  ASSUME NEW p, NEW q, NEW r, NEW ans, Step(p, q, r, ans), NEW id \in Files(p.myFiles), NEW part,
         StoredAt(p, q, id, part)
  PROVE  Service!Store(id, part)
<1>0. /\ Handles = HandlesOf(p) /\ Handles' = HandlesOf(q)
      /\ myPlatform.disk = p.disk /\ (myPlatform.disk)' = q.disk
  BY HandlesAre DEF Step
<1>. DEFINE pos == IF "app" \in Handles[id].mode THEN Len(Service!Content(id)) ELSE Handles[id].pos
<1>1. /\ WritePos(p, id) = pos /\ Content(p, id) = Service!Content(id)
      /\ HandlesOf(p)[id].name = Handles[id].name
  BY <1>0, Zenon DEF WritePos, Pos, Content, Service!Content
<1>. HIDE DEF pos
<1>2. (myPlatform.disk)' = [myPlatform.disk EXCEPT ![Handles[id].name] =
                              Over(Service!Content(id), pos, part)]
  BY <1>0, <1>1, Zenon DEF StoredAt
<1>3. Service!Moved(id, pos + Len(part), "write")
  BY <1>0, <1>1, Zenon DEF StoredAt, MovedTo, Service!Moved
<1>. QED
  BY <1>2, <1>3, Zenon DEF Service!Store, Over, pos

LEMMA MayWriteIs ==
  ASSUME NEW p, myPlatform = p, NEW id
  PROVE  Service!MayWrite(id) <=> id \in Files(p.myFiles) /\ CanWrite(p, id)
<1>1. Handles = HandlesOf(p) /\ Files(p.myFiles) = DOMAIN Handles
  BY HandlesAre
<1>. QED
  BY <1>1, Zenon DEF Service!MayWrite, Service!Held, CanWrite

LEMMA WriteServes ==
  ASSUME NEW p, NEW q, NEW r, NEW ans, Step(p, q, r, ans), r.tag = "Write", WriteEffect(p, q, r, ans)
  PROVE  (\E id \in StreamId : Service!Write(id)) \/ Service!Other
<1>0. /\ Handles = HandlesOf(p) /\ Handles' = HandlesOf(q) /\ cpu.call = r /\ answer' = ans
      /\ myPlatform.disk = p.disk /\ (myPlatform.disk)' = q.disk
  BY HandlesAre DEF Step
<1>1. Service!MayWrite(r.id) <=> r.id \in Files(p.myFiles) /\ CanWrite(p, r.id)
  BY MayWriteIs DEF Step
<1>2. CASE Same(p, q) /\ (r.id \in Files(p.myFiles) => r.data = <<>> \/ ~CanWrite(p, r.id))
  <2>1. r.data = <<>> \/ ~Service!MayWrite(r.id)
    BY <1>1, <1>2
  <2>2. ~Service!Usable(r.id)
    BY <1>0, <2>1 DEF Service!Usable
  <2>3. Service!Other
    BY <1>0, <1>2, <2>2 DEF Service!Other, Same
  <2>. QED
    BY <2>3
<1>3. ASSUME r.id \in Files(p.myFiles), CanWrite(p, r.id), r.data # <<>>,
             NEW n \in 0 .. Len(r.data), StoredAt(p, q, r.id, SubSeq(r.data, 1, n)), ans = Succeeded(<<n>>)
      PROVE  r.id \in StreamId /\ Service!Write(r.id)
  <2>1. r.id \in StreamId
    BY <1>3 DEF Files
  <2>2. Service!Store(r.id, SubSeq(r.data, 1, n))
    BY <1>3, StoredServes
  <2>3. answer' = Service!Success(<<n>>)
    BY <1>0, <1>3 DEF Succeeded, Service!Success, Service!RES_SUCCESS, RES_SUCCESS
  <2>4. /\ cpu.call.tag = "Write" /\ cpu.call.id = r.id /\ cpu.call.data = r.data
        /\ Service!MayWrite(r.id)
    BY <1>0, <1>1, <1>3
  <2>5. Service!Write(r.id)
    BY <1>3, <2>2, <2>3, <2>4, Zenon DEF Service!Write
  <2>. QED
    BY <2>1, <2>5
<1>. QED
  BY <1>2, <1>3, Zenon DEF WriteEffect

LEMMA PutsServes ==
  ASSUME NEW p, NEW q, NEW r, NEW ans, Step(p, q, r, ans), r.tag = "Puts", PutsEffect(p, q, r, ans)
  PROVE  (\E id \in StreamId : Service!Puts(id)) \/ Service!Other
<1>0. /\ Handles = HandlesOf(p) /\ Handles' = HandlesOf(q) /\ cpu.call = r /\ answer' = ans
      /\ myPlatform.disk = p.disk /\ (myPlatform.disk)' = q.disk
  BY HandlesAre DEF Step
<1>1. Service!MayWrite(r.id) <=> r.id \in Files(p.myFiles) /\ CanWrite(p, r.id)
  BY MayWriteIs DEF Step
<1>2. CASE Same(p, q) /\ (r.id \in Files(p.myFiles) => ~CanWrite(p, r.id))
  <2>1. ~Service!MayWrite(r.id)
    BY <1>1, <1>2
  <2>2. ~Service!Usable(r.id)
    BY <1>0, <2>1 DEF Service!Usable
  <2>3. Service!Other
    BY <1>0, <1>2, <2>2 DEF Service!Other, Same
  <2>. QED
    BY <2>3
<1>3. ASSUME r.id \in Files(p.myFiles), CanWrite(p, r.id), ans = Succeeded(<<>>),
             NEW n \in 0 .. Len(r.data), NEW newline \in {<<>>, << 10 >>},
             StoredAt(p, q, r.id, SubSeq(r.data, 1, n) \o newline)
      PROVE  r.id \in StreamId /\ Service!Puts(r.id)
  <2>1. r.id \in StreamId
    BY <1>3 DEF Files
  <2>2. Service!Store(r.id, SubSeq(r.data, 1, n) \o newline)
    BY <1>3, StoredServes
  <2>3. answer' = Service!Success(<<>>)
    BY <1>0, <1>3 DEF Succeeded, Service!Success, Service!RES_SUCCESS, RES_SUCCESS
  <2>4. /\ cpu.call.tag = "Puts" /\ cpu.call.id = r.id /\ cpu.call.data = r.data
        /\ Service!MayWrite(r.id)
    BY <1>0, <1>1, <1>3
  <2>5. Service!Puts(r.id)
    BY <1>3, <2>2, <2>3, <2>4, Zenon DEF Service!Puts
  <2>. QED
    BY <2>1, <2>5
<1>. QED
  BY <1>2, <1>3, Zenon DEF PutsEffect

(* Serving a call does to the files and handles what FileService lets it.  *)
LEMMA EffectServes ==
  ASSUME NEW p, NEW q, NEW r, NEW ans, Step(p, q, r, ans), Effect(p, q, r, ans)
  PROVE  \/ \E id \in StreamId : \/ Service!Open(id) \/ Service!Close(id) \/ Service!Read(id)
                              \/ Service!Write(id) \/ Service!Puts(id)
         \/ Service!Other
<1>1. CASE r.tag = "Open"
  BY <1>1, OpenServes, Zenon DEF Effect
<1>2. CASE r.tag = "Close"
  BY <1>2, CloseServes, Zenon DEF Effect
<1>3. CASE r.tag = "Read"
  BY <1>3, ReadServes, Zenon DEF Effect
<1>4. CASE r.tag = "Write"
  BY <1>4, WriteServes, Zenon DEF Effect
<1>5. CASE r.tag = "Puts"
  BY <1>5, PutsServes, Zenon DEF Effect
<1>6. CASE r.tag \notin {"Open", "Close", "Read", "Write", "Puts"}
  <2>1. /\ Handles' = Handles /\ (myPlatform.disk)' = myPlatform.disk /\ cpu.call = r
    BY <1>6, HandlesAre DEF Effect, Step, Same
  <2>2. Service!Other
    BY <1>6, <2>1 DEF Service!Other
  <2>. QED
    BY <2>2
<1>. QED
  BY <1>1, <1>2, <1>3, <1>4, <1>5, <1>6

-----------------------------------------------------------------------------
(* The answer is there while it is on its way, and what the program is to  *)
(* understand is what it is.                                               *)
OnItsWay == cpu.pc = "receive" /\ (server.pc = "writeFrame" \/ link["A"] # <<>>)
Carried(ans, call, in, byte, out) ==
  \E frame \in Seq(Nat) :
    /\ Get16(frame, 1) \in Nat /\ Len(frame) = 2 + Get16(frame, 1)
    /\ Transit(frame, 0, in, byte, out)
    /\ ans = Understand(call, frame)
AnswerOK ==
  /\ OnItsWay => answer \in AnswerType /\ Carried(answer, cpu.call, cpu.in, link["A"], server.out)
  /\ ~OnItsWay => answer = NoAnswer

ServiceInv == ConsoleOnly(myPlatform) /\ AnswerOK
Refines == ServiceInv' /\ (Service!Next \/ UNCHANGED Service!serviceVars)

LEMMA ServiceSame ==
  ASSUME cpu'.call = cpu.call, cpu'.result = cpu.result, answer' = answer, myPlatform' = myPlatform
  PROVE  UNCHANGED Service!serviceVars
<1>1. Handles' = Handles
  BY HandlesAre, Zenon
<1>2. (myPlatform.disk)' = myPlatform.disk /\ (cpu.call)' = cpu.call /\ (cpu.result)' = cpu.result
  OBVIOUS
<1>. QED
  BY <1>1, <1>2 DEF Service!serviceVars

(* Most steps neither answer nor touch the platform.                       *)
LEMMA Unseen ==
  ASSUME ServiceInv, ~OnItsWay, ~OnItsWay',
         cpu'.call = cpu.call, cpu'.result = cpu.result, answer' = answer, myPlatform' = myPlatform
  PROVE  Refines
<1>1. UNCHANGED Service!serviceVars
  BY ServiceSame
<1>2. answer' = NoAnswer
  BY DEF ServiceInv, AnswerOK
<1>3. ConsoleOnly(myPlatform)'
  BY Zenon DEF ServiceInv
<1>4. AnswerOK'
  BY <1>2, Zenon DEF AnswerOK
<1>. QED
  BY <1>1, <1>3, <1>4, Zenon DEF Refines, ServiceInv

LEMMA Shapes ==
  ASSUME Inv
  PROVE  /\ DOMAIN server = {"pc", "out", "in", "exitCode", "exit"}
         /\ DOMAIN cpu = {"pc", "out", "in", "call", "result", "calls"}
         /\ link \in [{"A", "B"} -> Seq(Nat)]
  BY DEF Inv, ShapeOK

LEMMA SendFileRefines == ASSUME Inv, ServiceInv, sendFileOverLink PROVE Refines
<1>1. server.pc = "sendFile" /\ cpu' = cpu /\ myPlatform' = myPlatform /\ answer' = answer
  BY DEF sendFileOverLink
<1>2. cpu.pc \in {"boot", "load"}
  BY <1>1 DEF Inv, Protocol, Loading, Waiting, Running, SendingBad, Calling, Arriving, Serving, Returning, Ending
<1>3. ~OnItsWay /\ ~OnItsWay'
  BY <1>1, <1>2 DEF OnItsWay
<1>. QED
  BY <1>1, <1>3, Unseen

LEMMA ReadFrameRefines == ASSUME Inv, ServiceInv, readFrame PROVE Refines
<1>1. /\ server.pc = "readFrame" /\ link["B"] # <<>>
      /\ cpu' = cpu /\ myPlatform' = myPlatform /\ answer' = answer
  BY DEF readFrame, readByte
<1>2. cpu.pc = "receive" => link["A"] = <<>>
  BY <1>1 DEF Inv, Protocol, Loading, Waiting, Running, SendingBad, Calling, Arriving, Serving, Returning, Ending
<1>3. link'["A"] = link["A"]
  BY Shapes DEF readFrame, readByte
<1>4. server'.pc \in {"readFrame", "requestResponse"}
  <2>1. \E buf, pc : server' = [server EXCEPT !.in = buf, !.pc = pc] /\ pc \in {"readFrame", "requestResponse"}
    BY <1>1 DEF readFrame
  <2>. QED
    BY <2>1, Shapes
<1>5. ~OnItsWay /\ ~OnItsWay'
  BY <1>1, <1>2, <1>3, <1>4 DEF OnItsWay
<1>. QED
  BY <1>1, <1>5, Unseen

LEMMA JoinRefines == ASSUME Inv, ServiceInv, join PROVE Refines
<1>1. cpu.pc = "terminated" /\ cpu' = cpu /\ myPlatform' = myPlatform /\ answer' = answer
  BY DEF join
<1>2. ~OnItsWay /\ ~OnItsWay'
  BY <1>1 DEF OnItsWay
<1>. QED
  BY <1>1, <1>2, Unseen

LEMMA StartRefines == ASSUME Inv, ServiceInv, start PROVE Refines
<1>1. cpu.pc = "boot" /\ myPlatform' = myPlatform /\ answer' = answer
  BY DEF start
<1>2. PICK in : BootPoke(in) \/ BootCode(in)
  BY DEF start
<1>3. cpu'.pc \in {"boot", "load"} /\ cpu'.call = cpu.call /\ cpu'.result = cpu.result
  BY <1>1, <1>2, Shapes DEF BootPoke, BootCode
<1>4. ~OnItsWay /\ ~OnItsWay'
  BY <1>1, <1>3 DEF OnItsWay
<1>. QED
  BY <1>1, <1>3, <1>4, Unseen

LEMMA LoadRefines == ASSUME Inv, ServiceInv, Load PROVE Refines
<1>1. cpu.pc = "load" /\ myPlatform' = myPlatform /\ answer' = answer
  BY DEF Load
<1>2. \E in : cpu' = [cpu EXCEPT !.in = <<>>, !.pc = "run"] \/ cpu' = [cpu EXCEPT !.in = in]
  BY DEF Load
<1>3. cpu'.pc \in {"load", "run"} /\ cpu'.call = cpu.call /\ cpu'.result = cpu.result
  BY <1>1, <1>2, Shapes
<1>4. ~OnItsWay /\ ~OnItsWay'
  BY <1>1, <1>3 DEF OnItsWay
<1>. QED
  BY <1>1, <1>3, <1>4, Unseen

LEMMA SendBadSizeRefines == ASSUME Inv, ServiceInv, NEW size, SendBadSize(size) PROVE Refines
<1>1. cpu.pc = "run" /\ myPlatform' = myPlatform /\ answer' = answer
  BY DEF SendBadSize
<1>2. \E out, calls : cpu' = [cpu EXCEPT !.pc = "send", !.out = out, !.calls = calls]
  BY DEF SendBadSize
<1>3. cpu'.pc = "send" /\ cpu'.call = cpu.call /\ cpu'.result = cpu.result
  BY <1>2, Shapes
<1>4. ~OnItsWay /\ ~OnItsWay'
  BY <1>1, <1>3 DEF OnItsWay
<1>. QED
  BY <1>1, <1>3, <1>4, Unseen

LEMMA SendRefines == ASSUME Inv, ServiceInv, Send PROVE Refines
<1>1. cpu.pc = "send" /\ server' = server /\ myPlatform' = myPlatform /\ answer' = answer
  BY DEF Send
<1>2. \E out, pc : cpu' = [cpu EXCEPT !.out = out, !.pc = pc]
  BY DEF Send
<1>3. cpu'.call = cpu.call /\ cpu'.result = cpu.result
  BY <1>2, Shapes
<1>4. server.pc = "readFrame" /\ link["A"] = <<>>
  BY <1>1 DEF Inv, Protocol, Loading, Waiting, Running, SendingBad, Calling, Arriving, Serving, Returning, Ending
<1>5. link'["A"] = link["A"]
  BY Shapes DEF Send, writeByte
<1>6. ~OnItsWay /\ ~OnItsWay'
  BY <1>1, <1>4, <1>5 DEF OnItsWay
<1>. QED
  BY <1>1, <1>3, <1>6, Unseen

LEMMA TerminateRefines == ASSUME Inv, ServiceInv, terminate PROVE Refines
<1>1. /\ cpu.pc \in {"run", "exit"} /\ myPlatform' = myPlatform /\ answer' = answer
      /\ cpu' = [cpu EXCEPT !.pc = "terminated"]
  BY DEF terminate
<1>2. cpu'.pc = "terminated" /\ cpu'.call = cpu.call /\ cpu'.result = cpu.result
  BY <1>1, Shapes
<1>3. ~OnItsWay /\ ~OnItsWay'
  BY <1>1, <1>2 DEF OnItsWay
<1>. QED
  BY <1>1, <1>2, <1>3, Unseen

LEMMA StutterRefines == ASSUME Inv, ServiceInv, UNCHANGED vars PROVE Refines
<1>1. link' = link /\ server' = server /\ myPlatform' = myPlatform /\ cpu' = cpu /\ answer' = answer
  BY DEF vars
<1>2. UNCHANGED Service!serviceVars
  BY <1>1, ServiceSame
<1>3. ServiceInv'
  BY <1>1, Zenon DEF ServiceInv, AnswerOK, OnItsWay
<1>. QED
  BY <1>2, <1>3 DEF Refines

-----------------------------------------------------------------------------
(* The steps that FileService sees.                                        *)
LEMMA CallRefines == ASSUME Inv, ServiceInv, NEW r \in Request, Call(r) PROVE Refines
<1>1. cpu.pc = "run" /\ myPlatform' = myPlatform /\ answer' = answer
  BY DEF Call
<1>2. \E out, calls : cpu' = [cpu EXCEPT !.pc = "send", !.out = out, !.in = <<>>, !.call = r,
                                         !.result = NoAnswer, !.calls = calls]
  BY DEF Call
<1>3. cpu'.pc = "send" /\ cpu'.call = r /\ cpu'.result = NoAnswer
  BY <1>2, Shapes
<1>4. cpu.call = NoCall
  BY <1>1 DEF Inv, Protocol, Loading, Running, SendingBad, Calling, Arriving, Serving, Returning, Ending
<1>5. ~OnItsWay /\ ~OnItsWay'
  BY <1>1, <1>3 DEF OnItsWay
<1>6. ServiceInv'
  BY <1>1, <1>5, Zenon DEF ServiceInv, AnswerOK
<1>7. Service!Call(r)
  <2>1. Handles' = Handles
    BY <1>1, HandlesAre, Zenon
  <2>. QED
    BY <1>1, <1>3, <1>4, <2>1 DEF Service!Call
<1>8. Service!Next
  BY <1>7 DEF Service!Next
<1>. QED
  BY <1>6, <1>8 DEF Refines

LEMMA WriteFrameRefines == ASSUME Inv, ServiceInv, writeFrame PROVE Refines
<1>1. /\ server.pc = "writeFrame" /\ cpu' = cpu /\ myPlatform' = myPlatform /\ answer' = answer
      /\ link["A"] = <<>> /\ link' = [link EXCEPT !["A"] = <<Head(server.out)>>]
  BY DEF writeFrame, writeBytes, writeByte
<1>2. cpu.pc = "receive" /\ server.out # <<>>
  BY <1>1 DEF Inv, Protocol, Loading, Waiting, Running, SendingBad, Calling, Arriving, Serving, Returning, Ending
<1>3. link'["A"] = <<Head(server.out)>>
  BY <1>1, Shapes
<1>4. server'.out = Tail(server.out)
  <2>1. \E pc : server' = [server EXCEPT !.out = Tail(server.out), !.pc = pc]
    BY DEF writeFrame
  <2>. QED
    BY <2>1, Shapes
<1>5. OnItsWay
  BY <1>1, <1>2 DEF OnItsWay
<1>6. answer \in AnswerType /\ Carried(answer, cpu.call, cpu.in, link["A"], server.out)
  BY <1>5, Zenon DEF ServiceInv, AnswerOK
<1>7. PICK frame \in Seq(Nat) :
        /\ Get16(frame, 1) \in Nat /\ Len(frame) = 2 + Get16(frame, 1)
        /\ Transit(frame, 0, cpu.in, <<>>, server.out)
        /\ answer = Understand(cpu.call, frame)
  BY <1>1, <1>6, Zenon DEF Carried
<1>8. Transit(frame, 0, cpu.in, <<Head(server.out)>>, Tail(server.out))
  BY <1>2, <1>7, TransitPut, Zenon
<1>9. Carried(answer, cpu.call, cpu.in, <<Head(server.out)>>, Tail(server.out))
  BY <1>7, <1>8, Zenon DEF Carried
<1>10. Carried(answer, cpu.call, cpu.in, link["A"], server.out)'
  BY <1>1, <1>3, <1>4, <1>9, Zenon
<1>11. OnItsWay'
  <2>1. Len(<<Head(server.out)>>) = 1 /\ Len(<<>>) = 0
    OBVIOUS
  <2>2. <<Head(server.out)>> # <<>>
    BY <2>1
  <2>. QED
    BY <1>1, <1>2, <1>3, <2>2, Zenon DEF OnItsWay
<1>12. AnswerOK'
  BY <1>1, <1>6, <1>10, <1>11, Zenon DEF AnswerOK
<1>13. ServiceInv'
  BY <1>1, <1>12, Zenon DEF ServiceInv
<1>14. UNCHANGED Service!serviceVars
  BY <1>1, ServiceSame
<1>. QED
  BY <1>13, <1>14 DEF Refines

-----------------------------------------------------------------------------
LEMMA NoAnswerIs == ASSUME NEW a \in AnswerType PROVE a # NoAnswer
  BY NoAnswerAssumption, Zenon DEF AnswerType

LEMMA RequestResponseRefines ==
  ASSUME Inv, ServiceInv, RequestResponse
  PROVE  Refines
<1>1. server.pc = "requestResponse" /\ cpu' = cpu /\ link' = link
  BY DEF RequestResponse
<1>2. Serving
  BY <1>1 DEF Inv, Protocol, Loading, Waiting, Running, SendingBad, Calling, Arriving, Returning, Ending
<1>3. /\ cpu.pc = "receive" /\ cpu.call \in Request /\ link["A"] = <<>> /\ cpu.in = <<>>
      /\ server.in = Frame(cpu.call)
      /\ cpu.call.tag = "Open" => cpu.call.name \notin Names(myPlatform.myFiles)
  BY <1>2, Zenon DEF Serving, Fresh
<1>4. PICK o \in requestResponse(myPlatform, server.in) :
        /\ myPlatform' = o.p
        /\ server' = [server EXCEPT !.out = fillInFrameSize(o.put),
                                    !.in = <<>>,
                                    !.pc = "writeFrame",
                                    !.exitCode = ExitCode(server.in, @),
                                    !.exit = server.in[3] = REQ_EXIT]
        /\ answer' = IF cpu.call = NoCall THEN NoAnswer
                     ELSE Understand(cpu.call, fillInFrameSize(o.put))
  BY Zenon DEF RequestResponse
<1>. DEFINE frame == fillInFrameSize(o.put)
            ans == Understand(cpu.call, frame)
<1>5. cpu.call # NoCall
  BY <1>3, RequestAssumption
<1>6. answer' = ans /\ ans = AnswerTo(o, cpu.call)
  BY <1>4, <1>5, Zenon DEF AnswerTo
<1>7. PlatformOK(myPlatform) /\ ConsoleOnly(myPlatform)
  BY Zenon DEF Inv, ShapeOK, ServiceInv
<1>8. Effect(myPlatform, myPlatform', cpu.call, ans)
  BY <1>3, <1>4, <1>6, <1>7, RequestHas, Zenon
<1>9. ConsoleOnly(myPlatform')
  BY <1>7, <1>8, ConsoleStays, Zenon
<1>10. ans \in AnswerType
  BY <1>8, Zenon DEF Effect
<1>11. Sized(frame)
  <2>1. Served(o)
    BY <1>3, <1>4, <1>7, RequestServed, Zenon
  <2>. QED
    BY <2>1, FillIs, Zenon DEF Served
<1>12. server'.out = frame /\ server'.pc = "writeFrame"
  <2>. DEFINE exitCode == ExitCode(server.in, server.exitCode)
              exit == server.in[3] = REQ_EXIT
  <2>1. server' = [server EXCEPT !.out = frame, !.in = <<>>, !.pc = "writeFrame",
                                 !.exitCode = exitCode, !.exit = exit]
    BY <1>4, Zenon
  <2>. HIDE DEF frame, exitCode, exit
  <2>. QED
    BY <2>1, Shapes
<1>13. Carried(answer, cpu.call, cpu.in, link["A"], server.out)'
  <2>1. frame \in Seq(Nat) /\ Get16(frame, 1) \in Nat /\ Len(frame) = 2 + Get16(frame, 1)
    BY <1>11, Zenon DEF Sized
  <2>2. Transit(frame, 0, <<>>, <<>>, frame)
    BY <2>1, TransitStart, Zenon
  <2>3. Carried(ans, cpu.call, <<>>, <<>>, frame)
    BY <2>1, <2>2, Zenon DEF Carried
  <2>. QED
    BY <1>1, <1>3, <1>6, <1>12, <2>3, Zenon
<1>. HIDE DEF frame, ans
<1>14. OnItsWay'
  BY <1>1, <1>3, <1>12, Zenon DEF OnItsWay
<1>15. AnswerOK'
  BY <1>6, <1>10, <1>13, <1>14, Zenon DEF AnswerOK
<1>16. ServiceInv'
  BY <1>9, <1>15, Zenon DEF ServiceInv
<1>17. answer = NoAnswer
  <2>1. ~OnItsWay
    BY <1>1, <1>3 DEF OnItsWay
  <2>. QED
    BY <2>1, Zenon DEF ServiceInv, AnswerOK
<1>18. Service!Serve
  <2>1. Step(myPlatform, myPlatform', cpu.call, ans)
    BY <1>6, Zenon DEF Step
  <2>2. \/ \E id \in StreamId : \/ Service!Open(id) \/ Service!Close(id) \/ Service!Read(id)
                                \/ Service!Write(id) \/ Service!Puts(id)
        \/ Service!Other
    BY <1>8, <2>1, EffectServes, Zenon
  <2>3. answer' # NoAnswer
    BY <1>6, <1>10, NoAnswerIs, Zenon
  <2>4. UNCHANGED <<cpu.call, cpu.result>>
    BY <1>1
  <2>. QED
    BY <1>5, <1>17, <2>2, <2>3, <2>4, Zenon DEF Service!Serve
<1>. QED
  BY <1>16, <1>18, Zenon DEF Refines, Service!Next

LEMMA ReceiveRefines == ASSUME Inv, ServiceInv, Receive PROVE Refines
<1>. DEFINE in == Append(cpu.in, link["A"][1])
            whole == Len(in) >= 2 /\ Len(in) = 2 + Get16(in, 1)
            result == Understand(cpu.call, in)
            pc == IF cpu.call.tag = "Exit" THEN "exit" ELSE "run"
<1>1. /\ cpu.pc = "receive" /\ link["A"] # <<>> /\ server' = server /\ myPlatform' = myPlatform
      /\ link' = [link EXCEPT !["A"] = <<>>]
  BY DEF Receive, readByte
<1>2. Returning
  BY <1>1 DEF Inv, Protocol, Loading, Running, SendingBad, Calling, Waiting, Arriving, Serving, Ending
<1>3. OnItsWay
  BY <1>1 DEF OnItsWay
<1>4. answer \in AnswerType /\ Carried(answer, cpu.call, cpu.in, link["A"], server.out)
  BY <1>3, Zenon DEF ServiceInv, AnswerOK
<1>5. PICK frame \in Seq(Nat) :
        /\ Get16(frame, 1) \in Nat /\ Len(frame) = 2 + Get16(frame, 1)
        /\ Transit(frame, 0, cpu.in, link["A"], server.out)
        /\ answer = Understand(cpu.call, frame)
  BY <1>4, Zenon DEF Carried
<1>6. Transit(frame, 0, in, <<>>, server.out)
  BY <1>1, <1>5, TransitTake, Zenon
<1>7. whole <=> server.out = <<>>
  BY <1>5, <1>6, TransitWhole, Zenon
<1>8. link'["A"] = <<>>
  BY <1>1, Shapes
<1>9. IF whole
      THEN /\ cpu' = [cpu EXCEPT !.in = <<>>, !.call = NoCall, !.result = result, !.pc = pc]
           /\ answer' = NoAnswer
      ELSE cpu' = [cpu EXCEPT !.in = in] /\ answer' = answer
  BY Zenon DEF Receive
<1>10. server.out # <<>> => server.pc = "writeFrame"
  BY <1>2 DEF Returning
<1>11. ConsoleOnly(myPlatform)'
  BY <1>1, Zenon DEF ServiceInv
<1>. HIDE DEF in, whole, result
<1>12. CASE whole
  <2>1. in = frame
    BY <1>6, <1>7, <1>12, TransitDone, Zenon
  <2>2. result = answer
    BY <1>5, <2>1, Zenon DEF result
  <2>3. pc \in {"exit", "run"}
    BY Zenon
  <2>. HIDE DEF pc
  <2>4. cpu'.call = NoCall /\ cpu'.result = answer /\ cpu'.pc \in {"exit", "run"} /\ answer' = NoAnswer
    BY <1>9, <1>12, <2>2, <2>3, Shapes
  <2>5. ~OnItsWay'
    BY <2>4 DEF OnItsWay
  <2>6. ServiceInv'
    BY <1>11, <2>4, <2>5, Zenon DEF ServiceInv, AnswerOK
  <2>7. answer # NoAnswer
    BY <1>4, NoAnswerIs
  <2>8. Handles' = Handles /\ (myPlatform.disk)' = myPlatform.disk
    BY <1>1, HandlesAre, Zenon
  <2>9. Service!Return
    BY <2>4, <2>7, <2>8 DEF Service!Return
  <2>. QED
    BY <2>6, <2>9 DEF Refines, Service!Next
<1>13. CASE ~whole
  <2>1. /\ cpu'.in = in /\ cpu'.call = cpu.call /\ cpu'.result = cpu.result /\ cpu'.pc = cpu.pc
        /\ answer' = answer
    BY <1>9, <1>13, Shapes
  <2>2. OnItsWay'
    BY <1>1, <1>7, <1>10, <1>13, <2>1, Zenon DEF OnItsWay
  <2>3. Carried(answer, cpu.call, in, <<>>, server.out)
    BY <1>5, <1>6, Zenon DEF Carried
  <2>4. Carried(answer, cpu.call, cpu.in, link["A"], server.out)'
    BY <1>1, <1>8, <2>1, <2>3, Zenon
  <2>5. AnswerOK'
    BY <1>4, <2>1, <2>2, <2>4, Zenon DEF AnswerOK
  <2>6. ServiceInv'
    BY <1>11, <2>5, Zenon DEF ServiceInv
  <2>7. UNCHANGED Service!serviceVars
    BY <1>1, <2>1, ServiceSame
  <2>. QED
    BY <2>6, <2>7 DEF Refines
<1>. QED
  BY <1>12, <1>13

LEMMA InitRefines == ASSUME Init PROVE ServiceInv /\ Service!Init
<1>1. /\ myPlatform = ConstructPlatform(InitialDisk) /\ answer = NoAnswer
      /\ cpu = [pc |-> "boot", out |-> <<>>, in |-> <<>>, call |-> NoCall, result |-> NoAnswer, calls |-> 0]
  BY DEF Init
<1>2. cpu.pc = "boot" /\ cpu.call = NoCall /\ cpu.result = NoAnswer
  BY <1>1
<1>3. myPlatform.disk = InitialDisk
  BY <1>1 DEF ConstructPlatform
<1>4. FileStreams = {}
  <2>. SUFFICES ASSUME NEW id \in StreamId, myPlatform.myFiles[id] # nullptr, myPlatform.myFiles[id].name # nullptr
                PROVE  FALSE
    BY DEF FileStreams
  <2>1. myPlatform.myFiles[id] = CASE id = FILE_STDIN -> ConsoleStream("in")
                                   [] id \in {FILE_STDOUT, FILE_STDERR} -> ConsoleStream("out")
                                   [] OTHER -> nullptr
    BY <1>1 DEF ConstructPlatform
  <2>2. ConsoleStream("in").name = nullptr /\ ConsoleStream("out").name = nullptr
    BY DEF ConsoleStream
  <2>. QED
    BY <2>1, <2>2
<1>5. Files(myPlatform.myFiles) = {}
  BY <1>4, Zenon DEF Files, FileStreams
<1>6. Handles = <<>>
  BY <1>4 DEF Handles
<1>7. ServiceInv
  BY <1>1, <1>2, <1>5 DEF ServiceInv, ConsoleOnly, AnswerOK, OnItsWay
<1>8. Service!Init
  BY <1>1, <1>2, <1>3, <1>6 DEF Service!Init
<1>. QED
  BY <1>7, <1>8

(* What the program sees is FileService: its calls are served one at a     *)
(* time, each at one instant, on the handles of its open files, and each   *)
(* return brings the whole answer of its own call, however calls and       *)
(* answers cross the links a byte at a time (emuserver.cpp:                *)
(* IServerThread, protocolhandler.cpp: processFrame).  A file is opened    *)
(* with the bits that its mode stands for and whatever the uninitialised   *)
(* iosOpenMode started with; no call reads more than the buffer holds.     *)
THEOREM ServesCalls == Spec => ImplementsFileService
<1>1. Init => ServiceInv /\ Service!Init
  BY InitRefines
<1>2. Inv /\ ServiceInv /\ [Next]_vars => Refines
  <2>. SUFFICES ASSUME Inv, ServiceInv, [Next]_vars PROVE Refines
    OBVIOUS
  <2>1. CASE sendFileOverLink
    BY <2>1, SendFileRefines
  <2>2. CASE readFrame
    BY <2>2, ReadFrameRefines
  <2>3. CASE RequestResponse
    BY <2>3, RequestResponseRefines
  <2>4. CASE writeFrame
    BY <2>4, WriteFrameRefines
  <2>5. CASE join
    BY <2>5, JoinRefines
  <2>6. CASE start
    BY <2>6, StartRefines
  <2>7. CASE Load
    BY <2>7, LoadRefines
  <2>8. ASSUME NEW r \in Request, Call(r) PROVE Refines
    BY <2>8, CallRefines
  <2>9. ASSUME NEW size \in BadSize, SendBadSize(size) PROVE Refines
    BY <2>9, SendBadSizeRefines
  <2>10. CASE Send
    BY <2>10, SendRefines
  <2>11. CASE Receive
    BY <2>11, ReceiveRefines
  <2>12. CASE terminate
    BY <2>12, TerminateRefines
  <2>13. CASE UNCHANGED vars
    BY <2>13, StutterRefines
  <2>. QED
    BY <2>1, <2>2, <2>3, <2>4, <2>5, <2>6, <2>7, <2>8, <2>9, <2>10, <2>11, <2>12, <2>13, Zenon DEF Next, Main, Cpu
<1>3. Refines => ServiceInv' /\ [Service!Next]_(Service!serviceVars)
  BY DEF Refines
<1>. QED
  BY <1>1, <1>2, <1>3, Inductive, PTL DEF Spec, ImplementsFileService, Service!Spec
=============================================================================
