------------------------------ MODULE Platform ------------------------------
(***************************************************************************)
(* IServer/server/platform.cpp: the table of streams that the IServer's    *)
(* request handlers work on, as operators on a record                      *)
(*    p = [myFiles |-> the table, disk |-> the host's files].              *)
(* A slot of the table holds nullptr, a ConsoleStream (its name is         *)
(* nullptr) or a FileStream.  An operator yields the set of outcomes of    *)
(* the call: ex is the exception it throws, or "none".                     *)
(*                                                                         *)
(* The standard library's fstream is modelled by what it does here: which  *)
(* modes open a file, and reading and writing at a position.  No file is   *)
(* open in two streams, so when a buffer is written out does not show.     *)
(* isBinary matters on Windows only and is left out.                       *)
(***************************************************************************)
EXTENDS Integers, Sequences, FiniteSetsExt

CONSTANTS
  MAX_FILES,   \* slots in the table
  nullptr,
  Key          \* the byte that every key of the console sends

ASSUME MAX_FILESAssumption == MAX_FILES \in Nat /\ MAX_FILES > 2
ASSUME KeyAssumption == Key \in 0 .. 255

FILE_STDIN == 0
FILE_STDOUT == 1
FILE_STDERR == 2
StreamId == 0 .. MAX_FILES - 1

(* The bits of ios_base::openmode that change what a FileStream does.      *)
Flag == {"in", "out", "trunc", "app", "ate"}

(* What a slot or a name may be, nullptr is not.                           *)
ASSUME NullptrAssumption ==
  /\ nullptr \notin Seq(Nat)
  /\ nullptr \notin [name : Seq(Nat), mode : SUBSET Flag, pos : Nat, bad : BOOLEAN,
                    lastIOOperation : {"IO_NONE", "IO_READ", "IO_WRITE"}]

ConsoleStream(direction) ==
  [name |-> nullptr, mode |-> {direction}, pos |-> 0, bad |-> FALSE, lastIOOperation |-> "IO_NONE"]
FileStream(name, mode, content) ==
  [name |-> name, mode |-> mode, pos |-> IF "ate" \in mode THEN Len(content) ELSE 0,
   bad |-> FALSE, lastIOOperation |-> "IO_NONE"]

ConstructPlatform(disk) ==
  [myFiles |-> [id \in StreamId |->
                  CASE id = FILE_STDIN -> ConsoleStream("in")
                    [] id \in {FILE_STDOUT, FILE_STDERR} -> ConsoleStream("out")
                    [] OTHER -> nullptr],
   disk |-> disk]

(* fstream::open: a file that is to be read must exist unless truncated or *)
(* appended to, and some combinations of bits open nothing; ate is not one *)
(* of those that the file is opened with.  What is then in it.             *)
CanOpen(disk, name, mode) ==
  LET fopen == mode \ {"ate"}
  IN \/ fopen \in {{"out"}, {"out", "trunc"}, {"in", "out", "trunc"}}
     \/ "app" \in fopen /\ "trunc" \notin fopen
     \/ fopen \in {{"in"}, {"in", "out"}} /\ name \in DOMAIN disk
Truncates(mode) == "trunc" \in mode \/ mode \ {"ate"} = {"out"}
Opened(disk, name, mode) ==
  IF Truncates(mode) \/ name \notin DOMAIN disk THEN <<>> ELSE disk[name]
OnDisk(disk, name, content) ==
  [n \in DOMAIN disk \cup {name} |-> IF n = name THEN content ELSE disk[n]]

-----------------------------------------------------------------------------
(* An openFileStream that does not look for an empty slot.                 *)
openFileStream_reuses(p, name, mode) ==
  LET id == MAX_FILES - 1 IN
  IF ~CanOpen(p.disk, name, mode) THEN {[p |-> p, ex |-> "runtime_error", id |-> 0]}
  ELSE LET content == Opened(p.disk, name, mode)
       IN {[p |-> [myFiles |-> [p.myFiles EXCEPT ![id] = FileStream(name, mode, content)],
                   disk |-> OnDisk(p.disk, name, content)],
            ex |-> "none", id |-> id]}

(* The first empty slot from 2 up; a stream that does not open throws      *)
(* before the slot is taken.                                               *)
openFileStream(p, name, mode) ==
  LET free == {id \in StreamId : id >= 2 /\ p.myFiles[id] = nullptr}
      id == Min(free)
      content == Opened(p.disk, name, mode)
  IN IF free = {} \/ ~CanOpen(p.disk, name, mode)
     THEN {[p |-> p, ex |-> "runtime_error", id |-> 0]}
     ELSE {[p |-> [myFiles |-> [p.myFiles EXCEPT ![id] = FileStream(name, mode, content)],
                   disk |-> OnDisk(p.disk, name, content)],
            ex |-> "none", id |-> id]}

(* The checks that writeStream and readStream make, in their order.        *)
Refusal(p, id, direction, otherOperation) ==
  IF id \notin StreamId THEN "range_error"
  ELSE IF p.myFiles[id] = nullptr THEN "invalid_argument"
  ELSE IF direction \notin p.myFiles[id].mode THEN "runtime_error"
  ELSE IF p.myFiles[id].lastIOOperation = otherOperation THEN "domain_error"
  ELSE "none"

(* Where the next write goes; and Stream::write, which puts as much of the *)
(* data as the host takes.                                                 *)
WritesAt(s, old) == IF "app" \in s.mode THEN Len(old) ELSE s.pos
StreamWrite(p, id, data) ==
  LET s == p.myFiles[id]
      old == p.disk[s.name]
      at == WritesAt(s, old)
      rest == SubSeq(old, at + Len(data) + 1, Len(old))
  IN [myFiles |-> [p.myFiles EXCEPT ![id].pos = IF s.name = nullptr THEN 0 ELSE at + Len(data),
                                    ![id].lastIOOperation = "IO_WRITE"],
      disk |-> IF s.name = nullptr THEN p.disk
               ELSE OnDisk(p.disk, s.name, SubSeq(old, 1, at) \o data \o rest)]

writeStream(p, id, data) ==
  LET ex == Refusal(p, id, "out", "IO_READ")
  IN IF ex # "none" THEN {[p |-> p, ex |-> ex, written |-> 0]}
     ELSE {[p |-> StreamWrite(p, id, SubSeq(data, 1, n)), ex |-> "none", written |-> n] :
             n \in 0 .. Len(data)}

(* What a read of the stream can find: a file has what is left of it, the  *)
(* console what is typed before its end of file.                           *)
Readable(p, id, size) ==
  LET s == p.myFiles[id]
  IN IF s.name = nullptr THEN {[i \in 1 .. n |-> Key] : n \in 0 .. size}
     ELSE {SubSeq(p.disk[s.name], s.pos + 1, Min({s.pos + size, Len(p.disk[s.name])}))}

(* A Stream::read that moves on by what was asked for.                     *)
StreamRead_asked(p, id, size, data) ==
  [p EXCEPT !.myFiles[id].pos = IF p.myFiles[id].name = nullptr THEN 0 ELSE @ + size,
            !.myFiles[id].bad = @ \/ Len(data) # size,
            !.myFiles[id].lastIOOperation = "IO_READ"]

(* Stream::read sets badbit when it gets less than it asked for.           *)
StreamRead(p, id, size, data) ==
  [p EXCEPT !.myFiles[id].pos = IF p.myFiles[id].name = nullptr THEN 0 ELSE @ + Len(data),
            !.myFiles[id].bad = @ \/ Len(data) # size,
            !.myFiles[id].lastIOOperation = "IO_READ"]

readStream(p, id, size) ==
  LET ex == Refusal(p, id, "in", "IO_WRITE")
  IN IF ex # "none" THEN {[p |-> p, ex |-> ex, data |-> <<>>]}
     ELSE {[p |-> StreamRead(p, id, size, data), ex |-> "none", data |-> data] :
             data \in Readable(p, id, size)}

(* The slot is freed whether or not the stream says that it has failed.    *)
closeStream(p, id) ==
  IF id \notin StreamId THEN {[p |-> p, ex |-> "range_error", closeOk |-> FALSE]}
  ELSE IF p.myFiles[id] = nullptr THEN {[p |-> p, ex |-> "invalid_argument", closeOk |-> FALSE]}
  ELSE {[p |-> [p EXCEPT !.myFiles[id] = nullptr], ex |-> "none", closeOk |-> ~p.myFiles[id].bad]}
=============================================================================
