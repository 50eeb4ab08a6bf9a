---------------------------- MODULE FileService ----------------------------
(***************************************************************************)
(* What the IServer promises a transputer program: to serve its calls one  *)
(* at a time, each at one instant between the call and its return, on the  *)
(* handles of the files that the program has open.  How calls and answers  *)
(* travel, and how the IServer finds the stream of a handle, is nobody's   *)
(* business here.                                                          *)
(*                                                                         *)
(* This is the abstract specification that EmuServer implements.  A call   *)
(* that is not about an open file (the console, the command line...) may   *)
(* be answered anyhow, but it must leave the files and handles alone.  And *)
(* the mode that a file is opened with may have bits that nobody asked for *)
(* (Garbage): that much less is promised where there are any.              *)
(***************************************************************************)
EXTENDS Integers, Sequences

CONSTANTS Request, NoCall, NoAnswer, InitialDisk, Id, Garbage

VARIABLES
  call,      \* the program's call, or NoCall
  answer,    \* the answer to it, once it has been served
  result,    \* what the program's last call returned
  handles,   \* the open files: id -> name, mode, position, direction used
  disk       \* the files: name -> content

serviceVars == <<call, answer, result, handles, disk>>

RES_SUCCESS == 0
Success(value) == [result |-> RES_SUCCESS, value |-> value]
Held(id) == id \in DOMAIN handles
Content(id) == disk[handles[id].name]

Init == /\ call = NoCall
        /\ answer = NoAnswer
        /\ result = NoAnswer
        /\ handles = <<>>
        /\ disk = InitialDisk

Call(r) == /\ call = NoCall
           /\ call' = r
           /\ result' = NoAnswer
           /\ UNCHANGED <<answer, handles, disk>>

Return == /\ answer # NoAnswer
          /\ result' = answer
          /\ call' = NoCall
          /\ answer' = NoAnswer
          /\ UNCHANGED <<handles, disk>>

-----------------------------------------------------------------------------
(* A file opened for output is emptied, and created if need be; one opened *)
(* for input or for update exists and stays as it is; for appending, none  *)
(* is opened.  So it is without garbage: of that, trunc empties the file   *)
(* when it can be written, app creates it and moves every write, and ate   *)
(* the first read or write, to its end.  A new handle is not in use.       *)
OpenModes ==
  [m \in 1 .. 6 |-> CASE m = 1 -> {"in"} [] m = 2 -> {"out", "trunc"} [] m = 3 -> {} [] OTHER -> {"in", "out"}]
Empties(mode) == "trunc" \in mode \/ mode \ {"ate"} = {"out"}
Opens(mode, exists) ==
  LET fopen == mode \ {"ate"}
  IN IF "trunc" \in mode THEN fopen \in {{"out", "trunc"}, {"in", "out", "trunc"}}
     ELSE fopen # {} /\ (exists \/ fopen = {"out"} \/ "app" \in fopen)
Opening(id, name, mode) ==
  LET content == IF Empties(mode) \/ name \notin DOMAIN disk THEN <<>> ELSE disk[name]
  IN /\ Opens(mode, name \in DOMAIN disk)
     /\ handles' = [h \in DOMAIN handles \cup {id} |->
                      IF h # id THEN handles[h]
                      ELSE [name |-> name, mode |-> mode,
                            pos |-> IF "ate" \in mode THEN Len(content) ELSE 0, used |-> "none"]]
     /\ disk' = [n \in DOMAIN disk \cup {name} |-> IF n = name THEN content ELSE disk[n]]

Open(id) ==
  /\ call.tag = "Open"
  /\ ~Held(id)
  /\ call.mode \in DOMAIN OpenModes
  /\ answer' = Success(<<id>>)
  /\ \E garbage \in Garbage : Opening(id, call.name, garbage \cup OpenModes[call.mode])

(* Whatever the answer, the handle of a file that is closed is gone.       *)
Close(id) ==
  /\ call.tag = "Close" /\ call.id = id /\ Held(id)
  /\ answer'.value = <<>>
  /\ handles' = [h \in DOMAIN handles \ {id} |-> handles[h]]
  /\ UNCHANGED disk

MayRead(id) == Held(id) /\ "in" \in handles[id].mode /\ handles[id].used # "write"
MayWrite(id) == Held(id) /\ "out" \in handles[id].mode /\ handles[id].used # "read"

(* Only the position and the direction used change with the use of a file. *)
Moved(id, pos, used) ==
  handles' = [handles EXCEPT ![id] = [name |-> @.name, mode |-> @.mode, pos |-> pos, used |-> used]]

(* A read gets what is asked for, or all there is from the position on.    *)
Read(id) ==
  /\ call.tag = "Read" /\ call.id = id
  /\ MayRead(id)
  /\ LET data == answer'.value
         pos == handles[id].pos
     IN /\ answer' = Success(SubSeq(Content(id), pos + 1, pos + Len(data)))
        /\ \/ Len(data) = call.size
           \/ Len(data) < call.size /\ pos + Len(data) = Len(Content(id))
        /\ Moved(id, pos + Len(data), "read")
  /\ UNCHANGED disk

(* Puts data over the file at the position, or its end, and moves on.      *)
Store(id, data) ==
  LET old == Content(id)
      pos == IF "app" \in handles[id].mode THEN Len(old) ELSE handles[id].pos
  IN /\ disk' = [disk EXCEPT ![handles[id].name] =
                   SubSeq(old, 1, pos) \o data \o SubSeq(old, pos + Len(data) + 1, Len(old))]
     /\ Moved(id, pos + Len(data), "write")

(* The host may take less than it is given: a write says how much.         *)
Write(id) ==
  /\ call.tag = "Write" /\ call.id = id /\ MayWrite(id)
  /\ call.data # <<>>
  /\ \E n \in 0 .. Len(call.data) :
       Store(id, SubSeq(call.data, 1, n)) /\ answer' = Success(<<n>>)

Puts(id) ==
  /\ call.tag = "Puts" /\ call.id = id /\ MayWrite(id)
  /\ \E n \in 0 .. Len(call.data), newline \in {<<>>, <<10>>} :
       Store(id, SubSeq(call.data, 1, n) \o newline)
  /\ answer' = Success(<<>>)

(* A call that fails, or that is about no open file, changes none of them. *)
Usable(id) ==
  \/ call.tag = "Read" /\ MayRead(id)
  \/ call.tag = "Write" /\ call.data # <<>> /\ MayWrite(id)
  \/ call.tag = "Puts" /\ MayWrite(id)
  \/ call.tag = "Close"

Other ==
  /\ CASE call.tag = "Open" -> answer'.result # RES_SUCCESS
       [] call.tag \in {"Read", "Write", "Puts", "Close"} -> Held(call.id) => ~Usable(call.id)
       [] OTHER -> TRUE
  /\ UNCHANGED <<handles, disk>>

Serve ==
  /\ call # NoCall /\ answer = NoAnswer /\ answer' # NoAnswer
  /\ \/ \E id \in Id : Open(id) \/ Close(id) \/ Read(id) \/ Write(id) \/ Puts(id)
     \/ Other
  /\ UNCHANGED <<call, result>>

Next == (\E r \in Request : Call(r)) \/ Return \/ Serve

Spec == Init /\ [][Next]_serviceVars
=============================================================================
