----------------------------- MODULE EmuServer -----------------------------
(***************************************************************************)
(* EmuServer/emuserver.cpp: the IServer's thread (main) and the CPU's      *)
(* thread, over a pair of InMemoryLinks.  main sends the boot file,        *)
(* processes frames until an exit frame, and joins the CPU's thread.  The  *)
(* CPU boots from its link (Emulator/boot.cpp) and then runs a program.    *)
(*                                                                         *)
(* Every byte is a step of the thread that writes it and one of the thread *)
(* that reads it.  A link is what ByteChannel promises, with the history   *)
(* forgotten: the byte accepted and not yet taken, if there is one.        *)
(*                                                                         *)
(* The program is any that makes calls of the IServer, one at a time, with *)
(* well-formed frames, and does not open a file that it has open.  It may  *)
(* also send a frame size that the IServer refuses, and nothing more.      *)
(***************************************************************************)
EXTENDS ProtocolHandler, SequencesExt

CONSTANTS
  BootFile,    \* [pokes, code, rest]: what the file sent holds
  Request,     \* the calls that the program may make
  BadSize,     \* the bad frame sizes that it may send
  MaxCalls,    \* bound: how many frames the program sends
  InitialDisk, \* the host's files at the start
  MemStart,    \* where the boot code goes
  MemEnd,      \* the last address of memory
  NoCall, NoAnswer

Byte == 0 .. 255

(* A length that is not taken for a poke or a peek, code that fits in the  *)
(* memory, and pokes of words that the code and the other pokes leave.     *)
ASSUME BootFileAssumption ==
  LET Words(poke) == poke.addr .. poke.addr + 3
      pokes == BootFile.pokes
  IN /\ MemStart \in Nat /\ MemEnd \in Nat
     /\ pokes \in Seq([addr : Nat, word : [1 .. 4 -> Byte]])
     /\ BootFile.code \in Seq(Byte) /\ Len(BootFile.code) \in 2 .. 255
     /\ BootFile.rest \in Seq(Byte) /\ BootFile.rest # <<>>
     /\ MemStart + Len(BootFile.code) <= MemEnd + 1
     /\ \A i \in {k \in DOMAIN pokes : pokes[k].addr <= MemEnd} :
          /\ Words(pokes[i]) \subseteq 0 .. MemEnd
          /\ Words(pokes[i]) \cap (MemStart .. MemStart + Len(BootFile.code) - 1) = {}
          /\ \A j \in DOMAIN pokes \ {i} : Words(pokes[i]) \cap Words(pokes[j]) = {}

ASSUME NoAnswerAssumption == NoAnswer \notin [result : Nat, value : Seq(Nat)]

ASSUME DiskAssumption == InitialDisk \in [DOMAIN InitialDisk -> Seq(Byte)]

VARIABLES
  link,        \* for each end, the byte that it has written and its peer has not read
  server,      \* main: what it is doing, the bytes it has still to write, those it has read,
               \* the exit code and whether the frame it is processing is an exit frame
  myPlatform,  \* the platform of the IServer
  cpu,         \* the CPU's thread: likewise, with the program's call and what the last one returned
  myMemory,    \* the memory, from address 0 for InternalMemStart
  answer       \* history: what the IServer answers to the program's call

vars == <<link, server, myPlatform, cpu, myMemory, answer>>

-----------------------------------------------------------------------------
(* The boot file: pokes, of 9 bytes each, the length of the code, the code *)
(* and the bytes that the code will ask for.                               *)
Poke(poke) == <<0>> \o Put32(poke.addr) \o poke.word
BootBytes ==
  LET pokes == [i \in 1 .. 9 * Len(BootFile.pokes) |->
                  Poke(BootFile.pokes[1 + ((i - 1) \div 9)])[1 + ((i - 1) % 9)]]
  IN pokes \o (<<Len(BootFile.code)>> \o BootFile.code) \o BootFile.rest

Init ==
  /\ link = [e \in {"A", "B"} |-> <<>>]
  /\ server = [pc |-> "sendFile", out |-> BootBytes, in |-> <<>>, exitCode |-> 0, exit |-> FALSE]
  /\ myPlatform = ConstructPlatform(InitialDisk)
  /\ cpu = [pc |-> "boot", out |-> <<>>, in |-> <<>>, call |-> NoCall, result |-> NoAnswer, calls |-> 0]
  /\ myMemory = [a \in 0 .. MemEnd |-> 0]
  /\ answer = NoAnswer

writeByte(e, b) == link[e] = <<>> /\ link' = [link EXCEPT ![e] = <<b>>]
readByte(e) == link[e] # <<>> /\ link' = [link EXCEPT ![e] = <<>>]

(* Link's longer calls, of the bytes they are left to pass or have read.   *)
writeBytes(e, bytes) == writeByte(e, Head(bytes))
readShort(in) == Get16(in, 1)
readWord(in, i) == Get32(in, i)

-----------------------------------------------------------------------------
(* main: sendFileOverLink, a byte at a time.                               *)
sendFileOverLink ==
  /\ server.pc = "sendFile"
  /\ writeByte("A", Head(server.out))
  /\ server' = [server EXCEPT !.out = Tail(@),
                              !.pc = IF Len(server.out) = 1 THEN "readFrame" ELSE @]
  /\ UNCHANGED <<myPlatform, cpu, myMemory, answer>>

(* A frame whose size is bad is dropped there and then.                    *)
readFrame ==
  /\ server.pc = "readFrame"
  /\ readByte("B")
  /\ LET buf == Append(server.in, link["B"][1])
         sized == Len(buf) >= 2
         size == readShort(buf)
         refused == sized /\ BadFrameSize(size)
     IN server' = [server EXCEPT
          !.in = IF refused THEN <<>> ELSE buf,
          !.pc = IF sized /\ ~refused /\ Len(buf) = size + 2 THEN "requestResponse" ELSE @]
  /\ UNCHANGED <<myPlatform, cpu, myMemory, answer>>

(* The answer as the program will understand it.                           *)
Understand(call, frame) ==
  [result |-> frame[3],
   value |-> IF frame[3] # RES_SUCCESS THEN <<>>
             ELSE CASE call.tag = "Open" -> <<Get32(frame, 4)>>
                    [] call.tag = "Read" -> SubSeq(frame, 6, 5 + Get16(frame, 4))
                    [] call.tag = "Write" -> <<Get16(frame, 4)>>
                    [] OTHER -> <<>>]

RequestResponse ==
  /\ server.pc = "requestResponse"
  /\ \E o \in requestResponse(myPlatform, server.in) :
       /\ myPlatform' = o.p
       /\ server' = [server EXCEPT !.out = fillInFrameSize(o.put),
                                   !.in = <<>>,
                                   !.pc = "writeFrame",
                                   !.exitCode = ExitCode(server.in, @),
                                   !.exit = server.in[3] = REQ_EXIT]
       /\ answer' = IF cpu.call = NoCall THEN NoAnswer
                    ELSE Understand(cpu.call, fillInFrameSize(o.put))
  /\ UNCHANGED <<link, cpu, myMemory>>

(* A writeFrame after which main goes on to read the next frame.           *)
writeFrame_goeson ==
  /\ server.pc = "writeFrame"
  /\ writeByte("A", Head(server.out))
  /\ server' = [server EXCEPT !.out = Tail(@),
                              !.pc = IF Len(server.out) > 1 THEN @ ELSE "readFrame"]
  /\ UNCHANGED <<myPlatform, cpu, myMemory, answer>>

(* writeFrame; after an exit frame main stops processing and goes to join. *)
writeFrame ==
  /\ server.pc = "writeFrame"
  /\ writeBytes("A", server.out)
  /\ server' = [server EXCEPT !.out = Tail(@),
                              !.pc = IF Len(server.out) > 1 THEN @
                                     ELSE IF server.exit THEN "join" ELSE "readFrame"]
  /\ UNCHANGED <<myPlatform, cpu, myMemory, answer>>

(* The thread of the CPU ends when the emulation does.                     *)
join ==
  /\ server.pc = "join"
  /\ cpu.pc = "terminated"
  /\ server' = [server EXCEPT !.pc = "exited"]
  /\ UNCHANGED <<link, myPlatform, cpu, myMemory, answer>>

-----------------------------------------------------------------------------
(* The CPU: Boot::start, a byte at a time.  in is what has been read since *)
(* the last control byte, and begins with it.  Peeks are left out: nothing *)
(* reads their answers while the boot file is being sent.                  *)
setWord(addr, word) ==
  IF addr > MemEnd THEN myMemory
  ELSE [a \in DOMAIN myMemory |-> IF a \in addr .. addr + 3 THEN word[a - addr + 1] ELSE myMemory[a]]

BootPoke(in) ==
  /\ in[1] = 0
  /\ IF Len(in) = 9
     THEN /\ myMemory' = setWord(readWord(in, 2), SubSeq(in, 6, 9))
          /\ cpu' = [cpu EXCEPT !.in = <<>>]
     ELSE /\ cpu' = [cpu EXCEPT !.in = in]
          /\ UNCHANGED myMemory

(* A boot loop that stops one byte short of the length.                    *)
BootCode_short(in) ==
  /\ in[1] > 1
  /\ myMemory' = IF Len(in) > 1 THEN [myMemory EXCEPT ![MemStart + Len(in) - 2] = in[Len(in)]]
                 ELSE myMemory
  /\ cpu' = IF Len(in) = in[1] THEN [cpu EXCEPT !.in = <<>>, !.pc = "load"]
            ELSE [cpu EXCEPT !.in = in]

BootCode(in) ==
  /\ in[1] > 1
  /\ myMemory' = IF Len(in) > 1 THEN [myMemory EXCEPT ![MemStart + Len(in) - 2] = in[Len(in)]]
                 ELSE myMemory
  /\ cpu' = IF Len(in) = 1 + in[1] THEN [cpu EXCEPT !.in = <<>>, !.pc = "load"]
            ELSE [cpu EXCEPT !.in = in]

start ==
  /\ cpu.pc = "boot"
  /\ readByte("A")
  /\ LET in == Append(cpu.in, link["A"][1]) IN BootPoke(in) \/ BootCode(in)
  /\ UNCHANGED <<server, myPlatform, answer>>

-----------------------------------------------------------------------------
(* The program.  First it reads the rest of the boot file.                 *)
Load ==
  /\ cpu.pc = "load"
  /\ readByte("A")
  /\ LET in == Append(cpu.in, link["A"][1])
     IN cpu' = IF Len(in) = Len(BootFile.rest) THEN [cpu EXCEPT !.in = <<>>, !.pc = "run"]
               ELSE [cpu EXCEPT !.in = in]
  /\ UNCHANGED <<server, myPlatform, myMemory, answer>>

(* What a call sends, and its frame: it is padded to an even size of at    *)
(* least 6.                                                                *)
Str(s) == Put16(Len(s)) \o s
Body(r) ==
  CASE r.tag = "Open" -> <<REQ_OPEN>> \o Str(r.name) \o <<r.type, r.mode>>
    [] r.tag = "Close" -> <<REQ_CLOSE>> \o Put32(r.id)
    [] r.tag = "Read" -> <<REQ_READ>> \o Put32(r.id) \o Put16(r.size)
    [] r.tag = "Write" -> <<REQ_WRITE>> \o Put32(r.id) \o Str(r.data)
    [] r.tag = "Puts" -> <<REQ_PUTS>> \o Put32(r.id) \o Str(r.data)
    [] r.tag = "Exit" -> <<REQ_EXIT>> \o r.status
    [] OTHER -> <<r.req>> \o r.args
Frame(r) ==
  LET length == Len(Body(r))
      size == IF length < 6 THEN 6 ELSE length + (length % 2)
  IN Put16(size) \o Body(r) \o [i \in 1 .. size - length |-> 0]

(* The calls there are.  Their frames are of a size that the IServer takes, *)
(* and so are those of the answers.                                         *)
AnyCall ==
  LET fileOnly == {REQ_OPEN, REQ_CLOSE, REQ_READ, REQ_WRITE, REQ_PUTS, REQ_EXIT}
  IN [tag : {"Open"}, name : Seq(Byte), type : Byte, mode : Byte]
       \cup [tag : {"Close"}, id : Nat]
       \cup [tag : {"Read"}, id : Nat, size : Nat]
       \cup [tag : {"Write", "Puts"}, id : Nat, data : Seq(Byte)]
       \cup [tag : {"Exit"}, status : [1 .. 4 -> Byte], code : Nat]
       \cup [tag : {"GetKey", "PollKey", "PutChar", "Command", "Id", "Unknown"},
             req : Byte \ fileOnly, args : Seq(Byte)]

ASSUME RequestAssumption ==
  /\ Request \subseteq AnyCall /\ NoCall \notin Request
  /\ \A r \in Request : Len(Frame(r)) <= 512 /\ (r.tag = "Read" => ReadFits(r.size))
  /\ MaxCalls \in Nat

Short == 0 .. 65535
ASSUME BadSizeAssumption == BadSize \subseteq {size \in Short : BadFrameSize(size)}

OpenNames == {myPlatform.myFiles[id].name : id \in {i \in StreamId : myPlatform.myFiles[i] # nullptr}}
Call(r) ==
  /\ cpu.pc = "run" /\ cpu.calls < MaxCalls
  /\ r.tag = "Open" => r.name \notin OpenNames
  /\ cpu' = [cpu EXCEPT !.pc = "send", !.out = Frame(r), !.in = <<>>, !.call = r,
                        !.result = NoAnswer, !.calls = @ + 1]
  /\ UNCHANGED <<link, server, myPlatform, myMemory, answer>>

SendBadSize(size) ==
  /\ cpu.pc = "run" /\ cpu.calls < MaxCalls
  /\ cpu' = [cpu EXCEPT !.pc = "send", !.out = Put16(size), !.calls = @ + 1]
  /\ UNCHANGED <<link, server, myPlatform, myMemory, answer>>

Send ==
  /\ cpu.pc = "send"
  /\ writeByte("B", Head(cpu.out))
  /\ cpu' = [cpu EXCEPT !.out = Tail(@),
                        !.pc = IF Len(cpu.out) > 1 THEN @
                               ELSE IF cpu.call = NoCall THEN "run" ELSE "receive"]
  /\ UNCHANGED <<server, myPlatform, myMemory, answer>>

(* The program reads a size and as many bytes.  After an exit call it      *)
(* makes no other.                                                         *)
Receive ==
  /\ cpu.pc = "receive"
  /\ readByte("A")
  /\ LET in == Append(cpu.in, link["A"][1])
         whole == Len(in) >= 2 /\ Len(in) = 2 + Get16(in, 1)
     IN IF whole
        THEN /\ cpu' = [cpu EXCEPT !.in = <<>>, !.call = NoCall,
                                   !.result = Understand(cpu.call, in),
                                   !.pc = IF cpu.call.tag = "Exit" THEN "exit" ELSE "run"]
             /\ answer' = NoAnswer
        ELSE /\ cpu' = [cpu EXCEPT !.in = in]
             /\ UNCHANGED answer
  /\ UNCHANGED <<server, myPlatform, myMemory>>

(* The terminate instruction, which a program need not execute.            *)
terminate ==
  /\ cpu.pc \in {"run", "exit"}
  /\ cpu' = [cpu EXCEPT !.pc = "terminated"]
  /\ UNCHANGED <<link, server, myPlatform, myMemory, answer>>

-----------------------------------------------------------------------------
Main == sendFileOverLink \/ readFrame \/ RequestResponse \/ writeFrame \/ join
Cpu == start \/ Load \/ (\E r \in Request : Call(r)) \/ (\E size \in BadSize : SendBadSize(size))
         \/ Send \/ Receive \/ terminate
Next == Main \/ Cpu

(* Both threads go on when they can; but the console need not be typed at, *)
(* and the program need not call or terminate.                             *)
ReadsConsole ==
  /\ cpu.call # NoCall
  /\ \/ cpu.call.tag = "GetKey"
     \/ /\ cpu.call.tag = "Read"
        /\ cpu.call.id = FILE_STDIN
Fairness ==
  /\ WF_vars(sendFileOverLink \/ readFrame \/ writeFrame \/ join)
  /\ WF_vars(RequestResponse /\ ~ReadsConsole)
  /\ WF_vars(start \/ Load \/ Send \/ Receive)

Spec == Init /\ [][Next]_vars
FairSpec == Spec /\ Fairness

-----------------------------------------------------------------------------
(* The streams agree with the files they are open on: a stream's file      *)
(* exists, and its position is in it; the stream has failed only where a   *)
(* file ends; what was last done with it, its mode allows; and no two      *)
(* streams are open on one file.                                           *)
FileStreams == {id \in StreamId : myPlatform.myFiles[id] # nullptr /\ myPlatform.myFiles[id].name # nullptr}

StreamsOK ==
  \A id \in FileStreams :
    LET s == myPlatform.myFiles[id]
    IN /\ s.name \in DOMAIN myPlatform.disk
       /\ s.pos <= Len(myPlatform.disk[s.name])
       /\ s.bad => s.pos = Len(myPlatform.disk[s.name])
       /\ s.lastIOOperation = "IO_READ" => "in" \in s.mode
       /\ s.lastIOOperation = "IO_WRITE" => "out" \in s.mode
       /\ \A other \in FileStreams \ {id} : myPlatform.myFiles[other].name # s.name

(* The CPU starts the program with the whole boot code where it belongs    *)
(* and the pokes made, and the program gets the rest of the file, no byte  *)
(* more or less.                                                           *)
LoadsWhole ==
  /\ cpu.pc # "boot" =>
       /\ \A i \in DOMAIN BootFile.code : myMemory[MemStart + i - 1] = BootFile.code[i]
       /\ \A i \in DOMAIN BootFile.pokes, k \in 1 .. 4 :
            LET poke == BootFile.pokes[i]
            IN poke.addr <= MemEnd => myMemory[poke.addr + k - 1] = poke.word[k]
  /\ cpu.pc = "load" => cpu.in \o link["A"] \o server.out = BootFile.rest
  /\ cpu.pc \notin {"boot", "load"} => server.pc # "sendFile"

(* The program's view of the IServer: calls served one at a time, whose    *)
(* answers come back whole to the call they are the answers of, on the     *)
(* handles of open files.                                                  *)
Used(s) == CASE s.lastIOOperation = "IO_NONE" -> "none"
             [] s.lastIOOperation = "IO_READ" -> "read"
             [] s.lastIOOperation = "IO_WRITE" -> "write"
Handles ==
  [id \in FileStreams |->
     LET s == myPlatform.myFiles[id]
     IN [name |-> s.name, mode |-> s.mode, pos |-> s.pos, used |-> Used(s)]]

Service == INSTANCE FileService
             WITH call <- cpu.call, result <- cpu.result, handles <- Handles,
                  disk <- myPlatform.disk, Id <- StreamId, Garbage <- Uninitialised
ImplementsFileService == Service!Spec

(* Every call that does not wait for a key returns.                        *)
Answered == cpu.call # NoCall /\ ~ReadsConsole ~> cpu.call = NoCall

(* After an exit call main stops serving, with the exit code that          *)
(* isproto.h says the status stands for.                                   *)
ExitCarriesCode ==
  \A r \in {q \in Request : q.tag = "Exit"} :
    cpu.call = r ~> server.pc \in {"join", "exited"} /\ server.exitCode = r.code
=============================================================================
