------------------------------ MODULE FIFOLink ------------------------------
(***************************************************************************)
(* Shared/fifolink.cpp: the Link of an emulator and an IServer that are    *)
(* two programs, started, ended, interrupted, killed and started again in  *)
(* any order.  Each makes the two FIFOs unless they are there, opens them, *)
(* and removes them in its destructor.                                     *)
(*                                                                         *)
(* A step is a system call.  A FIFO is there for as long as it has a name  *)
(* or is open; what is in it goes with it.  FIFOs are opened for reading   *)
(* and writing, so that a call waits for the other program, and does not   *)
(* fail, when that has not started or has ended.                           *)
(***************************************************************************)
EXTENDS Naturals, Sequences

CONSTANTS
  PipeSize     \* the bytes a FIFO holds before a write blocks

ASSUME PipeAssumption == PipeSize \in Nat \ {0}

VARIABLES
  fifo,        \* the FIFO each name stands for, or None
  pipe,        \* what is in each FIFO: for each byte, which side wrote it
  side,        \* each program: its next system call, and its two descriptors
  unlinked     \* history: has a name been removed since the program started?

fifoVars == <<fifo, pipe, side, unlinked>>

Side == {"cpu", "server"}
OtherSide(s) == IF s = "cpu" THEN "server" ELSE "cpu"
Name == {"read", "write"}      \* myReadFifoName, myWriteFifoName: relative to the CPU
None == 0
Fifo == 1 .. 6                 \* there are never more: two have names, four are open
InUse(f) == \/ \E n \in Name : fifo[n] = f
            \/ \E s \in Side : f \in {side[s].myReadFD, side[s].myWriteFD}

(* A program that is not running; FIFOLink's constructor. *)
Off == [next |-> <<"off">>, myReadFD |-> None, myWriteFD |-> None]

FIFOInit ==
  /\ fifo = [n \in Name |-> None]
  /\ pipe = [f \in Fifo |-> <<>>]
  /\ side = [s \in Side |-> Off]
  /\ unlinked = [s \in Side |-> FALSE]

At(s, call) == side[s].next = call
GoesTo(s, call) == side' = [side EXCEPT ![s].next = call]

(* main of each program, until initialise of its link 0. *)
Begins(s) ==
  /\ At(s, <<"off">>) /\ GoesTo(s, <<"stat", "read">>)
  /\ unlinked' = [unlinked EXCEPT ![s] = FALSE]
  /\ UNCHANGED <<fifo, pipe>>
IServer == Begins("server")
Emulator == Begins("cpu")

-----------------------------------------------------------------------------
(* initialise: the two names one after the other, then the two opens.      *)
NextName(n) == IF n = "read" THEN <<"stat", "write">> ELSE <<"open", "read">>

(* It throws: the IServer's main deletes the link; the emulator's ends, and *)
(* does not delete the CPU that has the links.                              *)
CleansUp == side' = [side EXCEPT !["server"].next = <<"close">>]
SetupFails == side' = [side EXCEPT !["cpu"] = Off]
Throws(s) == IF s = "server" THEN CleansUp ELSE SetupFails

Stat(s, n) ==
  /\ At(s, <<"stat", n>>)
  /\ GoesTo(s, IF fifo[n] = None THEN <<"mkfifo", n>> ELSE NextName(n))
  /\ UNCHANGED <<fifo, pipe, unlinked>>

Mkfifo(s, n) ==
  /\ At(s, <<"mkfifo", n>>) /\ fifo[n] = None /\ GoesTo(s, <<"check", n>>)
  /\ LET f == CHOOSE f \in Fifo : ~InUse(f)
     IN fifo' = [fifo EXCEPT ![n] = f] /\ pipe' = [pipe EXCEPT ![f] = <<>>]
  /\ UNCHANGED unlinked

(* The other program has made it in the meantime. *)
MkfifoFails(s, n) ==
  /\ At(s, <<"mkfifo", n>>) /\ fifo[n] # None /\ Throws(s)
  /\ UNCHANGED <<fifo, pipe, unlinked>>

(* A name that has gone again, after mkfifo or before open. *)
Gone(s, n) ==
  /\ side[s].next \in {<<"check", n>>, <<"open", n>>} /\ fifo[n] = None /\ Throws(s)
  /\ UNCHANGED <<fifo, pipe, unlinked>>

Check(s, n) ==
  /\ At(s, <<"check", n>>) /\ fifo[n] # None /\ GoesTo(s, NextName(n))
  /\ UNCHANGED <<fifo, pipe, unlinked>>

(* An IServer that opens its ends as the CPU does. *)
Opened_alike(s, n) ==
  LET p == [side[s] EXCEPT !.next = IF n = "read" THEN <<"open", "write">> ELSE <<"running">>]
  IN IF n = "read" THEN [p EXCEPT !.myReadFD = fifo[n]] ELSE [p EXCEPT !.myWriteFD = fifo[n]]

(* The IServer writes to the FIFO that the CPU reads. *)
Opened(s, n) ==
  LET p == [side[s] EXCEPT !.next = IF n = "read" THEN <<"open", "write">> ELSE <<"running">>]
  IN IF (s = "cpu") = (n = "read") THEN [p EXCEPT !.myReadFD = fifo[n]]
     ELSE [p EXCEPT !.myWriteFD = fifo[n]]

Open(s, n) ==
  /\ At(s, <<"open", n>>) /\ fifo[n] # None
  /\ side' = [side EXCEPT ![s] = Opened(s, n)]
  /\ UNCHANGED <<fifo, pipe, unlinked>>

-----------------------------------------------------------------------------
(* An empty FIFO and a full one block. *)
readByte(s) ==
  /\ At(s, <<"running">>) /\ pipe[side[s].myReadFD] # <<>>
  /\ pipe' = [pipe EXCEPT ![side[s].myReadFD] = Tail(@)]
  /\ UNCHANGED <<fifo, side, unlinked>>

writeByte(s) ==
  /\ At(s, <<"running">>) /\ Len(pipe[side[s].myWriteFD]) < PipeSize
  /\ pipe' = [pipe EXCEPT ![side[s].myWriteFD] = Append(@, s)]
  /\ UNCHANGED <<fifo, side, unlinked>>

-----------------------------------------------------------------------------
(* Emulation has ended: emulate returns, and main deletes the CPU. *)
EmulationEnds ==
  /\ At("cpu", <<"running">>) /\ GoesTo("cpu", <<"close">>)
  /\ UNCHANGED <<fifo, pipe, unlinked>>

(* finished, or the boot file could not be sent: main cleans up. *)
ServerEnds ==
  /\ At("server", <<"running">>) /\ CleansUp
  /\ UNCHANGED <<fifo, pipe, unlinked>>

(* SIGINT, also while initialise is at it, or a read or a write blocked. *)
interruptHandler ==
  /\ side["server"].next \notin {<<"off">>, <<"close">>} \cup ({"unlink"} \X Name)
  /\ CleansUp
  /\ UNCHANGED <<fifo, pipe, unlinked>>

Close(s) ==
  /\ At(s, <<"close">>)
  /\ side' = [side EXCEPT ![s] = [Off EXCEPT !.next = <<"unlink", "read">>]]
  /\ UNCHANGED <<fifo, pipe, unlinked>>

(* Of whatever has the name; that there is nothing is not an error. *)
Unlink(s, n) ==
  /\ At(s, <<"unlink", n>>)
  /\ GoesTo(s, IF n = "read" THEN <<"unlink", "write">> ELSE <<"off">>)
  /\ fifo' = [fifo EXCEPT ![n] = None]
  /\ unlinked' = [t \in Side |-> unlinked[t] \/ fifo[n] # None]
  /\ UNCHANGED pipe

(* It is killed, and removes nothing. *)
Dies(s) ==
  /\ ~At(s, <<"off">>)
  /\ side' = [side EXCEPT ![s] = Off]
  /\ UNCHANGED <<fifo, pipe, unlinked>>

FIFONext ==
  \/ IServer \/ Emulator \/ EmulationEnds \/ ServerEnds \/ interruptHandler
  \/ \E s \in Side :
    \/ readByte(s) \/ writeByte(s) \/ Close(s) \/ Dies(s)
    \/ \E n \in Name :
         \/ Stat(s, n) \/ Mkfifo(s, n) \/ MkfifoFails(s, n) \/ Check(s, n)
         \/ Open(s, n) \/ Gone(s, n) \/ Unlink(s, n)

FIFOSpec == FIFOInit /\ [][FIFONext]_fifoVars

-----------------------------------------------------------------------------
(* fifolink.cpp:39 to 106 - whatever order the two programs start in, and  *)
(* however often either was interrupted, failed or was killed before, two  *)
(* that run are at the two ends of the same FIFOs, unless a name has been  *)
(* removed since one of them started; and neither is ever given a byte     *)
(* that it has written itself.                                             *)
Connected ==
  LET running == {s \in Side : At(s, <<"running">>)}
  IN /\ running = Side /\ (\A s \in Side : ~unlinked[s])
          => \A s \in Side : side[s].myReadFD = side[OtherSide(s)].myWriteFD
     /\ \A s \in running : \A i \in DOMAIN pipe[side[s].myReadFD] :
          pipe[side[s].myReadFD][i] = OtherSide(s)
=============================================================================
