---------------------------- MODULE MCEmuServer ----------------------------
(* The instances of EmuServer.                                             *)
EXTENDS EmuServer

F == <<102>>   \* the name of a file that exists, of two bytes
G == <<103>>   \* and of one that does not
Disk == F :> <<65, 66>>

(* A poke of the last word of memory, one beyond it, and two bytes of code *)
(* that ask for two more.                                                  *)
Boot == [pokes |-> <<[addr |-> 6, word |-> <<1, 2, 3, 4>>], [addr |-> 20, word |-> <<5, 6, 7, 8>>]>>,
         code |-> <<33, 34>>, rest |-> <<35, 36>>]

OpenCall(name, mode) == [tag |-> "Open", name |-> name, type |-> 1, mode |-> mode]
ReadCall(id, size) == [tag |-> "Read", id |-> id, size |-> size]
WriteCall(id, data) == [tag |-> "Write", id |-> id, data |-> data]
CloseCall(id) == [tag |-> "Close", id |-> id]
Exits == {[tag |-> "Exit", status |-> EXIT_SUCCESS, code |-> 0],
          [tag |-> "Exit", status |-> EXIT_FAILURE, code |-> 1],
          [tag |-> "Exit", status |-> <<7, 0, 0, 0>>, code |-> 7]}

(* Calls on the files, with ids that are in use, that are not, and that    *)
(* are beyond the table.                                                   *)
FileCalls ==
  {OpenCall(F, 1), OpenCall(F, 4), OpenCall(F, 2), OpenCall(G, 2), OpenCall(G, 3)}
  \cup {ReadCall(3, 1), ReadCall(3, 507), ReadCall(2, 2), ReadCall(4, 1)}
  \cup {WriteCall(3, <<67>>), WriteCall(2, <<>>), [tag |-> "Puts", id |-> 3, data |-> <<68>>]}
  \cup {CloseCall(2), CloseCall(3), CloseCall(4)}
ConsoleCalls ==
  {[tag |-> "GetKey", req |-> REQ_GETKEY, args |-> <<>>],
   [tag |-> "PollKey", req |-> REQ_POLLKEY, args |-> <<>>],
   [tag |-> "PutChar", req |-> REQ_PUTCHAR, args |-> <<69>>],
   [tag |-> "Command", req |-> REQ_COMMAND, args |-> <<0>>],
   [tag |-> "Id", req |-> REQ_ID, args |-> <<>>],
   [tag |-> "Unknown", req |-> 9, args |-> <<>>]}
AllCalls == FileCalls \cup ConsoleCalls \cup Exits

Bits == {{}, {"trunc"}, {"out", "app"}, {"in", "ate"}}
=============================================================================
