------------------------------ MODULE Options ------------------------------
(***************************************************************************)
(* Emulator/temulate.cpp, IServer/server/iserver.cpp and                   *)
(* EmuServer/emuserver.cpp: the start of the three programs, up to the     *)
(* links that they run with, from a command line that temulate and iserver *)
(* read twice: themselves, and again in Shared/linkfactory.cpp.            *)
(*                                                                         *)
(* An argument is <<letter, second, third>>, its '-' left out; the letter  *)
(* of one that is no option is "", and its second is a file's name.  What  *)
(* a -b, an -s or a -T is followed by is its second or third as a whole.   *)
(* The build is the one for Linux.                                         *)
(***************************************************************************)
EXTENDS Integers, Sequences

CONSTANTS
  CommandLines,   \* those that the programs are started with
  Files,          \* the files that exist
  Directories,
  Readable,       \* those of them that can be read, whatever is in them
  Megabytes,      \* as the text after -m: the range that is taken, 4 to 64
  Numbers,        \* the texts after -m that are numbers
  HexAddress,     \* the address that a text is in hexadecimal, of those that are
  SymbolFile,     \* the lines of a symbol file, <<name, address>>; one that
                  \* does not exist has none
  BadAddress      \* an address in a line that is not hexadecimal

LinkNo == {"0", "1", "2", "3"}

VARIABLES
  started,     \* which program this is, and whether it still reads its command line,
               \* LinkFactory does, it makes its links, runs, or has left with a code
  argv, i,     \* the arguments, and which is next to be read
  set,         \* what the program has made of them
  factory,     \* LinkFactory's myLinkTypes, myLinkFileNames and bTVS
  links        \* the links made, by number
optionVars == <<started, argv, i, set, factory, links>>

Main == started.program
Servers == {"iserver", "emuserver"}
Runs == started.does = "run"

-----------------------------------------------------------------------------
(* processCommandLine: one argument.  Which options a program has, and     *)
(* what it makes of those that it shares with another, is below.           *)
Reads(letter) == started.does = "options" /\ i <= Len(argv) /\ argv[i][1] = letter
Second == argv[i][2]
Third == argv[i][3]

Exits(code) ==
  /\ started' = [started EXCEPT !.does = "exited", !.code = code]
  /\ UNCHANGED <<argv, i, set, factory, links>>
Refuses == Exits(1)
Sets(new) == set' = new /\ i' = i + 1 /\ UNCHANGED <<started, argv, factory, links>>
SetFlags(f) == Sets([set EXCEPT !.flags = @ \cup f])
Passed == Append(set.programCommandLine, argv[i])

MemorySize ==
  /\ Reads("m")
  /\ IF Second = "" /\ Main = "emuserver" THEN Sets(set)
     ELSE IF Second \in Numbers /\ Second \in Megabytes THEN Sets([set EXCEPT !.ramSize = Second])
     ELSE Refuses

LogLevel ==
  /\ Reads("l")
  /\ IF Second \in {"d", "i", "w", "e", "f"} THEN Sets([set EXCEPT !.logLevel = Second]) ELSE Refuses

(* The debugging level is two bits, and the levels are or'ed together: a   *)
(* -da and a -dr make the level of -do.  A -df leaves out memory accesses  *)
(* and, in emuserver, the level.                                           *)
OprCodes == {"Disasm", "DisRegs"}
EmulatorDebug ==
  [a |-> {"Disasm"}, r |-> {"DisRegs"}, o |-> OprCodes,
   i |-> {"IDiag"}, l |-> {"LinkComms"}, q |-> {"Queues"}, c |-> {"Clocks"},
   m |-> {"ReadWriteData"}, M |-> {"Full"},
   f |-> OprCodes \cup {"ReadWriteData", "LinkComms", "Clocks", "Queues", "IDiag"}]
ServerDebug ==
  [l |-> {"debugLink"}, L |-> {"debugLink", "debugLinkRaw"}, p |-> {"debugPlatform"}, P |-> {"debugProtocol"},
   f |-> {"debugLink", "debugLinkRaw", "debugPlatform", "debugProtocol"}]
EmuServerDebug ==
  [d \in (DOMAIN EmulatorDebug \cup DOMAIN ServerDebug) |->
     CASE d = "f" -> (EmulatorDebug.f \ (OprCodes \cup {"ReadWriteData"})) \cup ServerDebug.f
       [] d = "l" -> EmulatorDebug.l \cup ServerDebug.l
       [] d \in {"L", "p", "P"} -> ServerDebug[d]
       [] OTHER -> EmulatorDebug[d]]
Debugs(table) ==
  /\ Reads("d")
  /\ IF Second \in DOMAIN table THEN SetFlags(table[Second])
     ELSE IF Second = "" /\ Main = "emuserver" THEN Sets(set)
     ELSE Refuses
EmulatorFlags ==
  \/ Reads("i") /\ SetFlags({"Monitor", "DisRegs"})
  \/ Reads("j") /\ SetFlags({"J0Break"})
  \/ Reads("x") /\ SetFlags({"TerminateOnMemViol"})

(* Symbols are read to the first line that is wrong.                       *)
Symbols ==
  /\ Reads("s")
  /\ LET lines == IF Second \in DOMAIN SymbolFile THEN SymbolFile[Second] ELSE <<>>
         last(name) == CHOOSE k \in DOMAIN lines :
                         lines[k][1] = name /\ \A m \in DOMAIN lines : lines[m][1] = name => m <= k
         names == {lines[k][1] : k \in DOMAIN lines}
     IN IF Second = "" \/ \E k \in DOMAIN lines : lines[k][2] = BadAddress THEN Refuses
        ELSE Sets([set EXCEPT !.symbols =
               [n \in DOMAIN @ \cup names |-> IF n \in names THEN lines[last(n)][2] ELSE @[n]]])

(* A name that is a symbol's by now is that symbol, else a number.         *)
Breakpoint ==
  /\ Reads("b")
  /\ IF Second \in DOMAIN set.symbols
     THEN Sets([set EXCEPT !.breakpoints = @ \cup {set.symbols[Second]}])
     ELSE IF Second \in DOMAIN HexAddress
     THEN Sets([set EXCEPT !.breakpoints = @ \cup {HexAddress[Second]}])
     ELSE Refuses

EForth ==
  /\ Reads("e")
  /\ IF {"SPP", "RPP"} \subseteq DOMAIN set.symbols
     THEN Sets([set EXCEPT !.flags = @ \cup {"eForth"},
                           !.stacks = <<set.symbols["SPP"], set.symbols["RPP"]>>])
     ELSE Refuses

(* temulate leaves the names of a -tvs to LinkFactory.                     *)
Tvs ==
  /\ Reads("t")
  /\ IF Second # "vs" \/ Len(argv) < i + 3 THEN Refuses
     ELSE /\ set' = [set EXCEPT !.flags = @ \cup {"TVS"}]
          /\ i' = i + 4
          /\ UNCHANGED <<started, argv, factory, links>>

Help == Reads("h") /\ Refuses
ShowPlatform == Reads("p") /\ Exits(0)
ServerOptions ==
  \/ Reads("M") /\ SetFlags({"monitorLink"})
  \/ Reads("r") /\ Sets([set EXCEPT !.rootDirectory = Second])

(* What is no option of the program's: temulate takes no notice of it, a   *)
(* server keeps it for what runs on the transputer.                        *)
Letters ==
  [temulate  |-> {"h", "p", "m", "l", "d", "i", "j", "x", "b", "s", "e", "t"},
   iserver   |-> {"M", "h", "l", "d", "r"},
   emuserver |-> {"m", "d", "i", "j", "x", "b", "s", "M", "h", "l", "r"}]
OtherOption ==
  /\ started.does = "options" /\ i <= Len(argv)
  /\ argv[i][1] \notin {""} \cup Letters[Main]
  /\ Sets(IF Main = "temulate" THEN set ELSE [set EXCEPT !.programCommandLine = Passed])

File ==
  /\ Reads("")
  /\ Sets(IF Main = "temulate" THEN [set EXCEPT !.romFile = Second]
          ELSE IF Second \in Files THEN [set EXCEPT !.bootFile = Second]
          ELSE [set EXCEPT !.programCommandLine = Passed])

temulateOptions ==
  /\ Main = "temulate"
  /\ \/ MemorySize \/ LogLevel \/ Debugs(EmulatorDebug) \/ EmulatorFlags
     \/ Symbols \/ Breakpoint \/ EForth \/ Tvs
     \/ Help \/ ShowPlatform \/ OtherOption \/ File
iserverOptions ==
  /\ Main = "iserver"
  /\ \/ LogLevel \/ Debugs(ServerDebug) \/ ServerOptions
     \/ Help \/ OtherOption \/ File
emuserverEmulatorOptions ==
  /\ Main = "emuserver"
  /\ MemorySize \/ Debugs(EmuServerDebug) \/ EmulatorFlags \/ Symbols \/ Breakpoint
emuserverServerOptions ==
  /\ Main = "emuserver"
  /\ LogLevel \/ ServerOptions \/ Help \/ OtherOption \/ File

(* setupCurrentPathAndRootDirectory: that of a server is the current one   *)
(* unless it is given another.                                             *)
RootDirectoryFails == Main \in Servers /\ set.rootDirectory \notin Directories \cup {""}

(* The end of it: emuserver has no links to choose.                        *)
OptionsRead ==
  /\ started.does = "options" /\ i > Len(argv)
  /\ IF RootDirectoryFails THEN Exits(1)
     ELSE /\ started' = [started EXCEPT !.does = IF Main = "emuserver" THEN "create" ELSE "links"]
          /\ i' = 1
          /\ UNCHANGED <<argv, set, factory, links>>

-----------------------------------------------------------------------------
(* LinkFactory::processCommandLine: one argument.                          *)
Chooses(new, count) ==
  /\ factory' = new /\ i' = i + count
  /\ UNCHANGED <<started, argv, set, links>>
ReadsLink(letter) == started.does = "links" /\ i <= Len(argv) /\ argv[i][1] = letter

TypeOf == [F |-> "FIFO", S |-> "Socket", M |-> "SharedMemory", T |-> "TTY"]
LinkType ==
  /\ ReadsLink("L")
  /\ IF Second \in LinkNo /\ Third \in DOMAIN TypeOf
     THEN Chooses([factory EXCEPT !.myLinkTypes[Second] = TypeOf[Third]], 1)
     ELSE Refuses
TTYFile ==
  /\ ReadsLink("T")
  /\ IF Second \in LinkNo /\ Third # ""
     THEN Chooses([factory EXCEPT !.myLinkTypes[Second] = "TTY", !.myLinkFileNames[Second] = Third], 1)
     ELSE Refuses

(* A -tvs whose three names are read as arguments of their own. *)
TvsLinks_reread ==
  /\ ReadsLink("t") /\ Second = "vs"
  /\ IF Main = "iserver" \/ Len(argv) < i + 3 THEN Refuses
     ELSE Chooses([factory EXCEPT !.bTVS = TRUE,
            !.myLinkTypes = [n \in LinkNo |-> IF n = "0" THEN "TVS" ELSE "Null"]], 1)
TvsLinks ==
  /\ ReadsLink("t") /\ Second = "vs"
  /\ IF Main = "iserver" \/ Len(argv) < i + 3 THEN Refuses
     ELSE Chooses([factory EXCEPT !.bTVS = TRUE,
            !.myLinkTypes = [n \in LinkNo |-> IF n = "0" THEN "TVS" ELSE "Null"]], 4)
NotOfLinks ==
  /\ started.does = "links" /\ i <= Len(argv)
  /\ argv[i][1] \notin {"L", "T"} /\ ~(argv[i][1] = "t" /\ Second = "vs")
  /\ Chooses(factory, 1)

LinksRead ==
  /\ started.does = "links" /\ i > Len(argv)
  /\ IF \E n \in LinkNo : factory.myLinkTypes[n] = "TTY" /\ factory.myLinkFileNames[n] = ""
     THEN Refuses
     ELSE /\ started' = [started EXCEPT !.does = "create"]
          /\ UNCHANGED <<argv, i, set, factory, links>>

-----------------------------------------------------------------------------
(* createLink, for the links that the program has, and its initialise,     *)
(* which throws for what cannot be opened: a FIFO or a terminal.  A TVS    *)
(* link's streams do not throw, whatever its files; that there is no       *)
(* program is found at the first byte that is read, as the end of it.      *)
NotImplemented == {"Socket", "SharedMemory"}
initialiseThrows(link) == link.type \in {"FIFO", "TTY"}
Creates(made) ==
  \/ /\ links' = made
     /\ started' = [started EXCEPT !.does = "run"]
     /\ UNCHANGED <<argv, i, set, factory>>
  \/ (\E n \in DOMAIN made : initialiseThrows(made[n])) /\ Refuses
createLink(n) == [type |-> factory.myLinkTypes[n], name |-> factory.myLinkFileNames[n]]

(* A ROM, which ends at MaxINT, is loaded before the links are made.  That *)
(* its first address has to be legal refuses none, not even an empty one:  *)
(* the address above MaxINT is where RAM begins, and ends for now.         *)
loadROMFile(file) == file \in Readable

StartEmulator ==
  /\ started.does = "create" /\ Main = "temulate"
  /\ IF ~(set.romFile = "" \/ loadROMFile(set.romFile))
        \/ \E n \in LinkNo : factory.myLinkTypes[n] \in NotImplemented
     THEN Refuses
     ELSE Creates([n \in LinkNo |-> createLink(n)])
StartIServer ==
  /\ started.does = "create" /\ Main = "iserver"
  /\ IF factory.myLinkTypes["0"] \in NotImplemented THEN Refuses
     ELSE Creates([n \in {"0"} |-> createLink(n)])
StartEmuServer ==
  /\ started.does = "create" /\ Main = "emuserver"
  /\ Creates([n \in LinkNo |-> [type |-> IF n = "0" THEN "InMemory" ELSE "Null", name |-> ""]])

Defaults ==
  [ramSize |-> "", logLevel |-> "i", flags |-> {}, symbols |-> [n \in {} |-> 0],
   breakpoints |-> {}, stacks |-> <<>>, romFile |-> "", bootFile |-> "",
   rootDirectory |-> "", programCommandLine |-> <<>>]

OptionsInit ==
  /\ argv \in CommandLines /\ i = 1
  /\ started \in [program : {"temulate"} \cup Servers, does : {"options"}, code : {0}]
  /\ set = Defaults
  /\ factory = [myLinkTypes |-> [n \in LinkNo |-> "FIFO"],
                myLinkFileNames |-> [n \in LinkNo |-> ""], bTVS |-> FALSE]
  /\ links = <<>>

OptionsNext ==
  \/ temulateOptions \/ iserverOptions
  \/ emuserverEmulatorOptions \/ emuserverServerOptions \/ OptionsRead
  \/ LinkType \/ TTYFile \/ TvsLinks \/ NotOfLinks \/ LinksRead
  \/ StartEmulator \/ StartIServer \/ StartEmuServer
-----------------------------------------------------------------------------
(* Properties.                                                             *)

(* The arguments that are names belonging to a -tvs, and which of the      *)
(* others say what link n is to be.                                        *)
IsTvs(k) == argv[k][1] = "t" /\ argv[k][2] = "vs"
Named == LET name[k \in DOMAIN argv] == \E t \in DOMAIN argv \cap (k - 3 .. k - 1) : IsTvs(t) /\ ~name[t]
         IN {k \in DOMAIN argv : name[k]}
About(n) ==
  {k \in DOMAIN argv \ Named : IsTvs(k) \/ (argv[k][1] \in {"L", "T"} /\ argv[k][2] = n)}
Asked(n, k) ==
  CASE IsTvs(k) -> IF n = "0" THEN "TVS" ELSE "Null"
    [] argv[k][1] = "L" -> TypeOf[argv[k][3]]
    [] argv[k][1] = "T" -> "TTY"
Latest(S) == CHOOSE k \in S : \A m \in S : m <= k

(* linkfactory.cpp:65, temulate.cpp:359 - the two readers of a command     *)
(* line agree on which arguments are options: a program that runs has each *)
(* of its links as the last of the options about it asks, a FIFO when none *)
(* does, a TTY with the last of the names that it was given, and runs a    *)
(* validation program exactly when LinkFactory was asked for one.          *)
LinksAsAsked ==
  Runs /\ Main # "emuserver" =>
    /\ \A n \in DOMAIN links :
         /\ links[n].type = IF About(n) = {} THEN "FIFO" ELSE Asked(n, Latest(About(n)))
         /\ links[n].type = "TTY" =>
              links[n].name = argv[Latest({k \in About(n) : argv[k][1] = "T"})][3]
    /\ {factory.bTVS, "TVS" \in set.flags} = {\E k \in DOMAIN argv \ Named : IsTvs(k)}
=============================================================================
