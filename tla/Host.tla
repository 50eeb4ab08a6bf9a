-------------------------------- MODULE Host --------------------------------
(***************************************************************************)
(* What a user of the programs on a host meets: the command line that      *)
(* starts one and chooses its links; the links, InMemory between the two   *)
(* threads of an EmuServer, FIFO between two programs and USBCDC to an     *)
(* emulator on a Pico; and the emulator's monitor.  They share no state,   *)
(* and a behaviour is of one of them.                                      *)
(***************************************************************************)
EXTENDS InMemoryLink, FIFOLink, UsbSerial, Options, Monitor

VARIABLE runs
hostVars == <<vars, fifoVars, usbVars, optionVars, monitorVars, runs>>

HostInit ==
  /\ runs \in {"InMemory", "FIFO", "USBCDC", "CommandLine", "Monitor"}
  /\ Init /\ FIFOInit /\ UsbInit
  /\ OptionsInit /\ (runs # "CommandLine" => argv = <<>> /\ Main = "temulate")
  /\ MonitorInit
  /\ runs # "Monitor" =>
       /\ code = CHOOSE c \in Codes : TRUE
       /\ cpu.flags = CHOOSE f \in StartFlags : TRUE
       /\ BreakpointAddresses = {}

HostNext ==
  /\ \/ /\ runs = "InMemory" /\ Next
        /\ UNCHANGED <<fifoVars, usbVars, optionVars, monitorVars>>
     \/ /\ runs = "FIFO" /\ FIFONext
        /\ UNCHANGED <<vars, usbVars, optionVars, monitorVars>>
     \/ /\ runs = "USBCDC" /\ UsbNext
        /\ UNCHANGED <<vars, fifoVars, optionVars, monitorVars>>
     \/ /\ runs = "CommandLine" /\ OptionsNext
        /\ UNCHANGED <<vars, fifoVars, usbVars, monitorVars>>
     \/ /\ runs = "Monitor" /\ MonitorNext
        /\ UNCHANGED <<vars, fifoVars, usbVars, optionVars>>
  /\ UNCHANGED runs

HostSpec == HostInit /\ [][HostNext]_hostVars /\ Fairness /\ UsbFairness
=============================================================================
