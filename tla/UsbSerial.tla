------------------------------ MODULE UsbSerial ------------------------------
(***************************************************************************)
(* PicoUSBCDC/cdc_app.cpp and picousbseriallink.cpp: the link and the log  *)
(* of an emulator on a Pico, two serial ports of one USB device.  Before   *)
(* it begins, the emulator waits until the user, whose terminal has been   *)
(* connected to the log, has typed return: the knock.                      *)
(*                                                                         *)
(* There is one thread.  TinyUSB's callbacks are made from usb_poll, which *)
(* every loop of cdc_app calls: a callback is a step of a program that is  *)
(* in one of them.  Ports are FIFOs in the device, of which only how much  *)
(* is in them is told here.  A terminal types a character at a time.       *)
(***************************************************************************)
EXTENDS Naturals

CONSTANTS
  BufSize,      \* CFG_TUD_CDC_RX_BUFSIZE and TX_BUFSIZE
  LogSize       \* bound: the most that is logged in one write

ASSUME UsbAssumption == BufSize \in Nat \ {0} /\ LogSize \in Nat \ {0}

VARIABLES
  knock_state,  \* WaitingForConnection, Connected or Knocked
  dtr,          \* is a program of the host connected to each port?
  received,     \* how much is in the receive FIFO of the link
  sending,      \* how much is in the transmit FIFO of each port
  pico          \* the loop the emulator is in, and how much it has yet to write

usbVars == <<knock_state, dtr, received, sending, pico>>

Port == {"link", "log"}
Is(loop) == pico.loop = loop
Loops(loop, remaining) == pico' = [loop |-> loop, remaining |-> remaining]
Polling == ~Is("emulate")
AtMost(n, most) == IF n < most THEN n ELSE most

UsbInit ==
  /\ knock_state = "WaitingForConnection"
  /\ dtr = [p \in Port |-> FALSE]
  /\ received = 0
  /\ sending = [p \in Port |-> 0]
  /\ pico = [loop |-> "usb_log_wait_for_knock", remaining |-> 0]

-----------------------------------------------------------------------------
(* The callbacks.                                                          *)

(* One that does not ask whether the log is connected already. *)
LineState_again(port, on) ==
  IF ~on THEN "WaitingForConnection" ELSE IF port = "log" THEN "Connected" ELSE knock_state

(* A report of either port that has no DTR undoes the connection, and a knock. *)
LineState(port, on) ==
  IF ~on THEN "WaitingForConnection"
  ELSE IF port = "log" /\ knock_state = "WaitingForConnection" THEN "Connected"
  ELSE knock_state

(* The host reports the lines of a port whenever it sets them: RTS alone,  *)
(* or both as they were.                                                   *)
tud_cdc_line_state_cb(port, on) ==
  /\ Polling /\ dtr' = [dtr EXCEPT ![port] = on]
  /\ knock_state' = LineState(port, on)
  /\ UNCHANGED <<received, sending, pico>>

(* What a callback writes is echoed as far as there is room. *)
tud_cdc_rx_cb(isReturn) ==
  /\ Polling /\ dtr["log"]
  /\ knock_state' = IF knock_state = "Connected" /\ isReturn THEN "Knocked" ELSE knock_state
  /\ sending' = IF knock_state = "Connected" /\ ~isReturn THEN sending
                ELSE [sending EXCEPT !["log"] = BufSize]
  /\ UNCHANGED <<dtr, received, pico>>

(* The host, at any time: a program that has the link as a TTYLink, which  *)
(* reads until there is a byte, and the terminal that shows the log.       *)
TTYLink_writeByte ==
  /\ dtr["link"] /\ received < BufSize /\ received' = received + 1
  /\ UNCHANGED <<knock_state, dtr, sending, pico>>
HostReads(port) ==
  /\ dtr[port] /\ sending[port] > 0 /\ sending' = [sending EXCEPT ![port] = @ - 1]
  /\ UNCHANGED <<knock_state, dtr, received, pico>>
TTYLink_readByte == HostReads("link")
TerminalReads == HostReads("log")

-----------------------------------------------------------------------------
(* The emulator.                                                           *)
Returns == Loops("emulate", 0)

usb_log_wait_for_knock ==
  /\ Is("usb_log_wait_for_knock") /\ knock_state = "Knocked" /\ Returns
  /\ UNCHANGED <<knock_state, dtr, received, sending>>

readByte_or_writeByte ==
  /\ Is("emulate") /\ (Loops("usb_read", 1) \/ Loops("link", 1))
  /\ UNCHANGED <<knock_state, dtr, received, sending>>

usb_log_write(size) ==
  /\ Is("emulate") /\ dtr["log"] /\ Loops("log", size)
  /\ UNCHANGED <<knock_state, dtr, received, sending>>

usb_read ==
  /\ Is("usb_read") /\ received > 0 /\ received' = received - 1 /\ Returns
  /\ UNCHANGED <<knock_state, dtr, sending>>

(* A FIFO that nobody is connected to takes everything, over what it has;  *)
(* one that is full takes nothing, and the loop goes round.                *)
Accepted(port) ==
  IF dtr[port] THEN AtMost(pico.remaining, BufSize - sending[port]) ELSE pico.remaining

(* One whose condition is true of nothing remaining. *)
Writes_on(port, written) == Loops(port, pico.remaining - written)

Writes(port, written) ==
  IF written = pico.remaining THEN Returns ELSE Loops(port, pico.remaining - written)

usb_write(port) ==
  /\ Is(port) /\ Accepted(port) > 0 /\ Writes(port, Accepted(port))
  /\ sending' = [sending EXCEPT ![port] = AtMost(@ + Accepted(port), BufSize)]
  /\ UNCHANGED <<knock_state, dtr, received>>

UsbNext ==
  \/ \E port \in Port :
       \/ usb_write(port)
       \/ \E on \in BOOLEAN : tud_cdc_line_state_cb(port, on)
  \/ \E isReturn \in BOOLEAN : tud_cdc_rx_cb(isReturn)
  \/ \E size \in 1 .. LogSize : usb_log_write(size)
  \/ TTYLink_writeByte \/ TTYLink_readByte \/ TerminalReads
  \/ usb_log_wait_for_knock \/ readByte_or_writeByte \/ usb_read

(* The loops go on; a user whose terminal is connected types return until  *)
(* it is heard, and the terminal shows what it is sent.                    *)
UsbFairness ==
  /\ WF_usbVars(usb_log_wait_for_knock)
  /\ WF_usbVars(usb_write("log"))
  /\ WF_usbVars(knock_state = "Connected" /\ tud_cdc_rx_cb(TRUE))
  /\ WF_usbVars(TerminalReads)

-----------------------------------------------------------------------------
(* cdc_app.cpp:67 to 128, 280 to 284 - however often the lines of either   *)
(* port were reported before, and a connection or a knock undone, the      *)
(* emulator begins once the link's are reported no more and the terminal   *)
(* on the log, which stays there and knocks, goes on to report its own:    *)
(* those reports connect the log again and undo nothing.  A terminal that  *)
(* reports no more either may never be heard: a report of the link's port  *)
(* without DTR, after its own, has undone its connection for good.         *)
GoesOnReporting ==
  /\ <>[]dtr["log"]
  /\ <>[][\A on \in BOOLEAN : ~tud_cdc_line_state_cb("link", on)]_usbVars
  /\ WF_usbVars(tud_cdc_line_state_cb("log", TRUE))
KnockHeard == GoesOnReporting => <>(~Is("usb_log_wait_for_knock"))

(* cdc_app.cpp:200 to 222, 286 to 291 - that the log is connected is asked *)
(* once, before the loop that writes.  When the terminal is closed in the  *)
(* middle of a line the loop ends all the same, and the emulator goes back *)
(* to its links, unless the terminal is opened and closed or typed at      *)
(* forever: what is echoed may fill the FIFO whenever it has room.         *)
LeftAlone ==
  <>[][dtr'["log"] = dtr["log"] /\ \A isReturn \in BOOLEAN : ~tud_cdc_rx_cb(isReturn)]_usbVars
LogWriteEnds == LeftAlone => (Is("log") ~> Is("emulate"))
=============================================================================
