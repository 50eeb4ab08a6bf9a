-------------------------- MODULE ProtocolHandler --------------------------
(***************************************************************************)
(* IServer/server/protocolhandler.cpp with framecodec.cpp: what becomes of *)
(* one request frame.  buf is myTransactionBuffer with the frame in it,    *)
(* its size in the first two bytes and its tag in the third; every handler *)
(* takes its arguments from it before it puts its first byte, and what it  *)
(* puts, after the size, is the answer.  A handler yields the set of its   *)
(* outcomes [p |-> platform, put |-> bytes].                               *)
(*                                                                         *)
(* Left out: the counters, which only the tests read; the exception of     *)
(* getString for a length that no frame can hold; writing "\r\n", which is *)
(* for Windows.                                                            *)
(***************************************************************************)
EXTENDS Platform

(* The values that reqOpen's iosOpenMode may start with.                   *)
CONSTANT Uninitialised

ASSUME UninitialisedAssumption == Uninitialised \subseteq SUBSET Flag

REQ_OPEN == 10
REQ_CLOSE == 11
REQ_READ == 12
REQ_WRITE == 13
REQ_PUTS == 15
REQ_GETKEY == 30
REQ_POLLKEY == 31
REQ_EXIT == 35
REQ_COMMAND == 40
REQ_ID == 42
REQ_PUTCHAR == 90
RES_SUCCESS == 0
RES_UNIMPLEMENTED == 1
RES_ERROR == 129
RES_TRUNCATED == 134
RES_BADID == 135
RES_NOPOSN == 136
OPEN_TYPE == 1 .. 4
REQ_OPEN_MODE_INPUT == 1
REQ_OPEN_MODE_OUTPUT == 2
REQ_OPEN_MODE_APPEND == 3
OPEN_MODE_UPDATE == {4, 5, 6}

-----------------------------------------------------------------------------
(* FrameCodec: words go least significant byte first.                      *)
Put16(w) == <<w % 256, w \div 256>>
Put32(w) == <<w % 256, (w \div 256) % 256, (w \div 65536) % 256, w \div 16777216>>
Get16(buf, i) == buf[i] + 256 * buf[i + 1]
Get32(buf, i) == Get16(buf, i) + 65536 * Get16(buf, i + 2)
GetString(buf, i) == SubSeq(buf, i + 2, i + 1 + Get16(buf, i))

BadFrameSize(size) == size < 6 \/ size > 510 \/ size % 2 = 1

(* A fillInFrameSize that counts the padding but does not put it.          *)
fillInFrameSize_unpadded(put) == Put16(Len(put) + (Len(put) % 2)) \o put

fillInFrameSize(put) ==
  LET padded == IF Len(put) % 2 = 1 THEN Append(put, 0) ELSE put
  IN Put16(Len(padded)) \o padded

-----------------------------------------------------------------------------
Answer(p, put) == [p |-> p, put |-> put]

(* What the catch clauses of the handlers put.                             *)
ResultOf(ex) == IF ex = "domain_error" THEN RES_NOPOSN ELSE RES_BADID
Caught(p, ex) == Answer(p, <<ResultOf(ex)>> \o Put16(0))

(* The openmode of each open mode; nothing has been decided for APPEND.    *)
(* On Linux iosOpenMode is declared without a value and the bits of the    *)
(* mode are or-ed into what is there.                                      *)
ModeBits(openMode) ==
  CASE openMode = REQ_OPEN_MODE_INPUT -> {"in"}
    [] openMode = REQ_OPEN_MODE_OUTPUT -> {"out", "trunc"}
    [] openMode = REQ_OPEN_MODE_APPEND -> {}
    [] openMode \in OPEN_MODE_UPDATE -> {"in", "out"}

reqOpen(p, buf) ==
  LET filename == GetString(buf, 4)
      openType == buf[6 + Len(filename)]
      openMode == buf[7 + Len(filename)]
      failed == <<RES_ERROR>> \o Put16(0)
  IN IF openType \notin OPEN_TYPE \/ openMode \notin 1 .. 6
     THEN {Answer(p, failed)}
     ELSE {Answer(o.p, IF o.ex = "none" THEN <<RES_SUCCESS>> \o Put32(o.id) ELSE failed) :
             o \in UNION {openFileStream(p, filename, garbage \cup ModeBits(openMode)) :
                            garbage \in Uninitialised}}

reqClose(p, buf) ==
  {Answer(o.p, <<IF o.ex # "none" THEN RES_BADID
                 ELSE IF o.closeOk THEN RES_SUCCESS ELSE RES_ERROR>>) :
     o \in closeStream(p, Get32(buf, 4))}

(* The data is read straight into the transaction buffer, behind the size, *)
(* the result and the data's length: what does not fit there overruns it,  *)
(* which nothing here stands for (see RequestAssumption of EmuServer).     *)
TransactionBufferSize == 512
ReadFits(size) == 5 + size <= TransactionBufferSize

reqRead(p, buf) ==
  {IF o.ex # "none" THEN Caught(o.p, o.ex)
   ELSE Answer(o.p, <<RES_SUCCESS>> \o Put16(Len(o.data)) \o o.data) :
     o \in readStream(p, Get32(buf, 4), Get16(buf, 8))}

(* With no data the stream is not even looked at.                          *)
WriteData(p, id, data) ==
  IF data = <<>> THEN {[p |-> p, ex |-> "none", written |-> 0]} ELSE writeStream(p, id, data)

reqWrite(p, buf) ==
  {IF o.ex # "none" THEN Caught(o.p, o.ex)
   ELSE Answer(o.p, <<RES_SUCCESS>> \o Put16(o.written)) :
     o \in WriteData(p, Get32(buf, 4), GetString(buf, 8))}

(* How much was written, of the data or of the newline, is not reported.   *)
reqPuts(p, buf) ==
  LET id == Get32(buf, 4)
  IN UNION {IF o.ex # "none" THEN {Caught(o.p, o.ex)}
            ELSE {IF nl.ex # "none" THEN Caught(nl.p, nl.ex) ELSE Answer(nl.p, <<RES_SUCCESS>>) :
                    nl \in writeStream(o.p, id, <<10>>)} :
              o \in WriteData(p, id, GetString(buf, 8))}

(* At the console's end of file no key is put, and the padding stands in   *)
(* for it.                                                                 *)
reqGetKey(p) ==
  {IF o.ex # "none" THEN Caught(o.p, o.ex) ELSE Answer(o.p, <<RES_SUCCESS>> \o o.data) :
     o \in readStream(p, FILE_STDIN, 1)}

reqPollKey(p) == {Answer(p, <<RES_SUCCESS, Key>>), Answer(p, <<RES_ERROR>>)}

reqExit(p) == {Answer(p, <<RES_SUCCESS>>)}

(* The command lines stand for any: the program's is part of the full one. *)
reqCommand(p, buf) ==
  LET commandLine == IF buf[4] # 0 THEN <<Key, Key>> ELSE <<Key>>
  IN {Answer(p, <<RES_SUCCESS>> \o Put16(Len(commandLine)) \o commandLine)}

(* Version, host, operating system (Linux) and the type of the link.       *)
reqId(p) == {Answer(p, <<RES_SUCCESS, 0, 1, 8, 0>>)}

reqPutChar(p, buf) ==
  {Answer(o.p, <<IF o.ex # "none" THEN ResultOf(o.ex)
                 ELSE IF o.written # 1 THEN RES_TRUNCATED ELSE RES_SUCCESS>>) :
     o \in writeStream(p, FILE_STDOUT, <<buf[4]>>)}

requestResponse(p, buf) ==
  LET tag == buf[3]
  IN CASE tag = REQ_OPEN -> reqOpen(p, buf)
       [] tag = REQ_CLOSE -> reqClose(p, buf)
       [] tag = REQ_READ -> reqRead(p, buf)
       [] tag = REQ_WRITE -> reqWrite(p, buf)
       [] tag = REQ_PUTS -> reqPuts(p, buf)
       [] tag = REQ_GETKEY -> reqGetKey(p)
       [] tag = REQ_POLLKEY -> reqPollKey(p)
       [] tag = REQ_EXIT -> reqExit(p)
       [] tag = REQ_COMMAND -> reqCommand(p, buf)
       [] tag = REQ_ID -> reqId(p)
       [] tag = REQ_PUTCHAR -> reqPutChar(p, buf)
       [] OTHER -> {Answer(p, <<RES_UNIMPLEMENTED>>)}

(* 999999999 and -999999999 stand for EXIT_SUCCESS and EXIT_FAILURE; they  *)
(* are compared byte by byte because a WORD32 is wider than TLC's numbers. *)
EXIT_SUCCESS == <<255, 201, 154, 59>>
EXIT_FAILURE == <<1, 54, 101, 196>>

ExitCode(buf, myExitCode) ==
  LET status == SubSeq(buf, 4, 7)
  IN IF buf[3] # REQ_EXIT THEN myExitCode
     ELSE IF status = EXIT_SUCCESS THEN 0
     ELSE IF status = EXIT_FAILURE THEN 1
     ELSE Get32(buf, 4)
=============================================================================
