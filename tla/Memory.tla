------------------------------- MODULE Memory -------------------------------
(***************************************************************************)
(* Emulator/memory.cpp: RAM from InternalMemStart, and a read-only memory  *)
(* that ends at MaxINT, the address below it.                              *)
(*                                                                         *)
(* A word is four bytes, the least significant first.  Memory is in the    *)
(* fields ram, highest and flags of a state s, an array of bytes and what  *)
(* myHighestAccess and the flags are; an operator for an access gives the  *)
(* state after it.  The count of cycles is left out.                       *)
(***************************************************************************)
EXTENDS Words

CONSTANTS
  ByteValues,           \* what a byte can hold: 256
  mySize,               \* bytes of RAM
  AfterRAM,             \* the bytes that follow RAM in the emulator's heap
  ROM,                  \* the read-only memory's bytes, numbered from 0
  ROMSize,              \* 0 when there is none
  BadWord               \* 0xC0DEDBAD

Byte == 0 .. ByteValues - 1
InternalMemStart == SignBit
MaxINT == SignBit - 1
myMemEnd == InternalMemStart + mySize
myROMStart == MaxINT - ROMSize + 1

(* isLegalMemory lets through myMemEnd, the byte after the last, and what  *)
(* uses it does not ask about the three other bytes of a word: the arrays  *)
(* have four bytes more, of whatever follows them in the emulator.         *)
Beyond == 4
ASSUME MemoryAssumption ==
  /\ ByteValues \in Nat /\ ByteValues > 1 /\ Modulus = ByteValues * ByteValues * ByteValues * ByteValues
  /\ mySize \in Nat /\ myMemEnd < Modulus
  /\ ROMSize \in Nat /\ ROMSize <= SignBit
  /\ AfterRAM \in [0 .. Beyond - 1 -> Byte]
  /\ ROM \in [0 .. ROMSize + Beyond - 1 -> Byte]
  /\ BadWord \in Word

RAM == [0 .. mySize + Beyond - 1 -> Byte]

(* initialise: calloc.  What lies beyond is there already.                 *)
InitialRAM == [i \in 0 .. mySize + Beyond - 1 |-> IF i < mySize THEN 0 ELSE AfterRAM[i - mySize]]

InRAM(a) == InternalMemStart <= a /\ a <= myMemEnd
InROM(a) == ROMSize > 0 /\ myROMStart <= a /\ a <= MaxINT
isLegalMemory(a) == InRAM(a) \/ InROM(a)

(* The bytes of a word, and a word of bytes.                               *)
byteOf(w, i) ==
  CASE i = 0 -> w % ByteValues
    [] i = 1 -> (w \div ByteValues) % ByteValues
    [] i = 2 -> (w \div (ByteValues * ByteValues)) % ByteValues
    [] i = 3 -> w \div (ByteValues * ByteValues * ByteValues)
wordOf(b) == b[0] + ByteValues * (b[1] + ByteValues * (b[2] + ByteValues * b[3]))

(* The byte i past a legal address.                                        *)
byteAt(s, a, i) == IF InRAM(a) THEN s.ram[a - InternalMemStart + i] ELSE ROM[a - myROMStart + i]

getByte(s, a) == IF isLegalMemory(a) THEN byteAt(s, a, 0) ELSE 0
getWord(s, a) ==
  IF isLegalMemory(a) THEN wordOf([i \in 0 .. 3 |-> byteAt(s, a, i)]) ELSE BadWord

(* What an access leaves behind: of a word, its first byte is tracked.     *)
(* temulate's -t sets the flag TerminateOnMemViol.                         *)
Violation(s) == IF "TerminateOnMemViol" \in s.flags THEN [s EXCEPT !.flags = @ \cup {"Terminate"}] ELSE s
Tracked(s, a) == IF InRAM(a) /\ a > s.highest THEN [s EXCEPT !.highest = a] ELSE s
read(s, a) == IF isLegalMemory(a) THEN Tracked(s, a) ELSE Violation(s)

Stored(s, a, bytes) ==
  [Tracked(s, a) EXCEPT !.ram =
     [x \in DOMAIN @ |-> IF x - (a - InternalMemStart) \in DOMAIN bytes
                         THEN bytes[x - (a - InternalMemStart)] ELSE @[x]]]
setByte(s, a, b) == IF InRAM(a) THEN Stored(s, a, [i \in {0} |-> b]) ELSE Violation(s)

(* A setWord that stores the most significant byte first. *)
setWord_big(s, a, w) ==
  IF InRAM(a) THEN Stored(s, a, [i \in 0 .. 3 |-> byteOf(w, 3 - i)]) ELSE Violation(s)
setWord(s, a, w) ==
  IF InRAM(a) THEN Stored(s, a, [i \in 0 .. 3 |-> byteOf(w, i)]) ELSE Violation(s)

(* A block is copied byte by byte, upwards, to the first address that      *)
(* cannot be read or written, so that a byte that has been copied over is  *)
(* read as it is then.                                                     *)
blockCopy(s, len, from, to) ==
  LET Good(i) == isLegalMemory(wrap(from + i)) /\ InRAM(wrap(to + i))
      n == Cardinality({i \in 0 .. len - 1 : \A k \in 0 .. i : Good(k)})
      ahead == wrap(to - from)
      bytes[i \in 0 .. n - 1] ==
        IF ahead \in 1 .. i THEN bytes[i - ahead] ELSE getByte(s, wrap(from + i))
      copied == IF n = 0 THEN s
                ELSE Tracked(Tracked(Stored(s, to, bytes), wrap(from + n - 1)), wrap(to + n - 1))
  IN IF n = len THEN copied ELSE Violation(read(copied, wrap(from + n)))
=============================================================================
