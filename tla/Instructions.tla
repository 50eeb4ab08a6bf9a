---------------------------- MODULE Instructions ----------------------------
(***************************************************************************)
(* Emulator/cpu.cpp: the instructions of CPU::interpret that use no more   *)
(* than the evaluation stack, the operand register and the flags.          *)
(*                                                                         *)
(* An operator with an instruction's name maps the stack and flags before  *)
(* its case of the switch to those after it, so that sequences of          *)
(* instructions can be written down and compared.  An action is one call   *)
(* of interpret.  A program is any sequence of instructions.  Cycle counts *)
(* are left out, as are the instructions that unimplemented floating point *)
(* would need.                                                             *)
(***************************************************************************)
EXTENDS Words

CONSTANTS
  DataValues,     \* what the data half of an instruction byte can hold: 16
  MemStart, Link0Input, DeviceId,
  HaltOnErrorMask, J0BreakMask,   \* the bits of flags that two tests push
  Positive_Inf,   \* the exponent's bits in a single length floating number
  FP_fpuseterr, FP_fpuclrerr      \* the codes that fpentry executes

ASSUME InstructionAssumption ==
  /\ DataValues \in Nat /\ 0 < DataValues /\ DataValues <= Modulus
  /\ {MemStart, Link0Input, DeviceId, HaltOnErrorMask, J0BreakMask, Positive_Inf} \subseteq Word

Data == 0 .. DataValues - 1
Flag == {"ErrorFlag", "HaltOnError", "FErrorFlag", "J0Break", "BadInstruction", "Terminate"}

VARIABLES
  r,      \* Areg, Breg, Creg and the flags that are set
  Oreg
vars == <<r, Oreg>>

Registers == [Areg : Word, Breg : Word, Creg : Word, flags : SUBSET Flag]

-----------------------------------------------------------------------------
(* The stack and the flags.                                                *)
PUSH(s, w) == [s EXCEPT !.Areg = w, !.Breg = s.Areg, !.Creg = s.Breg]
DROP(s) == [s EXCEPT !.Areg = s.Breg, !.Breg = s.Creg]
Result(s, w) == [s EXCEPT !.Areg = w, !.Breg = s.Creg]      \* two operands, one result
SET_FLAGS(s, f) == [s EXCEPT !.flags = @ \cup {f}]
CLEAR_FLAGS(s, f) == [s EXCEPT !.flags = @ \ {f}]
ErrorIf(s, wrong) == IF wrong THEN SET_FLAGS(s, "ErrorFlag") ELSE s
Truth(b) == IF b THEN 1 ELSE 0
Sign(w) == w >= SignBit

(* The bitwise operators of C.                                             *)
BitAnd(a, b) == WordWith(BitsOf[a] \cap BitsOf[b])
BitOr(a, b) == WordWith(BitsOf[a] \cup BitsOf[b])
BitXor(a, b) == WordWith((BitsOf[a] \ BitsOf[b]) \cup (BitsOf[b] \ BitsOf[a]))
BitNot(a) == Modulus - 1 - a

-----------------------------------------------------------------------------
(* Functions, whose operand is in Oreg.                                    *)

ldc(s, o) == PUSH(s, o)
ldnlp(s, o) == [s EXCEPT !.Areg = wrap(@ + o * 4)]
eqc(s, o) == [s EXCEPT !.Areg = Truth(@ = o)]
adc(s, o) ==
  LET sum == wrap(s.Areg + o)
  IN ErrorIf([s EXCEPT !.Areg = sum], Sign(s.Areg) = Sign(o) /\ Sign(s.Areg) # Sign(sum))

(* A pfix that keeps what it shifts out of the word. *)
pfix_wide(o) == o * DataValues
pfix(o) == wrap(o * DataValues)

(* An nfix that complements what it has shifted. *)
nfix_late(o) == BitNot(wrap(o * DataValues))
nfix(o) == wrap(BitNot(o) * DataValues)

-----------------------------------------------------------------------------
(* Arithmetic on one word.                                                 *)

rev(s) == [s EXCEPT !.Areg = s.Breg, !.Breg = s.Areg]

(* An add that finds overflow in the carry out of the word. *)
add_carry(s) == ErrorIf(Result(s, wrap(s.Areg + s.Breg)), s.Areg + s.Breg >= Modulus)
add(s) ==
  LET sum == wrap(s.Areg + s.Breg)
  IN ErrorIf(Result(s, sum), Sign(s.Breg) = Sign(s.Areg) /\ Sign(s.Breg) # Sign(sum))
sub(s) ==
  LET difference == wrap(s.Breg - s.Areg)
  IN ErrorIf(Result(s, difference),
             Sign(s.Breg) # Sign(s.Areg) /\ Sign(s.Areg) = Sign(difference))

(* A mul that allows a negative product no more than a positive one. *)
mul_symmetric(s) ==
  LET overflow == s.Breg # 0 /\ Magnitude(s.Areg) > (SignBit - 1) \div Magnitude(s.Breg)
  IN ErrorIf(Result(s, wrap(s.Areg * s.Breg)), overflow)
mul(s) ==
  LET largest  == IF Sign(s.Areg) = Sign(s.Breg) THEN SignBit - 1 ELSE SignBit
      overflow == s.Breg # 0 /\ Magnitude(s.Areg) > largest \div Magnitude(s.Breg)
  IN ErrorIf(Result(s, wrap(s.Areg * s.Breg)), overflow)

(* Creg is documented as undefined; the code gives it a value.             *)
div(s) ==
  LET quotient == wrap(Quotient(Signed(s.Breg), Signed(s.Areg)))
      odd      == LET q == Magnitude(quotient) IN IF q % 2 = 0 THEN q + 1 ELSE q
  IN IF s.Areg = 0 \/ (s.Areg = Modulus - 1 /\ s.Breg = SignBit)
     THEN SET_FLAGS([s EXCEPT !.Breg = s.Creg], "ErrorFlag")
     ELSE [Result(s, quotient) EXCEPT
             !.Creg = wrap(Magnitude(s.Breg) - odd * Magnitude(s.Areg))]
rem(s) ==
  LET a == Signed(s.Areg)
      b == Signed(s.Breg)
      remainder == wrap(b - Quotient(b, a) * a)
  IN IF s.Areg = 0 THEN SET_FLAGS(Result(s, s.Breg), "ErrorFlag")
     ELSE IF s.Areg = Modulus - 1 /\ s.Breg = SignBit
          THEN [Result(s, 0) EXCEPT !.Creg = 0]
          ELSE [Result(s, remainder) EXCEPT !.Creg = Magnitude(remainder)]

sum(s) == Result(s, wrap(s.Areg + s.Breg))
diff(s) == Result(s, wrap(s.Breg - s.Areg))
prod(s) == Result(s, wrap(s.Areg * s.Breg))
gt(s) == Result(s, Truth(Signed(s.Breg) > Signed(s.Areg)))
and(s) == Result(s, BitAnd(s.Areg, s.Breg))
or(s) == Result(s, BitOr(s.Areg, s.Breg))
xor(s) == Result(s, BitXor(s.Areg, s.Breg))
not(s) == [s EXCEPT !.Areg = BitNot(@)]
shl(s) == Result(s, IF s.Areg >= BitsPerWord THEN 0 ELSE wrap(s.Breg * 2^s.Areg))
shr(s) == Result(s, IF s.Areg >= BitsPerWord THEN 0 ELSE s.Breg \div 2^s.Areg)

(* Addresses.                                                              *)
bcnt(s) == [s EXCEPT !.Areg = wrap(@ * 4)]
wcnt(s) == [s EXCEPT !.Areg = wrap(Signed(@) \div 4), !.Breg = s.Areg % 4, !.Creg = s.Breg]
bsub(s) == sum(s)
wsub(s) == Result(s, wrap(s.Areg + s.Breg * 4))
wsubdb(s) == Result(s, wrap(s.Areg + s.Breg * 8))

(* Checks of a range.                                                      *)
csub0(s) == ErrorIf(DROP(s), s.Breg >= s.Areg)
ccnt1(s) == ErrorIf(DROP(s), s.Breg = 0 \/ s.Breg > s.Areg)

-----------------------------------------------------------------------------
(* Words of another length.  Areg holds the sign bit of a part word.       *)

xword(s) ==
  Result(s, IF Cardinality(BitsOf[s.Areg]) # 1 THEN s.Areg
            ELSE IF BitsOf[s.Areg] \cap BitsOf[s.Breg] # {}
                 THEN BitOr(s.Breg, BitNot(wrap(s.Areg - 1)))
                 ELSE s.Breg)
cword(s) ==
  ErrorIf(DROP(s),
          /\ Cardinality(BitsOf[s.Areg]) = 1 /\ s.Areg # SignBit
          /\ \/ Signed(s.Breg) >= Signed(s.Areg)
             \/ Signed(s.Breg) < Signed(wrap(-s.Areg)))
xdble(s) == [s EXCEPT !.Breg = IF Sign(s.Areg) THEN Modulus - 1 ELSE 0, !.Creg = s.Breg]

(* A csngl that takes any double word with a small high half. *)
csngl_unsigned(s) == ErrorIf([s EXCEPT !.Breg = s.Creg], s.Breg \notin {0, Modulus - 1})
csngl(s) ==
  ErrorIf([s EXCEPT !.Breg = s.Creg],
          \/ Sign(s.Areg) /\ s.Breg # Modulus - 1
          \/ ~Sign(s.Areg) /\ s.Breg # 0)

-----------------------------------------------------------------------------
(* Arithmetic on two words: the low half, the high half, the carry.        *)

Carry(s) == s.Creg % 2
ladd(s) ==
  LET total == wrap(s.Breg + s.Areg + Carry(s))
  IN ErrorIf([s EXCEPT !.Areg = total],
             Sign(s.Breg) = Sign(s.Areg) /\ Sign(s.Breg) # Sign(total))
lsub(s) ==
  LET difference == wrap(s.Breg - s.Areg - Carry(s))
  IN ErrorIf([s EXCEPT !.Areg = difference],
             Sign(s.Breg) # Sign(s.Areg) /\ Sign(s.Areg) = Sign(difference))

(* An lsum that looks for a carry once, after both additions. *)
lsum_once(s) ==
  LET total == wrap(s.Breg + s.Areg + Carry(s))
  IN [s EXCEPT !.Areg = total, !.Breg = Truth(total < s.Breg)]
lsum(s) ==
  LET first == wrap(s.Breg + s.Areg)
      total == wrap(first + Carry(s))
  IN [s EXCEPT !.Areg = total, !.Breg = Truth(first < s.Breg \/ total < first)]
ldiff(s) ==
  LET first == wrap(s.Breg - s.Areg)
      difference == wrap(first - Carry(s))
  IN [s EXCEPT !.Areg = difference, !.Breg = Truth(first > s.Breg \/ difference > first)]
lmul(s) ==
  LET product == s.Breg * s.Areg + s.Creg
      high == wrap(product \div Modulus)
  IN [s EXCEPT !.Areg = wrap(product), !.Breg = high, !.Creg = high]

(* An ldiv whose test for overflow is off by one. *)
ldiv_late(s) ==
  LET long == s.Creg * Modulus + s.Breg
      remainder == wrap(long % s.Areg)
  IN IF s.Areg = 0 \/ s.Creg > s.Areg THEN SET_FLAGS(DROP(s), "ErrorFlag")
     ELSE [s EXCEPT !.Areg = wrap(long \div s.Areg), !.Breg = remainder, !.Creg = remainder]
ldiv(s) ==
  LET long == s.Creg * Modulus + s.Breg
      remainder == wrap(long % s.Areg)
  IN IF s.Areg = 0 \/ s.Creg >= s.Areg THEN SET_FLAGS(DROP(s), "ErrorFlag")
     ELSE [s EXCEPT !.Areg = wrap(long \div s.Areg), !.Breg = remainder, !.Creg = remainder]

Halves(s, long) ==
  LET high == wrap(long \div Modulus)
  IN [s EXCEPT !.Areg = wrap(long), !.Breg = high, !.Creg = high]
LongShift(s, long) ==
  IF s.Areg >= 2 * BitsPerWord THEN [s EXCEPT !.Areg = 0, !.Breg = 0, !.Creg = 0]
                               ELSE Halves(s, long)

(* An lshl that shifts the low half alone. *)
lshl_low(s) == LongShift(s, s.Breg * 2^s.Areg)
lshl(s) == LongShift(s, (s.Creg * Modulus + s.Breg) * 2^s.Areg)
lshr(s) == LongShift(s, (s.Creg * Modulus + s.Breg) \div 2^s.Areg)

-----------------------------------------------------------------------------
(* Bits.                                                                   *)
bitcnt(s) == Result(s, wrap(s.Breg + Cardinality(BitsOf[s.Areg])))
Reversed(w, n) == WordWith({i \in 0 .. n - 1 : n - 1 - i \in BitsOf[w]})
bitrevword(s) == [s EXCEPT !.Areg = Reversed(@, BitsPerWord)]

(* A bitrevnbits that reverses the bits above as well. *)
bitrevnbits_all(s) == Result(s, Reversed(s.Breg, BitsPerWord))
bitrevnbits(s) ==
  Result(s, IF s.Areg <= BitsPerWord THEN Reversed(s.Breg, s.Areg)
            ELSE IF s.Areg >= 2 * BitsPerWord THEN 0
                 ELSE wrap(Reversed(s.Breg, BitsPerWord) * 2^(s.Areg - BitsPerWord)))

(* Stack, constants and flags.                                             *)
mint(s) == PUSH(s, SignBit)
dup(s) == [s EXCEPT !.Breg = s.Areg, !.Creg = s.Breg]
pop(s) == [DROP(s) EXCEPT !.Creg = s.Areg]
ldmemstartval(s) == PUSH(s, MemStart)
lddevid(s) == PUSH(s, DeviceId)
seterr(s) == SET_FLAGS(s, "ErrorFlag")
testerr(s) == CLEAR_FLAGS(PUSH(s, Truth("ErrorFlag" \notin s.flags)), "ErrorFlag")
sethalterr(s) == SET_FLAGS(s, "HaltOnError")
clrhalterr(s) == CLEAR_FLAGS(s, "HaltOnError")
testhalterr(s) == PUSH(s, IF "HaltOnError" \in s.flags THEN HaltOnErrorMask ELSE 0)
setj0break(s) == SET_FLAGS(s, "J0Break")
clrj0break(s) == CLEAR_FLAGS(s, "J0Break")
testj0break(s) == PUSH(s, IF "J0Break" \in s.flags THEN J0BreakMask ELSE 0)
fptesterr(s) == PUSH(s, Truth("FErrorFlag" \notin s.flags))
fpchkerr(s) == IF "FErrorFlag" \in s.flags THEN SET_FLAGS(s, "ErrorFlag")
                                           ELSE CLEAR_FLAGS(s, "ErrorFlag")
cflerr(s) == ErrorIf(s, BitsOf[Positive_Inf] \subseteq BitsOf[s.Areg])
unimplemented(s) == SET_FLAGS(s, "BadInstruction")
fpentry(s) == IF s.Areg = FP_fpuseterr THEN SET_FLAGS(s, "FErrorFlag")
              ELSE IF s.Areg = FP_fpuclrerr THEN CLEAR_FLAGS(s, "FErrorFlag")
              ELSE unimplemented(s)

-----------------------------------------------------------------------------
(* interpret: the data half joins Oreg; a prefix leaves Oreg for the next  *)
(* instruction; any other is executed and clears it.  A bad instruction,   *)
(* and an error with halt-on-error set, stop the emulation.                *)
Running == "Terminate" \notin r.flags

finish(s) ==
  IF "BadInstruction" \in s.flags \/ {"ErrorFlag", "HaltOnError"} \subseteq s.flags
  THEN SET_FLAGS(s, "Terminate") ELSE s

Executes(s) == Running /\ r' = finish(s) /\ Oreg' = 0

Prefix(f(_)) ==
  /\ Running
  /\ \E data \in Data : Oreg' = f(BitOr(Oreg, data))
  /\ UNCHANGED r
Function(f(_, _)) == \E data \in Data : Executes(f(r, BitOr(Oreg, data)))

(* An opr; its code, prefixes included, is the name of the operation.      *)
Operation(f(_)) == Oreg = 0 /\ Executes(f(r))

(* The clock can be at any time.                                           *)
ldtimer == Oreg = 0 /\ \E clock \in Word : Executes(PUSH(r, clock))

(* emulate and start: the registers as booting from link 0 leaves them.    *)
Init ==
  /\ \E wdesc \in Word :
       r = [Areg |-> MemStart, Breg |-> wdesc, Creg |-> Link0Input, flags |-> {}]
  /\ Oreg = 0

Functions == Function(ldc) \/ Function(ldnlp) \/ Function(eqc) \/ Function(adc)

Arithmetic ==
  \/ Operation(add) \/ Operation(sub) \/ Operation(mul) \/ Operation(div) \/ Operation(rem)
  \/ Operation(sum) \/ Operation(diff) \/ Operation(prod) \/ Operation(gt)
  \/ Operation(bcnt) \/ Operation(wcnt) \/ Operation(bsub) \/ Operation(wsub)
  \/ Operation(wsubdb) \/ Operation(csub0) \/ Operation(ccnt1)

Bitwise ==
  \/ Operation(and) \/ Operation(or) \/ Operation(xor) \/ Operation(not)
  \/ Operation(shl) \/ Operation(shr)
  \/ Operation(bitcnt) \/ Operation(bitrevword) \/ Operation(bitrevnbits)

Lengths ==
  \/ Operation(xword) \/ Operation(cword) \/ Operation(xdble) \/ Operation(csngl)
  \/ Operation(ladd) \/ Operation(lsub) \/ Operation(lsum) \/ Operation(ldiff)
  \/ Operation(lmul) \/ Operation(ldiv) \/ Operation(lshl) \/ Operation(lshr)

Stack ==
  \/ Operation(rev) \/ Operation(mint) \/ Operation(dup) \/ Operation(pop)
  \/ Operation(ldmemstartval) \/ Operation(lddevid)

Flags ==
  \/ Operation(seterr) \/ Operation(testerr)
  \/ Operation(sethalterr) \/ Operation(clrhalterr) \/ Operation(testhalterr)
  \/ Operation(setj0break) \/ Operation(clrj0break) \/ Operation(testj0break)
  \/ Operation(fpentry) \/ Operation(fptesterr) \/ Operation(fpchkerr) \/ Operation(cflerr)
  \/ Operation(unimplemented)

Next ==
  \/ Prefix(pfix) \/ Prefix(nfix) \/ Functions \/ ldtimer
  \/ Arithmetic \/ Bitwise \/ Lengths \/ Stack \/ Flags

Spec == Init /\ [][Next]_vars
-----------------------------------------------------------------------------
(* Properties.  The sequences of instructions in them start from whatever  *)
(* is on the stack.                                                        *)

(* The registers hold words, whatever is executed.                         *)
TypeOK ==
  /\ r \in Registers
  /\ Oreg \in Word

Failed(s) == "ErrorFlag" \in s.flags

(* s is what a checked instruction makes of the registers when its result  *)
(* is the integer n: the result if it is a word's, an error if it is not.  *)
Checked(s, n) ==
  /\ Fits(n) => Signed(s.Areg) = n
  /\ Failed(s) <=> Failed(r) \/ ~Fits(n)

(* cpu.cpp:803, 868, 880 - a checked sum or difference is that of the      *)
(* integers, or an error, never both and never neither.                    *)
SumsExact ==
  LET a == Signed(r.Areg)
      b == Signed(r.Breg)
  IN /\ Checked(add(r), b + a)
     /\ Checked(sub(r), b - a)
     /\ \A o \in Word : Checked(adc(r, o), a + Signed(o))

(* The double word that lmul leaves is divided by ldiv into what was       *)
(* multiplied and added, when the quotient is a word, else is an error.    *)
LongProducts ==
  LET long    == lmul(r)
      divided == ldiv([long EXCEPT !.Areg = r.Areg, !.Breg = long.Areg, !.Creg = long.Breg])
      n       == r.Breg * r.Areg + r.Creg
  IN /\ long.Breg * Modulus + long.Areg = n
     /\ Failed(divided) <=> Failed(r) \/ r.Areg = 0 \/ n >= r.Areg * Modulus
     /\ r.Creg < r.Areg => divided.Areg = r.Breg /\ divided.Breg = r.Creg

(* cpu.cpp:892 to 950, 1825, 1834 - so is a checked product; and division  *)
(* by what is not 0 and its remainder make up the number divided, the      *)
(* remainder being smaller than the divisor and of the sign of the number; *)
(* and ldiv undoes lmul.                                                   *)
ProductsExact ==
  LET a == Signed(r.Areg)
      b == Signed(r.Breg)
      q == Signed(div(r).Areg)
      m == Signed(rem(r).Areg)
  IN /\ Checked(mul(r), b * a)
     /\ LongProducts
     /\ Failed(div(r)) <=> Failed(r) \/ a = 0 \/ (b = -SignBit /\ a = -1)
     /\ Failed(rem(r)) <=> Failed(r) \/ a = 0
     /\ a # 0 /\ ~(b = -SignBit /\ a = -1) =>
          q * a + m = b /\ Magnitude(wrap(m)) < Magnitude(wrap(a)) /\ (m = 0 \/ (m < 0) = (b < 0))

(* cpu.cpp:1768 to 1823 - lsum of the low halves and then ladd of the high *)
(* halves x and y, with the carry that the first left, add two double      *)
(* words exactly or raise an error; ldiff and lsub subtract them.          *)
Double(high, low) == Signed(high) * Modulus + low
FitsDouble(n) == -SignBit * Modulus <= n /\ n < SignBit * Modulus
DoubleLengthExact ==
  ~Failed(r) => \A x, y \in Word :
    LET low  == lsum(r)
        high == ladd([low EXCEPT !.Areg = x, !.Breg = y, !.Creg = low.Breg])
        n    == Double(y, r.Breg) + Double(x, r.Areg) + Carry(r)
        less == ldiff(r)
        rest == lsub([less EXCEPT !.Areg = x, !.Breg = y, !.Creg = less.Breg])
        d    == Double(y, r.Breg) - Double(x, r.Areg) - Carry(r)
    IN /\ Failed(high) <=> ~FitsDouble(n)
       /\ ~Failed(high) => Double(high.Areg, low.Areg) = n
       /\ Failed(rest) <=> ~FitsDouble(d)
       /\ ~Failed(rest) => Double(rest.Areg, less.Areg) = d

(* cpu.cpp:1438 to 1487 - a part word that xword extends passes cword and  *)
(* has the same bits below; a word that xdble extends passes csngl; and    *)
(* cword and csngl refuse what the shorter length does not hold.           *)
ExtendsAndChecks ==
  ~Failed(r) =>
    /\ Cardinality(BitsOf[r.Areg]) = 1 =>
         LET sign == r.Areg
             part == r.Breg % (2 * sign)
             word == xword([r EXCEPT !.Breg = part]).Areg
             check(w) == cword([r EXCEPT !.Breg = w])
         IN /\ ~Failed(check(word)) /\ word % (2 * sign) = part
            /\ Failed(check(r.Breg)) <=> xword([r EXCEPT !.Breg = part]).Areg # r.Breg
    /\ ~Failed(csngl(xdble(r))) /\ csngl(xdble(r)).Areg = r.Areg
    /\ Failed(csngl(r)) <=> ~Fits(Double(r.Breg, r.Areg))

(* cpu.cpp:987 to 1009, 1859 to 1949 - no bit is lost or moved elsewhere:  *)
(* a long shift is made of shifts of the halves and of what passes from    *)
(* one to the other, a shift by any count, also of a word's width, of two  *)
(* words' and beyond, is as many shifts by one, and reversing a word       *)
(* twice, or its low bits twice, gives it back, or its low bits.           *)
ShiftsJoin ==
  LET n == r.Areg
      left(w, k)  == shl([r EXCEPT !.Areg = k, !.Breg = w]).Areg
      right(w, k) == shr([r EXCEPT !.Areg = k, !.Breg = w]).Areg
      up == lshl(r)
      down == lshr(r)
  IN n <= BitsPerWord =>
       /\ up.Areg = left(r.Breg, n) /\ down.Breg = right(r.Creg, n)
       /\ up.Breg = BitOr(left(r.Creg, n), right(r.Breg, BitsPerWord - n))
       /\ down.Areg = BitOr(right(r.Breg, n), left(r.Creg, BitsPerWord - n))
ShiftsRepeat ==
  LET less == [r EXCEPT !.Areg = @ - 1]
      again(s) == [r EXCEPT !.Areg = 1, !.Breg = s.Areg]
      againLong(s) == [r EXCEPT !.Areg = 1, !.Breg = s.Areg, !.Creg = s.Breg]
      halves(s) == <<s.Areg, s.Breg>>
  IN r.Areg > 0 =>
       /\ shl(r).Areg = shl(again(shl(less))).Areg
       /\ shr(r).Areg = shr(again(shr(less))).Areg
       /\ halves(lshl(r)) = halves(lshl(againLong(lshl(less))))
       /\ halves(lshr(r)) = halves(lshr(againLong(lshr(less))))
ReversalsUndo ==
  LET n == r.Areg
      again(s) == bitrevnbits([s EXCEPT !.Breg = s.Areg, !.Areg = n])
  IN /\ bitrevword(bitrevword(r)).Areg = r.Areg
     /\ bitcnt(bitrevword(r)).Areg = bitcnt(r).Areg
     /\ n <= BitsPerWord => again(bitrevnbits(r)).Areg = r.Breg % 2^n
BitsKept == ShiftsJoin /\ ShiftsRepeat /\ ReversalsUndo

(* cpu.cpp:777, 794 - every word is the operand of some instruction: the   *)
(* pfix and nfix bytes that a compiler puts before an instruction's own    *)
(* for an operand leave in Oreg all but its data half.                     *)
Prefixed[n \in -Modulus .. Modulus - 1] ==
  IF n \in Data THEN Oreg
  ELSE LET rest == IF n < 0 THEN (-n - 1) \div DataValues ELSE n \div DataValues
           byte == BitOr(Prefixed[rest], rest % DataValues)
       IN IF n < 0 THEN nfix(byte) ELSE pfix(byte)
OperandsLoad ==
  Oreg = 0 => \A n \in -SignBit .. SignBit - 1 :
    ldc(r, BitOr(Prefixed[n], n % DataValues)).Areg = wrap(n)
=============================================================================
