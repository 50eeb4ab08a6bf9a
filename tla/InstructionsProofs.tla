------------------------- MODULE InstructionsProofs -------------------------
(* For words of any width: whatever is executed the registers hold words,  *)
(* and sums, double length sums, products and quotients are those of the   *)
(* integers, or an error is raised.                                        *)
EXTENDS Instructions, FiniteSetTheorems, TLAPS

LEMMA ModulusType == Modulus \in Nat /\ Modulus > 1 /\ SignBit \in Nat /\ SignBit > 0
  BY WordAssumption, SMT DEF Modulus

LEMMA WrapType == ASSUME NEW n \in Int PROVE wrap(n) \in Word
  BY ModulusType, SMT DEF wrap, Word

(* Words of fewer than two carries.                                        *)
LEMMA WrapNone == ASSUME NEW n \in Word PROVE wrap(n) = n
  BY ModulusType, SMT DEF wrap, Word

LEMMA WrapAbove == ASSUME NEW n \in Int, Modulus <= n, n < 2 * Modulus
                   PROVE  wrap(n) = n - Modulus
  BY ModulusType, SMT DEF wrap

LEMMA WrapBelow == ASSUME NEW n \in Int, -Modulus <= n, n < 0
                   PROVE  wrap(n) = n + Modulus
  BY ModulusType, SMT DEF wrap

LEMMA WordTypes ==
  /\ 0 \in Word /\ 1 \in Word /\ SignBit \in Word /\ Modulus - 1 \in Word
  /\ \A w \in Word : w \in Nat /\ Magnitude(w) \in Nat /\ Signed(w) \in Int /\ BitNot(w) \in Word
  /\ \A b \in BOOLEAN : Truth(b) \in Word
  /\ \A d \in Data : d \in Nat
  BY ModulusType, InstructionAssumption, SMT
     DEF Word, Magnitude, Signed, BitNot, Truth, Data, Modulus

LEMMA BitsType ==
  ASSUME NEW w \in Word
  PROVE  BitsOf[w] \in SUBSET Index /\ Cardinality(BitsOf[w]) \in Nat
<1>1. BitsOf[w] \in SUBSET Index
  BY DEF BitsOf
<1>2. IsFiniteSet(Index)
  BY WidthAssumption, FS_Interval, SMT DEF Index
<1> QED
  BY <1>1, <1>2, FS_Subset, FS_CardinalityType

LEMMA WithType == ASSUME NEW bits \in SUBSET Index PROVE WordWith(bits) \in Word
  BY BitsAssumption DEF WordWith

LEMMA BitwiseType ==
  ASSUME NEW a \in Word, NEW b \in Word
  PROVE  BitAnd(a, b) \in Word /\ BitOr(a, b) \in Word /\ BitXor(a, b) \in Word
<1>1. BitsOf[a] \in SUBSET Index /\ BitsOf[b] \in SUBSET Index
  BY BitsType
<1>2. /\ BitsOf[a] \cap BitsOf[b] \in SUBSET Index
      /\ BitsOf[a] \cup BitsOf[b] \in SUBSET Index
      /\ (BitsOf[a] \ BitsOf[b]) \cup (BitsOf[b] \ BitsOf[a]) \in SUBSET Index
  BY <1>1
<1> QED
  BY <1>2, WithType DEF BitAnd, BitOr, BitXor

LEMMA ReversedType ==
  ASSUME NEW w \in Word, NEW n \in Nat, n <= BitsPerWord
  PROVE  Reversed(w, n) \in Word
<1>1. {i \in 0 .. n - 1 : n - 1 - i \in BitsOf[w]} \in SUBSET Index
  BY WidthAssumption, SMT DEF Index
<1> QED
  BY <1>1, WithType DEF Reversed

(* What the instructions are made of.                                      *)
LEMMA StackTypes ==
  ASSUME NEW s \in Registers, NEW w \in Word
  PROVE  /\ PUSH(s, w) \in Registers /\ Result(s, w) \in Registers
         /\ [s EXCEPT !.Areg = w] \in Registers /\ [s EXCEPT !.Breg = w] \in Registers
         /\ [s EXCEPT !.Creg = w] \in Registers
  BY DEF Registers, PUSH, Result

LEMMA DropType == ASSUME NEW s \in Registers PROVE DROP(s) \in Registers
  BY DEF Registers, DROP

LEMMA FlagTypes ==
  ASSUME NEW s \in Registers, NEW f \in Flag
  PROVE  SET_FLAGS(s, f) \in Registers /\ CLEAR_FLAGS(s, f) \in Registers
  BY DEF Registers, SET_FLAGS, CLEAR_FLAGS

LEMMA ErrorType ==
  ASSUME NEW s \in Registers, NEW wrong
  PROVE  ErrorIf(s, wrong) \in Registers
  BY FlagTypes DEF ErrorIf, Flag

LEMMA Fields ==
  ASSUME NEW s \in Registers
  PROVE  /\ s.Areg \in Word /\ s.Breg \in Word /\ s.Creg \in Word
         /\ s.Areg \in Nat /\ s.Breg \in Nat /\ s.Creg \in Nat
  BY WordTypes DEF Registers

-----------------------------------------------------------------------------
(* Each instruction leaves words in the registers.                         *)

LEMMA FunctionTypes ==
  ASSUME NEW s \in Registers, NEW o \in Word
  PROVE  /\ ldc(s, o) \in Registers /\ ldnlp(s, o) \in Registers
         /\ eqc(s, o) \in Registers /\ adc(s, o) \in Registers
         /\ pfix(o) \in Word /\ nfix(o) \in Word
<1>0. s.Areg \in Nat /\ o \in Nat
  BY Fields, WordTypes
<1>1. ldc(s, o) \in Registers
  BY StackTypes DEF ldc
<1>2. ldnlp(s, o) \in Registers
  <2>1. s.Areg + o * 4 \in Int
    BY <1>0, SMT
  <2>2. wrap(s.Areg + o * 4) \in Word
    BY <2>1, WrapType
  <2> QED
    BY <2>2, StackTypes, Zenon DEF ldnlp
<1>3. eqc(s, o) \in Registers
  BY StackTypes, WordTypes DEF eqc
<1>4. adc(s, o) \in Registers
  <2>1. s.Areg + o \in Int
    BY <1>0, SMT
  <2>2. wrap(s.Areg + o) \in Word
    BY <2>1, WrapType
  <2> DEFINE t == [s EXCEPT !.Areg = wrap(s.Areg + o)]
  <2>3. t \in Registers
    BY <2>2, StackTypes
  <2> QED
    BY <2>3, ErrorType, Zenon DEF adc
<1>5. wrap(o * DataValues) \in Word /\ wrap(BitNot(o) * DataValues) \in Word
  <2>1. BitNot(o) \in Nat /\ o \in Nat /\ DataValues \in Nat
    BY WordTypes, InstructionAssumption
  <2> QED
    BY <2>1, WrapType, SMT
<1> QED
  BY <1>1, <1>2, <1>3, <1>4, <1>5 DEF pfix, nfix

(* Results that are words, then instructions that leave one and may raise  *)
(* an error.                                                               *)
LEMMA ResultTypes ==
  ASSUME NEW s \in Registers, NEW n \in Int, NEW wrong
  PROVE  /\ Result(s, wrap(n)) \in Registers
         /\ ErrorIf(Result(s, wrap(n)), wrong) \in Registers
         /\ [s EXCEPT !.Areg = wrap(n)] \in Registers
         /\ ErrorIf([s EXCEPT !.Areg = wrap(n)], wrong) \in Registers
         /\ ErrorIf(DROP(s), wrong) \in Registers
<1>1. wrap(n) \in Word
  BY WrapType
<1>2. /\ Result(s, wrap(n)) \in Registers /\ DROP(s) \in Registers
      /\ [s EXCEPT !.Areg = wrap(n)] \in Registers
  BY <1>1, StackTypes, DropType
<1> QED
  BY <1>2, ErrorType

LEMMA QuotientType ==
  ASSUME NEW b \in Int, NEW a \in Int, wrap(a) # 0
  PROVE  Quotient(b, a) \in Int
<1>1. wrap(a) \in Word /\ wrap(b) \in Word
  BY WrapType
<1>2. Magnitude(wrap(a)) \in Nat /\ Magnitude(wrap(a)) > 0 /\ Magnitude(wrap(b)) \in Nat
  BY <1>1, ModulusType, SMT DEF Magnitude, Word
<1> QED
  BY <1>2, SMT DEF Quotient

LEMMA SignedWrap == ASSUME NEW w \in Word PROVE wrap(Signed(w)) = w /\ Signed(w) \in Int
<1>1. CASE w >= SignBit
  BY <1>1, WrapBelow, ModulusType, SMT DEF Signed, Word
<1>2. CASE w < SignBit
  BY <1>2, WrapNone, ModulusType, SMT DEF Signed, Word
<1> QED
  BY <1>1, <1>2, ModulusType, SMT DEF Word

LEMMA DivisionTypes ==
  ASSUME NEW s \in Registers
  PROVE  div(s) \in Registers /\ rem(s) \in Registers
<1> DEFINE a == Signed(s.Areg)
           b == Signed(s.Breg)
<1>1. /\ SET_FLAGS([s EXCEPT !.Breg = s.Creg], "ErrorFlag") \in Registers
      /\ SET_FLAGS(Result(s, s.Breg), "ErrorFlag") \in Registers
  BY Fields, StackTypes, FlagTypes DEF Flag
<1>2. [Result(s, 0) EXCEPT !.Creg = 0] \in Registers
  <2>1. Result(s, 0) \in Registers
    BY StackTypes, WordTypes
  <2> QED
    BY <2>1, StackTypes, WordTypes
<1>3. ASSUME s.Areg # 0
      PROVE  Quotient(b, a) \in Int
  BY <1>3, Fields, SignedWrap, QuotientType
<1>4. ASSUME s.Areg # 0
      PROVE  div(s) \in Registers
  <2> DEFINE quotient == wrap(Quotient(b, a))
             odd == LET q == Magnitude(quotient) IN IF q % 2 = 0 THEN q + 1 ELSE q
             c == wrap(Magnitude(s.Breg) - odd * Magnitude(s.Areg))
  <2>1. quotient \in Word
    BY <1>3, <1>4, WrapType
  <2>2. odd \in Int /\ Magnitude(s.Breg) \in Int /\ Magnitude(s.Areg) \in Int
    BY <2>1, Fields, WordTypes, SMT
  <2>3. Magnitude(s.Breg) - odd * Magnitude(s.Areg) \in Int
    <3> HIDE DEF odd
    <3> QED
      BY <2>2, SMT
  <2>4. c \in Word
    <3> HIDE DEF odd
    <3> QED
      BY <2>3, WrapType
  <2>5. [Result(s, quotient) EXCEPT !.Creg = c] \in Registers
    <3> HIDE DEF c, quotient
    <3>1. Result(s, quotient) \in Registers
      BY <2>1, StackTypes
    <3> QED
      BY <3>1, <2>4, StackTypes
  <2> QED
    BY <2>5, <1>1 DEF div
<1>5. ASSUME s.Areg # 0
      PROVE  rem(s) \in Registers
  <2> DEFINE m == wrap(b - Quotient(b, a) * a)
  <2>1. b - Quotient(b, a) * a \in Int
    <3>1. Quotient(b, a) \in Int /\ a \in Int /\ b \in Int
      BY <1>3, <1>5, Fields, WordTypes
    <3> HIDE DEF a, b
    <3> QED
      BY <3>1, SMT
  <2>2. m \in Word
    BY <2>1, WrapType
  <2>3. Magnitude(m) \in Word
    BY <2>2, ModulusType, SMT DEF Magnitude, Word, Modulus
  <2>4. [Result(s, m) EXCEPT !.Creg = Magnitude(m)] \in Registers
    <3> HIDE DEF m
    <3>1. Result(s, m) \in Registers
      BY <2>2, StackTypes
    <3> QED
      BY <3>1, <2>3, StackTypes
  <2> QED
    BY <2>4, <1>1, <1>2 DEF rem
<1>6. CASE s.Areg = 0
  BY <1>1, <1>6 DEF div, rem
<1> QED
  BY <1>4, <1>5, <1>6

LEMMA ArithmeticTypes ==
  ASSUME NEW s \in Registers
  PROVE  /\ add(s) \in Registers /\ sub(s) \in Registers /\ mul(s) \in Registers
         /\ sum(s) \in Registers /\ diff(s) \in Registers /\ prod(s) \in Registers
         /\ gt(s) \in Registers /\ bcnt(s) \in Registers /\ wcnt(s) \in Registers
         /\ bsub(s) \in Registers /\ wsub(s) \in Registers /\ wsubdb(s) \in Registers
         /\ csub0(s) \in Registers /\ ccnt1(s) \in Registers
<1>1. /\ s.Areg \in Nat /\ s.Breg \in Nat /\ s.Creg \in Nat
      /\ s.Areg \in Word /\ s.Breg \in Word /\ s.Creg \in Word
  BY Fields
<1>2. /\ s.Areg + s.Breg \in Int /\ s.Breg - s.Areg \in Int
      /\ s.Areg * 4 \in Int /\ s.Areg + s.Breg * 4 \in Int /\ s.Areg + s.Breg * 8 \in Int
  BY <1>1, SMT
<1>3. s.Areg * s.Breg \in Int
  BY <1>1, SMT
<1>4. add(s) \in Registers /\ sum(s) \in Registers /\ bsub(s) \in Registers
  BY <1>2, ResultTypes DEF add, sum, bsub
<1>5. sub(s) \in Registers /\ diff(s) \in Registers
  BY <1>2, ResultTypes DEF sub, diff
<1>6. mul(s) \in Registers /\ prod(s) \in Registers
  BY <1>3, ResultTypes DEF mul, prod
<1>7. gt(s) \in Registers
  <2>1. Truth(Signed(s.Breg) > Signed(s.Areg)) \in Word
    BY ModulusType, SMT DEF Truth, Word
  <2> QED
    BY <2>1, StackTypes DEF gt
<1>8. bcnt(s) \in Registers
  BY <1>2, ResultTypes, Zenon DEF bcnt
<1>9. wcnt(s) \in Registers
  <2>1. Signed(s.Areg) \in Int
    BY <1>1, WordTypes
  <2>2. Signed(s.Areg) \div 4 \in Int
    BY <2>1, SMT
  <2>3. wrap(Signed(s.Areg) \div 4) \in Word
    BY <2>2, WrapType
  <2>4. s.Areg % 4 \in Word
    BY <1>1, ModulusType, SMT DEF Word
  <2> QED
    BY <2>3, <2>4, <1>1 DEF wcnt, Registers
<1>10. wsub(s) \in Registers /\ wsubdb(s) \in Registers
  BY <1>2, ResultTypes DEF wsub, wsubdb
<1>11. csub0(s) \in Registers /\ ccnt1(s) \in Registers
  BY DropType, ErrorType DEF csub0, ccnt1
<1> QED
  BY <1>4, <1>5, <1>6, <1>7, <1>8, <1>9, <1>10, <1>11

LEMMA BitwiseTypes ==
  ASSUME NEW s \in Registers
  PROVE  /\ and(s) \in Registers /\ or(s) \in Registers /\ xor(s) \in Registers
         /\ not(s) \in Registers /\ shl(s) \in Registers /\ shr(s) \in Registers
         /\ bitcnt(s) \in Registers /\ bitrevword(s) \in Registers
         /\ bitrevnbits(s) \in Registers
<1>1. /\ s.Areg \in Nat /\ s.Breg \in Nat /\ s.Creg \in Nat
      /\ s.Areg \in Word /\ s.Breg \in Word /\ s.Creg \in Word
  BY Fields
<1>2. and(s) \in Registers /\ or(s) \in Registers /\ xor(s) \in Registers
  BY <1>1, BitwiseType, StackTypes DEF and, or, xor
<1>3. not(s) \in Registers
  BY <1>1, WordTypes, StackTypes, Zenon DEF not
<1>4. s.Areg < BitsPerWord => 2^s.Areg \in Nat /\ 2^s.Areg > 0
  BY <1>1, WidthAssumption, SMT
<1>5. shl(s) \in Registers
  <2>1. CASE s.Areg < BitsPerWord
    <3>1. s.Breg * 2^s.Areg \in Int
      BY <1>1, <1>4, <2>1, SMT
    <3>2. wrap(s.Breg * 2^s.Areg) \in Word
      BY <3>1, WrapType
    <3> QED
      BY <3>2, WordTypes, StackTypes DEF shl
  <2>2. CASE s.Areg >= BitsPerWord
    BY <2>2, WordTypes, StackTypes DEF shl
  <2> QED
    BY <2>1, <2>2, <1>1, WidthAssumption, SMT
<1>6. shr(s) \in Registers
  <2>1. CASE s.Areg < BitsPerWord
    <3>1. s.Breg \div 2^s.Areg \in Word
      BY <1>1, <1>4, <2>1, ModulusType, SMT DEF Word
    <3> QED
      BY <3>1, WordTypes, StackTypes DEF shr
  <2>2. CASE s.Areg >= BitsPerWord
    BY <2>2, WordTypes, StackTypes DEF shr
  <2> QED
    BY <2>1, <2>2, <1>1, WidthAssumption, SMT
<1>7. bitcnt(s) \in Registers
  <2>1. Cardinality(BitsOf[s.Areg]) \in Nat
    BY <1>1, BitsType
  <2>2. s.Breg + Cardinality(BitsOf[s.Areg]) \in Int
    BY <2>1, <1>1, SMT
  <2> QED
    BY <2>2, ResultTypes DEF bitcnt
<1>8. bitrevword(s) \in Registers
  <2>1. Reversed(s.Areg, BitsPerWord) \in Word
    BY <1>1, ReversedType, WidthAssumption
  <2> QED
    BY <2>1, StackTypes, Zenon DEF bitrevword
<1>9. bitrevnbits(s) \in Registers
  <2>1. CASE s.Areg <= BitsPerWord
    <3>1. Reversed(s.Breg, s.Areg) \in Word
      BY <1>1, <2>1, ReversedType
    <3> QED
      BY <3>1, <2>1, StackTypes DEF bitrevnbits
  <2>2. CASE ~ s.Areg <= BitsPerWord
    <3> DEFINE n == Reversed(s.Breg, BitsPerWord) * 2^(s.Areg - BitsPerWord)
    <3>1. Reversed(s.Breg, BitsPerWord) \in Nat
      BY <1>1, ReversedType, WidthAssumption, WordTypes
    <3>2. s.Areg - BitsPerWord \in Nat
      BY <1>1, <2>2, WidthAssumption, SMT
    <3>3. n \in Int
      BY <3>1, <3>2, SMT
    <3>4. wrap(n) \in Word
      BY <3>3, WrapType
    <3> QED
      BY <3>4, <2>2, WordTypes, StackTypes DEF bitrevnbits
  <2> QED
    BY <2>1, <2>2
<1> QED
  BY <1>2, <1>3, <1>5, <1>6, <1>7, <1>8, <1>9

LEMMA LengthTypes ==
  ASSUME NEW s \in Registers
  PROVE  /\ xword(s) \in Registers /\ cword(s) \in Registers
         /\ xdble(s) \in Registers /\ csngl(s) \in Registers
<1>1. /\ s.Areg \in Nat /\ s.Breg \in Nat /\ s.Creg \in Nat
      /\ s.Areg \in Word /\ s.Breg \in Word /\ s.Creg \in Word
  BY Fields
<1>2. xword(s) \in Registers
  <2>1. s.Areg - 1 \in Int
    BY <1>1, SMT
  <2>2. BitNot(wrap(s.Areg - 1)) \in Word
    BY <2>1, WrapType, WordTypes
  <2>3. BitOr(s.Breg, BitNot(wrap(s.Areg - 1))) \in Word
    BY <2>2, <1>1, BitwiseType
  <2> QED
    BY <2>3, <1>1, StackTypes, Zenon DEF xword
<1>3. cword(s) \in Registers
  BY DropType, ErrorType DEF cword
<1>4. xdble(s) \in Registers
  <2> DEFINE high == IF Sign(s.Areg) THEN Modulus - 1 ELSE 0
  <2>1. high \in Word
    BY WordTypes, Zenon
  <2> HIDE DEF high
  <2>2. [s EXCEPT !.Breg = high, !.Creg = s.Breg] \in Registers
    BY <2>1, <1>1 DEF Registers
  <2> QED
    BY <2>2 DEF xdble, high
<1>5. csngl(s) \in Registers
  BY <1>1, StackTypes, ErrorType DEF csngl
<1> QED
  BY <1>2, <1>3, <1>4, <1>5

LEMMA SumTypes ==
  ASSUME NEW s \in Registers
  PROVE  /\ ladd(s) \in Registers /\ lsub(s) \in Registers
         /\ lsum(s) \in Registers /\ ldiff(s) \in Registers
<1>1. s.Areg \in Nat /\ s.Breg \in Nat /\ Carry(s) \in Nat
  BY Fields, SMT DEF Carry
<1>2. s.Breg + s.Areg + Carry(s) \in Int /\ s.Breg - s.Areg - Carry(s) \in Int
  BY <1>1, SMT
<1>3. ladd(s) \in Registers /\ lsub(s) \in Registers
  BY <1>2, ResultTypes, Zenon DEF ladd, lsub
<1>4. wrap(s.Breg + s.Areg) \in Nat /\ wrap(s.Breg - s.Areg) \in Nat
  <2>1. s.Breg + s.Areg \in Int /\ s.Breg - s.Areg \in Int
    BY <1>1, SMT
  <2> QED
    BY <2>1, WrapType, WordTypes
<1>5. /\ wrap(s.Breg + s.Areg) + Carry(s) \in Int
      /\ wrap(s.Breg - s.Areg) - Carry(s) \in Int
  BY <1>1, <1>4, SMT
<1>6. ASSUME NEW w \in Word, NEW c \in BOOLEAN
      PROVE  [s EXCEPT !.Areg = w, !.Breg = Truth(c)] \in Registers
  <2>1. Truth(c) \in Word
    BY WordTypes
  <2> QED
    BY <2>1 DEF Registers
<1>7. lsum(s) \in Registers
  <2> DEFINE first == wrap(s.Breg + s.Areg)
             total == wrap(first + Carry(s))
             c == first < s.Breg \/ total < first
  <2>1. total \in Word /\ c \in BOOLEAN
    BY <1>5, WrapType
  <2>2. lsum(s) = [s EXCEPT !.Areg = total, !.Breg = Truth(c)]
    BY DEF lsum
  <2> HIDE DEF total, c
  <2> QED
    BY <2>1, <2>2, <1>6
<1>8. ldiff(s) \in Registers
  <2> DEFINE first == wrap(s.Breg - s.Areg)
             difference == wrap(first - Carry(s))
             c == first > s.Breg \/ difference > first
  <2>1. difference \in Word /\ c \in BOOLEAN
    BY <1>5, WrapType
  <2>2. ldiff(s) = [s EXCEPT !.Areg = difference, !.Breg = Truth(c)]
    BY DEF ldiff
  <2> HIDE DEF difference, c
  <2> QED
    BY <2>1, <2>2, <1>6
<1> QED
  BY <1>3, <1>7, <1>8

LEMMA LongTypes ==
  ASSUME NEW s \in Registers
  PROVE  /\ lmul(s) \in Registers /\ ldiv(s) \in Registers
         /\ lshl(s) \in Registers /\ lshr(s) \in Registers
<1>1. s.Areg \in Nat /\ s.Breg \in Nat /\ s.Creg \in Nat
  BY Fields
<1>2. ASSUME NEW low \in Int, NEW high \in Int
      PROVE  [s EXCEPT !.Areg = wrap(low), !.Breg = wrap(high), !.Creg = wrap(high)] \in Registers
  <2>1. wrap(low) \in Word /\ wrap(high) \in Word
    BY <1>2, WrapType
  <2> QED
    BY <2>1 DEF Registers
<1>3. ASSUME NEW long \in Nat
      PROVE  long \div Modulus \in Int /\ long \in Int
  BY <1>3, ModulusType, SMT
<1>4. lmul(s) \in Registers
  <2>1. s.Breg * s.Areg + s.Creg \in Nat
    BY <1>1, SMT
  <2>2. (s.Breg * s.Areg + s.Creg) \div Modulus \in Int /\ s.Breg * s.Areg + s.Creg \in Int
    BY <2>1, <1>3
  <2> QED
    BY <2>2, <1>2, Zenon DEF lmul
<1>5. s.Creg * Modulus + s.Breg \in Nat
  BY <1>1, ModulusType, SMT
<1>6. ldiv(s) \in Registers
  <2> DEFINE long == s.Creg * Modulus + s.Breg
  <2>1. SET_FLAGS(DROP(s), "ErrorFlag") \in Registers
    BY DropType, FlagTypes DEF Flag
  <2>2. CASE s.Areg # 0
    <3>1. long \div s.Areg \in Int /\ long % s.Areg \in Int
      <4> HIDE DEF long
      <4>1. long \in Nat
        BY <1>5 DEF long
      <4> QED
        BY <4>1, <1>1, <2>2, SMT
    <3>2. [s EXCEPT !.Areg = wrap(long \div s.Areg), !.Breg = wrap(long % s.Areg),
                    !.Creg = wrap(long % s.Areg)] \in Registers
      BY <3>1, <1>2
    <3> QED
      BY <3>2, <2>1 DEF ldiv
  <2>3. CASE s.Areg = 0
    BY <2>1, <2>3 DEF ldiv
  <2> QED
    BY <2>2, <2>3
<1>7. ASSUME NEW long, s.Areg < 2 * BitsPerWord => long \in Nat
      PROVE  LongShift(s, long) \in Registers
  <2>0. ~ s.Areg >= 2 * BitsPerWord => s.Areg < 2 * BitsPerWord
    BY <1>1, WidthAssumption, SMT
  <2>1. s.Areg < 2 * BitsPerWord => Halves(s, long) \in Registers
    BY <1>2, <1>3, <1>7, Zenon DEF Halves
  <2>2. [s EXCEPT !.Areg = 0, !.Breg = 0, !.Creg = 0] \in Registers
    BY WordTypes DEF Registers
  <2> QED
    BY <2>0, <2>1, <2>2, Zenon DEF LongShift
<1>8. s.Areg < 2 * BitsPerWord => 2^s.Areg \in Nat /\ 2^s.Areg > 0
  BY <1>1, WidthAssumption, SMT
<1>9. ASSUME NEW long \in Nat, s.Areg < 2 * BitsPerWord
      PROVE  long * 2^s.Areg \in Nat /\ long \div 2^s.Areg \in Nat
  BY <1>8, <1>9, SMT
<1>10. lshl(s) \in Registers /\ lshr(s) \in Registers
  BY <1>5, <1>7, <1>9, Zenon DEF lshl, lshr
<1> QED
  BY <1>4, <1>6, <1>10

LEMMA StackAndFlagTypes ==
  ASSUME NEW s \in Registers
  PROVE  /\ rev(s) \in Registers /\ mint(s) \in Registers /\ dup(s) \in Registers
         /\ pop(s) \in Registers /\ ldmemstartval(s) \in Registers
         /\ lddevid(s) \in Registers
         /\ seterr(s) \in Registers /\ testerr(s) \in Registers
         /\ sethalterr(s) \in Registers /\ clrhalterr(s) \in Registers
         /\ testhalterr(s) \in Registers /\ setj0break(s) \in Registers
         /\ clrj0break(s) \in Registers /\ testj0break(s) \in Registers
         /\ fpentry(s) \in Registers
         /\ fptesterr(s) \in Registers /\ fpchkerr(s) \in Registers
         /\ cflerr(s) \in Registers /\ unimplemented(s) \in Registers
<1>1. /\ MemStart \in Word /\ DeviceId \in Word
      /\ HaltOnErrorMask \in Word /\ J0BreakMask \in Word
  BY InstructionAssumption
<1>2. rev(s) \in Registers /\ dup(s) \in Registers
  BY DEF rev, dup, Registers
<1>3. pop(s) \in Registers
  BY DropType, StackTypes, Fields DEF pop
<1>4. mint(s) \in Registers /\ ldmemstartval(s) \in Registers /\ lddevid(s) \in Registers
  BY <1>1, StackTypes, WordTypes DEF mint, ldmemstartval, lddevid
<1>5. testhalterr(s) \in Registers /\ testj0break(s) \in Registers
  BY <1>1, StackTypes, WordTypes DEF testhalterr, testj0break
<1>6. PUSH(s, Truth("ErrorFlag" \notin s.flags)) \in Registers /\ fptesterr(s) \in Registers
  BY StackTypes, WordTypes DEF fptesterr
<1>7. testerr(s) \in Registers
  BY <1>6, FlagTypes DEF testerr, Flag
<1>8. /\ seterr(s) \in Registers /\ sethalterr(s) \in Registers
      /\ clrhalterr(s) \in Registers /\ setj0break(s) \in Registers
      /\ clrj0break(s) \in Registers /\ fpentry(s) \in Registers /\ fpchkerr(s) \in Registers
      /\ unimplemented(s) \in Registers
  BY FlagTypes DEF seterr, sethalterr, clrhalterr, setj0break, clrj0break, fpentry,
     fpchkerr, unimplemented, Flag
<1>9. cflerr(s) \in Registers
  BY ErrorType DEF cflerr
<1> QED
  BY <1>2, <1>3, <1>4, <1>5, <1>6, <1>7, <1>8, <1>9

-----------------------------------------------------------------------------
LEMMA ExecutesType ==
  ASSUME NEW s \in Registers, Executes(s)
  PROVE  TypeOK'
<1>1. finish(s) \in Registers
  BY FlagTypes DEF finish, Flag
<1>2. 0 \in Word
  BY WordTypes
<1> QED
  BY <1>1, <1>2 DEF Executes, TypeOK, Registers, Word

(* The data half of an instruction, joined to Oreg, is a word's.           *)
LEMMA OperandType ==
  ASSUME TypeOK, NEW data \in Data
  PROVE  BitOr(Oreg, data) \in Word
<1>1. data \in Word
  BY InstructionAssumption, ModulusType, SMT DEF Data, Word
<1> QED
  BY <1>1, BitwiseType DEF TypeOK

LEMMA InitType == Init => TypeOK
<1>1. MemStart \in Word /\ Link0Input \in Word /\ 0 \in Word
  BY InstructionAssumption, WordTypes
<1> QED
  BY <1>1 DEF Init, TypeOK, Registers

LEMMA StepType ==
  ASSUME TypeOK, [Next]_vars
  PROVE  TypeOK'
<1>1. r \in Registers /\ Oreg \in Word
  BY DEF TypeOK
<1>2. CASE Prefix(pfix) \/ Prefix(nfix)
  <2>1. \A data \in Data : pfix(BitOr(Oreg, data)) \in Word /\ nfix(BitOr(Oreg, data)) \in Word
    BY <1>1, OperandType, FunctionTypes
  <2>2. Oreg' \in Word /\ r' = r
    BY <1>2, <2>1, Zenon DEF Prefix
  <2> QED
    BY <1>1, <2>2 DEF TypeOK, Registers, Word
<1>3. CASE Functions
  <2>1. ASSUME NEW data \in Data
        PROVE  LET o == BitOr(Oreg, data)
               IN /\ ldc(r, o) \in Registers /\ ldnlp(r, o) \in Registers
                  /\ eqc(r, o) \in Registers /\ adc(r, o) \in Registers
    BY <1>1, OperandType, FunctionTypes
  <2>2. \E s \in Registers : Executes(s)
    BY <1>3, <2>1, Zenon DEF Functions, Function
  <2> QED
    BY <2>2, ExecutesType
<1>4. CASE ldtimer
  <2>1. \E s \in Registers : Executes(s)
    BY <1>1, <1>4, StackTypes, Zenon DEF ldtimer
  <2> QED
    BY <2>1, ExecutesType
<1>5. CASE Arithmetic
  <2>1. \E s \in Registers : Executes(s)
    BY <1>1, <1>5, ArithmeticTypes, DivisionTypes, Zenon DEF Arithmetic, Operation
  <2> QED
    BY <2>1, ExecutesType
<1>6. CASE Bitwise
  <2>1. \E s \in Registers : Executes(s)
    BY <1>1, <1>6, BitwiseTypes, Zenon DEF Bitwise, Operation
  <2> QED
    BY <2>1, ExecutesType
<1>7. CASE Lengths
  <2>1. \E s \in Registers : Executes(s)
    BY <1>1, <1>7, LengthTypes, SumTypes, LongTypes, Zenon DEF Lengths, Operation
  <2> QED
    BY <2>1, ExecutesType
<1>8. CASE Stack
  <2>1. \E s \in Registers : Executes(s)
    BY <1>1, <1>8, StackAndFlagTypes, Zenon DEF Stack, Operation
  <2> QED
    BY <2>1, ExecutesType
<1>9. CASE Flags
  <2>1. \E s \in Registers : Executes(s)
    BY <1>1, <1>9, StackAndFlagTypes, Zenon DEF Flags, Operation
  <2> QED
    BY <2>1, ExecutesType
<1>10. CASE UNCHANGED vars
  BY <1>10 DEF TypeOK, vars, Registers, Word
<1> QED
  BY <1>2, <1>3, <1>4, <1>5, <1>6, <1>7, <1>8, <1>9, <1>10 DEF Next

(* Every instruction leaves words in the registers, and every prefix one   *)
(* in Oreg: nothing that C computes in WORD32 is more than the model says. *)
THEOREM TypeCorrect == Spec => []TypeOK
  BY InitType, StepType, PTL DEF Spec

-----------------------------------------------------------------------------
(* Sums and differences, with a carry in.  The sign of the result differs  *)
(* from what the operands' signs allow exactly when the integer is out of  *)
(* a word's range.                                                         *)
LEMMA SumOfWords ==
  ASSUME NEW a \in Word, NEW b \in Word, NEW c \in {0, 1}
  PROVE  LET total == wrap(b + a + c)
             n     == Signed(b) + Signed(a) + c
         IN /\ (Sign(b) = Sign(a) /\ Sign(b) # Sign(total)) <=> ~Fits(n)
            /\ Fits(n) => Signed(total) = n
<1>1. a \in Int /\ b \in Int /\ c \in Int /\ b + a + c \in Int
  BY ModulusType, SMT DEF Word
<1>2. CASE b + a + c < Modulus
  <2>1. b + a + c \in Word
    BY <1>2, ModulusType, SMT DEF Word
  <2>2. wrap(b + a + c) = b + a + c
    BY <2>1, WrapNone
  <2> QED
    BY <1>2, <2>2, ModulusType, SMT DEF Sign, Fits, Signed, Modulus, Word
<1>3. CASE b + a + c >= Modulus
  <2>1. b + a + c < 2 * Modulus
    BY ModulusType, SMT DEF Word
  <2>2. wrap(b + a + c) = b + a + c - Modulus
    BY <1>1, <1>3, <2>1, WrapAbove, ModulusType
  <2> QED
    BY <1>3, <2>2, ModulusType, SMT DEF Sign, Fits, Signed, Modulus, Word
<1> QED
  BY <1>1, <1>2, <1>3, ModulusType, SMT

LEMMA DifferenceOfWords ==
  ASSUME NEW a \in Word, NEW b \in Word, NEW c \in {0, 1}
  PROVE  LET difference == wrap(b - a - c)
             n          == Signed(b) - Signed(a) - c
         IN /\ (Sign(b) # Sign(a) /\ Sign(a) = Sign(difference)) <=> ~Fits(n)
            /\ Fits(n) => Signed(difference) = n
<1>1. a \in Int /\ b \in Int /\ c \in Int /\ b - a - c \in Int
  BY ModulusType, SMT DEF Word
<1>2. CASE b - a - c >= 0
  <2>1. b - a - c \in Word
    BY <1>2, ModulusType, SMT DEF Word
  <2>2. wrap(b - a - c) = b - a - c
    BY <2>1, WrapNone
  <2> QED
    BY <1>2, <2>2, ModulusType, SMT DEF Sign, Fits, Signed, Modulus, Word
<1>3. CASE b - a - c < 0
  <2>1. -Modulus <= b - a - c
    BY ModulusType, SMT DEF Word
  <2>2. wrap(b - a - c) = b - a - c + Modulus
    BY <1>1, <1>3, <2>1, WrapBelow
  <2> QED
    BY <1>3, <2>2, ModulusType, SMT DEF Sign, Fits, Signed, Modulus, Word
<1> QED
  BY <1>1, <1>2, <1>3, SMT

LEMMA ErrorFields ==
  ASSUME NEW s \in Registers, NEW wrong \in BOOLEAN
  PROVE  /\ ErrorIf(s, wrong).Areg = s.Areg
         /\ Failed(ErrorIf(s, wrong)) <=> Failed(s) \/ wrong
  BY DEF ErrorIf, SET_FLAGS, Failed, Registers

LEMMA ResultFields ==
  ASSUME NEW s \in Registers, NEW w \in Word
  PROVE  /\ Result(s, w).Areg = w /\ (Failed(Result(s, w)) <=> Failed(s))
         /\ [s EXCEPT !.Areg = w].Areg = w /\ (Failed([s EXCEPT !.Areg = w]) <=> Failed(s))
  BY DEF Result, Failed, Registers

LEMMA SumsAreExact == TypeOK => SumsExact
<1> SUFFICES ASSUME TypeOK PROVE SumsExact
  OBVIOUS
<1> DEFINE a == r.Areg
           b == r.Breg
<1>1. r \in Registers /\ a \in Word /\ b \in Word /\ 0 \in {0, 1}
  BY Fields DEF TypeOK
<1>0. Signed(a) \in Int /\ Signed(b) \in Int /\ a \in Int /\ b \in Int
  BY <1>1, WordTypes, SMT
<1>2. ASSUME NEW w \in Word, NEW wrong \in BOOLEAN, NEW n \in Int,
             wrong <=> ~Fits(n), Fits(n) => Signed(w) = n
      PROVE  Checked(ErrorIf(Result(r, w), wrong), n)
             /\ Checked(ErrorIf([r EXCEPT !.Areg = w], wrong), n)
  <2>1. Result(r, w) \in Registers /\ [r EXCEPT !.Areg = w] \in Registers
    BY <1>1, StackTypes
  <2> QED
    <3>1. ASSUME NEW s \in Registers, s.Areg = w, Failed(s) <=> Failed(r)
          PROVE  Checked(ErrorIf(s, wrong), n)
      <4>1. ErrorIf(s, wrong).Areg = w /\ (Failed(ErrorIf(s, wrong)) <=> Failed(r) \/ wrong)
        BY <3>1, ErrorFields
      <4> QED
        BY <4>1, <1>2, Zenon DEF Checked
    <3>2. /\ Result(r, w).Areg = w /\ (Failed(Result(r, w)) <=> Failed(r))
          /\ [r EXCEPT !.Areg = w].Areg = w /\ (Failed([r EXCEPT !.Areg = w]) <=> Failed(r))
      BY <1>1, ResultFields
    <3> QED
      BY <2>1, <3>1, <3>2, Zenon
<1>3. Checked(add(r), Signed(b) + Signed(a))
  <2>1. b + a + 0 = a + b /\ Signed(b) + Signed(a) + 0 = Signed(b) + Signed(a)
        /\ Signed(b) + Signed(a) \in Int /\ a + b \in Int
    BY <1>0, SMT
  <2>2. wrap(a + b) \in Word
    BY <2>1, WrapType
  <2> DEFINE wrong == Sign(b) = Sign(a) /\ Sign(b) # Sign(wrap(a + b))
  <2>3. /\ wrong <=> ~Fits(Signed(b) + Signed(a))
        /\ Fits(Signed(b) + Signed(a)) => Signed(wrap(a + b)) = Signed(b) + Signed(a)
    BY <1>1, <2>1, SumOfWords
  <2>4. add(r) = ErrorIf(Result(r, wrap(a + b)), wrong) /\ wrong \in BOOLEAN
    BY DEF add
  <2> HIDE DEF wrong, a, b
  <2> QED
    BY <1>2, <2>1, <2>2, <2>3, <2>4
<1>4. Checked(sub(r), Signed(b) - Signed(a))
  <2>1. b - a - 0 = b - a /\ Signed(b) - Signed(a) - 0 = Signed(b) - Signed(a)
        /\ Signed(b) - Signed(a) \in Int /\ b - a \in Int
    BY <1>0, SMT
  <2>2. wrap(b - a) \in Word
    BY <2>1, WrapType
  <2> DEFINE wrong == Sign(b) # Sign(a) /\ Sign(a) = Sign(wrap(b - a))
  <2>3. /\ wrong <=> ~Fits(Signed(b) - Signed(a))
        /\ Fits(Signed(b) - Signed(a)) => Signed(wrap(b - a)) = Signed(b) - Signed(a)
    BY <1>1, <2>1, DifferenceOfWords
  <2>4. sub(r) = ErrorIf(Result(r, wrap(b - a)), wrong) /\ wrong \in BOOLEAN
    BY DEF sub
  <2> HIDE DEF wrong, a, b
  <2> QED
    BY <1>2, <2>1, <2>2, <2>3, <2>4
<1>5. ASSUME NEW o \in Word
      PROVE  Checked(adc(r, o), Signed(a) + Signed(o))
  <2>0. Signed(o) \in Int /\ o \in Int
    BY WordTypes, SMT
  <2>1. a + o + 0 = a + o /\ Signed(a) + Signed(o) + 0 = Signed(a) + Signed(o)
        /\ Signed(a) + Signed(o) \in Int /\ a + o \in Int
    BY <1>0, <2>0, SMT
  <2>2. wrap(a + o) \in Word
    BY <2>1, WrapType
  <2> DEFINE wrong == Sign(a) = Sign(o) /\ Sign(a) # Sign(wrap(a + o))
  <2>3. /\ wrong <=> ~Fits(Signed(a) + Signed(o))
        /\ Fits(Signed(a) + Signed(o)) => Signed(wrap(a + o)) = Signed(a) + Signed(o)
    BY <1>1, <2>1, SumOfWords
  <2>4. adc(r, o) = ErrorIf([r EXCEPT !.Areg = wrap(a + o)], wrong) /\ wrong \in BOOLEAN
    BY DEF adc
  <2> HIDE DEF wrong, a
  <2> QED
    BY <1>2, <2>1, <2>2, <2>3, <2>4
<1> QED
  BY <1>3, <1>4, <1>5 DEF SumsExact

(* Checked addition and subtraction give the integers' result, or raise an *)
(* error and only then, for words of any width.                            *)
THEOREM SumsCorrect == Spec => []SumsExact
  BY SumsAreExact, TypeCorrect, PTL

-----------------------------------------------------------------------------
(* The low halves: what lsum and ldiff leave in Breg is what does not fit  *)
(* in Areg.                                                                *)
LEMMA CarryOut ==
  ASSUME NEW a \in Word, NEW b \in Word, NEW c \in {0, 1}
  PROVE  LET first == wrap(b + a)
             total == wrap(first + c)
         IN b + a + c = total + (IF first < b \/ total < first THEN Modulus ELSE 0)
<1>1. a \in Int /\ b \in Int /\ c \in Int /\ b + a \in Int
  BY ModulusType, SMT DEF Word
<1>2. CASE b + a < Modulus
  <2>1. b + a \in Word
    BY <1>2, ModulusType, SMT DEF Word
  <2>2. wrap(b + a) = b + a
    BY <2>1, WrapNone
  <2>3. CASE b + a + c < Modulus
    <3>1. b + a + c \in Word
      BY <2>3, ModulusType, SMT DEF Word
    <3>2. wrap(b + a + c) = b + a + c
      BY <3>1, WrapNone
    <3> QED
      BY <2>2, <3>2, ModulusType, SMT DEF Word
  <2>4. CASE b + a + c >= Modulus
    <3>1. b + a + c = Modulus
      BY <1>2, <2>4, ModulusType, SMT DEF Word
    <3>2. wrap(Modulus) = 0
      BY ModulusType, SMT DEF wrap
    <3> QED
      BY <2>2, <2>4, <3>1, <3>2, ModulusType, SMT DEF Word
  <2> QED
    BY <2>3, <2>4, <1>1, ModulusType, SMT
<1>3. CASE b + a >= Modulus
  <2>1. b + a < 2 * Modulus /\ Modulus <= b + a
    BY <1>3, ModulusType, SMT DEF Word
  <2>2. wrap(b + a) = b + a - Modulus
    BY <1>1, <2>1, WrapAbove, ModulusType
  <2>3. b + a - Modulus + c \in Word
    BY <1>3, ModulusType, SMT DEF Word
  <2>4. wrap(b + a - Modulus + c) = b + a - Modulus + c
    BY <2>3, WrapNone
  <2> QED
    BY <2>2, <2>4, ModulusType, SMT DEF Word
<1> QED
  BY <1>1, <1>2, <1>3, ModulusType, SMT

LEMMA BorrowOut ==
  ASSUME NEW a \in Word, NEW b \in Word, NEW c \in {0, 1}
  PROVE  LET first == wrap(b - a)
             difference == wrap(first - c)
         IN b - a - c = difference - (IF first > b \/ difference > first THEN Modulus ELSE 0)
<1>1. a \in Int /\ b \in Int /\ c \in Int /\ b - a \in Int
  BY ModulusType, SMT DEF Word
<1>2. CASE b - a >= 0
  <2>1. b - a \in Word
    BY <1>2, ModulusType, SMT DEF Word
  <2>2. wrap(b - a) = b - a
    BY <2>1, WrapNone
  <2>3. CASE b - a - c >= 0
    <3>1. b - a - c \in Word
      BY <2>3, ModulusType, SMT DEF Word
    <3>2. wrap(b - a - c) = b - a - c
      BY <3>1, WrapNone
    <3> QED
      BY <2>2, <3>2, ModulusType, SMT DEF Word
  <2>4. CASE b - a - c < 0
    <3>1. b - a - c \in Int /\ -Modulus <= b - a - c /\ b - a - c = -1
      BY <1>2, <2>4, ModulusType, SMT DEF Word
    <3>2. wrap(b - a - c) = b - a - c + Modulus
      BY <3>1, <2>4, WrapBelow
    <3> QED
      BY <2>2, <2>4, <3>1, <3>2, ModulusType, SMT DEF Word
  <2> QED
    BY <2>3, <2>4, <1>1, SMT
<1>3. CASE b - a < 0
  <2>1. -Modulus <= b - a
    BY ModulusType, SMT DEF Word
  <2>2. wrap(b - a) = b - a + Modulus
    BY <1>1, <1>3, <2>1, WrapBelow
  <2>3. b - a + Modulus - c \in Word
    BY <1>3, ModulusType, SMT DEF Word
  <2>4. wrap(b - a + Modulus - c) = b - a + Modulus - c
    BY <2>3, WrapNone
  <2> QED
    BY <1>3, <2>2, <2>4, ModulusType, SMT DEF Word
<1> QED
  BY <1>1, <1>2, <1>3, SMT

(* A double word fits when its high half does.                             *)
LEMMA HighHalfDecides ==
  ASSUME NEW k \in Int, NEW low \in Word
  PROVE  FitsDouble(k * Modulus + low) <=> Fits(k)
<1>1. low \in Int /\ 0 <= low /\ low < Modulus
  BY ModulusType, SMT DEF Word
<1>2. ASSUME NEW i \in Int, NEW j \in Int, i <= j
      PROVE  i * Modulus <= j * Modulus
  <2>1. j - i \in Nat
    BY <1>2, SMT
  <2>2. 0 <= (j - i) * Modulus
    BY <2>1, ModulusType, SMT
  <2> QED
    BY <2>2, ModulusType, SMT
<1> DEFINE p == k * Modulus
           q == SignBit * Modulus
<1>3. p \in Int /\ q \in Int
  BY ModulusType, SMT
<1>4. CASE Fits(k)
  <2>1. /\ -SignBit \in Int /\ SignBit - 1 \in Int
        /\ -SignBit <= k /\ k <= SignBit - 1
    BY <1>4, ModulusType, SMT DEF Fits
  <2>2. (-SignBit) * Modulus <= p /\ p <= (SignBit - 1) * Modulus
    BY <2>1, <1>2
  <2>3. (SignBit - 1) * Modulus = q - Modulus /\ (-SignBit) * Modulus = -SignBit * Modulus
    BY ModulusType, SMT
  <2>4. -SignBit * Modulus <= p + low /\ p + low < q
    <3>1. -SignBit * Modulus \in Int
      BY ModulusType, SMT
    <3> DEFINE z == -SignBit * Modulus
    <3>2. z <= p
      BY <2>2, <2>3
    <3> HIDE DEF p, q, z
    <3> QED
      BY <2>2, <2>3, <1>1, <1>3, <3>1, <3>2, ModulusType, SMT DEF z
  <2> QED
    BY <2>4, <1>4 DEF FitsDouble
<1>5. CASE k < -SignBit
  <2>1. k <= -SignBit - 1 /\ -SignBit - 1 \in Int
    BY <1>5, ModulusType, SMT
  <2>2. p <= (-SignBit - 1) * Modulus
    BY <2>1, <1>2
  <2>3. (-SignBit - 1) * Modulus = -SignBit * Modulus - Modulus /\ -SignBit * Modulus \in Int
    BY ModulusType, SMT
  <2>4. p + low < -SignBit * Modulus
    <3> DEFINE z == -SignBit * Modulus
    <3> HIDE DEF p, z
    <3> QED
      BY <2>2, <2>3, <1>1, <1>3, ModulusType, SMT DEF z
  <2>5. ~FitsDouble(p + low)
    <3> DEFINE z == -SignBit * Modulus
    <3> HIDE DEF p, z
    <3> QED
      BY <2>3, <2>4, <1>1, <1>3, SMT DEF z, FitsDouble
  <2> QED
    BY <2>5, <1>5, ModulusType, SMT DEF Fits
<1>6. CASE SignBit <= k
  <2>1. q <= p
    BY <1>2, <1>6, ModulusType
  <2>2. ~(p + low < q)
    <3> HIDE DEF p, q
    <3> QED
      BY <2>1, <1>1, <1>3, SMT
  <2> QED
    BY <2>2, <1>6, ModulusType, SMT DEF Fits, FitsDouble
<1> QED
  BY <1>4, <1>5, <1>6, ModulusType, SMT DEF Fits

(* The high halves, whatever word k or -k stands for what the low halves   *)
(* left over.                                                              *)
LEMMA HighHalves ==
  ASSUME NEW s \in Registers, NEW low \in Word, NEW c \in {0, 1}, s.Creg = c, ~Failed(s)
  PROVE  LET k == Signed(s.Breg) + Signed(s.Areg) + c
             d == Signed(s.Breg) - Signed(s.Areg) - c
         IN /\ Failed(ladd(s)) <=> ~FitsDouble(k * Modulus + low)
            /\ ~Failed(ladd(s)) => Signed(ladd(s).Areg) = k
            /\ Failed(lsub(s)) <=> ~FitsDouble(d * Modulus + low)
            /\ ~Failed(lsub(s)) => Signed(lsub(s).Areg) = d
<1> DEFINE x == s.Areg
           y == s.Breg
           k == Signed(y) + Signed(x) + c
           d == Signed(y) - Signed(x) - c
<1>1. x \in Word /\ y \in Word
  BY Fields
<1>2. Carry(s) = c
  BY SMT DEF Carry
<1>3. x \in Int /\ y \in Int /\ Signed(x) \in Int /\ Signed(y) \in Int /\ c \in Int
  BY <1>1, WordTypes, SMT
<1>4. k \in Int /\ d \in Int /\ y + x + c \in Int /\ y - x - c \in Int
  BY <1>3, SMT
<1>5. wrap(y + x + c) \in Word /\ wrap(y - x - c) \in Word
  BY <1>4, WrapType
<1>6. ASSUME NEW w \in Word, NEW wrong \in BOOLEAN
      PROVE  LET t == ErrorIf([s EXCEPT !.Areg = w], wrong)
             IN t.Areg = w /\ (Failed(t) <=> wrong)
  <2>1. /\ [s EXCEPT !.Areg = w] \in Registers /\ [s EXCEPT !.Areg = w].Areg = w
        /\ ~Failed([s EXCEPT !.Areg = w])
    BY StackTypes, ResultFields
  <2> QED
    BY <2>1, ErrorFields
<1>7. ladd(s).Areg = wrap(y + x + c) /\ (Failed(ladd(s)) <=> ~Fits(k))
  <2> DEFINE wrong == Sign(y) = Sign(x) /\ Sign(y) # Sign(wrap(y + x + c))
  <2>1. wrong <=> ~Fits(k)
    BY <1>1, SumOfWords
  <2>2. ladd(s) = ErrorIf([s EXCEPT !.Areg = wrap(y + x + c)], wrong) /\ wrong \in BOOLEAN
    BY <1>2 DEF ladd
  <2> HIDE DEF wrong, k, x, y
  <2> QED
    BY <2>1, <2>2, <1>5, <1>6
<1>8. lsub(s).Areg = wrap(y - x - c) /\ (Failed(lsub(s)) <=> ~Fits(d))
  <2> DEFINE wrong == Sign(y) # Sign(x) /\ Sign(x) = Sign(wrap(y - x - c))
  <2>1. wrong <=> ~Fits(d)
    BY <1>1, DifferenceOfWords
  <2>2. lsub(s) = ErrorIf([s EXCEPT !.Areg = wrap(y - x - c)], wrong) /\ wrong \in BOOLEAN
    BY <1>2 DEF lsub
  <2> HIDE DEF wrong, d, x, y
  <2> QED
    BY <2>1, <2>2, <1>5, <1>6
<1>9. /\ Fits(k) => Signed(wrap(y + x + c)) = k
      /\ Fits(d) => Signed(wrap(y - x - c)) = d
  BY <1>1, SumOfWords, DifferenceOfWords
<1>10. /\ FitsDouble(k * Modulus + low) <=> Fits(k)
       /\ FitsDouble(d * Modulus + low) <=> Fits(d)
  BY <1>4, HighHalfDecides
<1> HIDE DEF k, d
<1> QED
  BY <1>7, <1>8, <1>9, <1>10, Zenon DEF k, d

LEMMA DoubleLengthIsExact == TypeOK => DoubleLengthExact
<1> SUFFICES ASSUME TypeOK, ~Failed(r), NEW x \in Word, NEW y \in Word
             PROVE  LET low  == lsum(r)
                        high == ladd([low EXCEPT !.Areg = x, !.Breg = y, !.Creg = low.Breg])
                        n    == Double(y, r.Breg) + Double(x, r.Areg) + Carry(r)
                        less == ldiff(r)
                        rest == lsub([less EXCEPT !.Areg = x, !.Breg = y, !.Creg = less.Breg])
                        d    == Double(y, r.Breg) - Double(x, r.Areg) - Carry(r)
                    IN /\ Failed(high) <=> ~FitsDouble(n)
                       /\ ~Failed(high) => Double(high.Areg, low.Areg) = n
                       /\ Failed(rest) <=> ~FitsDouble(d)
                       /\ ~Failed(rest) => Double(rest.Areg, less.Areg) = d
  BY DEF DoubleLengthExact
<1> DEFINE a == r.Areg
           b == r.Breg
           c == Carry(r)
<1>1. r \in Registers /\ a \in Word /\ b \in Word /\ c \in {0, 1}
  <2>1. r.Creg \in Nat
    BY Fields DEF TypeOK
  <2>2. c \in {0, 1}
    BY <2>1, SMT DEF Carry
  <2> QED
    BY <2>2, Fields DEF TypeOK
<1>2. a \in Int /\ b \in Int /\ c \in Int /\ Signed(x) \in Int /\ Signed(y) \in Int
  <2>1. /\ a \in Nat /\ b \in Nat
        /\ Signed(x) \in Int /\ Signed(y) \in Int
    BY <1>1, WordTypes
  <2> HIDE DEF a, b, c
  <2> QED
    BY <1>1, <2>1, SMT
<1>3. /\ Double(y, b) + Double(x, a) + c = (Signed(y) + Signed(x)) * Modulus + (b + a + c)
      /\ Double(y, b) - Double(x, a) - c = (Signed(y) - Signed(x)) * Modulus + (b - a - c)
  <2> DEFINE sx == Signed(x)
             sy == Signed(y)
  <2> HIDE DEF a, b, c, sx, sy
  <2> QED
    BY <1>2, ModulusType, SMT DEF Double, sx, sy
<1>4. LET low  == lsum(r)
          high == ladd([low EXCEPT !.Areg = x, !.Breg = y, !.Creg = low.Breg])
          n    == Double(y, b) + Double(x, a) + c
      IN /\ Failed(high) <=> ~FitsDouble(n)
         /\ ~Failed(high) => Double(high.Areg, low.Areg) = n
  <2> DEFINE first == wrap(b + a)
             total == wrap(first + c)
             out   == Truth(first < b \/ total < first)
             s     == [lsum(r) EXCEPT !.Areg = x, !.Breg = y, !.Creg = lsum(r).Breg]
             k     == Signed(y) + Signed(x) + out
  <2>1. total \in Word /\ out \in {0, 1}
    <3>1. b + a \in Int
      BY <1>2, SMT
    <3>2. first \in Int
      BY <3>1, WrapType, WordTypes, SMT
    <3>3. first + c \in Int
      BY <3>2, <1>2, SMT
    <3> QED
      BY <3>3, WrapType DEF Truth
  <2>2. /\ lsum(r) \in Registers /\ lsum(r).Areg = total /\ lsum(r).Breg = out
        /\ ~Failed(lsum(r))
    <3>1. lsum(r) = [r EXCEPT !.Areg = total, !.Breg = out]
      BY DEF lsum
    <3> HIDE DEF total, out
    <3> QED
      BY <3>1, <1>1, SumTypes DEF Registers, Failed
  <2>3. s \in Registers /\ s.Areg = x /\ s.Breg = y /\ s.Creg = out /\ ~Failed(s)
    <3> HIDE DEF out, total
    <3> QED
      BY <2>1, <2>2, WordTypes DEF Registers, Failed
  <2>4. /\ Failed(ladd(s)) <=> ~FitsDouble(k * Modulus + total)
        /\ ~Failed(ladd(s)) => Signed(ladd(s).Areg) = k
    <3> HIDE DEF out, total, s
    <3> QED
      BY <2>1, <2>3, HighHalves
  <2>5. k * Modulus + total = Double(y, b) + Double(x, a) + c
    <3>1. b + a + c = total + (IF out = 1 THEN Modulus ELSE 0)
      BY <1>1, CarryOut DEF Truth
    <3>2. total \in Int
      BY <2>1, WordTypes, SMT
    <3> DEFINE sx == Signed(x)
               sy == Signed(y)
    <3> HIDE DEF out, total, a, b, c, sx, sy
    <3>3. CASE out = 0
      BY <3>1, <3>2, <3>3, <1>2, <1>3, ModulusType, SMT DEF sx, sy
    <3>4. CASE out = 1
      <4>1. (sy + sx + 1) * Modulus = (sy + sx) * Modulus + Modulus
        BY <1>2, ModulusType, SMT DEF sx, sy
      <4>2. (sy + sx) * Modulus \in Int
        BY <1>2, ModulusType, SMT DEF sx, sy
      <4> QED
        BY <3>1, <3>2, <3>4, <4>1, <4>2, <1>2, <1>3, ModulusType, SMT DEF sx, sy
    <3> QED
      BY <2>1, <3>3, <3>4
  <2>6. Double(ladd(s).Areg, lsum(r).Areg) = Signed(ladd(s).Areg) * Modulus + total
    BY <2>2 DEF Double
  <2> HIDE DEF total, out, k, s, a, b, c
  <2> QED
    BY <2>4, <2>5, <2>6, Zenon DEF s
<1>5. LET less == ldiff(r)
          rest == lsub([less EXCEPT !.Areg = x, !.Breg = y, !.Creg = less.Breg])
          d    == Double(y, b) - Double(x, a) - c
      IN /\ Failed(rest) <=> ~FitsDouble(d)
         /\ ~Failed(rest) => Double(rest.Areg, less.Areg) = d
  <2> DEFINE first == wrap(b - a)
             difference == wrap(first - c)
             out   == Truth(first > b \/ difference > first)
             s     == [ldiff(r) EXCEPT !.Areg = x, !.Breg = y, !.Creg = ldiff(r).Breg]
             k     == Signed(y) - Signed(x) - out
  <2>1. difference \in Word /\ out \in {0, 1}
    <3>1. b - a \in Int
      BY <1>2, SMT
    <3>2. first \in Int
      BY <3>1, WrapType, WordTypes, SMT
    <3>3. first - c \in Int
      BY <3>2, <1>2, SMT
    <3> QED
      BY <3>3, WrapType DEF Truth
  <2>2. /\ ldiff(r) \in Registers /\ ldiff(r).Areg = difference /\ ldiff(r).Breg = out
        /\ ~Failed(ldiff(r))
    <3>1. ldiff(r) = [r EXCEPT !.Areg = difference, !.Breg = out]
      BY DEF ldiff
    <3> HIDE DEF difference, out
    <3> QED
      BY <3>1, <1>1, SumTypes DEF Registers, Failed
  <2>3. s \in Registers /\ s.Areg = x /\ s.Breg = y /\ s.Creg = out /\ ~Failed(s)
    <3> HIDE DEF out, difference
    <3> QED
      BY <2>1, <2>2, WordTypes DEF Registers, Failed
  <2>4. /\ Failed(lsub(s)) <=> ~FitsDouble(k * Modulus + difference)
        /\ ~Failed(lsub(s)) => Signed(lsub(s).Areg) = k
    <3> HIDE DEF out, difference, s
    <3> QED
      BY <2>1, <2>3, HighHalves
  <2>5. k * Modulus + difference = Double(y, b) - Double(x, a) - c
    <3>1. b - a - c = difference - (IF out = 1 THEN Modulus ELSE 0)
      BY <1>1, BorrowOut DEF Truth
    <3>2. difference \in Int
      BY <2>1, WordTypes, SMT
    <3> DEFINE sx == Signed(x)
               sy == Signed(y)
    <3> HIDE DEF out, difference, a, b, c, sx, sy
    <3>3. CASE out = 0
      BY <3>1, <3>2, <3>3, <1>2, <1>3, ModulusType, SMT DEF sx, sy
    <3>4. CASE out = 1
      <4>1. (sy - sx - 1) * Modulus = (sy - sx) * Modulus - Modulus
        BY <1>2, ModulusType, SMT DEF sx, sy
      <4>2. (sy - sx) * Modulus \in Int
        BY <1>2, ModulusType, SMT DEF sx, sy
      <4> QED
        BY <3>1, <3>2, <3>4, <4>1, <4>2, <1>2, <1>3, ModulusType, SMT DEF sx, sy
    <3> QED
      BY <2>1, <3>3, <3>4
  <2>6. Double(lsub(s).Areg, ldiff(r).Areg) = Signed(lsub(s).Areg) * Modulus + difference
    BY <2>2 DEF Double
  <2> HIDE DEF difference, out, k, s, a, b, c
  <2> QED
    BY <2>4, <2>5, <2>6, Zenon DEF s
<1> QED
  BY <1>4, <1>5

(* An lsum and an ladd add double words exactly, and an ldiff and an lsub  *)
(* subtract them, or an error is raised: for words of any width, whatever  *)
(* the carry in.                                                           *)
THEOREM DoubleLengthCorrect == Spec => []DoubleLengthExact
  BY DoubleLengthIsExact, TypeCorrect, PTL

-----------------------------------------------------------------------------
(* Products and quotients of any integers.                                 *)
LEMMA ProductType == ASSUME NEW m \in Nat, NEW n \in Nat PROVE m * n \in Nat /\ n * m = m * n
  OBVIOUS

LEMMA ProductsAscend ==
  ASSUME NEW k \in Nat, NEW m \in Nat, NEW n \in Nat, m <= n
  PROVE  m * k <= n * k
  OBVIOUS

LEMMA DivModFacts ==
  ASSUME NEW n \in Int, NEW m \in Nat, m > 0
  PROVE  \E d \in Int, e \in Nat :
           n \div m = d /\ n % m = e /\ d * m \in Int /\ n = d * m + e /\ e < m
<1>. DEFINE d == n \div m
           e == n % m
<1>1. d \in Int /\ e \in Nat /\ e < m
  OBVIOUS
<1>2. e = n - d * m
  OBVIOUS
<1>3. n \div m = d /\ n % m = e
  OBVIOUS
<1>. HIDE DEF d, e
<1>4. d * m \in Int /\ n = d * m + e
  BY <1>1, <1>2
<1>. QED
  BY <1>1, <1>3, <1>4, Zenon

LEMMA DivModUnique ==
  ASSUME NEW n \in Int, NEW m \in Nat, NEW q \in Int, NEW t \in Int,
         0 <= t, t < m, n = q * m + t
  PROVE  n \div m = q /\ n % m = t
<1>1. PICK d \in Int, e \in Nat :
        n \div m = d /\ n % m = e /\ d * m \in Int /\ n = d * m + e /\ e < m
  BY DivModFacts
<1>2. (d - q) * m = t - e
  <2>1. (d - q) * m = d * m - q * m
    BY <1>1
  <2>. QED
    BY <1>1, <2>1
<1>3. ASSUME NEW k \in Int, k >= 1 PROVE k * m >= m
  BY <1>3
<1>4. ~(d - q >= 1)
  BY <1>1, <1>2, <1>3
<1>5. ~(q - d >= 1)
  <2>1. (q - d) * m = -((d - q) * m)
    BY <1>1
  <2>. QED
    BY <1>1, <1>2, <1>3, <2>1
<1>6. d = q
  BY <1>1, <1>4, <1>5
<1>. QED
  BY <1>1, <1>6

LEMMA DivDecides ==
  ASSUME NEW a \in Nat, NEW b \in Nat, NEW n \in Nat, b > 0
  PROVE  a > n \div b <=> a * b > n
<1>1. PICK d \in Int, e \in Nat :
        n \div b = d /\ n % b = e /\ d * b \in Int /\ n = d * b + e /\ e < b
  BY DivModFacts
<1>2. d \in Nat
  BY <1>1
<1>3. CASE a > d
  <2>1. (d + 1) * b <= a * b
    BY <1>2, <1>3, ProductsAscend
  <2>2. (d + 1) * b = d * b + b
    BY <1>2
  <2>. QED
    BY <1>1, <1>2, <1>3, <2>1, <2>2, ProductType
<1>4. CASE ~(a > d)
  <2>1. a * b <= d * b
    BY <1>2, <1>4, ProductsAscend
  <2>. QED
    BY <1>1, <1>2, <1>4, <2>1, ProductType
<1>. QED
  BY <1>3, <1>4

LEMMA WrapShift == ASSUME NEW n \in Int, NEW k \in Int PROVE wrap(n + k * Modulus) = wrap(n)
<1>1. PICK d \in Int, e \in Nat :
        /\ n \div Modulus = d /\ n % Modulus = e /\ d * Modulus \in Int
        /\ n = d * Modulus + e /\ e < Modulus
  BY DivModFacts, ModulusType
<1>2. n + k * Modulus \in Int /\ n + k * Modulus = (d + k) * Modulus + e /\ d + k \in Int
  <2>1. (d + k) * Modulus = d * Modulus + k * Modulus
    BY <1>1, ModulusType
  <2>. QED
    BY <1>1, <2>1, ModulusType
<1>3. (n + k * Modulus) % Modulus = e
  <2>1. e \in Int /\ 0 <= e /\ e < Modulus /\ Modulus \in Nat
    BY <1>1, ModulusType
  <2>. QED
    BY <1>2, <2>1, DivModUnique, Zenon
<1>. QED
  BY <1>1, <1>3 DEF wrap

LEMMA SignedOfWrap == ASSUME NEW n \in Int, Fits(n) PROVE Signed(wrap(n)) = n
<1>1. CASE n >= 0
  <2>1. n \in Word
    BY <1>1, ModulusType DEF Fits, Word, Modulus
  <2>. QED
    BY <1>1, <2>1, WrapNone, ModulusType DEF Signed, Fits
<1>2. CASE n < 0
  <2>1. wrap(n) = n + Modulus
    BY <1>2, WrapBelow, ModulusType DEF Fits, Modulus
  <2>. QED
    BY <1>2, <2>1, ModulusType DEF Signed, Fits, Modulus
<1>. QED
  BY <1>1, <1>2

(* A word and its magnitude.                                               *)
LEMMA Magnitudes ==
  ASSUME NEW w \in Word
  PROVE  /\ Signed(w) \in Int /\ Magnitude(w) \in Nat /\ Magnitude(w) <= SignBit
         /\ (Sign(w) <=> Signed(w) < 0) /\ Sign(w) \in BOOLEAN /\ Fits(Signed(w))
         /\ Magnitude(w) = IF Signed(w) < 0 THEN -Signed(w) ELSE Signed(w)
         /\ (Signed(w) < 0 /\ Magnitude(w) = SignBit) <=> w = SignBit
         /\ w = 0 <=> Signed(w) = 0
         /\ \E k \in {0, 1} : w = Signed(w) + k * Modulus
<1>1. CASE w >= SignBit
  BY <1>1, ModulusType DEF Signed, Magnitude, Sign, Fits, Word, Modulus
<1>2. CASE w < SignBit
  BY <1>2, ModulusType DEF Signed, Magnitude, Sign, Fits, Word, Modulus
<1>. QED
  BY <1>1, <1>2, ModulusType DEF Word

LEMMA ProductsSplit ==
  ASSUME NEW x \in Int, NEW y \in Int, NEW m \in Int
  PROVE  /\ x * y = y * x + 0 * m
         /\ x * (y + m) = y * x + x * m
         /\ (x + m) * y = y * x + y * m
         /\ (x + m) * (y + m) = y * x + (x + y + m) * m
  OBVIOUS

LEMMA ProductOfWords ==
  ASSUME NEW a \in Word, NEW b \in Word
  PROVE  a * b \in Int /\ wrap(a * b) = wrap(Signed(b) * Signed(a))
<1>. DEFINE x == Signed(a)
           y == Signed(b)
<1>1. /\ x \in Int /\ y \in Int /\ Modulus \in Int
      /\ (\E k \in {0, 1} : a = x + k * Modulus) /\ (\E k \in {0, 1} : b = y + k * Modulus)
  BY Magnitudes, ModulusType
<1>. HIDE DEF x, y
<1>2. (a = x \/ a = x + Modulus) /\ (b = y \/ b = y + Modulus)
  BY <1>1
<1>0. 0 \in Int
  OBVIOUS
<1>3. \E h \in Int : a * b = y * x + h * Modulus
  <2>1. CASE a = x /\ b = y
    <3>1. a * b = y * x + 0 * Modulus
      BY <1>1, <2>1, ProductsSplit, Zenon
    <3>. QED
      BY <1>0, <3>1, Zenon
  <2>2. CASE a = x /\ b = y + Modulus
    <3>1. a * b = y * x + x * Modulus
      BY <1>1, <2>2, ProductsSplit, Zenon
    <3>. QED
      BY <1>1, <3>1, Zenon
  <2>3. CASE a = x + Modulus /\ b = y
    <3>1. a * b = y * x + y * Modulus
      BY <1>1, <2>3, ProductsSplit, Zenon
    <3>. QED
      BY <1>1, <3>1, Zenon
  <2>4. CASE a = x + Modulus /\ b = y + Modulus
    <3>1. a * b = y * x + (x + y + Modulus) * Modulus /\ x + y + Modulus \in Int
      BY <1>1, <2>4
    <3>. QED
      BY <3>1, Zenon
  <2>. QED
    BY <1>2, <2>1, <2>2, <2>3, <2>4
<1>4. y * x \in Int
  BY <1>1
<1>5. a * b \in Int
  BY <1>1, <1>2
<1>. QED
  BY <1>3, <1>4, <1>5, WrapShift, Zenon DEF x, y

(* The test that mul makes, of the magnitudes.                             *)
LEMMA MulDecides ==
  ASSUME NEW a \in Word, NEW b \in Word
  PROVE  LET largest == IF Sign(a) = Sign(b) THEN SignBit - 1 ELSE SignBit
         IN (b # 0 /\ Magnitude(a) > largest \div Magnitude(b)) <=> ~Fits(Signed(b) * Signed(a))
<1>. DEFINE x == Signed(a)
           y == Signed(b)
           m == Magnitude(a)
           n == Magnitude(b)
           l == IF Sign(a) = Sign(b) THEN SignBit - 1 ELSE SignBit
<1>1. /\ x \in Int /\ y \in Int /\ m \in Nat /\ n \in Nat /\ l \in Nat
      /\ m = (IF x < 0 THEN -x ELSE x)
      /\ n = (IF y < 0 THEN -y ELSE y)
      /\ l = (IF (x < 0) = (y < 0) THEN SignBit - 1 ELSE SignBit)
      /\ b = 0 <=> n = 0
  BY Magnitudes, ModulusType
<1>. HIDE DEF x, y, m, n, l
<1>2. m * n \in Nat /\ y * x = (IF (x < 0) = (y < 0) THEN m * n ELSE -(m * n))
  <2>1. CASE x < 0 /\ y < 0
    BY <1>1, <2>1
  <2>2. CASE x < 0 /\ ~(y < 0)
    BY <1>1, <2>2
  <2>3. CASE ~(x < 0) /\ y < 0
    BY <1>1, <2>3
  <2>4. CASE ~(x < 0) /\ ~(y < 0)
    BY <1>1, <2>4
  <2>. QED
    BY <2>1, <2>2, <2>3, <2>4
<1>3. m * n > l <=> ~Fits(y * x)
  <2>. DEFINE p == m * n
  <2>. HIDE DEF p
  <2>1. p \in Nat /\ y * x = (IF (x < 0) = (y < 0) THEN p ELSE -p)
    BY <1>2 DEF p
  <2>2. p > l <=> ~Fits(y * x)
    BY <1>1, <2>1, ModulusType DEF Fits
  <2>. QED
    BY <2>2 DEF p
<1>4. CASE n = 0
  <2>1. b = 0 /\ ~(m * n > l)
    BY <1>1, <1>4
  <2>. QED
    BY <1>3, <2>1, Zenon DEF x, y, m, n, l
<1>5. CASE n # 0
  <2>1. m > l \div n <=> m * n > l
    BY <1>1, <1>5, DivDecides
  <2>. QED
    BY <1>1, <1>3, <1>5, <2>1, Zenon DEF x, y, m, n, l
<1>. QED
  BY <1>4, <1>5

(* A product and a word added to it are less than a double word, and the   *)
(* test that ldiv makes of the high half compares the whole.               *)
LEMMA LongFacts ==
  ASSUME NEW a \in Word, NEW b \in Word, NEW c \in Word
  PROVE  \E h \in Word, l \in Word :
           /\ b * a + c \in Int /\ b * a + c = h * Modulus + l
           /\ (b * a + c) \div Modulus = h /\ (b * a + c) % Modulus = l
           /\ h >= a <=> b * a + c >= a * Modulus
           /\ c < a => h < a /\ (b * a + c) \div a = b /\ (b * a + c) % a = c
<1>1. a \in Nat /\ b \in Nat /\ c \in Nat /\ Modulus \in Nat /\ Modulus > 0
      /\ a < Modulus /\ b < Modulus /\ c < Modulus
  BY ModulusType DEF Word
<1>. DEFINE n == b * a + c
<1>2. n \in Nat /\ n = b * a + c
  BY <1>1
<1>. HIDE DEF n
<1>3. PICK h \in Int, l \in Nat :
        /\ n \div Modulus = h /\ n % Modulus = l /\ h * Modulus \in Int
        /\ n = h * Modulus + l /\ l < Modulus
  BY <1>1, <1>2, DivModFacts
<1>4. h \in Nat
  BY <1>1, <1>2, <1>3
<1>5. n < Modulus * Modulus
  <2>1. b * a <= (Modulus - 1) * a /\ a * (Modulus - 1) <= (Modulus - 1) * (Modulus - 1)
    BY <1>1, ProductsAscend
  <2>2. (Modulus - 1) * a = a * (Modulus - 1) /\ b * a \in Nat
    BY <1>1
  <2>3. (Modulus - 1) * (Modulus - 1) = Modulus * Modulus - 2 * Modulus + 1
    BY <1>1
  <2>4. b * a <= Modulus * Modulus - 2 * Modulus + 1 /\ Modulus * Modulus \in Nat
    BY <1>1, <2>1, <2>2, <2>3
  <2>. QED
    BY <1>1, <1>2, <2>2, <2>4
<1>6. ASSUME NEW k \in Nat PROVE h >= k <=> n >= k * Modulus
  <2>1. CASE h >= k
    <3>1. k * Modulus <= h * Modulus
      BY <1>1, <1>4, <2>1, ProductsAscend
    <3>. QED
      BY <1>1, <1>2, <1>3, <2>1, <3>1
  <2>2. CASE h + 1 <= k
    <3>1. (h + 1) * Modulus <= k * Modulus
      BY <1>1, <1>4, <2>2, ProductsAscend
    <3>2. (h + 1) * Modulus = h * Modulus + Modulus
      BY <1>1, <1>4
    <3>. QED
      BY <1>1, <1>2, <1>3, <1>4, <2>2, <3>1, <3>2
  <2>. QED
    BY <1>4, <2>1, <2>2
<1>7. h \in Word /\ l \in Word
  BY <1>1, <1>2, <1>3, <1>4, <1>5, <1>6 DEF Word
<1>8. ASSUME c < a PROVE h < a /\ n \div a = b /\ n % a = c
  <2>1. n \div a = b /\ n % a = c
    <3>1. n \in Int /\ b \in Int /\ c \in Int /\ 0 <= c
      BY <1>1, <1>2
    <3>. QED
      BY <1>1, <1>2, <1>8, <3>1, DivModUnique, Zenon
  <2>2. (b + 1) * a <= Modulus * a
    BY <1>1, ProductsAscend
  <2>3. (b + 1) * a = b * a + a /\ Modulus * a = a * Modulus
    BY <1>1
  <2>4. n < a * Modulus
    BY <1>1, <1>2, <1>8, <2>2, <2>3
  <2>5. h < a
    BY <1>1, <1>2, <1>4, <1>6, <2>4
  <2>. QED
    BY <2>1, <2>5
<1>9. h >= a <=> n >= a * Modulus
  BY <1>1, <1>6
<1>. QED
  <2>1. /\ n \in Int /\ n = h * Modulus + l
        /\ n \div Modulus = h /\ n % Modulus = l
        /\ h >= a <=> n >= a * Modulus
        /\ c < a => h < a /\ n \div a = b /\ n % a = c
    BY <1>2, <1>3, <1>8, <1>9
  <2>. QED
    BY <1>7, <2>1, Zenon DEF n

(* A quotient that rounds toward zero, and what is left.                   *)
LEMMA QuotientFacts ==
  ASSUME NEW a \in Word, NEW b \in Word, a # 0
  PROVE  LET x == Signed(a)
             y == Signed(b)
             q == Quotient(y, x)
             m == y - q * x
         IN /\ q \in Int /\ m \in Int /\ q * x \in Int /\ Fits(m)
            /\ ~(y = -SignBit /\ x = -1) => Fits(q)
            /\ m = 0 \/ (m < 0 <=> y < 0)
            /\ (IF m < 0 THEN -m ELSE m) < Magnitude(a)
<1>. DEFINE x == Signed(a)
           y == Signed(b)
           A == Magnitude(a)
           B == Magnitude(b)
           q == Quotient(y, x)
<1>1. /\ x \in Int /\ y \in Int /\ A \in Nat /\ B \in Nat /\ A <= SignBit /\ B <= SignBit
      /\ A = (IF x < 0 THEN -x ELSE x)
      /\ B = (IF y < 0 THEN -y ELSE y)
      /\ A > 0 /\ Fits(y) /\ SignBit \in Nat /\ SignBit > 0
  BY Magnitudes, ModulusType
<1>2. wrap(x) = a /\ wrap(y) = b
  BY SignedWrap
<1>3. q = IF (y < 0) = (x < 0) THEN B \div A ELSE -(B \div A)
  BY <1>2 DEF Quotient
<1>. HIDE DEF x, y, A, B, q
<1>4. PICK d \in Int, e \in Nat :
        B \div A = d /\ B % A = e /\ d * A \in Int /\ B = d * A + e /\ e < A
  BY <1>1, DivModFacts
<1>5. d \in Nat
  BY <1>1, <1>4
<1>6. q \in Int /\ q = IF (y < 0) = (x < 0) THEN d ELSE -d
  BY <1>3, <1>4
<1>7. q * x = IF y < 0 THEN -(d * A) ELSE d * A
  <2>1. CASE x < 0 /\ y < 0
    BY <1>1, <1>5, <1>6, <2>1
  <2>2. CASE x < 0 /\ ~(y < 0)
    BY <1>1, <1>5, <1>6, <2>2
  <2>3. CASE ~(x < 0) /\ y < 0
    BY <1>1, <1>5, <1>6, <2>3
  <2>4. CASE ~(x < 0) /\ ~(y < 0)
    BY <1>1, <1>5, <1>6, <2>4
  <2>. QED
    BY <2>1, <2>2, <2>3, <2>4
<1>8. y - q * x = (IF y < 0 THEN -e ELSE e) /\ q * x \in Int
  BY <1>1, <1>4, <1>7
<1>9. d <= B /\ (d = B => d = 0 \/ A = 1)
  <2>1. CASE A = 1
    BY <1>1, <1>4, <1>5, <2>1
  <2>2. CASE 2 <= A
    <3>1. 2 * d <= A * d /\ A * d = d * A
      BY <1>1, <1>5, <2>2, ProductsAscend
    <3>. QED
      BY <1>1, <1>4, <1>5, <3>1
  <2>. QED
    BY <1>1, <2>1, <2>2
<1>10. ASSUME ~(y = -SignBit /\ x = -1) PROVE Fits(q)
  <2>1. CASE d < SignBit
    BY <1>5, <1>6, <2>1, <1>1 DEF Fits
  <2>2. CASE d >= SignBit
    <3>1. d = SignBit /\ B = SignBit /\ A = 1 /\ y < 0
      BY <1>1, <1>5, <1>9, <2>2 DEF Fits
    <3>2. q = -SignBit
      BY <1>1, <1>6, <1>10, <3>1
    <3>. QED
      BY <1>1, <3>2 DEF Fits
  <2>. QED
    BY <1>1, <1>5, <2>1, <2>2
<1>11. /\ q \in Int /\ y - q * x \in Int /\ q * x \in Int /\ Fits(y - q * x)
       /\ y - q * x = 0 \/ (y - q * x < 0 <=> y < 0)
       /\ (IF y - q * x < 0 THEN -(y - q * x) ELSE y - q * x) < A
  <2>. DEFINE m == y - q * x
  <2>. HIDE DEF m
  <2>1. m = (IF y < 0 THEN -e ELSE e) /\ y - q * x = m
    BY <1>8 DEF m
  <2>2. m \in Int /\ Fits(m) /\ (m = 0 \/ (m < 0 <=> y < 0)) /\ (IF m < 0 THEN -m ELSE m) < A
    BY <1>1, <1>4, <2>1 DEF Fits
  <2>. QED
    BY <1>6, <1>8, <2>1, <2>2, Zenon
<1>. QED
  BY <1>10, <1>11, Zenon DEF x, y, A, q

LEMMA MulIsExact == TypeOK => Checked(mul(r), Signed(r.Breg) * Signed(r.Areg))
<1>. SUFFICES ASSUME TypeOK PROVE Checked(mul(r), Signed(r.Breg) * Signed(r.Areg))
  OBVIOUS
<1>. DEFINE a == r.Areg
           b == r.Breg
           n == Signed(b) * Signed(a)
           largest == IF Sign(a) = Sign(b) THEN SignBit - 1 ELSE SignBit
           overflow == b # 0 /\ Magnitude(a) > largest \div Magnitude(b)
           s == Result(r, wrap(a * b))
<1>1. r \in Registers /\ a \in Word /\ b \in Word
  BY Fields DEF TypeOK
<1>2. mul(r) = ErrorIf(s, overflow)
  BY DEF mul
<1>3. overflow <=> ~Fits(n)
  BY <1>1, MulDecides
<1>4. a * b \in Int /\ wrap(a * b) = wrap(n)
  BY <1>1, ProductOfWords
<1>5. n \in Int
  <2>1. Signed(b) \in Int /\ Signed(a) \in Int
    BY <1>1, WordTypes
  <2>. QED
    BY <2>1
<1>6. wrap(n) \in Word /\ (Fits(n) => Signed(wrap(n)) = n)
  BY <1>5, WrapType, SignedOfWrap
<1>7. s \in Registers /\ s.Areg = wrap(n) /\ (Failed(s) <=> Failed(r))
  <2>1. s = Result(r, wrap(n))
    BY <1>4
  <2>2. Result(r, wrap(n)) \in Registers /\ Result(r, wrap(n)).Areg = wrap(n)
        /\ (Failed(Result(r, wrap(n))) <=> Failed(r))
    BY <1>1, <1>6, StackTypes, ResultFields, Zenon
  <2>. QED
    BY <2>1, <2>2, Zenon
<1>8. overflow \in BOOLEAN
  OBVIOUS
<1>. HIDE DEF s, n, overflow, a, b
<1>9. mul(r).Areg = wrap(n) /\ (Failed(mul(r)) <=> Failed(r) \/ overflow)
  BY <1>2, <1>7, <1>8, ErrorFields
<1>10. Checked(mul(r), n)
  BY <1>3, <1>6, <1>9 DEF Checked
<1>. QED
  BY <1>10 DEF n, a, b

LEMMA LongProductsExact == TypeOK => LongProducts
<1>. SUFFICES ASSUME TypeOK PROVE LongProducts
  OBVIOUS
<1>. DEFINE a == r.Areg
           b == r.Breg
           c == r.Creg
           n == b * a + c
           long == lmul(r)
           s == [long EXCEPT !.Areg = r.Areg, !.Breg = long.Areg, !.Creg = long.Breg]
<1>1. r \in Registers /\ a \in Word /\ b \in Word /\ c \in Word
  BY Fields DEF TypeOK
<1>2. PICK h \in Word, l \in Word :
           /\ n \in Int /\ n = h * Modulus + l
           /\ n \div Modulus = h /\ n % Modulus = l
           /\ h >= a <=> n >= a * Modulus
           /\ c < a => h < a /\ n \div a = b /\ n % a = c
  BY <1>1, LongFacts
<1>3. wrap(n) = l /\ wrap(h) = h
  BY <1>2, WrapNone DEF wrap
<1>4. long = [r EXCEPT !.Areg = wrap(n), !.Breg = wrap(n \div Modulus), !.Creg = wrap(n \div Modulus)]
  BY DEF lmul
<1>5. long = [r EXCEPT !.Areg = l, !.Breg = h, !.Creg = h]
  <2>. HIDE DEF n, long
  <2>. QED
    BY <1>2, <1>3, <1>4, Zenon
<1>6. s \in Registers /\ s.Areg = a /\ s.Breg = l /\ s.Creg = h /\ s.flags = r.flags
      /\ long.Breg = h /\ long.Areg = l
  <2>1. long \in Registers
    BY <1>1, LongTypes
  <2>. HIDE DEF long
  <2>2. long.Areg = l /\ long.Breg = h /\ long.Creg = h /\ long.flags = r.flags
    BY <1>1, <1>2, <1>5 DEF Registers
  <2>3. s = [long EXCEPT !.Areg = a, !.Breg = l, !.Creg = h]
    BY <2>2
  <2>4. a \in Word /\ l \in Word /\ h \in Word
    BY <1>1, <1>2
  <2>. HIDE DEF s, a
  <2>5. [long EXCEPT !.Areg = a, !.Breg = l, !.Creg = h] \in Registers
    BY <2>1, <2>4 DEF Registers
  <2>6. s.Areg = a /\ s.Breg = l /\ s.Creg = h /\ s.flags = long.flags
    BY <2>1, <2>3 DEF Registers
  <2>. QED
    BY <2>2, <2>3, <2>5, <2>6
<1>. HIDE DEF n, long, s, a, b, c
<1>7. /\ Failed(ldiv(s)) <=> Failed(r) \/ a = 0 \/ h >= a
      /\ a # 0 /\ ~(h >= a) => ldiv(s).Areg = wrap(n \div a) /\ ldiv(s).Breg = wrap(n % a)
  <2>1. CASE a = 0 \/ h >= a
    <3>1. ldiv(s) = SET_FLAGS(DROP(s), "ErrorFlag")
      BY <1>6, <2>1 DEF ldiv
    <3>2. Failed(ldiv(s))
      BY <1>6, <3>1 DEF Failed, SET_FLAGS, DROP, Registers
    <3>. QED
      BY <2>1, <3>2, Zenon
  <2>2. CASE ~(a = 0 \/ h >= a)
    <3>1. s.Creg * Modulus + s.Breg = n
      BY <1>2, <1>6
    <3>2. ldiv(s) = [s EXCEPT !.Areg = wrap(n \div a), !.Breg = wrap(n % a), !.Creg = wrap(n % a)]
      BY <1>6, <2>2, <3>1, Zenon DEF ldiv
    <3>3. Failed(ldiv(s)) <=> Failed(r)
      BY <1>6, <3>2 DEF Failed, Registers
    <3>. QED
      BY <1>6, <2>2, <3>2, <3>3 DEF Registers
  <2>. QED
    BY <2>1, <2>2, Zenon
<1>8. ASSUME c < a PROVE ldiv(s).Areg = b /\ ldiv(s).Breg = c
  <2>1. a # 0 /\ ~(h >= a)
    BY <1>1, <1>2, <1>8, ModulusType DEF Word
  <2>. QED
    BY <1>1, <1>2, <1>7, <1>8, <2>1, WrapNone, Zenon
<1>. QED
  BY <1>2, <1>6, <1>7, <1>8, Zenon DEF LongProducts, n, long, s, a, b, c

LEMMA DivisionIsExact ==
  ASSUME TypeOK
  PROVE  LET a == Signed(r.Areg)
             b == Signed(r.Breg)
             q == Signed(div(r).Areg)
             m == Signed(rem(r).Areg)
         IN /\ Failed(div(r)) <=> Failed(r) \/ a = 0 \/ (b = -SignBit /\ a = -1)
            /\ Failed(rem(r)) <=> Failed(r) \/ a = 0
            /\ a # 0 /\ ~(b = -SignBit /\ a = -1) =>
                 /\ q * a + m = b /\ Magnitude(wrap(m)) < Magnitude(wrap(a))
                 /\ m = 0 \/ (m < 0) = (b < 0)
<1>. DEFINE a == Signed(r.Areg)
           b == Signed(r.Breg)
           Q == Quotient(b, a)
           R == b - Q * a
<1>1. r \in Registers /\ r.Areg \in Word /\ r.Breg \in Word /\ r.Creg \in Word
  BY Fields DEF TypeOK
<1>2. /\ a \in Int /\ b \in Int /\ wrap(a) = r.Areg
      /\ a = 0 <=> r.Areg = 0
      /\ (b = -SignBit /\ a = -1) <=> (r.Areg = Modulus - 1 /\ r.Breg = SignBit)
  <2>1. (b = -SignBit /\ a = -1) <=> (r.Areg = Modulus - 1 /\ r.Breg = SignBit)
    BY <1>1, ModulusType DEF Signed, Word, Modulus
  <2>. QED
    BY <1>1, <2>1, SignedWrap, Magnitudes
<1>3. CASE r.Areg = 0
  <2>1. div(r) = SET_FLAGS([r EXCEPT !.Breg = r.Creg], "ErrorFlag")
        /\ rem(r) = SET_FLAGS(Result(r, r.Breg), "ErrorFlag")
    BY <1>3 DEF div, rem
  <2>2. Failed(div(r)) /\ Failed(rem(r))
    BY <1>1, <2>1 DEF Failed, SET_FLAGS, Result, Registers
  <2>. QED
    BY <1>2, <1>3, <2>2, Zenon
<1>4. CASE r.Areg # 0 /\ (r.Areg = Modulus - 1 /\ r.Breg = SignBit)
  <2>1. div(r) = SET_FLAGS([r EXCEPT !.Breg = r.Creg], "ErrorFlag")
        /\ rem(r) = [Result(r, 0) EXCEPT !.Creg = 0]
    BY <1>4 DEF div, rem
  <2>2. Failed(div(r)) /\ (Failed(rem(r)) <=> Failed(r))
    BY <1>1, <2>1 DEF Failed, SET_FLAGS, Result, Registers
  <2>. QED
    BY <1>2, <1>4, <2>2, Zenon
<1>5. CASE r.Areg # 0 /\ ~(r.Areg = Modulus - 1 /\ r.Breg = SignBit)
  <2>1. /\ Q \in Int /\ R \in Int /\ Q * a \in Int /\ Fits(R) /\ Fits(Q)
        /\ R = 0 \/ (R < 0 <=> b < 0)
        /\ (IF R < 0 THEN -R ELSE R) < Magnitude(r.Areg)
    BY <1>1, <1>2, <1>5, QuotientFacts
  <2>. DEFINE odd == LET q == Magnitude(wrap(Q)) IN IF q % 2 = 0 THEN q + 1 ELSE q
             x == wrap(Magnitude(r.Breg) - odd * Magnitude(r.Areg))
             y == Magnitude(wrap(R))
  <2>2. div(r) = [Result(r, wrap(Q)) EXCEPT !.Creg = x] /\ rem(r) = [Result(r, wrap(R)) EXCEPT !.Creg = y]
    BY <1>5, Zenon DEF div, rem
  <2>3. /\ wrap(Q) \in Word /\ Signed(wrap(Q)) = Q
        /\ wrap(R) \in Word /\ Signed(wrap(R)) = R
    BY <2>1, WrapType, SignedOfWrap, Zenon
  <2>. HIDE DEF Q, R, x, y, a, b
  <2>4. /\ div(r).Areg = wrap(Q) /\ (Failed(div(r)) <=> Failed(r))
        /\ rem(r).Areg = wrap(R) /\ (Failed(rem(r)) <=> Failed(r))
    BY <1>1, <2>2, <2>3 DEF Failed, Result, Registers
  <2>5. Q * a + R = b
    <3>. DEFINE p == Q * a
    <3>1. p \in Int /\ R = b - p
      BY <2>1 DEF R
    <3>. HIDE DEF p
    <3>2. p + R = b
      BY <1>2, <3>1
    <3>. QED
      BY <3>2 DEF p
  <2>6. Magnitude(wrap(R)) = IF R < 0 THEN -R ELSE R
    BY <2>3, Magnitudes
  <2>7. (R = 0 \/ (R < 0) = (b < 0)) /\ Magnitude(wrap(R)) < Magnitude(wrap(a))
    BY <1>2, <2>1, <2>6
  <2>8. Signed(div(r).Areg) = Q /\ Signed(rem(r).Areg) = R
    BY <2>3, <2>4
  <2>. QED
    BY <1>2, <1>5, <2>4, <2>5, <2>7, <2>8, Zenon DEF a, b
<1>. QED
  BY <1>3, <1>4, <1>5

LEMMA ProductsAreExact == TypeOK => ProductsExact
  BY MulIsExact, LongProductsExact, DivisionIsExact, Zenon DEF ProductsExact

(* A checked product is the integers', or an error is raised; a quotient   *)
(* and its remainder make up the number divided; and ldiv undoes lmul: for *)
(* words of any width.                                                     *)
THEOREM ProductsCorrect == Spec => []ProductsExact
  BY ProductsAreExact, TypeCorrect, PTL
=============================================================================
