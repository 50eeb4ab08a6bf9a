-------------------------------- MODULE Words --------------------------------
(***************************************************************************)
(* The registers' WORD32: a natural number below Modulus, read as unsigned *)
(* or, through Signed, as two's complement.  The width is a constant.      *)
(***************************************************************************)
EXTENDS Integers, FiniteSets

CONSTANTS
  BitsPerWord,
  SignBit        \* MinINT as a word, half of Modulus

Modulus == 2 * SignBit
Word == 0 .. Modulus - 1

ASSUME WordAssumption == SignBit \in Nat /\ SignBit > 0
ASSUME WidthAssumption ==
  /\ BitsPerWord \in Nat /\ Modulus = 2^BitsPerWord
  /\ \A i \in 0 .. 2 * BitsPerWord : 2^i \in Nat \ {0}   \* no prover does this induction

(* Arithmetic on WORD32 drops what does not fit; a SWORD32 is the same     *)
(* bits; and the absolute value of a SWORD32 as a WORD32, MinINT's own.    *)
wrap(n) == n % Modulus
Signed(w) == IF w >= SignBit THEN w - Modulus ELSE w
Magnitude(w) == IF w >= SignBit THEN Modulus - w ELSE w
Fits(n) == -SignBit <= n /\ n < SignBit

(* C's division rounds toward zero.                                        *)
Quotient(b, a) ==
  LET q == Magnitude(wrap(b)) \div Magnitude(wrap(a))
  IN IF (b < 0) = (a < 0) THEN q ELSE -q

(* The bits of a word, numbered from the least significant; a word from    *)
(* its bits.  That every set of bits is a word's is assumed by theorems    *)
(* about words of any width.                                               *)
Index == 0 .. BitsPerWord - 1
BitsOf == [w \in Word |-> {i \in Index : (w \div 2^i) % 2 = 1}]
WordWith(bits) == CHOOSE w \in Word : BitsOf[w] = bits
ASSUME BitsAssumption == \A bits \in SUBSET Index : \E w \in Word : BitsOf[w] = bits
=============================================================================
