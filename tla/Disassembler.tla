---------------------------- MODULE Disassembler ----------------------------
(***************************************************************************)
(* Emulator/opcodes.h and Emulator/disasm.cpp: the codes of the T805's     *)
(* instructions and of the emulator's own, and the names they are listed   *)
(* by.  A code is a number, and a name is its field.                       *)
(***************************************************************************)

(* Functions: the high half of an instruction's byte.                      *)
Function ==
  [j |-> 0, ldlp |-> 16, pfix |-> 32, ldnl |-> 48, ldc |-> 64, ldnlp |-> 80,
    nfix |-> 96, ldl |-> 112, adc |-> 128, call |-> 144, cj |-> 160,
    ajw |-> 176, eqc |-> 192, stl |-> 208, stnl |-> 224, opr |-> 240]

(* Operations: what is in Oreg when opr is executed.  Those of every       *)
(* transputer, ...                                                         *)
Operation ==
  [rev |-> 0, add |-> 5, sub |-> 12, mul |-> 83, div |-> 44, rem |-> 31,
    sum |-> 82, diff |-> 4, prod |-> 8, and |-> 70, or |-> 75, xor |-> 51,
    not |-> 50, shl |-> 65, shr |-> 64, gt |-> 9, lend |-> 33, bcnt |-> 52,
    wcnt |-> 63, ldpi |-> 27, mint |-> 66, bsub |-> 2, wsub |-> 10,
    move |-> 74, in |-> 7, out |-> 11, lb |-> 1, sb |-> 59, outbyte |-> 14,
    outword |-> 15, gcall |-> 6, gajw |-> 60, ret |-> 32, startp |-> 13,
    endp |-> 3, runp |-> 57, stopp |-> 21, ldpri |-> 30, ldtimer |-> 34,
    tin |-> 43, alt |-> 67, altwt |-> 68, altend |-> 69, talt |-> 78,
    taltwt |-> 81, enbs |-> 73, diss |-> 48, enbc |-> 72, disc |-> 47,
    enbt |-> 71, dist |-> 46, csub0 |-> 19, ccnt1 |-> 77, testerr |-> 41,
    stoperr |-> 85, seterr |-> 16, xword |-> 58, cword |-> 86, xdble |-> 29,
    csngl |-> 76, ladd |-> 22, lsub |-> 56, lsum |-> 55, ldiff |-> 79,
    lmul |-> 49, ldiv |-> 26, lshl |-> 54, lshr |-> 53, norm |-> 25,
    resetch |-> 18, testpranal |-> 42, sthf |-> 24, stlf |-> 28,
    sttimer |-> 84, sthb |-> 80, stlb |-> 23, saveh |-> 62, savel |-> 61,
    clrhalterr |-> 87, sethalterr |-> 88, testhalterr |-> 89]

(* ... of the T414 and the T800, ...                                       *)
T800Operation ==
  [fmul |-> 114, unpacksn |-> 99, roundsn |-> 109, postnormsn |-> 108,
    ldinf |-> 113, cflerr |-> 115, dup |-> 90, move2dinit |-> 91,
    move2dall |-> 92, move2dnonzero |-> 93, move2dzero |-> 94,
    crcword |-> 116, crcbyte |-> 117, bitcnt |-> 118, bitrevword |-> 119,
    bitrevnbits |-> 120, wsubdb |-> 129]

(* ... of its floating point unit, ...                                     *)
FpOperation ==
  [fpentry |-> 171, fpdup |-> 163, fprev |-> 164, fpldnlsn |-> 142,
    fpldnldb |-> 138, fpldnlsni |-> 134, fpldnldbi |-> 130, fpstnlsn |-> 136,
    fpstnldb |-> 132, fpadd |-> 135, fpsub |-> 137, fpmul |-> 139,
    fpdiv |-> 140, fpremfirst |-> 143, fpremstep |-> 144, fpldzerosn |-> 159,
    fpldzerodb |-> 160, fpldnladdsn |-> 170, fpldnladddb |-> 166,
    fpldnlmulsn |-> 172, fpldnlmuldb |-> 168, fpchkerr |-> 131,
    fptesterr |-> 156, fpgt |-> 148, fpeq |-> 149, fpordered |-> 146,
    fpnan |-> 145, fpnotfinite |-> 147, fpint |-> 161, fpstnli32 |-> 158,
    fprtoi32 |-> 157, fpi32tor32 |-> 150, fpi32tor64 |-> 152,
    fpb32tor64 |-> 154]

(* ... of those what fpentry finds in Areg, ...                            *)
FpEntry ==
  [fpusqrtfirst |-> 1, fpusqrtstep |-> 2, fpusqrtlast |-> 3, fpurp |-> 4,
    fpurm |-> 5, fpurz |-> 6, fpur32tor64 |-> 7, fpur64tor32 |-> 8,
    fpuexpdec32 |-> 9, fpuexpinc32 |-> 10, fpuabs |-> 11, fpunoround |-> 13,
    fpchki32 |-> 14, fpuchki64 |-> 15, fpudivby2 |-> 17, fpumulby2 |-> 18,
    fpurn |-> 34, fpuseterr |-> 35, fpuclrerr |-> 156]

(* ... of the T801 and the T805, and of no transputer.                     *)
T805Operation ==
  [start |-> 511, testhardchan |-> 45, testldd |-> 37, teststd |-> 40,
    testlde |-> 36, testste |-> 39, testlds |-> 35, teststs |-> 38,
    break |-> 177, clrj0break |-> 178, setj0break |-> 179,
    testj0break |-> 180, timerdisableh |-> 122, timerdisablel |-> 123,
    timerenableh |-> 124, timerenablel |-> 125, ldmemstartval |-> 126,
    pop |-> 121, lddevid |-> 380]
EmulatorOperation ==
  [togglemonitor |-> 192, toggledisasm |-> 193, terminate |-> 194,
    marker |-> 195, emuquery |-> 196]

-----------------------------------------------------------------------------
(* Names.                                                                  *)
NameIn(table, code, otherwise) ==
  IF \E n \in DOMAIN table : table[n] = code
  THEN CHOOSE n \in DOMAIN table : table[n] = code ELSE otherwise

disassembleDirectInstName(instruction) ==
  IF instruction = Function.opr THEN "?direct?" ELSE NameIn(Function, instruction, "?direct?")

emulatorName(Oreg) == NameIn(EmulatorOperation, Oreg, "?indirect?")
t805Name(Oreg) == NameIn(T805Operation, Oreg, emulatorName(Oreg))
fpentryName(Areg) == NameIn(FpEntry, Areg, "?fp?")
fpName(Oreg, Areg) ==
  IF Oreg = FpOperation.fpentry THEN fpentryName(Areg)
  ELSE NameIn(FpOperation, Oreg, t805Name(Oreg))
t800Name(Oreg, Areg) == NameIn(T800Operation, Oreg, fpName(Oreg, Areg))
disassembleIndirectInstName(Oreg, Areg) == NameIn(Operation, Oreg, t800Name(Oreg, Areg))

(* What is listed: a function with its operand, and an operation, which    *)
(* has none.                                                               *)
disassembleDirectOperation(instruction, Oreg) == <<disassembleDirectInstName(instruction), Oreg>>
disassembleIndirectOperation(Oreg, Areg) == <<disassembleIndirectInstName(Oreg, Areg)>>
=============================================================================
