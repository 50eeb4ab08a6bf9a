SPECIFICATION Spec
CONSTANTS
  BitsPerWord = 3
  SignBit = 4
  DataValues = 2
  MemStart = 5
  Link0Input = 6
  DeviceId = 3
  HaltOnErrorMask = 2
  J0BreakMask = 4
  Positive_Inf = 2
  FP_fpuseterr = 3
  FP_fpuclrerr = 4
CHECK_DEADLOCK FALSE
INVARIANTS
  TypeOK
  SumsExact
  ProductsExact
  DoubleLengthExact
  ExtendsAndChecks
  BitsKept
  OperandsLoad
