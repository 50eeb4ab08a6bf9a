SPECIFICATION InterpreterSpec
CONSTANTS
  BitsPerWord = 8
  SignBit = 128
  DataValues = 16
  MemStart = 136
  Link0Input = 132
  Link0Output = 128
  ResetCode = 126
  DeviceId = 19
  HaltOnErrorMask = 2
  J0BreakMask = 4
  Positive_Inf = 2
  FP_fpuseterr = 3
  FP_fpuclrerr = 4
  ByteValues = 4
  mySize = 88
  AfterRAM <- HeapBytes
  ROM <- RomBytes
  ROMSize = 48
  BadWord = 219
  EQ_memtop = 1
  Undefined = 13
  Input <- FiveBytes
  Takes = 12
  MaxFrames = 14
  Workspace = 196
  MaxSum = 3
  MaxCount = 3
  BlockAddress <- Moved
  BlockLength <- LengthsMoved
  StoredWord <- WordsStored
  WordAddress <- AddressesStored
  Programs <- EveryProgram
CHECK_DEADLOCK FALSE
INVARIANTS
  Computes
  MovesCopy
  LoadsAfterItself
PROPERTY
  ReturnsToCaller
