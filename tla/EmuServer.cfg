SPECIFICATION FairSpec
CONSTANTS
  MAX_FILES = 4
  nullptr = nullptr
  Key = 75
  Uninitialised <- Bits
  BootFile <- Boot
  Request <- AllCalls
  BadSize = {0, 5, 512}
  MaxCalls = 4
  InitialDisk <- Disk
  MemStart = 2
  MemEnd = 9
  NoCall = NoCall
  NoAnswer = NoAnswer
CHECK_DEADLOCK FALSE
INVARIANTS
  StreamsOK
  LoadsWhole
PROPERTIES
  ImplementsFileService
  Answered
  ExitCarriesCode
