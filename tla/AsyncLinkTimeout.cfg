CONSTANTS
  Samples = 16
  VoteAt = 8
  DataBits = 8
  Writers = {"A","B"}
  Readers = {}
  Message <- OneC9
  ReadLength = {1, 2}
  MaxWrites = 1
  MaxReads = 0
  MaxResets = 0
  Resetters = {}
  AckBound = 5
  WordSize = 4
SPECIFICATION FairSpec
PROPERTIES TimeoutOnlyWhenUnacked
CHECK_DEADLOCK FALSE
