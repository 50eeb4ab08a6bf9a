CONSTANTS
  Samples = 16
  VoteAt = 8
  DataBits = 8
  Writers = {"A","B"}
  Readers = {}
  Message <- TwoC9
  ReadLength = {1, 2}
  MaxWrites = 1
  MaxReads = 0
  MaxResets = 0
  Resetters = {}
  AckBound = 5
  WordSize = 4
SPECIFICATION Spec
INVARIANTS WiresInStep CompleteWhenReceived
PROPERTIES ImplementsChannel
CHECK_DEADLOCK FALSE
