CONSTANTS
  Samples = 4
  VoteAt = 2
  DataBits = 1
  Writers = {"A"}
  Readers = {"B"}
  Message <- ShortMessages
  ReadLength = {1, 2}
  MaxWrites = 2
  MaxReads = 1
  MaxResets = 1
  Resetters = {"A"}
  AckBound = 5
  WordSize = 4
SPECIFICATION FairSpec
INVARIANTS TypeOK CompleteAfterAck NoTimeout
PROPERTIES WriteEnds
CHECK_DEADLOCK FALSE
