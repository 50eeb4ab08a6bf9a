SPECIFICATION Spec
CONSTANTS
  Samples = 4
  VoteAt = 2
  DataBits = 1
  AckBound = 0
  WordSize = 16
  PressChecks = 1
  ReleaseChecks = 2
  Message <- Messages
  MaxPresses <- Presses
INVARIANTS Reflects NeverStuck
