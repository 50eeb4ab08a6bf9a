SPECIFICATION Spec
CONSTANTS
  w1 = w1
  w2 = w2
  w3 = w3
  c1 = c1
  c2 = c2
  m1 = m1
  m2 = m2
  Workspace = {w1, w2, w3}
  Initial = w1
  Channel = {c1, c2}
  Reader <- TwoReader
  Writer <- TwoWriter
  Message = {m1, m2}
  Positions = 2
  MaxMessages <- TwoThenOne
  MaxRestarts = 1
  MayRunOn = FALSE
  NotProcess = NotProcess
  Unset = Unset
CHECK_DEADLOCK TRUE
INVARIANTS
  TypeOK
  EachInOnePlace
  ListsAreQueues
  ResumesWhereLeft
  MessageArrives
  JoinWhenAllEnded
SYMMETRY Messages
