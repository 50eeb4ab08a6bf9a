SPECIFICATION AltSpec
CONSTANTS
  w1 = w1
  w2 = w2
  w3 = w3
  c1 = c1
  c2 = c2
  m1 = m1
  m2 = m2
  Workspace = {w1, w2, w3}
  Initial = w1
  Channel = {c1, c2}
  Reader <- BothToOne
  Writer <- TwoWriter
  Message = {m1, m2}
  Positions = 1
  MaxMessages <- TwoThenOne
  MaxRestarts = 0
  MayRunOn = FALSE
  NotProcess = NotProcess
  Unset = Unset
  Guards <- AltOfBoth
  Enabling_p = Enabling_p
  Ready_p = Ready_p
  Waiting_p = Waiting_p
  TimeNotSet_p = TimeNotSet_p
  NoneSelected_o = NoneSelected_o
CHECK_DEADLOCK FALSE
INVARIANT
  BranchSelected
