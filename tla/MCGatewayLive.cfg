CONSTANTS
  Conns = {c1, c2}
  Users = {u1}
  Publishers = {}
  Stopper = stopper
  None = None
  BufSize = 1
  MaxTotal = 0
  MaxPerUser = 0
SPECIFICATION FairSpec
CHECK_DEADLOCK FALSE
PROPERTIES LossDisconnects PumpsEnd ShutdownDrains
