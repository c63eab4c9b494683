CONSTANTS
  Conns = {c1, c2}
  Users = {u1, u2}
  Publishers = {p1}
  Stopper = stopper
  None = None
  BufSize = 1
  MaxTotal = 0
  MaxPerUser = 1
SPECIFICATION Spec
CHECK_DEADLOCK FALSE
SYMMETRY Symmetry
INVARIANTS TypeOK HubCountIsExact NoLeak LossIsPursued ShutdownIsComplete
