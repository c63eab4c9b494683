CONSTANTS
  Conns = {c1}
  Users = {u1}
  Publishers = {p1, p2}
  Stopper = stopper
  None = None
  BufSize = 1
  MaxTotal = 0
  MaxPerUser = 0
SPECIFICATION Spec
CHECK_DEADLOCK FALSE
SYMMETRY Symmetry
INVARIANT CloseIsIdempotent
