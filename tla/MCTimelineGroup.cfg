CONSTANTS
  Requests = {r1, r2, r3}
  Users = {alice, bob}
  Owner = alice
  Moderators = {alice}
  ClientIds = {k1, k2}
  ConvType = "group"
  Ops = {"send", "recall", "read", "add", "remove"}
  MaxRead = 2
  None = None
SPECIFICATION Spec
CHECK_DEADLOCK FALSE
SYMMETRY Symmetry
INVARIANTS ExactlyOnce RecallIsTraced RecallIsAuthorized LogInv
PROPERTY ImplementsLog
