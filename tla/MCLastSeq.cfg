CONSTANTS
  Requests = {r1, r2, r3}
  Users = {alice, bob}
  Owner = alice
  Moderators = {alice}
  ClientIds = {k1}
  ConvType = "group"
  Ops = {"send", "add"}
  MaxRead = 1
  None = None
SPECIFICATION Spec
CHECK_DEADLOCK FALSE
SYMMETRY Symmetry
INVARIANT LastSeqIsGreatest
