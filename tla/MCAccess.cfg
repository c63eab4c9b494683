CONSTANTS
  Requests = {r1, r2, r3}
  Users = {olga, adam}
  Owner = olga
  Granted = {"admin", "member"}
  None = None
SPECIFICATION Spec
CHECK_DEADLOCK FALSE
SYMMETRY Symmetry
INVARIANTS CheckIsCurrent AccessInv
PROPERTIES GrantsAreAuthorized
