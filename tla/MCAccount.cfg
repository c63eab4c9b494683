CONSTANTS
  Requests = {r1, r2, r3}
  Providers = {v1}
  Genesis = genesis
  None = None
  Ops = {"register", "login", "refresh", "logout", "profile", "change", "forgot", "reset", "resend", "verify", "start", "callback", "exchange", "unlink"}
SPECIFICATION Spec
CHECK_DEADLOCK FALSE
SYMMETRY Symmetry
INVARIANTS TypeOK RotationIsLinear LogoutEndsSession NoTakeover
PROPERTY AccountNeverForgets
