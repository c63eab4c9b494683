CONSTANTS
  Requests = {r1, r2, r3}
  Tokens = {t1}
  Keys = {ip1}
  AccessTTL = 2
  Skew = 1
  TicketTTL = 1
  Unit = 2
  Rate = 1
  Burst = 3
  IdleTTL = 3
  MaxTime = 4
  None = None
SPECIFICATION AdmissionSpec
CHECK_DEADLOCK FALSE
SYMMETRY Symmetry
INVARIANTS TicketIsOneTime LogoutHolds RateIsBounded
PROPERTY TicketIsFresh
