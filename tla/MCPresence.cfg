CONSTANTS
  Conns = {c1, c2, c3}
  Users = {u1}
  TTL = 2
  Floor = 1
  None = None
SPECIFICATION FairPresenceSpec
CHECK_DEADLOCK FALSE
INVARIANT MemoryIsTended
PROPERTIES ServedStaysOnline PresenceConverges
