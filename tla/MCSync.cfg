CONSTANTS
  Devices = {d1}
  BufSize = 2
  PageLimit = 2
  MaxSeq = 3
  MaxPulls = 2
SPECIFICATION FairSpec
CHECK_DEADLOCK FALSE
INVARIANT RestIsComplete
PROPERTIES ImplementsFeed DevicesCatchUp
