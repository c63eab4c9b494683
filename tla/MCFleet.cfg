CONSTANTS
  Processes = {p1, p2}
  NodeOf <- Distinct
  MaxNode = 1
  MaxSeqNo = 1
  MaxMs = 2
  Requests = {r1, r2, r3}
  Uploaders = {u1, u2}
  Jobs = {j1, j2}
  Statements = 2
  Nobody = Nobody
  None = None
SPECIFICATION FleetSpec
CHECK_DEADLOCK FALSE
CONSTRAINT Bound
SYMMETRY Symmetry
INVARIANTS UniqueIds AttachmentsKeepOwner OneMigrator ReleaseIsMigrated
