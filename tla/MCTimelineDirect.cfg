CONSTANTS
  Requests = {r1, r2}
  Users = {alice, bob}
  Owner = alice
  Moderators = {alice}
  ClientIds = {k1, k2}
  ConvType = "dm"
  Ops = {"send", "recall", "remove"}
  MaxRead = 1
  None = None
  Creators = {c1, c2}
SPECIFICATION FairDirectSpec
CHECK_DEADLOCK FALSE
INVARIANTS
  DirectRowIsExact
  DirectConflictIsDuplicate
  PairHasOneConversation
PROPERTIES
  RequestsAnswered
  CreatorsAnswered
