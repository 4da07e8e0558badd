SPECIFICATION FairSpec
CONSTANTS
  Links = {l1, l2}
  NoLink = NoLink
  MaxErrors = 1
  RepairAfter = 1
  HasProxy = FALSE
PROPERTIES
  OutageRetried
  CalmRecovers
CHECK_DEADLOCK FALSE
