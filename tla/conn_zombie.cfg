SPECIFICATION FairSpec
CONSTANTS
  Links = {l1}
  NoLink = NoLink
  MaxErrors = 1
  RepairAfter = 1
  HasProxy = TRUE
PROPERTIES
  ZombieEnds
CHECK_DEADLOCK FALSE
