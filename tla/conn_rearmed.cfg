SPECIFICATION Spec
CONSTANTS
  Links = {l1, l2}
  NoLink = NoLink
  MaxErrors = 2
  RepairAfter = 1
  HasProxy = TRUE
SYMMETRY Symmetry
INVARIANTS
  ShutdownIsFinal
CHECK_DEADLOCK FALSE
