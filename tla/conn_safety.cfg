SPECIFICATION Spec
CONSTANTS
  Links = {l1, l2, l3}
  NoLink = NoLink
  MaxErrors = 2
  RepairAfter = 1
  HasProxy = TRUE
SYMMETRY Symmetry
INVARIANTS
  TypeOK
  LinkOwned
  SessionPolled
  SessionAnnounced
  OutageArmed
  IInv
CHECK_DEADLOCK FALSE
