SPECIFICATION Spec
CONSTANTS
  Entries = {e1}
  Legacy = {e1}
  Visitors = {}
  MaxOpens = 1
INVARIANTS StatsFollowTheRename
