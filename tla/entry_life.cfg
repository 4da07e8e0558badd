SPECIFICATION FairSpec
CONSTANTS
  Entries = {e1, e2}
  Legacy = {e1}
  Visitors = {v1}
  MaxOpens = 3
INVARIANTS TypeOK CapturedIsOpen SharedWhileLoaded
PROPERTIES SetupsRest
