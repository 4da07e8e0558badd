SPECIFICATION Spec
CONSTANTS
  Flows = {f1, f2}
  Machines = {m1, m2}
  NoMachine = none
SYMMETRY Symmetry
INVARIANTS NothingLeftBehind
PROPERTIES OptionsKept
