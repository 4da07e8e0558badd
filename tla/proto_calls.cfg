SPECIFICATION Spec
CONSTANTS
  Tasks = {poller, c1, c2}
  Poller = poller
  NoTask = NoTask
  Writes = {HE}
  Reads = {HX, HR}
  Status = HX
  Args = {nothing, v1, v2}
  Nothing = nothing
  Commands <- MCCommands
  NoArg = NoArg
  Keys = {k1, k2}
  NoKey = NoKey
  Protocols = {p1, p2}
  NoProtocol = NoProtocol
  Retries = 2
  MaxFrames = 2
  Timely = TRUE
  Separate = TRUE
SYMMETRY Symmetry
INVARIANTS
  TypeOK
  IInv
PROPERTIES
  AnswersItsCall
  KeepsPromise
