SPECIFICATION Spec
CONSTANTS
  Tasks = {poller, c1, c2}
  Poller = poller
  NoTask = NoTask
  Writes = {HE}
  Reads = {HX, HR}
  Status = HX
  Args = {nothing, v1}
  Nothing = nothing
  Commands <- MCCommands
  NoArg = NoArg
  Keys = {k1}
  NoKey = NoKey
  Protocols = {p1, p2}
  NoProtocol = NoProtocol
  Retries = 2
  MaxFrames = 2
  Timely = TRUE
  Separate = FALSE
PROPERTIES
  AckMeansSuccess
