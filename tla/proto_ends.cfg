SPECIFICATION FairSpec
CONSTANTS
  Tasks = {poller, c1}
  Poller = poller
  NoTask = NoTask
  Writes = {HE}
  Reads = {HX}
  Status = HX
  Args = {nothing}
  Nothing = nothing
  Commands <- MCCommands
  NoArg = NoArg
  Keys = {k1}
  NoKey = NoKey
  Protocols = {p1, p2}
  NoProtocol = NoProtocol
  Retries = 2
  MaxFrames = 1
  Timely = FALSE
  Separate = FALSE
PROPERTIES
  CallEnds
