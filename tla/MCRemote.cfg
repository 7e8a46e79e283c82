SPECIFICATION RemoteSpec
CONSTANTS
  MaxSteps = 2
  SingleStep = TRUE
  Native = FALSE
  Patient = TRUE
  SteersAt = {}
  MaxHistory = 9
  Conns = {c1}
  Client = c1
  Ids = {1, 2}
  None = none
  Plans <- MCPlans
INVARIANT SeesTheTerminal
PROPERTY PauseStops
