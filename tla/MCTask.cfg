SPECIFICATION Spec
CONSTANTS
  MaxSteps = 3
  SingleStep = TRUE
  Native = TRUE
  Patient = TRUE
  SteersAt = {1}
  MaxHistory = 14
  ContextWindow = 2
  KeepScreenshots = 1
  MaxCalls = 1
  Calls <- MCCalls
  Width <- MCWidth
  CoordMax <- MCCoordMax
INVARIANTS TurnsMatchSteps SeesEveryStepOnce HeldByFailures TypedAsAsked
PROPERTY OneStepPerContinue
