SPECIFICATION FairSpec
CONSTANTS
  A = A
  B = B
  ann = ann
  bob = bob
  NoOne = NoOne
  NoState = NoState
  NumScripts = 3
  StateIds <- OneState
  DefaultState = A
  Handles <- MCHandles
  Avatars <- MCAvatars
  Owner = ann
  MaxSteps = 4
  WallTimeout = TRUE
  Intervals <- None
  Sleeps <- None
  MaxCommands = 2
  MaxQueue = 1
  MaxTime = 0
INVARIANTS
  StepBound
PROPERTIES
  EndsUnderCap
