SPECIFICATION Spec
CONSTANTS
  A = A
  B = B
  ann = ann
  bob = bob
  NoOne = NoOne
  NoState = NoState
  NumScripts = 2
  StateIds <- MCStates
  DefaultState = A
  Handles <- MCHandles
  Avatars <- MCAvatars
  Owner = ann
  MaxSteps = 0
  WallTimeout = FALSE
  Intervals <- None
  Sleeps <- None
  MaxCommands = 2
  MaxQueue = 2
  MaxTime = 0
INVARIANTS
  QueuedForCurrentState
  PendingSwitchNotStranded
  EntryNotLost
  DetectedMatchesTouch
PROPERTY
  CommandsWaitForQuiet
