SPECIFICATION RelativeSpec
CONSTANTS
  A = A
  B = B
  ann = ann
  bob = bob
  NoOne = NoOne
  NoState = NoState
  NumScripts = 2
  StateIds <- OneState
  DefaultState = A
  Handles <- MCLateHandles
  Avatars <- OneAvatar
  Owner = ann
  MaxSteps = 0
  WallTimeout = FALSE
  Intervals <- Steps12
  Sleeps <- Step1
  MaxCommands = 1
  MaxQueue = 1
  MaxTime = 2
PROPERTIES
  ClockSpec
  EventuallyServed
  TimersCatchUp
  QuietRunEnds
