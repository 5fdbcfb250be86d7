SPECIFICATION Spec
CONSTANTS
  f1 = f1
  f2 = f2
  f3 = f3
  chat = chat
  money = money
  None = None
  NScripts = 2
  Lines <- MCLines
  Kinds <- MCKinds
  Money = money
  Frames <- MCFrames
  MaxSteps = 2
  MaxFrames = 2
  MaxCommands = 1
  MaxPoints = 2
INVARIANTS PauseSeesLiveFrame
SYMMETRY AnyFrame
CHECK_DEADLOCK FALSE
