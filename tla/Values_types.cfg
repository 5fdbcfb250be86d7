SPECIFICATION Spec
CONSTANTS
  f = f
  v = v
  h = h
  Names = {f, v, h}
  Globals <- MCGlobals
  Functions <- MCFunctions
  Handlers <- MCHandlers
  Literals <- MCLiterals
  Declared <- MCDeclared
  MaxValues = 3
  MaxDepth = 1
  MaxFrames = 2
PROPERTIES KindsHold TypesHold ScopingSpec
CHECK_DEADLOCK FALSE
