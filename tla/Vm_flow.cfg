SPECIFICATION FairSpec
CONSTANTS
  L = L
  M = M
  X = X
  Y = Y
  NoName = NoName
  Programs <- MCPrograms
  MaxLoop = 3
  MaxCalls = 1
  MaxFrames = 3
INVARIANTS UnwindingRunsNothing ScopesMatch
PROPERTIES FlowSpec HandlersEnd
