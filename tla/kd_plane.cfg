SPECIFICATION LSpec
CONSTANTS
  Dim = 2
  MaxHalv = 4
  V = 1
  Tol2 <- MCTol2
  LevelDepths <- MCLevelDepths
  IxSplit0 = 1
  FuncVals <- MCFuncVals
  MaxCorr = 2
INVARIANTS TreeInv ReadBack LinesSound QueryInBlock
