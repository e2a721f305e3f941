SPECIFICATION Spec
CONSTANTS
  Dim = 1
  MaxHalv = 2
  V = 2
  Tol2 <- MCTol2
  LevelDepths <- MCLevelDepths
  IxSplit0 = 0
  FuncVals <- MCFuncVals
  MaxCorr = 1
INVARIANT ActiveDealtWith
