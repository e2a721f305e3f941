SPECIFICATION FairSpec
CONSTANTS
  Points = {0, 1, 2, 3, 4}
  NoPoint = 9
  New = 0
  NAxes = 2
  Nb <- MCNb
  Feet = {1, 2, 3}
  Dists <- MCDists
  Sides <- MCSides
  Apart <- MCApart
  Tiny = 1
INVARIANT FootOfValue
PROPERTIES ImplementsLowering CorrectionEnds
