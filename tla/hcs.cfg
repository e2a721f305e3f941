SPECIFICATION FairSpec
CONSTANTS
  NPhases = 4
  NLons = 5
  Surfaces <- MCSurfaces
  Far = 20
  Crest <- MCCrest
  Inner <- MCInner
  Starts <- MCStarts
  Res2 = 3
  WaveRel = 2
  MaxStride = 3
  Radii <- MCRadii
  Offsets <- MCOffsets
  Tr = 12
  MaxStep = 1
  Floor = 2
INVARIANTS AnswerIsAFoot EndNearDiter ConvexNeverFails
PROPERTIES Descent SearchEnds
