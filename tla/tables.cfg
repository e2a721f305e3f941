SPECIFICATION Spec
CONSTANTS
  NTables = 3
  MaxStarts = 3
  MaxQueries = 2
INVARIANTS ListedInOrder DoneIsComplete RightTable AxisSound ListedExists
PROPERTY WholeKept
