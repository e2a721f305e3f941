SPECIFICATION Spec
CONSTANTS
  NTables = 3
  MaxStarts = 3
  MaxQueries = 2
INVARIANT RefusedOutsideOnly
