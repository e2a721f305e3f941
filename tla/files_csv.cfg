SPECIFICATION Spec
CONSTANTS
  Formats = {"CSV"}
  Spectra <- MCSpectra
  Matrices <- MCMatrices
  Vals = {1, 2}
  MaxWrites = 2
  MaxEntry = 2
PROPERTY EveryEntryRead
