SPECIFICATION Spec
CONSTANTS
  Formats = {"TXT", "CSV", "BSON"}
  Spectra <- MCSpectra
  Matrices <- MCMatrices
  Vals = {1, 2}
  MaxWrites = 3
  MaxEntry = 3
INVARIANT TypeOK
PROPERTIES FinishedRead AxesRead NothingInvented
