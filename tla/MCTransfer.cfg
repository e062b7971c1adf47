SPECIFICATION Spec
CONSTANTS
  Lockers = {k1, k2}
  None = None
  ContentBlocks = 1
  Contents <- MCContents
  MaxBuffer = 2
  Sources <- MCSources
  Lengths = {2}
  Tops = {1, 2}
SYMMETRY Exchanges
INVARIANTS
  ExportedImageIsCurrent
PROPERTIES
  CutTransfersAreWhole
