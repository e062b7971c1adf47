SPECIFICATION Spec
CONSTANTS
  DSA <- ToyDSA
  KEM <- ToyKEM
  Curves <- ToyCurves
  SCC <- ToySCC
  Ciphers <- ToyCiphers
  AEADs <- ToyAEADs
  Hashes <- ToyHashes
INVARIANTS
  RoundTrips
  OnlyTheOriginal
  KeyIsHidden
  ReferencesAgree
CHECK_DEADLOCK FALSE
