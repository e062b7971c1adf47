SPECIFICATION FairSpec
CONSTANTS
  ZeroUnit <- Z
  Units <- Plain
  SigUnits <- PlainOrSig
  Size <- SignSizes
  Transfers <- SignTransfers
  Emissions = {1}
  Halts = {0, 1}
  Policies <- SignOnly
  Targets = {1, 6, 8, 12}
  sk_ok <- OneKey
  pk_from_sk <- MCpk_from_sk
  tr_matches <- MCtr_matches
  KeyPairs <- OneKeyPair
  sign <- MCsign
  iterations <- MCiterations
  Limit = 3
  verify_internal <- MCverify
  Bounded <- AllOperations
  MaxDraws = 2
  MaxSnaps = 1
  ExportStates = {8, 9}
  MaxImports = 1
INVARIANTS
  OneMessagePerNonce
PROPERTIES
  SessionSpec
  SigningEnds
