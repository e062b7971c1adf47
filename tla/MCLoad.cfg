SPECIFICATION Spec
CONSTANTS
  ZeroUnit <- Z
  Units <- Plain
  SigUnits <- PlainOrSig
  Size <- LoadSizes
  Transfers <- LoadTransfers
  Emissions = {1, 2}
  Halts = {}
  Policies <- BothPolicies
  Targets = {1, 2, 3, 4, 6, 8, 9, 10, 11, 12, 13, 54}
  sk_ok <- MCsk_ok
  pk_from_sk <- MCpk_from_sk
  tr_matches <- MCtr_matches
  KeyPairs <- OneKeyPair
  sign <- MCsign
  iterations <- MCiterations
  Limit = 3
  verify_internal <- MCverify
  Bounded <- AllOperations
  MaxDraws = 0
  MaxSnaps = 0
  ExportStates = {}
  MaxImports = 0
INVARIANTS
  KeyPairMatches
  UnmarkedFieldsAreZero
