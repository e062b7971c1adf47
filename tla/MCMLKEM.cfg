SPECIFICATION Spec
CONSTANTS
  Units <- MCUnits
  ZeroUnit <- Z
  DkSize = 4
  CtSize = 2
  SsSize = 2
  eo = 1
  EkSize = 2
  Transfers <- MCTransfers
  Emissions = {1, 2}
  Targets = {1, 2, 3, 4, 5, 6, 7, 8, 9, 10, 55}
  Lengths = {1, 2, 3}
  ek_check <- MCek_check
  dk_check <- MCdk_check
  keygen_internal <- MCkeygen
  encaps <- MCencaps
  decaps <- MCdecaps
  Limited = {2, 3, 4}
  MaxDraws = 3
INVARIANTS
  SecretMatchesFields
  ChecksStillHold
  UnvouchedUnitsAreZero
PROPERTIES
  SourceSpec
