SPECIFICATION Spec
CONSTANTS
  N = 2
  Provided <- MCProvided
  sks <- MCsks
  Lengths = {1, 2, 4}
  Budgets = {1, 2}
  LR_STEPS = 3
  Secrets = 1
  MaxFields = 2
  Modes = {2, 3}
  zk = TRUE
  has_sks = TRUE
  has_rng = TRUE
  max_ads = 0
  MaxDate = 1
INVARIANTS
  RestrictedKeyStaysRestricted
  SecretServesOnce
  ProgressIsWork
PROPERTIES
  RefusalMovesNothing
  LongRunningEnds
