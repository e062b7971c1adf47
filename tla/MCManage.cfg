SPECIFICATION Spec
CONSTANTS
  zk = TRUE
  has_sks = FALSE
  has_rng = TRUE
  max_ads = 2
  MaxDate = 3
  N = 2
  Capacity = 1
  zero_alloc = TRUE
  multcsk = TRUE
  csk_method = 2
  Contents <- MCContents
  Zero = "zero"
  Tags <- MCTags
  NoTag = "notag"
  toy_tag <- Tag
  RandomKeys = {"k1"}
  Supplied <- ManageMDHs
  Images <- AnyImage
  Completions = {0, 1, 3, 56, 57}
  Targets = {}
  Errors = {3}
  Requests <- NoRequests
  Modes = {2}
  InitialCSK <- LevelZero
  LSTs <- SomeLST
  Clocks <- NoClocks
  Withdrawals = {}
  StartValues = {}
INVARIANTS
  CapacityConserved
  InertIsCleared
PROPERTIES
  ContentLineage
  TrapOnlyDestroys
  LifecycleSpec
