SPECIFICATION Spec
CONSTANTS
  zk = TRUE
  has_sks = FALSE
  has_rng = TRUE
  max_ads = 2
  MaxDate = 3
  N = 1
  Capacity = 1
  zero_alloc = TRUE
  multcsk = TRUE
  csk_method = 1
  Contents <- MCContents
  Zero = "zero"
  Tags <- MCTags
  NoTag = "notag"
  toy_tag <- Tag
  RandomKeys = {}
  Supplied <- UseAndLevelMDHs
  Images = {}
  Completions = {1, 57}
  Targets = {1, 2, 3}
  Errors = {3}
  Requests <- UseRequests
  Modes = {1, 2}
  InitialCSK <- NoLevels
  LSTs <- AllLST
  Clocks <- AllClocks
  Withdrawals <- LevelOne
  StartValues = {16}
INVARIANTS
  PartialGroupMatchesSelection
PROPERTIES
  UsageIsGated
