SPECIFICATION Spec
CONSTANTS
  zk = TRUE
  has_sks = FALSE
  has_rng = TRUE
  max_ads = 2
  MaxDate = 3
  N = 2
  Capacity = 2
  zero_alloc = TRUE
  multcsk = TRUE
  csk_method = 3
  Contents <- MCContents
  Zero = "zero"
  Tags <- MCTags
  NoTag = "notag"
  toy_tag <- Tag
  RandomKeys = {}
  Supplied <- RestrictMDHs
  Images = {}
  Completions = {1, 57}
  Targets = {}
  Errors = {2}
  Requests <- MCRequests
  Modes = {2}
  InitialCSK <- LevelZero
  LSTs <- AllLST
  Clocks <- NoClocks
  Withdrawals = {}
  StartValues = {16}
PROPERTIES
  NamedLockerKeepsItsCC
  PoliciesOnlyNarrow
