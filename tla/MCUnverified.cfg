SPECIFICATION Spec
CONSTANTS
  zk = TRUE
  has_sks = FALSE
  has_rng = TRUE
  max_ads = 2
  MaxDate = 3
  N = 1
  Capacity = 2
  zero_alloc = TRUE
  multcsk = TRUE
  csk_method = 3
  Contents <- MCContents
  Zero = "zero"
  Tags <- MCTags
  NoTag = "notag"
  toy_tag <- Tag
  RandomKeys = {}
  Supplied <- ImageMDHs
  Images <- AnyImage
  Completions = {1, 57}
  Targets = {}
  Errors = {3}
  Requests <- NoRequests
  Modes = {2}
  InitialCSK <- ZeroAndAuth
  LSTs <- AllLST
  Clocks <- NoClocks
  Withdrawals = {}
  StartValues = {}
INVARIANTS
  ValidContentIsVerified
