SPECIFICATION Spec
CONSTANTS
  AEADs = {"GCM", "GCM_IV", "GCMSIV", "OCB", "OCB_NONCE", "CMAC"}
  Hashes = {"SHA2", "SHAKE", "BLAKE2", "BLAKE2_KEY", "HMAC_NIK", "HMAC_KIP"}
  CM = 5
  MAX_BLOCKS = 2
  SEALABLE = 2
  BlockUnits = 2
  BlockWindow = 8
  BlockFed = 20
  MaxIV = 3
  MaxAAD = 5
  MaxText = 7
  HashWindow = 3
  HashFed = 16
  MaxBits = 10
INVARIANTS
  SequenceIsAccepted
  SequenceIsWhole
  SameKeystream
CHECK_DEADLOCK FALSE
