SPECIFICATION Spec
CONSTANTS
  AEADs = {"GCM", "GCM_IV", "GCMSIV", "OCB", "OCB_NONCE", "CMAC"}
  Modes = {"ECB", "CBC", "CFB", "OFB", "CTR", "XCTR", "XEX"}
  Hashes = {"SHA2", "SHAKE", "BLAKE2", "BLAKE2_KEY", "HMAC_NIK", "HMAC_KIP"}
  Sponges = {"XOF", "CXOF", "KMAC", "KMACXOF", "AEAD", "AEAD_NONCE", "AEAD_MASK"}
  Curves <- AllCurves
  CM = 4
  MAX_BLOCKS = 3
  SEALABLE = 2
  SIZE = 2
  BlockUnits = 2
  BlockWindow = 4
  BlockFed = 4
  SymWindow = 6
  SymFed = 6
  HashWindow = 3
  HashFed = 8
  MaxPieces = 1
INVARIANTS
  CounterAndMaskOnce
  FeedIsAbsorbed
  HaltIsResumable
  SealedNeverRead
  NoPartialKey
  NonceSignsOnce
  PassesAgree
PROPERTIES
  OutputIsGated
