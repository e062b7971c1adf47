------------------------------ MODULE Machines ------------------------------
(***************************************************************************)
(* A locker with one CC, of any Machine that is not one of ML-DSA or of    *)
(* ML-KEM: the model of its family gives its steps, and the properties     *)
(* that the families share are stated here of all of them.                 *)
(***************************************************************************)
EXTENDS Integers

CONSTANTS AEADs, Modes, Hashes, Sponges,  \* the Machines of the instance, by family
          Curves,                         \* those of the elliptic curves, with their MachineExtension
          CM,                             \* values of a 32-bit counter
          MAX_BLOCKS,                     \* the greatest index of OCB
          SEALABLE,                       \* bytes of the shortest secret that is sealed
          SIZE,                           \* units of a field of the elliptic curves
          BlockUnits, BlockWindow, BlockFed, \* of the AEADs: units of a block; bounds on a window and on what is fed
          SymWindow, SymFed,              \* the bounds of the symmetric ciphers, in bytes and in segments
          HashWindow, HashFed,            \* those of the hashes and sponges, in bytes and in bits
          MaxPieces                       \* bound: pieces of a message of EdDSA

\* A byte has two bits, and a block of a cipher, a hash or a sponge two bytes.
BYTE == 2
BYTES == 2

ASSUME MachinesAssumption ==
  /\ BlockUnits \in Nat \ {0, 1} /\ CM \in Nat \ {0, 1, 2} /\ MAX_BLOCKS \in Nat \ {0}
  /\ SIZE \in Nat \ {0, 1} /\ Curves \subseteq {"wei", "ed", "mont"} \X {0, 1, 2}
  /\ AEADs \subseteq {"GCM", "GCM_IV", "GCMSIV", "OCB", "OCB_NONCE", "CMAC"}
  /\ Modes \subseteq {"ECB", "CBC", "CFB", "OFB", "CTR", "XCTR", "XEX"}
  /\ Hashes \subseteq {"SHA2", "SHAKE", "BLAKE2", "BLAKE2_KEY", "HMAC_NIK", "HMAC_KIP"}
  /\ Sponges \subseteq {"XOF", "CXOF", "KMAC", "KMACXOF", "AEAD", "AEAD_NONCE", "AEAD_MASK"}
  /\ {BlockWindow, BlockFed, SymWindow, SymFed, HashWindow, HashFed, MaxPieces} \subseteq Nat

VARIABLE m

A == INSTANCE AEAD WITH B <- BlockUnits, MaxWindow <- BlockWindow, MaxFed <- BlockFed
S == INSTANCE Sym WITH BLOCK <- BYTES, MaxWindow <- SymWindow, MaxFed <- SymFed
H == INSTANCE Hash WITH B <- BYTE * BYTES, MaxWindow <- HashWindow, MaxFed <- HashFed
P == INSTANCE Sponge WITH B <- BYTE * BYTES, MaxWindow <- HashWindow, MaxFed <- HashFed
E == INSTANCE ECC

Init == A!Init \/ S!Init \/ H!Init \/ P!Init \/ E!Init
Next ==
  \/ m.machine \in AEADs /\ A!Next
  \/ m.machine \in Modes /\ S!Next
  \/ m.machine \in Hashes /\ H!Next
  \/ m.machine \in Sponges /\ P!Next
  \/ m.machine \in {c[1] : c \in Curves} /\ E!Next
Spec == Init /\ [][Next]_m

-----------------------------------------------------------------------------
\* No counter block of GCM or GCM-SIV, and no mask of XEX, is used twice: not where the 32-bit counter
\* ends, not after a move of the CC, and not where ciphertext stealing goes back by one (aead_model.py,
\* _blk of sym_model.py).  Nothing is said of CTR, XCTR and OFB: the counter of _ks
\* wraps and nothing detects it (FeedIsAbsorbed has where in the keystream it is).
CounterAndMaskOnce ==
  /\ m.machine \in AEADs => A!CounterOnce
  /\ m.machine \in Modes => S!MaskOnce

\* What software has fed and knows to be done is what the locker has absorbed, and what it has read is
\* the output without a gap, however a message was cut into windows, interrupted, resumed and moved.
FeedIsAbsorbed ==
  /\ m.machine \in AEADs => A!FeedIsAbsorbed
  /\ m.machine \in Modes => S!FeedIsAbsorbed
  /\ m.machine \in Hashes => H!FeedIsAbsorbed
  /\ m.machine \in Sponges => P!FeedIsAbsorbed

\* A kl.exec that an interrupt halts can be resumed: where each Machine halts is where it resumes.
HaltIsResumable ==
  /\ m.machine \in AEADs => A!HaltIsResumable
  /\ m.machine \in Modes => S!HaltIsResumable
  /\ m.machine \in Hashes => H!HaltIsResumable
  /\ m.machine \in Sponges => P!HaltIsResumable

\* A message or a key that a sealed secret entered stays marked, and gives no text and no verdict
\* (hash_model.py, sponge_model.py).
SealedNeverRead ==
  /\ m.machine \in Hashes => H!SealedNeverRead
  /\ m.machine \in Sponges => P!SealedNeverRead

\* A kl.exec of an AEAD Machine or CMAC, a symmetric cipher, HMAC or Ascon-AEAD128 gives text, a tag or
\* a verdict only in a State whose operation the MachinePolicy of now permits, also when it was narrowed
\* after the State was entered.  Hashes and XOFs without a key have no MachinePolicy.  Keyed BLAKE2 and
\* KMAC have one, at which their kl.exec does not look (exec of hash_model.py, _exec_hash of
\* sponge_model.py), and no kl.derive out of a locker looks at one: they are left out here (see README.md).
OutputIsGated ==
  [][/\ m.machine \in AEADs => A!GatedStep
     /\ m.machine \in Modes => S!GatedStep
     /\ H!hmac(m) => H!GatedStep
     /\ P!aead(m) => P!GatedStep]_m

\* No operation of an HMAC whose key software sets, or of an elliptic curve, takes a key or another
\* field that was loaded in part (SetKey of hash_model.py, MR14 of ecc_machine.py).
NoPartialKey ==
  /\ m.machine \in Hashes => H!NoPartialKey
  /\ m.machine \in {c[1] : c \in Curves} => E!NoPartialKey

\* A nonce of ECDSA and SM2 signs once, also when the signature is halted, its progress is dropped or
\* the locker is copied (ecc_machine.py).
NonceSignsOnce == m.machine \in {c[1] : c \in Curves} => E!NonceSignsOnce

\* EdDSA signs the message of its second pass with the nonce of the first (ecc_machine.py).
PassesAgree == m.machine \in {c[1] : c \in Curves} => E!PassesAgree
=============================================================================
