------------------------------ MODULE Software ------------------------------
(***************************************************************************)
(* Software that uses an AEAD, MAC or hash Machine as the documentation    *)
(* has it: the instruction sequences of AEADSoftware.tla, or the plans of  *)
(* HashSoftware.tla.  Machines.tla lets software do anything; here it does *)
(* what should work, while interrupts halt it and the CC is moved.         *)
(***************************************************************************)
EXTENDS Integers

CONSTANTS AEADs, Hashes,                     \* the Machines of the instance, by family
          CM,                                \* values of a 32-bit counter
          MAX_BLOCKS,                        \* the greatest index of OCB
          SEALABLE,                          \* bytes of the shortest secret that is sealed
          BlockUnits, BlockWindow, BlockFed, \* of the AEADs: units of a block; bounds on a window and on what is fed
          MaxIV, MaxAAD, MaxText,            \* bounds: units of an IV, of associated data, of a text
          HashWindow, HashFed, MaxBits       \* of the hashes: bounds on a window, in bytes, on what is fed and on a message, in bits

\* A byte has two bits, and a block of a hash two bytes.
BYTE == 2
BYTES == 2

ASSUME SoftwareAssumption ==
  /\ AEADs \subseteq {"GCM", "GCM_IV", "GCMSIV", "OCB", "OCB_NONCE", "CMAC"}
  /\ Hashes \subseteq {"SHA2", "SHAKE", "BLAKE2", "BLAKE2_KEY", "HMAC_NIK", "HMAC_KIP"}
  /\ BlockUnits \in Nat \ {0, 1} /\ CM \in Nat \ {0, 1, 2} /\ MAX_BLOCKS \in Nat \ {0} /\ SEALABLE \in Nat
  /\ {BlockWindow, BlockFed, MaxIV, MaxAAD, MaxText, HashWindow, HashFed, MaxBits} \subseteq Nat

VARIABLES m, job, todo, ks, got, may,      \* those of AEADSoftware.tla
          pc, left, win, key, sum, was   \* and the others of HashSoftware.tla
vars == <<m, job, todo, ks, got, may, pc, left, win, key, sum, was>>

A == INSTANCE AEADSoftware WITH B <- BlockUnits, MaxWindow <- BlockWindow, MaxFed <- BlockFed
H == INSTANCE HashSoftware WITH B <- BYTE * BYTES, MaxWindow <- HashWindow, MaxFed <- HashFed

Init ==
  \/ A!Init /\ pc = "aead" /\ left = 0 /\ win = H!NoWindow /\ key = 0 /\ sum = 0 /\ was = 0
  \/ H!Init /\ todo = <<>> /\ ks = 0 /\ may = TRUE
Next ==
  \/ m.machine \in AEADs /\ A!Next /\ UNCHANGED <<pc, left, win, key, sum, was>>
  \/ m.machine \in Hashes /\ H!Next /\ UNCHANGED <<todo, ks, may>>
Spec == Init /\ [][Next]_vars

-----------------------------------------------------------------------------
\* No instruction of a sequence and no window, final piece or read of a plan is refused, whatever the
\* lengths are, however kl.exec is halted and resumed, wherever the CC is moved, and whatever was done
\* in the locker before; but what policy, counters or a sealed secret do not allow comes to no end
\* (aead_util.py, hash_util.py).
SequenceIsAccepted ==
  /\ m.machine \in AEADs => A!SequenceIsAccepted
  /\ m.machine \in Hashes => H!PlanIsAccepted

\* A sequence that ends processed each unit of the text, and each bit of the message, once: its tag or
\* its hash is that of all of it, and what software has put together is the whole output.
SequenceIsWhole ==
  /\ m.machine \in AEADs => A!SequenceIsWhole
  /\ m.machine \in Hashes => H!PlansAgree /\ H!ReadIsWhole

\* A text is decrypted with the keystream that it was encrypted with (aead_util.py).
SameKeystream == m.machine \in AEADs => A!SameKeystream
=============================================================================
