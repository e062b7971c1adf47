----------------------------- MODULE References -----------------------------
(***************************************************************************)
(* The cryptography that the known-answer tests trust as the Machines'     *)
(* own: the models of mldsa_model.py, mlkem_model.py, ecc_model.py and     *)
(* common.py, the references of aead_ref.py, hash_ref.py and               *)
(* sponge_ref.py, and the export format of scc_core.py.  A behaviour is    *)
(* one use of one of them, and the properties that they share are stated   *)
(* here of all.                                                            *)
(***************************************************************************)
EXTENDS Integers

CONSTANTS DSA, KEM, Curves, SCC, Ciphers, AEADs, Hashes     \* records: what each module is given

VARIABLE m

\* The rings are small: four coefficients modulo 97 and 137, with roots of unity of order 8 and 4.
D == INSTANCE MLDSAModel WITH
  N <- 4, Q <- 97, ZETA <- 33, D <- 3, K <- 2, L <- 2, ETA <- 1, TAU <- 2, GAMMA1 <- 8,
  GAMMA2 <- 16, OMEGA <- 2, LIMIT <- 2, Matrices <- DSA.Matrices, Secrets <- DSA.Secrets, Masks <- DSA.Masks
M == INSTANCE MLKEMModel WITH
  N <- 4, Q <- 137, ROOT <- 37, BITS <- 8, K <- 2, ETA1 <- 1, ETA2 <- 1, DU <- 7, DV <- 4,
  Matrices <- KEM.Matrices, Secrets <- KEM.Secrets, Noise <- KEM.Noise, Messages <- KEM.Messages, Strings <- KEM.Strings, Flips <- KEM.Flips
E == INSTANCE ECCModel WITH
  Weis <- Curves.Weis, Eds <- Curves.Eds, Monts <- Curves.Monts, Digests <- Curves.Digests, Loose <- Curves.Loose
S == INSTANCE SCCCore WITH
  Lockers <- SCC.Lockers, CSKs <- SCC.CSKs, LSTs <- SCC.LSTs, Impqs <- SCC.Impqs, Clears <- SCC.Clears, Limits <- SCC.Limits, Headers <- SCC.Headers
C == INSTANCE CipherModel WITH
  SB <- Ciphers.SB, ISB <- Ciphers.ISB, AESKeys <- Ciphers.AESKeys, AESBlocks <- Ciphers.AESBlocks, SM4 <- Ciphers.SM4, SM4Keys <- Ciphers.SM4Keys,
  SM4Blocks <- Ciphers.SM4Blocks, DES <- Ciphers.DES, TDEAKeys <- Ciphers.TDEAKeys, TDEABlocks <- Ciphers.TDEABlocks
A == INSTANCE AEADRef WITH
  Factors <- AEADs.Factors, Keys <- AEADs.Keys, Nonces <- AEADs.Nonces, AADs <- AEADs.AADs, Texts <- AEADs.Texts
H == INSTANCE HashRef WITH
  Seeds <- Hashes.Seeds, Rates <- Hashes.Rates, Outputs <- Hashes.Outputs, Lengths <- Hashes.Lengths, Messages <- Hashes.Messages, Strings <- Hashes.Strings, Blocks <- Hashes.Blocks

\* What is drawn is what the samplers can return.
ASSUME SamplesAssumption ==
  /\ DSA.Matrices \subseteq D!expand_a /\ DSA.Secrets \subseteq D!expand_s /\ DSA.Masks \subseteq D!expand_mask
  /\ KEM.Matrices \subseteq M!_matrix /\ KEM.Secrets \subseteq M!Vectors(1) /\ KEM.Noise \subseteq M!Noises
\* What is exported are lockers.
ASSUME LockersAssumption == S!SCCAssumption

Init == D!Init \/ M!Init \/ E!Init \/ S!Init \/ C!Init \/ A!Init \/ H!Init
Next ==
  \/ m.alg = "ML-DSA" /\ D!Next
  \/ m.alg = "ML-KEM" /\ M!Next
  \/ m.alg \in {"wei", "ed", "mont"} /\ E!Next
  \/ m.alg = "scc" /\ S!Next
  \/ m.alg = "cipher" /\ C!Next
  \/ m.alg \in {"aead", "field"} /\ A!Next
  \/ m.alg \in {"keccak", "hash"} /\ H!Next
Spec == Init /\ [][Next]_m

-----------------------------------------------------------------------------
\* What was signed verifies, what was encapsulated, sealed, enciphered or exported comes back, and both
\* owners of an exchange come to one secret: at the largest noise, with every clamped scalar, and in an
\* implementation with other limits (mldsa_model.py, mlkem_model.py, ecc_model.py, aead_ref.py, scc_core.py).
RoundTrips ==
  /\ m.alg = "ML-DSA" => D!RoundTrips
  /\ m.alg = "ML-KEM" => M!RoundTrips
  /\ m.alg \in {"wei", "ed", "mont"} => E!RoundTrips
  /\ m.alg = "scc" => S!RoundTrips
  /\ m.alg = "cipher" => C!RoundTrips
  /\ m.alg \in {"aead", "field"} => A!RoundTrips

\* Nothing else does: no other ciphertext gives the secret, no signature verifies that the key could not
\* have made, no other image is imported than one that was exported to this SCC; and there is one encoding
\* of hints, keys and points, one message, customization and key for each input of a hash, and one
\* text, associated data, nonce and key for each tag of Ascon.
OnlyTheOriginal ==
  /\ m.alg = "ML-DSA" => D!OneEncoding
  /\ m.alg = "ML-KEM" => M!OnlyTheOriginal /\ M!OneEncoding
  /\ m.alg \in {"wei", "ed", "mont"} => E!OnlyTheOriginal /\ E!OneEncoding
  /\ m.alg = "scc" => S!OnlyTheOriginal
  /\ m.alg = "aead" => A!OnlyTheOriginal /\ A!OneEncoding
  /\ m.alg = "hash" => H!OneEncoding

\* A signature of ML-DSA that the rejection lets out could have been made with any private key, and no two
\* iterations of a signature draw their masks from one seed (sign_gen of mldsa_model.py).
KeyIsHidden == m.alg = "ML-DSA" => D!KeyIsHidden

\* The references that several files have of one function are the same function: Keccak-f of both files
\* round by round, GHASH, POLYVAL and the masks by each of their multiplications, and both GCM-SIVs.
ReferencesAgree ==
  /\ m.alg \in {"aead", "field"} => A!ReferencesAgree
  /\ m.alg \in {"keccak", "hash"} => H!ReferencesAgree
=============================================================================
