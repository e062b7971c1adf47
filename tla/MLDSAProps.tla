----------------------------- MODULE MLDSAProps -----------------------------
(***************************************************************************)
(* What makes the ML-DSA locker of MLDSA correct.                          *)
(***************************************************************************)
EXTENDS MLDSA

(* Fields ******************************************************************)

\* A locker that holds a private and a public key holds a key pair: no order
\* of loads, restarts, generations and derivations leaves the public key of
\* another private key beside the flags (setst clears and refuses for it).
KeyPairMatches ==
  {"HAS_PRIV", "HAS_PUB"} \subseteq flags => field["pubkey"] = pk_from_sk(field["privkey"])

\* What is left of a load that was not completed is never found again: a
\* field that its flag does not mark is zero, but for the units transferred
\* so far while its load is under way.
MarkOf(f) == CASE f = "privkey" -> "HAS_PRIV" [] f = "pubkey" -> "HAS_PUB" [] OTHER -> "HAS_MU"
UnmarkedFieldsAreZero ==
  \A f \in {"privkey", "pubkey", "mu"} :
    MarkOf(f) \notin flags =>
      \A i \in 1..Size[f] :
        (st \in LOADING /\ FieldOf(st) = f /\ i <= mu_use) \/ field[f][i] = ZeroUnit

\* A flag is set only when the whole field was written: in the State that
\* loads it, not before its last unit.
FlagMarksWholeField ==
  st \in LOADING /\ FlagOf(st) # {} => (FlagOf(st) \subseteq flags <=> mu_use = Size[FieldOf(st)])

\* An inert locker holds nothing (Rule GR15).
InertLockerIsEmpty ==
  inert => /\ field = [f \in FIELDS |-> Zeros(f)]
           /\ rnd = 0 /\ ads = NoADS /\ flags = {} /\ mu_use = 0

(* Signing *****************************************************************)

\* The random value of hedged signing is non-zero only while a hedged signing
\* operation is interrupted: every way out of it, export without ADS
\* included, destroys the value.
RndOnlyWhileHalted == rnd # 0 => st = S_SGEN /\ mu_use # 0 /\ ads # NoADS /\ flag("HEDGED")

\* A drawn random value signs one message with one key: neither resuming nor
\* restarting, nor any number of copies of a halted locker brought back by
\* imports, uses it for another.
OneMessagePerNonce == \A m, n \in nonces : m.rnd = n.rnd => m = n

\* A halted signature that software issues again ends, with a signature or in
\* Failure: the iterations done before each halt are not done again.
SigningEnds == (st = S_SGEN /\ mu_use # 0) ~> ~(st = S_SGEN /\ mu_use # 0)

\* The locker implements signing sessions: halts and resumptions, with or
\* without export and import in between, do not show in the signature.
SessionOf(s) == IF s.st = S_SGEN /\ s.mu_use # 0 /\ s.ads # NoADS
                  THEN <<s.field["privkey"], s.field["mu"], s.rnd>> ELSE <<>>
SignatureOf(s) == IF s.st = S_SOUT THEN s.field["signature"] ELSE <<>>
Held == [st |-> st, mu_use |-> mu_use, ads |-> ads, field |-> field, rnd |-> rnd]
Session == INSTANCE SigningSession WITH
  Keys      <- {k \in Values("privkey") : sk_ok(k)},
  Messages  <- Values("mu"),
  Sign      <- sign,
  MaxNonce  <- MaxDraws,
  session   <- SessionOf(Held),
  signature <- SignatureOf(Held),
  saved     <- {<<SessionOf(s), SignatureOf(s)>> : s \in snaps},
  begun     <- 1..draws
SessionSpec == Session!Spec
=============================================================================
