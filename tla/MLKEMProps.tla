----------------------------- MODULE MLKEMProps -----------------------------
(***************************************************************************)
(* What makes the ML-KEM locker of MLKEM correct.                          *)
(***************************************************************************)
EXTENDS MLKEM

\* A secret that is held is the one of the fields beside it: of the encapsk and
\* of the ciphertext that its draw gave, or of the decapsk and the ciphertext
\* decapsulated.  No load, restart, abandoned emission or failed operation in
\* between leaves it beside another key or ciphertext.
SecretMatchesFields ==
  "hs" \in flags =>
    \/ /\ "he" \in flags
       /\ \E r \in 1..draws : <<field["ss"], field["ct"]>> = encaps(ek(field["dk"]), r)
    \/ {"hd", "hc"} \subseteq flags /\ field["ss"] = decaps(field["dk"], field["ct"])

\* The checks made when a key was loaded, and when a State was entered, still
\* hold when the key is used and whenever the locker is in that State: an
\* operation never runs on a key that was not checked.
ChecksStillHold ==
  /\ "he" \in flags => ek_check(ek(field["dk"]))
  /\ "hd" \in flags => dk_check(field["dk"])
  /\ st \in {S_ENC, S_EOUT} => "he" \in flags
  /\ st = S_DEC => {"hd", "hc"} \subseteq flags
  /\ st = S_COUT => "hc" \in flags
  /\ st = S_SOUT => "hs" \in flags

\* What a load left incomplete, and a secret that was given or dropped, is not
\* found again: a unit that no flag vouches for is zero, but for the units
\* transferred so far while their load is under way.
Vouched(f, i) ==
  \/ f = "dk" /\ "hd" \in flags
  \/ f = "dk" /\ "he" \in flags /\ i \in eo + 1 .. eo + EkSize
  \/ f = "ct" /\ "hc" \in flags
  \/ f = "ss" /\ "hs" \in flags
  \/ st \in LOADING /\ f = FieldOf(st) /\ i \in base(st) + 1 .. base(st) + W
UnvouchedUnitsAreZero ==
  \A f \in FIELDS : \A i \in 1..Length[f] : Vouched(f, i) \/ field[f][i] = ZeroUnit

\* A locker in an Error State, whatever it was doing, holds nothing (Rule GR15).
ErrorStateIsEmpty == st = 0 => flags = {} /\ field = [f \in FIELDS |-> Zeros(f)]

\* The locker implements a source of secrets: given once, after the whole
\* ciphertext was put out in order, and never readable when sealed.
HasSecret == "hs" \in flags
Source == INSTANCE SecretSource WITH
  Secrets     <- Values("ss"),
  Ciphertexts <- Values("ct"),
  secret      <- IF HasSecret THEN field["ss"] ELSE <<>>,
  due         <- IF HasSecret /\ st = S_COUT THEN SubSeq(field["ct"], W + 1, CtSize) ELSE <<>>,
  sealed      <- mext = Sealed
SourceSpec == Source!Spec
=============================================================================
