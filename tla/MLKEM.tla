------------------------------- MODULE MLKEM -------------------------------
(***************************************************************************)
(* An ML-KEM locker, src/kat/mlkem-kat.py (class Mach without its          *)
(* deliberate faults): keys and ciphertexts loaded and emitted in pieces,  *)
(* key generation, encapsulation and decapsulation, and the shared secret  *)
(* that one kl.derive takes out.                                           *)
(*                                                                         *)
(* A field is a sequence of units, some bytes each; encapsk is a subfield  *)
(* of decapsk.  What the algorithms compute is given by constants, a       *)
(* random value is the number of its draw.                                 *)
(***************************************************************************)
EXTENDS Integers, Sequences

CONSTANTS
  Units,             \* values of a piece of a field
  ZeroUnit,          \* the all-zero piece
  DkSize, CtSize, SsSize, \* units of decapsk, ciphertext and sharedkey
  eo, EkSize,        \* encapsk is the units eo + 1 .. eo + EkSize of decapsk
  Transfers,         \* sequences of units that one Form B kl.exec may carry
  Emissions,         \* numbers of units that one Form C kl.exec may ask for
  Targets,           \* States that kl.setst may name
  Lengths,           \* lengths of keys and of kl.derive, in units
  ek_check(_),       \* the modulus check of an encapsk
  dk_check(_),       \* the hash check of a decapsk
  keygen_internal(_),\* the decapsk of a draw
  encaps(_, _),      \* <<sharedkey, ciphertext>> for an encapsk and a draw
  decaps(_, _),      \* the sharedkey of a decapsk and a ciphertext
  Limited,           \* operations in which SampleNTT may reach its limit
  MaxDraws           \* bound: values drawn from the RBG

ST_READY == 1
S_GEN == 2   S_ENC == 3   S_DEC == 4    S_EIN == 5   S_DIN == 6
S_EOUT == 7  S_CIN == 8   S_COUT == 9   S_SOUT == 10
ST_FAILURE == 55

ALLOWED == 1..9
LOADING == {S_EIN, S_DIN, S_CIN}
FIELDS  == {"dk", "ct", "ss"}
FLAGS   == {"he", "hd", "hc", "hs"}
ERRORS  == {"invalid", "unsupported", "other"}   \* Error States
Sealed  == 1       \* the MachineExtension of the sealed variant

Length == [f \in FIELDS |-> CASE f = "dk" -> DkSize [] f = "ct" -> CtSize [] f = "ss" -> SsSize]
Values(f) == [1..Length[f] -> Units]
Zeros(f)  == [i \in 1..Length[f] |-> ZeroUnit]

\* The field that a State loads or emits, its size and where it begins.
FieldOf(s) == IF s \in {S_EIN, S_DIN, S_EOUT} THEN "dk" ELSE "ct"
fsize(s) == CASE s \in {S_EIN, S_EOUT} -> EkSize [] s = S_DIN -> DkSize [] OTHER -> CtSize
base(s)  == IF s \in {S_EIN, S_EOUT} THEN eo ELSE 0

ek(dk) == [i \in 1..EkSize |-> dk[eo + i]]

ASSUME SizeAssumption ==
  /\ DkSize \in Nat \ {0} /\ CtSize \in Nat \ {0} /\ SsSize \in Nat \ {0}
  /\ EkSize \in Nat \ {0} /\ eo \in Nat /\ eo + EkSize <= DkSize
  /\ ZeroUnit \in Units
  /\ Transfers \subseteq Seq(Units) /\ Emissions \subseteq Nat /\ Lengths \subseteq Nat
  /\ Limited \subseteq {S_GEN, S_ENC, S_DEC} /\ MaxDraws \in Nat
ASSUME AlgorithmAssumption ==
  /\ \A dk \in Values("dk") : dk_check(dk) \in BOOLEAN /\ ek_check(ek(dk)) \in BOOLEAN
  /\ \A r \in 1..MaxDraws :
       /\ keygen_internal(r) \in Values("dk")
       /\ dk_check(keygen_internal(r)) /\ ek_check(ek(keygen_internal(r)))
  /\ \A dk \in Values("dk") : ek_check(ek(dk)) =>
       \A r \in 1..MaxDraws : encaps(ek(dk), r) \in Values("ss") \X Values("ct")
  /\ \A dk \in Values("dk") : dk_check(dk) =>
       \A ct \in Values("ct") : decaps(dk, ct) \in Values("ss")

VARIABLES
  st,     \* State, 0 when inert
  err,    \* the Error State of an inert locker
  W,      \* MachineUse: units transferred
  flags,  \* the Has flags that are set
  field,  \* the fields
  mext,   \* MachineExtension: 1 for the sealed variant
  draws,  \* values drawn from the RBG so far
  out     \* what the last instruction put out, or gave to the destination of kl.derive

vars == <<st, err, W, flags, field, mext, draws, out>>

NoOutput  == [kind |-> "none"]
Emitted(u)   == [kind |-> "emitted", units |-> u]
Secret(k, r) == [kind |-> "secret", units |-> k, readable |-> r]

TypeOK ==
  /\ st \in {0} \cup 1..10 \cup {ST_FAILURE}
  /\ err \in ERRORS \cup {"none"}
  /\ W \in Nat /\ (st \in LOADING \cup {S_EOUT, S_COUT} => W <= fsize(st))
  /\ flags \subseteq FLAGS
  /\ DOMAIN field = FIELDS /\ \A f \in FIELDS : field[f] \in Values(f)
  /\ mext \in {0, Sealed}
  /\ draws \in 0..MaxDraws
  /\ out.kind \in {"none", "emitted", "secret"}

Init ==
  /\ st \in {0, ST_READY}                   \* a non-zero MachinePolicy is unsupported
  /\ err = IF st = 0 THEN "unsupported" ELSE "none"
  /\ W = 0 /\ flags = {} /\ field = [f \in FIELDS |-> Zeros(f)]
  /\ mext \in {0, Sealed} /\ draws = 0 /\ out = NoOutput

-----------------------------------------------------------------------------
\* The fields f with those in fs zeroed, and the flags that this clears.
Zeroed(f, fs) == [x \in FIELDS |-> IF x \in fs THEN Zeros(x) ELSE f[x]]
FlagsOf(fs) == {h \in FLAGS : \/ "dk" \in fs /\ h \in {"he", "hd"}
                              \/ "ct" \in fs /\ h = "hc"
                              \/ "ss" \in fs /\ h = "hs"}

\* The locker enters Error State e: its Content is cleared (Rule GR15).
Error(e) ==
  st' = 0 /\ err' = e /\ flags' = {} /\ field' = Zeroed(field, FIELDS) /\ UNCHANGED mext
_invalid == Error("invalid")

\* Mutant: a load left incomplete keeps what was loaded.
NothingIncomplete(w) == {}
\* The field whose load is left incomplete.
Incomplete(w) == IF st \in LOADING /\ w < fsize(st) THEN {FieldOf(st)} ELSE {}

\* Mutant: the secret survives when the emission of its ciphertext is abandoned.
LeavingWithSecret(new, w) == Incomplete(w) \cup (IF st = S_SOUT THEN {"ss"} ELSE {})
ZeroedOnLeaving(new, w) ==
  Incomplete(w) \cup (IF st = S_SOUT \/ (st = S_COUT /\ new # S_SOUT) THEN {"ss"} ELSE {})

ZeroedOnEntering(new) ==
  CASE new \in {ST_READY, S_ENC, S_DEC} -> {"ss"}
    [] new \in {S_EIN, S_DIN} -> {"dk"}
    [] new = S_CIN -> {"ct", "ss"}
    [] OTHER -> {}

Required(new) == CASE new \in {S_ENC, S_EOUT} -> {"he"} [] new = S_DEC -> {"hd", "hc"}
                   [] new = S_COUT -> {"hc"} [] OTHER -> {}

\* Leaves the State with fields f, flags fl and w units transferred, for new.
_goto(new, f, fl, w) ==
  LET zeroed == ZeroedOnLeaving(new, w) \cup ZeroedOnEntering(new)
      kept   == fl \ FlagsOf(zeroed)
  IN /\ W' = 0
     /\ \/ Required(new) \subseteq kept
           /\ st' = new /\ flags' = kept /\ field' = Zeroed(f, zeroed) /\ UNCHANGED <<err, mext>>
        \/ ~(Required(new) \subseteq kept) /\ _invalid

_fail == st' = ST_FAILURE /\ W' = 0 /\ UNCHANGED <<err, mext>>

-----------------------------------------------------------------------------
(* The instructions.                                                       *)

setste(e) == Error(e) /\ out' = NoOutput /\ UNCHANGED <<W, draws>>

SetstAdmitted(n) == /\ st = ST_FAILURE => n = ST_READY
                    /\ n \in ALLOWED
                    /\ n = st => n \in {ST_READY} \cup LOADING
setst(n) ==
  /\ st # 0
  /\ \/ SetstAdmitted(n) /\ _goto(n, field, flags, W)
     \/ ~SetstAdmitted(n) /\ _invalid /\ UNCHANGED W
  /\ out' = NoOutput /\ UNCHANGED draws

Take(data) == LET left == fsize(st) - W IN IF Len(data) < left THEN Len(data) ELSE left

Loaded(data) ==
  [i \in 1..Length[FieldOf(st)] |->
     IF i \in base(st) + W + 1 .. base(st) + W + Take(data)
       THEN data[i - base(st) - W] ELSE field[FieldOf(st)][i]]

\* Mutant: an encapsk is taken without its modulus check.
EncapskUnchecked(data) == Len(data) = Take(data)
EncapskAccepted(data)  == Len(data) = Take(data) /\ ek_check(ek(Loaded(data)))

\* The last transfer of a load.
LoadEnds(data) ==
  LET dk == Loaded(data)
      loaded == [field EXCEPT ![FieldOf(st)] = Loaded(data)]
      kept == UNCHANGED <<st, err, mext>> /\ field' = loaded /\ W' = W + Take(data)
  IN \/ st = S_EIN /\ EncapskAccepted(data) /\ kept /\ flags' = flags \cup {"he"}
     \/ st = S_EIN /\ ~EncapskAccepted(data)
          /\ _fail /\ field' = Zeroed(field, {"dk"}) /\ flags' = flags \ FlagsOf({"dk"})
     \/ st = S_DIN /\ dk_check(dk) /\ Len(data) = Take(data)
          /\ kept
          /\ flags' = (flags \ {"he"}) \cup {"hd"} \cup (IF ek_check(ek(dk)) THEN {"he"} ELSE {})
     \/ st = S_DIN /\ ~(dk_check(dk) /\ Len(data) = Take(data)) /\ _invalid /\ W' = W + Take(data)
     \/ st = S_CIN /\ Len(data) > Take(data)
          /\ _fail /\ field' = Zeroed(field, {"ct"}) /\ flags' = flags \ FlagsOf({"ct"})
     \/ st = S_CIN /\ Len(data) = Take(data) /\ _goto(ST_READY, loaded, flags \cup {"hc"}, W + Take(data))

load(data) ==
  /\ st # 0
  /\ \/ (st \notin LOADING \/ W >= fsize(st)) /\ _invalid /\ UNCHANGED W
     \/ /\ st \in LOADING /\ W + Take(data) < fsize(st)
        /\ field' = [field EXCEPT ![FieldOf(st)] = Loaded(data)]
        /\ W' = W + Take(data)
        /\ UNCHANGED <<st, err, flags, mext>>
     \/ st \in LOADING /\ W < fsize(st) /\ W + Take(data) >= fsize(st) /\ LoadEnds(data)
  /\ out' = NoOutput /\ UNCHANGED draws

AfterEmission == IF st = S_COUT /\ "hs" \in flags THEN S_SOUT ELSE ST_READY

emit(n) ==
  /\ st # 0
  /\ \/ (st \notin {S_EOUT, S_COUT} \/ W + n > fsize(st)) /\ _invalid /\ UNCHANGED W
          /\ out' = NoOutput
     \/ /\ st \in {S_EOUT, S_COUT} /\ W + n <= fsize(st)
        /\ out' = Emitted(SubSeq(field[FieldOf(st)], base(st) + W + 1, base(st) + W + n))
        /\ \/ W + n < fsize(st) /\ W' = W + n /\ UNCHANGED <<st, err, flags, field, mext>>
           \/ W + n = fsize(st) /\ _goto(AfterEmission, field, flags, W + n)
  /\ UNCHANGED draws

\* The operation draws, unless the RBG fails.
Drawing == st \in {S_GEN, S_ENC}
GenerateKeyPair ==
  st = S_GEN /\ _goto(S_EOUT, [field EXCEPT !["dk"] = keygen_internal(draws + 1)], flags \cup {"he", "hd"}, W)
Encapsulate ==
  LET Kc == encaps(ek(field["dk"]), draws + 1) IN
  st = S_ENC /\ _goto(S_COUT, [field EXCEPT !["ss"] = Kc[1], !["ct"] = Kc[2]], flags \cup {"hs", "hc"}, W)
Decapsulate ==
  st = S_DEC /\ _goto(S_SOUT, [field EXCEPT !["ss"] = decaps(field["dk"], field["ct"])], flags \cup {"hs"}, W)

exec ==
  /\ st # 0
  /\ \/ st \notin {S_GEN, S_ENC, S_DEC} /\ _invalid /\ UNCHANGED <<W, draws>>
     \/ Drawing /\ _invalid /\ UNCHANGED <<W, draws>>                     \* RBGFail
     \/ st \in Limited /\ (Drawing => draws < MaxDraws) /\ _fail /\ UNCHANGED <<flags, field>>
          /\ draws' = IF Drawing THEN draws + 1 ELSE draws
     \/ draws < MaxDraws /\ (GenerateKeyPair \/ Encapsulate) /\ draws' = draws + 1
     \/ Decapsulate /\ UNCHANGED draws
  /\ out' = NoOutput

\* kl.derive: an endpoint is a key of some length, readable when its locker can
\* put out what is derived with it, a hash input, or not in the list.
Endpoints == [kind : {"key"}, length : Lengths, src_out : BOOLEAN]
               \cup [kind : {"hash"}, length : {SsSize}, src_out : {FALSE}]
               \cup [kind : {"other"}, length : {SsSize}, src_out : {FALSE}]

EndpointAdmitted(dest) == /\ dest.kind # "other"
                          /\ mext = Sealed => ~dest.src_out
LengthAdmitted(dest, ln) == IF dest.kind = "key" THEN dest.length <= ln /\ dest.length <= SsSize
                                                 ELSE ln = SsSize

\* Mutant: the secret is left for another kl.derive.
DerivedAgain == UNCHANGED <<st, err, W, flags, field, mext>>
\* A field source serves one kl.derive.
Derived == _goto(ST_READY, field, flags, W)

derive(dest, ln) ==
  /\ st # 0
  /\ \/ ~(st = S_SOUT /\ EndpointAdmitted(dest)) /\ _invalid /\ out' = NoOutput /\ UNCHANGED W
     \/ /\ st = S_SOUT /\ EndpointAdmitted(dest) /\ ~LengthAdmitted(dest, ln)
        /\ out' = NoOutput /\ UNCHANGED <<st, err, W, flags, field, mext>>
     \/ /\ st = S_SOUT /\ EndpointAdmitted(dest) /\ LengthAdmitted(dest, ln)
        /\ Derived
        /\ out' = Secret(SubSeq(field["ss"], 1, dest.length), dest.src_out)
  /\ UNCHANGED draws

-----------------------------------------------------------------------------
Next ==
  \/ \E e \in ERRORS : setste(e)
  \/ \E n \in Targets : setst(n)
  \/ \E data \in Transfers : load(data)
  \/ \E n \in Emissions : emit(n)
  \/ exec
  \/ \E dest \in Endpoints, ln \in Lengths : derive(dest, ln)

Spec == Init /\ [][Next]_vars
=============================================================================
