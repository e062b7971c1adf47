---------------------------- MODULE MLKEM_proofs ----------------------------
(***************************************************************************)
(* Proofs about MLKEM, for fields and transfers of every size and for all  *)
(* key generation, encapsulation and decapsulation functions that the      *)
(* assumptions admit.                                                      *)
(*                                                                         *)
(* The properties are not inductive as they stand: they say nothing of how *)
(* far a load has come when its flag is set, nor of the States in which a  *)
(* secret may be held.  LoadOK adds both.  Almost every instruction ends   *)
(* in _goto, so one lemma (GotoStep) says what it needs of the fields and  *)
(* flags that it is called with.  With the invariant, every step is one of *)
(* SecretSource or a stutter (ImplementsSource).                           *)
(***************************************************************************)
EXTENDS MLKEMProps, SequenceTheorems, TLAPS

USE DEF ST_READY, S_GEN, S_ENC, S_DEC, S_EIN, S_DIN, S_EOUT, S_CIN, S_COUT, S_SOUT, ST_FAILURE,
        ALLOWED, LOADING, FIELDS, FLAGS, Sealed

Typed ==
  /\ st \in {0} \cup 1..10 \cup {ST_FAILURE}
  /\ err \in ERRORS \cup {"none"}
  /\ W \in Nat /\ (st \in LOADING \cup {S_EOUT, S_COUT} => W <= fsize(st))
  /\ flags \subseteq FLAGS
  /\ DOMAIN field = FIELDS /\ \A f \in FIELDS : field[f] \in Values(f)
  /\ mext \in {0, Sealed}

LoadOK ==
  /\ st = S_EIN => "hd" \notin flags /\ ("he" \in flags <=> W = EkSize)
  /\ st = S_DIN => ("hd" \in flags <=> W = DkSize) /\ ("he" \in flags => W = DkSize)
  /\ st = S_CIN => "hc" \notin flags /\ W < CtSize
  /\ "hs" \in flags => st \in {S_COUT, S_SOUT}

StateOK ==
  /\ Typed /\ LoadOK
  /\ SecretMatchesFields /\ ChecksStillHold /\ UnvouchedUnitsAreZero /\ ErrorStateIsEmpty

IInv == StateOK /\ draws \in 0..MaxDraws /\ out.kind \in {"none", "emitted", "secret"}

\* What the flags fl say of fields f.
VouchedBy(fl, x, i) ==
  \/ x = "dk" /\ "hd" \in fl
  \/ x = "dk" /\ "he" \in fl /\ i \in eo + 1 .. eo + EkSize
  \/ x = "ct" /\ "hc" \in fl
  \/ x = "ss" /\ "hs" \in fl
KeysOK(f, fl) == /\ "he" \in fl => ek_check(ek(f["dk"]))
                 /\ "hd" \in fl => dk_check(f["dk"])
SecretOK(f, fl, d) ==
  \/ "he" \in fl /\ \E r \in 1..d : <<f["ss"], f["ct"]>> = encaps(ek(f["dk"]), r)
  \/ {"hd", "hc"} \subseteq fl /\ f["ss"] = decaps(f["dk"], f["ct"])
Fields(f) == DOMAIN f = FIELDS /\ \A x \in FIELDS : f[x] \in Values(x)

\* The all-zero fields.
LEMMA ZerosType ==
  /\ \A x \in FIELDS : Zeros(x) \in Values(x) /\ \A i \in 1..Length[x] : Zeros(x)[i] = ZeroUnit
  /\ Length["dk"] = DkSize /\ Length["ct"] = CtSize /\ Length["ss"] = SsSize
  <1>1. Length["dk"] = DkSize /\ Length["ct"] = CtSize /\ Length["ss"] = SsSize
    BY DEF Length
  <1>2. ASSUME NEW x \in FIELDS
        PROVE  Zeros(x) \in Values(x) /\ \A i \in 1..Length[x] : Zeros(x)[i] = ZeroUnit
    BY SizeAssumption DEF Zeros, Values
  <1> QED
    BY <1>1, <1>2

LEMMA SizesType ==
  /\ \A s \in LOADING \cup {S_EOUT, S_COUT} : fsize(s) \in Nat \ {0} /\ FieldOf(s) \in {"dk", "ct"} /\ base(s) \in Nat
  /\ \A s \in LOADING \cup {S_EOUT, S_COUT} : base(s) + fsize(s) <= Length[FieldOf(s)]
  BY SizeAssumption, ZerosType DEF fsize, FieldOf, base

LEMMA ZeroedFields ==
  ASSUME NEW f, Fields(f), NEW fs
  PROVE  /\ Fields(Zeroed(f, fs))
         /\ \A x \in FIELDS : Zeroed(f, fs)[x] = IF x \in fs THEN Zeros(x) ELSE f[x]
  BY ZerosType DEF Fields, Zeroed

\* The Content of an Error State.
LEMMA ErrorStep ==
  ASSUME IInv, NEW e \in ERRORS, Error(e), W' \in Nat
  PROVE  StateOK'
  <1>1. /\ st' = 0 /\ err' = e /\ flags' = {} /\ mext' = mext
        /\ field' = [x \in FIELDS |-> Zeros(x)]
    BY DEF Error, Zeroed
  <1>2. Typed'
    <2>1. Fields(field')
      BY <1>1, ZerosType DEF Fields
    <2>2. mext' \in {0, Sealed}
      BY <1>1 DEF IInv, StateOK, Typed
    <2> QED
      BY <1>1, <2>1, <2>2 DEF Typed, Fields
  <1>3. UnvouchedUnitsAreZero'
    BY <1>1, ZerosType DEF UnvouchedUnitsAreZero
  <1> QED
    BY <1>1, <1>2, <1>3 DEF StateOK, LoadOK, SecretMatchesFields, ChecksStillHold, ErrorStateIsEmpty

LEMMA InvalidStep == ASSUME IInv, _invalid, W' \in Nat PROVE StateOK'
  BY ErrorStep DEF _invalid, ERRORS

\* The transition to a new State, with the fields and flags of the moment: the
\* checks hold of the keys, a unit is vouched for, under a load or zero, and a
\* secret survives only on its way to its output.
LEMMA GotoStep ==
  ASSUME IInv, draws' \in 0..MaxDraws,
         NEW new \in 1..10, NEW f, NEW fl, NEW w, _goto(new, f, fl, w),
         Fields(f), fl \subseteq FLAGS, KeysOK(f, fl),
         \A x \in FIELDS : \A i \in 1..Length[x] :
           VouchedBy(fl, x, i) \/ x \in Incomplete(w) \/ f[x][i] = ZeroUnit,
         "hs" \in fl => /\ st \notin LOADING
                        /\ new \in {S_COUT, S_SOUT} \/ st \in {S_COUT, S_SOUT}
                        /\ SecretOK(f, fl, draws'),
         new = S_SOUT => "hs" \in fl /\ st # S_SOUT
  PROVE  StateOK'
  <1> DEFINE zeroed == ZeroedOnLeaving(new, w) \cup ZeroedOnEntering(new)
             kept   == fl \ FlagsOf(zeroed)
  <1>1. W' = 0
    BY DEF _goto
  <1>2. CASE _invalid
    BY <1>1, <1>2, InvalidStep
  <1>3. CASE /\ Required(new) \subseteq kept
             /\ st' = new /\ flags' = kept /\ field' = Zeroed(f, zeroed) /\ UNCHANGED <<err, mext>>
    <2> HIDE DEF zeroed
    <2>1. Fields(field') /\ \A x \in FIELDS : field'[x] = IF x \in zeroed THEN Zeros(x) ELSE f[x]
      BY <1>3, ZeroedFields
    <2>2. /\ flags' \subseteq fl
          /\ "dk" \in zeroed => "he" \notin flags' /\ "hd" \notin flags'
          /\ "ct" \in zeroed => "hc" \notin flags'
          /\ "ss" \in zeroed => "hs" \notin flags'
      BY <1>3 DEF FlagsOf
    <2>3. /\ "dk" \notin zeroed => ("he" \in fl <=> "he" \in flags') /\ ("hd" \in fl <=> "hd" \in flags')
          /\ "ct" \notin zeroed => ("hc" \in fl <=> "hc" \in flags')
          /\ "ss" \notin zeroed => ("hs" \in fl <=> "hs" \in flags')
      BY <1>3 DEF FlagsOf
    <2>4. Typed'
      <3>1. W' \in Nat /\ (st' \in LOADING \cup {S_EOUT, S_COUT} => W' <= fsize(st'))
        BY <1>1, SizesType
      <3>2. st' \in 1..10 /\ err' \in ERRORS \cup {"none"} /\ mext' \in {0, Sealed}
        BY <1>3 DEF IInv, StateOK, Typed
      <3> QED
        BY <2>1, <2>2, <3>1, <3>2 DEF Typed, Fields
    <2>5. Required(st') \subseteq flags'
      BY <1>3
    <2>6. /\ new \in {ST_READY, S_ENC, S_DEC, S_CIN} => "ss" \in zeroed
          /\ new \in {S_EIN, S_DIN} => "dk" \in zeroed
          /\ new = S_CIN => "ct" \in zeroed
          /\ st = S_SOUT \/ (st = S_COUT /\ new # S_SOUT) => "ss" \in zeroed
          /\ Incomplete(w) \subseteq zeroed
      <3>1. ZeroedOnEntering(new) \subseteq zeroed /\ ZeroedOnLeaving(new, w) \subseteq zeroed
        BY DEF zeroed
      <3>2. /\ new \in {ST_READY, S_ENC, S_DEC, S_CIN} => "ss" \in ZeroedOnEntering(new)
            /\ new \in {S_EIN, S_DIN} => "dk" \in ZeroedOnEntering(new)
            /\ new = S_CIN => "ct" \in ZeroedOnEntering(new)
        BY DEF ZeroedOnEntering
      <3>3. /\ st = S_SOUT \/ (st = S_COUT /\ new # S_SOUT) => "ss" \in ZeroedOnLeaving(new, w)
            /\ Incomplete(w) \subseteq ZeroedOnLeaving(new, w)
        BY DEF ZeroedOnLeaving
      <3> QED
        BY <3>1, <3>2, <3>3
    <2>7. "hs" \in flags' => /\ zeroed = {} /\ new \in {S_COUT, S_SOUT} /\ SecretOK(f, fl, draws')
      <3> SUFFICES ASSUME "hs" \in flags' PROVE zeroed = {} /\ new \in {S_COUT, S_SOUT} /\ SecretOK(f, fl, draws')
        OBVIOUS
      <3>1. "hs" \in fl /\ "ss" \notin zeroed
        BY <2>2
      <3>2. st \notin LOADING /\ SecretOK(f, fl, draws') /\ new \in {S_COUT, S_SOUT}
        BY <2>6, <3>1
      <3>3. ZeroedOnEntering(new) = {}
        BY <3>2 DEF ZeroedOnEntering
      <3>4. Incomplete(w) = {}
        BY <3>2 DEF Incomplete
      <3>5. ZeroedOnLeaving(new, w) = {}
        BY <2>6, <3>1, <3>4 DEF ZeroedOnLeaving
      <3> QED
        BY <3>2, <3>3, <3>5 DEF zeroed
    <2>8. new = S_SOUT => "hs" \in flags'
      <3> SUFFICES ASSUME new = S_SOUT PROVE "hs" \in flags'
        OBVIOUS
      <3>1. ZeroedOnEntering(new) = {} /\ Incomplete(w) = {}
        BY DEF ZeroedOnEntering, Incomplete
      <3>2. ZeroedOnLeaving(new, w) = {}
        BY <3>1 DEF ZeroedOnLeaving
      <3> QED
        BY <2>3, <3>1, <3>2 DEF zeroed
    <2>9. ChecksStillHold'
      <3>1. KeysOK(field', flags')
        BY <2>1, <2>2 DEF KeysOK
      <3>2. /\ st' \in {S_ENC, S_EOUT} => "he" \in flags'
            /\ st' = S_DEC => {"hd", "hc"} \subseteq flags'
            /\ st' = S_COUT => "hc" \in flags'
        BY <2>5 DEF Required
      <3> QED
        BY <1>3, <2>8, <3>1, <3>2 DEF ChecksStillHold, KeysOK
    <2>10. SecretMatchesFields'
      <3> SUFFICES ASSUME "hs" \in flags' PROVE SecretOK(field', flags', draws')
        BY DEF SecretMatchesFields, SecretOK
      <3>1. \A x \in FIELDS : field'[x] = f[x]
        BY <2>1, <2>7
      <3>2. flags' = fl /\ SecretOK(f, fl, draws')
        BY <1>3, <2>7 DEF FlagsOf
      <3> QED
        BY <3>1, <3>2 DEF SecretOK
    <2>11. UnvouchedUnitsAreZero'
      <3>1. ASSUME NEW x \in FIELDS, NEW i \in 1..Length[x], ~VouchedBy(flags', x, i)
            PROVE  field'[x][i] = ZeroUnit
        <4>1. CASE x \in zeroed
          BY <2>1, <4>1, ZerosType
        <4>2. CASE x \notin zeroed
          <5>1. ~VouchedBy(fl, x, i) /\ x \notin Incomplete(w)
            BY <2>3, <2>6, <3>1, <4>2 DEF VouchedBy
          <5> QED
            BY <2>1, <4>2, <5>1
        <4> QED
          BY <4>1, <4>2
      <3> QED
        BY <3>1 DEF UnvouchedUnitsAreZero, Vouched, VouchedBy
    <2>12. LoadOK'
      BY <1>1, <1>3, <2>2, <2>6, <2>7, SizeAssumption DEF LoadOK
    <2> QED
      BY <1>3, <2>4, <2>9, <2>10, <2>11, <2>12 DEF StateOK, ErrorStateIsEmpty
  <1> QED
    BY <1>2, <1>3 DEF _goto

\* The fields of a locker in IInv, as GotoStep takes them.
LEMMA HeldFields ==
  ASSUME IInv, NEW w, w = W \/ st \notin LOADING
  PROVE  /\ Fields(field) /\ flags \subseteq FLAGS /\ KeysOK(field, flags)
         /\ \A x \in FIELDS : \A i \in 1..Length[x] :
              VouchedBy(flags, x, i) \/ x \in Incomplete(w) \/ field[x][i] = ZeroUnit
         /\ "hs" \in flags => st \in {S_COUT, S_SOUT} /\ SecretOK(field, flags, draws)
  <1>1. Fields(field) /\ flags \subseteq FLAGS
    BY DEF IInv, StateOK, Typed, Fields
  <1>2. KeysOK(field, flags)
    BY DEF IInv, StateOK, ChecksStillHold, KeysOK
  <1>3. ASSUME NEW x \in FIELDS, NEW i \in 1..Length[x],
               ~VouchedBy(flags, x, i), x \notin Incomplete(w)
        PROVE  field[x][i] = ZeroUnit
    <2>1. CASE st \notin LOADING
      BY <1>3, <2>1 DEF IInv, StateOK, UnvouchedUnitsAreZero, Vouched, VouchedBy
    <2>2. CASE st \in LOADING /\ x # FieldOf(st)
      BY <1>3, <2>2 DEF IInv, StateOK, UnvouchedUnitsAreZero, Vouched, VouchedBy
    <2>3. CASE st \in LOADING /\ x = FieldOf(st)
      <3>1. W = fsize(st)
        <4>1. W \in Nat /\ W <= fsize(st) /\ fsize(st) \in Nat
          BY <2>3, SizesType DEF IInv, StateOK, Typed
        <4>2. ~(W < fsize(st))
          BY <1>3, <2>3 DEF Incomplete
        <4> QED
          BY <4>1, <4>2
      <3>2. CASE st = S_EIN
        <4>1. "he" \in flags /\ x = "dk" /\ base(st) = eo /\ W = EkSize
          BY <2>3, <3>1, <3>2 DEF IInv, StateOK, LoadOK, fsize, FieldOf, base
        <4> QED
          BY <1>3, <4>1 DEF IInv, StateOK, UnvouchedUnitsAreZero, Vouched, VouchedBy
      <3>3. CASE st = S_DIN
        BY <1>3, <2>3, <3>1, <3>3 DEF IInv, StateOK, LoadOK, fsize, FieldOf, VouchedBy
      <3>4. CASE st = S_CIN
        BY <3>1, <3>4, SizeAssumption DEF IInv, StateOK, LoadOK, fsize
      <3> QED
        BY <2>3, <3>2, <3>3, <3>4
    <2> QED
      BY <2>1, <2>2, <2>3
  <1>4. "hs" \in flags => st \in {S_COUT, S_SOUT} /\ SecretOK(field, flags, draws)
    BY DEF IInv, StateOK, LoadOK, SecretMatchesFields, SecretOK
  <1> QED
    BY <1>1, <1>2, <1>3, <1>4

\* A transition that changes no field and sets no flag.
LEMMA GotoHeld ==
  ASSUME IInv, draws' = draws, NEW new \in 1..10, NEW w, w = W \/ st \notin LOADING,
         _goto(new, field, flags, w),
         new = S_SOUT => "hs" \in flags /\ st # S_SOUT
  PROVE  StateOK'
  <1>1. draws' \in 0..MaxDraws
    BY DEF IInv
  <1>2. "hs" \in flags => /\ st \notin LOADING
                          /\ new \in {S_COUT, S_SOUT} \/ st \in {S_COUT, S_SOUT}
                          /\ SecretOK(field, flags, draws')
    BY HeldFields
  <1> QED
    BY <1>1, <1>2, HeldFields, GotoStep

LEMMA SameStep == ASSUME IInv, UNCHANGED <<st, err, W, flags, field, mext, draws>> PROVE StateOK'
  <1>1. Typed' /\ LoadOK'
    BY DEF IInv, StateOK, Typed, LoadOK
  <1>2. SecretMatchesFields' /\ ChecksStillHold' /\ ErrorStateIsEmpty'
    BY DEF IInv, StateOK, SecretMatchesFields, ChecksStillHold, ErrorStateIsEmpty
  <1>3. UnvouchedUnitsAreZero'
    BY DEF IInv, StateOK, UnvouchedUnitsAreZero, Vouched
  <1> QED
    BY <1>1, <1>2, <1>3 DEF StateOK

\* The Failure State, with one field zeroed, or none.
LEMMA FailStep ==
  ASSUME IInv, draws' \in Nat, _fail, NEW fs, fs = Incomplete(W),
         DOMAIN field' = FIELDS, \A x \in FIELDS : field'[x] = Zeroed(field, fs)[x],
         flags' = flags \ FlagsOf(fs), "hs" \notin flags
  PROVE  StateOK'
  <1>1. st' = ST_FAILURE /\ W' = 0 /\ err' = err /\ mext' = mext
    BY DEF _fail
  <1>2. Fields(field') /\ \A x \in FIELDS : field'[x] = IF x \in fs THEN Zeros(x) ELSE field[x]
    <2>1. Fields(field)
      BY HeldFields
    <2>2. /\ Fields(Zeroed(field, fs))
          /\ \A x \in FIELDS : Zeroed(field, fs)[x] = IF x \in fs THEN Zeros(x) ELSE field[x]
      BY <2>1, ZeroedFields
    <2> QED
      BY <2>2 DEF Fields
  <1>3. /\ flags' \subseteq flags /\ "hs" \notin flags'
        /\ "dk" \in fs => "he" \notin flags' /\ "hd" \notin flags'
        /\ "ct" \in fs => "hc" \notin flags'
    BY DEF FlagsOf
  <1>4. /\ "dk" \notin fs => ("he" \in flags <=> "he" \in flags') /\ ("hd" \in flags <=> "hd" \in flags')
        /\ "ct" \notin fs => ("hc" \in flags <=> "hc" \in flags')
    BY DEF FlagsOf
  <1>5. Typed'
    <2>1. err' \in ERRORS \cup {"none"} /\ mext' \in {0, Sealed} /\ flags' \subseteq FLAGS
      BY <1>1, <1>3 DEF IInv, StateOK, Typed
    <2> QED
      BY <1>1, <1>2, <2>1 DEF Typed, Fields
  <1>6. ChecksStillHold'
    <2>1. KeysOK(field, flags)
      BY HeldFields
    <2> QED
      BY <1>1, <1>2, <1>3, <2>1 DEF ChecksStillHold, KeysOK
  <1>7. UnvouchedUnitsAreZero'
    <2>1. ASSUME NEW x \in FIELDS, NEW i \in 1..Length[x], ~VouchedBy(flags', x, i)
          PROVE  field'[x][i] = ZeroUnit
      <3>1. CASE x \in fs
        BY <1>2, <3>1, ZerosType
      <3>2. CASE x \notin fs
        <4>1. ~VouchedBy(flags, x, i)
          BY <1>4, <2>1, <3>2 DEF VouchedBy
        <4>2. field[x][i] = ZeroUnit
          BY <3>2, <4>1, HeldFields
        <4> QED
          BY <1>2, <3>2, <4>2
      <3> QED
        BY <3>1, <3>2
    <2> QED
      BY <2>1 DEF UnvouchedUnitsAreZero, Vouched, VouchedBy
  <1> QED
    BY <1>1, <1>3, <1>5, <1>6, <1>7 DEF StateOK, LoadOK, SecretMatchesFields, ErrorStateIsEmpty
-----------------------------------------------------------------------------
(* Loads.                                                                  *)

\* The fields after a transfer of data.
LoadedFields(data) == [field EXCEPT ![FieldOf(st)] = Loaded(data)]

LEMMA TakeType ==
  ASSUME IInv, st \in LOADING, W < fsize(st), NEW data \in Transfers
  PROVE  /\ W \in Nat /\ Len(data) \in Nat /\ Take(data) \in 0..Len(data)
         /\ W + Take(data) <= fsize(st) /\ fsize(st) \in Nat /\ base(st) \in Nat
         /\ base(st) + fsize(st) <= Length[FieldOf(st)] /\ FieldOf(st) \in FIELDS
  <1>1. /\ fsize(st) \in Nat /\ base(st) \in Nat /\ FieldOf(st) \in FIELDS
        /\ base(st) + fsize(st) <= Length[FieldOf(st)]
    BY SizesType
  <1>2. W \in Nat
    BY DEF IInv, StateOK, Typed
  <1>3. Len(data) \in Nat
    <2>1. data \in Seq(Units)
      BY SizeAssumption
    <2> QED
      BY <2>1
  <1> QED
    BY <1>1, <1>2, <1>3 DEF Take

LEMMA LoadedType ==
  ASSUME IInv, st \in LOADING, W < fsize(st), NEW data \in Transfers
  PROVE  /\ Loaded(data) \in Values(FieldOf(st))
         /\ \A i \in 1..Length[FieldOf(st)] :
              i \notin base(st) + W + 1 .. base(st) + W + Take(data)
                => Loaded(data)[i] = field[FieldOf(st)][i]
         /\ Fields(LoadedFields(data))
         /\ LoadedFields(data)[FieldOf(st)] = Loaded(data)
         /\ \A x \in FIELDS \ {FieldOf(st)} : LoadedFields(data)[x] = field[x]
  <1> DEFINE F == FieldOf(st)  B == base(st)  T == Take(data)
  <1>1. /\ W \in Nat /\ Len(data) \in Nat /\ T \in 0..Len(data) /\ B \in Nat /\ F \in FIELDS
    BY TakeType
  <1>2. data \in Seq(Units)
    BY SizeAssumption
  <1>3. field[F] \in [1..Length[F] -> Units]
    BY <1>1 DEF IInv, StateOK, Typed, Values
  <1>4. Loaded(data) = [i \in 1..Length[F] |->
          IF i \in B + W + 1 .. B + W + T THEN data[i - B - W] ELSE field[F][i]]
    BY DEF Loaded
  <1>5. Length[F] \in Nat
    BY <1>1, SizeAssumption, ZerosType
  <1> HIDE DEF F, B, T
  <1>6. ASSUME NEW i \in 1..Length[F]
        PROVE  (IF i \in B + W + 1 .. B + W + T THEN data[i - B - W] ELSE field[F][i]) \in Units
    <2>1. CASE i \in B + W + 1 .. B + W + T
      <3>1. i - B - W \in 1..Len(data)
        BY <1>1, <1>5, <2>1
      <3> QED
        BY <1>2, <2>1, <3>1
    <2> QED
      BY <1>3, <2>1
  <1>7. Loaded(data) \in [1..Length[F] -> Units]
    BY <1>4, <1>6
  <1>8. \A i \in 1..Length[F] : i \notin B + W + 1 .. B + W + T => Loaded(data)[i] = field[F][i]
    BY <1>4
  <1>9. DOMAIN field = FIELDS /\ \A x \in FIELDS : field[x] \in Values(x)
    BY DEF IInv, StateOK, Typed
  <1>10. /\ DOMAIN LoadedFields(data) = FIELDS /\ LoadedFields(data)[F] = Loaded(data)
         /\ \A x \in FIELDS \ {F} : LoadedFields(data)[x] = field[x]
    BY <1>1, <1>9 DEF LoadedFields, F
  <1>11. Fields(LoadedFields(data))
    BY <1>7, <1>9, <1>10 DEF Fields, Values
  <1> QED
    BY <1>7, <1>8, <1>10, <1>11 DEF F, B, T, Values

\* A load under way has set no flag of its field.
LEMMA LoadUnderWay ==
  ASSUME IInv, st \in LOADING, W < fsize(st)
  PROVE  /\ "hs" \notin flags
         /\ st \in {S_EIN, S_DIN} => "he" \notin flags /\ "hd" \notin flags
         /\ st = S_CIN => "hc" \notin flags
  <1>1. W \in Nat /\ fsize(st) \in Nat /\ W # fsize(st)
    BY SizesType DEF IInv, StateOK, Typed
  <1>2. /\ st = S_EIN => fsize(st) = EkSize
        /\ st = S_DIN => fsize(st) = DkSize
    BY DEF fsize
  <1> QED
    BY <1>1, <1>2 DEF IInv, StateOK, LoadOK

\* The units that are neither vouched for nor transferred are zero.
LEMMA LoadedUnits ==
  ASSUME IInv, st \in LOADING, W < fsize(st), NEW data \in Transfers,
         NEW x \in FIELDS, NEW i \in 1..Length[x], ~VouchedBy(flags, x, i),
         ~(x = FieldOf(st) /\ i \in base(st) + 1 .. base(st) + (W + Take(data)))
  PROVE  LoadedFields(data)[x][i] = ZeroUnit
  <1> DEFINE T == Take(data)
  <1>1. W \in Nat /\ T \in Nat /\ base(st) \in Nat
    BY TakeType
  <1>2. i \in Int
    BY SizeAssumption, ZerosType
  <1> HIDE DEF T
  <1>3. ~(x = FieldOf(st) /\ i \in base(st) + 1 .. base(st) + (W + T))
    BY DEF T
  <1>4. ~(x = FieldOf(st) /\ i \in base(st) + 1 .. base(st) + W)
    BY <1>1, <1>2, <1>3
  <1>5. field[x][i] = ZeroUnit
    BY <1>4 DEF IInv, StateOK, UnvouchedUnitsAreZero, Vouched, VouchedBy
  <1>6. x = FieldOf(st) => i \notin base(st) + W + 1 .. base(st) + W + T
    BY <1>1, <1>2, <1>3
  <1>7. LoadedFields(data)[x][i] = field[x][i]
    BY <1>6, LoadedType DEF T
  <1> QED
    BY <1>5, <1>7

\* A transfer after which the locker is in the State of the load, with flags fl.
LEMMA TransferStep ==
  ASSUME IInv, st \in LOADING, W < fsize(st), NEW data \in Transfers,
         UNCHANGED <<st, err, mext, draws>>,
         field' = LoadedFields(data), W' = W + Take(data),
         NEW fl, flags' = fl, flags \subseteq fl, fl \subseteq FLAGS,
         fl # flags => st \in {S_EIN, S_DIN}, "hs" \notin fl,
         KeysOK(LoadedFields(data), fl), LoadOK'
  PROVE  StateOK'
  <1>1. W' \in Nat /\ W' <= fsize(st)
    BY TakeType
  <1>2. Fields(field')
    BY LoadedType
  <1>3. Typed'
    <2>1. st' \in LOADING /\ fsize(st') = fsize(st)
      OBVIOUS
    <2>2. err' \in ERRORS \cup {"none"} /\ mext' \in {0, Sealed}
      BY DEF IInv, StateOK, Typed
    <2> QED
      BY <1>1, <1>2, <2>1, <2>2 DEF Typed, Fields
  <1>4. ChecksStillHold'
    BY DEF ChecksStillHold, KeysOK
  <1>5. ASSUME NEW x \in FIELDS, NEW i \in 1..Length[x], ~Vouched(x, i)'
        PROVE  field'[x][i] = ZeroUnit
    <2>0. ~(st' \in LOADING /\ x = FieldOf(st') /\ i \in base(st') + 1 .. base(st') + W')
      BY <1>5 DEF Vouched
    <2>1. ~(x = FieldOf(st) /\ i \in base(st) + 1 .. base(st) + (W + Take(data)))
      BY <2>0
    <2>2. ~VouchedBy(flags, x, i)
      BY <1>5 DEF Vouched, VouchedBy
    <2> QED
      BY <2>1, <2>2, LoadedUnits
  <1> QED
    BY <1>3, <1>4, <1>5
       DEF StateOK, SecretMatchesFields, UnvouchedUnitsAreZero, ErrorStateIsEmpty
LEMMA LoadEndsStep ==
  ASSUME IInv, st \in LOADING, W < fsize(st), NEW data \in Transfers,
         W + Take(data) >= fsize(st), LoadEnds(data), draws' = draws
  PROVE  StateOK'
  <1> DEFINE w == W + Take(data)  loaded == LoadedFields(data)
  <1>1. w = fsize(st) /\ w \in Nat
    BY TakeType
  <1>2. "hs" \notin flags
    BY LoadUnderWay
  <1>3. flags \subseteq FLAGS /\ KeysOK(field, flags)
    BY HeldFields
  <1>4. Incomplete(W) = {FieldOf(st)}
    BY DEF Incomplete
  <1>5. CASE st = S_EIN /\ EncapskAccepted(data)
    <2>1. /\ UNCHANGED <<st, err, mext>> /\ field' = LoadedFields(data)
          /\ W' = W + Take(data) /\ flags' = flags \cup {"he"}
      BY <1>5 DEF LoadEnds, LoadedFields
    <2>2. "hd" \notin flags /\ ek_check(ek(Loaded(data))) /\ FieldOf(st) = "dk" /\ fsize(st) = EkSize
      BY <1>5, LoadUnderWay DEF EncapskAccepted, FieldOf, fsize
    <2>3. KeysOK(LoadedFields(data), flags \cup {"he"})
      BY <2>2, LoadedType DEF KeysOK
    <2>4. LoadOK'
      BY <1>1, <1>2, <1>5, <2>1, <2>2 DEF LoadOK
    <2> QED
      BY <1>2, <1>3, <1>5, <2>1, <2>3, <2>4, TransferStep
  <1>6. CASE st = S_EIN /\ ~EncapskAccepted(data)
    <2>1. _fail /\ field' = Zeroed(field, {"dk"}) /\ flags' = flags \ FlagsOf({"dk"})
      BY <1>6 DEF LoadEnds
    <2>3. DOMAIN field' = FIELDS
      BY <2>1 DEF Zeroed
    <2>2. {"dk"} = Incomplete(W) /\ draws' \in Nat
      BY <1>4, <1>6 DEF FieldOf, IInv
    <2> QED
      BY <1>2, <2>1, <2>2, <2>3, FailStep
  <1>7. CASE st = S_DIN /\ dk_check(Loaded(data)) /\ Len(data) = Take(data)
    <2> DEFINE fl == (flags \ {"he"}) \cup {"hd"} \cup (IF ek_check(ek(Loaded(data))) THEN {"he"} ELSE {})
    <2>1. /\ UNCHANGED <<st, err, mext>> /\ field' = LoadedFields(data)
          /\ W' = W + Take(data) /\ flags' = fl
      BY <1>7 DEF LoadEnds, LoadedFields
    <2>2. /\ "he" \notin flags /\ FieldOf(st) = "dk" /\ fsize(st) = DkSize
          /\ LoadedFields(data)["dk"] = Loaded(data)
      BY <1>7, LoadUnderWay, LoadedType DEF FieldOf, fsize
    <2>3. /\ "hd" \in fl /\ flags \subseteq fl /\ fl \subseteq FLAGS /\ "hs" \notin fl
          /\ "he" \in fl => ek_check(ek(Loaded(data)))
      BY <1>2, <1>3, <2>2
    <2> HIDE DEF fl
    <2>4. KeysOK(LoadedFields(data), fl)
      BY <1>7, <2>2, <2>3 DEF KeysOK
    <2>5. LoadOK'
      BY <1>1, <1>7, <2>1, <2>2, <2>3 DEF LoadOK
    <2> QED
      BY <1>7, <2>1, <2>3, <2>4, <2>5, TransferStep
  <1>8. CASE st = S_DIN /\ ~(dk_check(Loaded(data)) /\ Len(data) = Take(data))
    <2>1. _invalid /\ W' = W + Take(data)
      BY <1>8 DEF LoadEnds
    <2> QED
      BY <1>1, <2>1, InvalidStep
  <1>9. CASE st = S_CIN /\ Len(data) > Take(data)
    <2>1. _fail /\ field' = Zeroed(field, {"ct"}) /\ flags' = flags \ FlagsOf({"ct"})
      BY <1>9 DEF LoadEnds
    <2>3. DOMAIN field' = FIELDS
      BY <2>1 DEF Zeroed
    <2>2. {"ct"} = Incomplete(W) /\ draws' \in Nat
      BY <1>4, <1>9 DEF FieldOf, IInv
    <2> QED
      BY <1>2, <2>1, <2>2, <2>3, FailStep
  <1>10. CASE st = S_CIN /\ Len(data) = Take(data)
    <2>1. _goto(ST_READY, LoadedFields(data), flags \cup {"hc"}, W + Take(data))
      BY <1>10, TakeType DEF LoadEnds, LoadedFields
    <2>2. FieldOf(st) = "ct" /\ LoadedFields(data)["dk"] = field["dk"]
      BY <1>10, LoadedType DEF FieldOf
    <2>3. KeysOK(LoadedFields(data), flags \cup {"hc"})
      BY <1>3, <2>2 DEF KeysOK
    <2>4. ASSUME NEW x \in FIELDS, NEW i \in 1..Length[x], ~VouchedBy(flags \cup {"hc"}, x, i)
          PROVE  LoadedFields(data)[x][i] = ZeroUnit
      <3>1. x # "ct" /\ ~VouchedBy(flags, x, i)
        BY <2>4 DEF VouchedBy
      <3> QED
        BY <2>2, <3>1, LoadedUnits
    <2>5. draws' \in 0..MaxDraws
      BY DEF IInv
    <2>6. Fields(LoadedFields(data)) /\ flags \cup {"hc"} \subseteq FLAGS /\ "hs" \notin flags \cup {"hc"}
      BY <1>2, <1>3, LoadedType
    <2> DEFINE f == LoadedFields(data)  fl == flags \cup {"hc"}
    <2>7. \A x \in FIELDS : \A i \in 1..Length[x] :
            VouchedBy(fl, x, i) \/ x \in Incomplete(w) \/ f[x][i] = ZeroUnit
      BY <2>4
    <2>8. ST_READY \in 1..10 /\ ST_READY # S_SOUT
      OBVIOUS
    <2>9. _goto(ST_READY, f, fl, w) /\ Fields(f) /\ fl \subseteq FLAGS /\ KeysOK(f, fl) /\ "hs" \notin fl
      BY <2>1, <2>3, <2>6
    <2> HIDE DEF f, fl, w
    <2> QED
      BY <2>5, <2>7, <2>8, <2>9, GotoStep
  <1>11. Len(data) >= Take(data)
    BY TakeType
  <1> QED
    BY <1>5, <1>6, <1>7, <1>8, <1>9, <1>10, <1>11, TakeType DEF LoadEnds

LEMMA LoadStep == ASSUME IInv, NEW data \in Transfers, load(data) PROVE StateOK'
  <1>0. draws' = draws
    BY DEF load
  <1>1. CASE _invalid /\ UNCHANGED W
    <2>1. W' \in Nat
      BY <1>1 DEF IInv, StateOK, Typed
    <2> QED
      BY <1>1, <2>1, InvalidStep
  <1>2. CASE /\ st \in LOADING /\ W + Take(data) < fsize(st)
             /\ field' = [field EXCEPT ![FieldOf(st)] = Loaded(data)]
             /\ W' = W + Take(data)
             /\ UNCHANGED <<st, err, flags, mext>>
    <2>1. W \in Nat /\ fsize(st) \in Nat
      BY <1>2, SizesType DEF IInv, StateOK, Typed
    <2>2. Len(data) \in Nat
      <3>1. data \in Seq(Units)
        BY SizeAssumption
      <3> QED
        BY <3>1
    <2>3. W < fsize(st)
      BY <1>2, <2>1, <2>2 DEF Take
    <2>4. field' = LoadedFields(data)
      BY <1>2 DEF LoadedFields
    <2>5. /\ "hs" \notin flags
          /\ st \in {S_EIN, S_DIN} => "he" \notin flags /\ "hd" \notin flags
          /\ st = S_CIN => "hc" \notin flags
      BY <1>2, <2>3, LoadUnderWay
    <2>6. LoadOK'
      BY <1>2, <2>1, <2>5 DEF LoadOK, fsize
    <2>7. KeysOK(LoadedFields(data), flags)
      <3>1. st = S_CIN => LoadedFields(data)["dk"] = field["dk"]
        BY <1>2, <2>3, LoadedType DEF FieldOf
      <3>2. KeysOK(field, flags)
        BY HeldFields
      <3> QED
        BY <1>2, <2>5, <3>1, <3>2 DEF KeysOK
    <2>8. flags \subseteq FLAGS
      BY HeldFields
    <2> QED
      BY <1>0, <1>2, <2>3, <2>4, <2>5, <2>6, <2>7, <2>8, TransferStep
  <1>3. CASE st \in LOADING /\ W < fsize(st) /\ W + Take(data) >= fsize(st) /\ LoadEnds(data)
    BY <1>0, <1>3, LoadEndsStep
  <1> QED
    BY <1>1, <1>2, <1>3 DEF load

-----------------------------------------------------------------------------
(* The other instructions.                                                 *)

LEMMA SetsteStep == ASSUME IInv, NEW e \in ERRORS, setste(e) PROVE StateOK'
  <1>1. W' \in Nat
    BY DEF setste, IInv, StateOK, Typed
  <1> QED
    BY <1>1, ErrorStep DEF setste

LEMMA InvalidUnmoved == ASSUME IInv, _invalid, UNCHANGED W PROVE StateOK'
  <1>1. W' \in Nat
    BY DEF IInv, StateOK, Typed
  <1> QED
    BY <1>1, InvalidStep

LEMMA SetstStep == ASSUME IInv, NEW n, setst(n) PROVE StateOK'
  <1>1. CASE SetstAdmitted(n) /\ _goto(n, field, flags, W)
    <2>1. n \in 1..10 /\ n # S_SOUT /\ draws' = draws
      BY <1>1 DEF SetstAdmitted, setst
    <2> QED
      BY <1>1, <2>1, GotoHeld
  <1>2. CASE _invalid /\ UNCHANGED W
    BY <1>2, InvalidUnmoved
  <1> QED
    BY <1>1, <1>2 DEF setst

LEMMA EmitStep == ASSUME IInv, NEW n \in Emissions, emit(n) PROVE StateOK'
  <1>0. draws' = draws
    BY DEF emit
  <1>1. CASE _invalid /\ UNCHANGED W
    BY <1>1, InvalidUnmoved
  <1>2. CASE st \in {S_EOUT, S_COUT} /\ W + n < fsize(st) /\ W' = W + n /\ UNCHANGED <<st, err, flags, field, mext>>
    <2>1. n \in Nat /\ W \in Nat /\ fsize(st) \in Nat
      BY <1>2, SizeAssumption, SizesType DEF IInv, StateOK, Typed
    <2>2. Typed'
      <3>1. W' \in Nat /\ W' <= fsize(st')
        BY <1>2, <2>1
      <3> QED
        BY <1>2, <3>1 DEF IInv, StateOK, Typed
    <2>3. LoadOK'
      BY <1>2 DEF IInv, StateOK, LoadOK
    <2>4. SecretMatchesFields' /\ ChecksStillHold' /\ ErrorStateIsEmpty'
      BY <1>0, <1>2 DEF IInv, StateOK, SecretMatchesFields, ChecksStillHold, ErrorStateIsEmpty
    <2>5. UnvouchedUnitsAreZero'
      BY <1>2 DEF IInv, StateOK, UnvouchedUnitsAreZero, Vouched
    <2> QED
      BY <2>2, <2>3, <2>4, <2>5 DEF StateOK
  <1>3. CASE st \in {S_EOUT, S_COUT} /\ _goto(AfterEmission, field, flags, W + n)
    <2>1. AfterEmission \in 1..10 /\ (AfterEmission = S_SOUT => "hs" \in flags /\ st # S_SOUT)
      BY <1>3 DEF AfterEmission
    <2>2. st \notin LOADING
      BY <1>3
    <2> QED
      BY <1>0, <1>3, <2>1, <2>2, GotoHeld
  <1> QED
    BY <1>1, <1>2, <1>3 DEF emit

LEMMA DeriveStep ==
  ASSUME IInv, NEW dest, NEW ln, derive(dest, ln)
  PROVE  StateOK'
  <1>0. draws' = draws
    BY DEF derive
  <1>1. CASE _invalid /\ UNCHANGED W
    BY <1>1, InvalidUnmoved
  <1>2. CASE UNCHANGED <<st, err, W, flags, field, mext>>
    BY <1>0, <1>2, SameStep
  <1>3. CASE Derived
    <2>1. ST_READY \in 1..10 /\ ST_READY # S_SOUT
      OBVIOUS
    <2> QED
      BY <1>0, <1>3, <2>1, GotoHeld DEF Derived
  <1> QED
    BY <1>1, <1>2, <1>3 DEF derive
LEMMA GenerateStep ==
  ASSUME IInv, GenerateKeyPair, draws < MaxDraws, draws' = draws + 1
  PROVE  StateOK'
  <1> DEFINE r == draws + 1  f == [field EXCEPT !["dk"] = keygen_internal(r)]  fl == flags \cup {"he", "hd"}
  <1>1. r \in 1..MaxDraws /\ draws' \in 0..MaxDraws
    BY SizeAssumption DEF IInv
  <1>2. st = S_GEN /\ _goto(S_EOUT, f, fl, W)
    BY DEF GenerateKeyPair
  <1>3. /\ keygen_internal(r) \in Values("dk")
        /\ dk_check(keygen_internal(r)) /\ ek_check(ek(keygen_internal(r)))
    BY <1>1, AlgorithmAssumption
  <1>4. Fields(field) /\ flags \subseteq FLAGS /\ "hs" \notin flags
    BY <1>2, HeldFields
  <1>5. f["dk"] = keygen_internal(r) /\ f["ct"] = field["ct"] /\ f["ss"] = field["ss"] /\ DOMAIN f = FIELDS
    BY <1>4 DEF Fields
  <1>6. fl \subseteq FLAGS /\ "hs" \notin fl /\ "hd" \in fl /\ flags \subseteq fl
    BY <1>4
  <1> HIDE DEF r, f, fl
  <1>7. Fields(f) /\ KeysOK(f, fl)
    BY <1>3, <1>4, <1>5 DEF Fields, KeysOK
  <1>8. ASSUME NEW x \in FIELDS, NEW i \in 1..Length[x]
        PROVE  VouchedBy(fl, x, i) \/ x \in Incomplete(W) \/ f[x][i] = ZeroUnit
    <2>1. CASE x = "dk"
      BY <1>6, <2>1 DEF VouchedBy
    <2>2. CASE x # "dk"
      <3>1. f[x][i] = field[x][i]
        BY <1>5, <2>2
      <3>2. VouchedBy(flags, x, i) => VouchedBy(fl, x, i)
        BY <1>6, <2>2 DEF VouchedBy
      <3> QED
        BY <3>1, <3>2, HeldFields
    <2> QED
      BY <2>1, <2>2
  <1>9. S_EOUT \in 1..10 /\ S_EOUT # S_SOUT
    OBVIOUS
  <1>10. /\ draws' \in 0..MaxDraws /\ _goto(S_EOUT, f, fl, W)
         /\ fl \subseteq FLAGS /\ "hs" \notin fl
    BY <1>1, <1>2, <1>6
  <1> QED
    BY <1>7, <1>8, <1>9, <1>10, GotoStep

LEMMA EncapsulateStep ==
  ASSUME IInv, Encapsulate, draws < MaxDraws, draws' = draws + 1
  PROVE  StateOK'
  <1> DEFINE r == draws + 1  Kc == encaps(ek(field["dk"]), r)
             f == [field EXCEPT !["ss"] = Kc[1], !["ct"] = Kc[2]]  fl == flags \cup {"hs", "hc"}
  <1>1. r \in 1..MaxDraws /\ r \in 1..draws' /\ draws' \in 0..MaxDraws
    BY SizeAssumption DEF IInv
  <1>2. st = S_ENC /\ _goto(S_COUT, f, fl, W)
    BY DEF Encapsulate
  <1>3. Fields(field) /\ flags \subseteq FLAGS /\ KeysOK(field, flags)
    BY HeldFields
  <1>4. "he" \in flags
    BY <1>2 DEF IInv, StateOK, ChecksStillHold
  <1>5. field["dk"] \in Values("dk") /\ ek_check(ek(field["dk"]))
    BY <1>3, <1>4 DEF Fields, KeysOK
  <1>6. Kc \in Values("ss") \X Values("ct")
    BY <1>1, <1>5, AlgorithmAssumption
  <1>7. f["dk"] = field["dk"] /\ f["ct"] = Kc[2] /\ f["ss"] = Kc[1] /\ DOMAIN f = FIELDS
    BY <1>3 DEF Fields
  <1>8. fl \subseteq FLAGS /\ "hc" \in fl /\ "hs" \in fl /\ flags \subseteq fl /\ ("hd" \in fl <=> "hd" \in flags)
    BY <1>3
  <1>9. Kc = encaps(ek(field["dk"]), r)
    OBVIOUS
  <1> HIDE DEF r, Kc, f, fl
  <1>10. Fields(f)
    BY <1>3, <1>6, <1>7 DEF Fields
  <1>11. KeysOK(f, fl)
    BY <1>3, <1>5, <1>7, <1>8 DEF KeysOK
  <1>12. ASSUME NEW x \in FIELDS, NEW i \in 1..Length[x]
         PROVE  VouchedBy(fl, x, i) \/ x \in Incomplete(W) \/ f[x][i] = ZeroUnit
    <2>1. CASE x # "dk"
      BY <1>8, <2>1 DEF VouchedBy
    <2>2. CASE x = "dk"
      <3>1. f[x][i] = field[x][i]
        BY <1>7, <2>2
      <3>2. VouchedBy(flags, x, i) => VouchedBy(fl, x, i)
        BY <1>8 DEF VouchedBy
      <3> QED
        BY <3>1, <3>2, HeldFields
    <2> QED
      BY <2>1, <2>2
  <1>13. SecretOK(f, fl, draws')
    <2>1. <<f["ss"], f["ct"]>> = Kc
      BY <1>6, <1>7
    <2> QED
      BY <1>1, <1>4, <1>7, <1>8, <1>9, <2>1 DEF SecretOK
  <1>14. S_COUT \in 1..10 /\ S_COUT # S_SOUT /\ st \notin LOADING
    BY <1>2
  <1> QED
    BY <1>1, <1>2, <1>8, <1>10, <1>11, <1>12, <1>13, <1>14, GotoStep

LEMMA DecapsulateStep ==
  ASSUME IInv, Decapsulate, draws' = draws
  PROVE  StateOK'
  <1> DEFINE k == decaps(field["dk"], field["ct"])
             f == [field EXCEPT !["ss"] = k]  fl == flags \cup {"hs"}
  <1>1. draws' \in 0..MaxDraws
    BY DEF IInv
  <1>2. st = S_DEC /\ _goto(S_SOUT, f, fl, W)
    BY DEF Decapsulate
  <1>3. Fields(field) /\ flags \subseteq FLAGS /\ KeysOK(field, flags)
    BY HeldFields
  <1>4. {"hd", "hc"} \subseteq flags
    BY <1>2 DEF IInv, StateOK, ChecksStillHold
  <1>5. field["dk"] \in Values("dk") /\ dk_check(field["dk"]) /\ field["ct"] \in Values("ct")
    BY <1>3, <1>4 DEF Fields, KeysOK
  <1>6. k \in Values("ss")
    BY <1>5, AlgorithmAssumption
  <1>7. f["dk"] = field["dk"] /\ f["ct"] = field["ct"] /\ f["ss"] = k /\ DOMAIN f = FIELDS
    BY <1>3 DEF Fields
  <1>8. /\ fl \subseteq FLAGS /\ "hs" \in fl /\ flags \subseteq fl
        /\ ("hd" \in fl <=> "hd" \in flags) /\ ("he" \in fl <=> "he" \in flags)
    BY <1>3
  <1>9. k = decaps(field["dk"], field["ct"])
    OBVIOUS
  <1> HIDE DEF k, f, fl
  <1>10. Fields(f) /\ KeysOK(f, fl)
    BY <1>3, <1>6, <1>7, <1>8 DEF Fields, KeysOK
  <1>11. ASSUME NEW x \in FIELDS, NEW i \in 1..Length[x]
         PROVE  VouchedBy(fl, x, i) \/ x \in Incomplete(W) \/ f[x][i] = ZeroUnit
    <2>1. CASE x = "ss"
      BY <1>8, <2>1 DEF VouchedBy
    <2>2. CASE x # "ss"
      <3>1. f[x][i] = field[x][i]
        BY <1>7, <2>2
      <3>2. VouchedBy(flags, x, i) => VouchedBy(fl, x, i)
        BY <1>8 DEF VouchedBy
      <3> QED
        BY <3>1, <3>2, HeldFields
    <2> QED
      BY <2>1, <2>2
  <1>12. SecretOK(f, fl, draws')
    BY <1>4, <1>7, <1>8, <1>9 DEF SecretOK
  <1>13. S_SOUT \in 1..10 /\ st # S_SOUT /\ st \notin LOADING
    BY <1>2
  <1> QED
    BY <1>1, <1>2, <1>8, <1>10, <1>11, <1>12, <1>13, GotoStep

LEMMA ExecStep == ASSUME IInv, exec PROVE StateOK'
  <1>1. CASE _invalid /\ UNCHANGED <<W, draws>>
    BY <1>1, InvalidUnmoved
  <1>2. CASE /\ st \in {S_GEN, S_ENC, S_DEC} /\ _fail /\ UNCHANGED <<flags, field>>
             /\ draws' = IF Drawing THEN draws + 1 ELSE draws
    <2>1. draws' \in Nat
      BY <1>2, SizeAssumption DEF IInv
    <2>2. Incomplete(W) = {}
      BY <1>2 DEF Incomplete
    <2>3. DOMAIN field' = FIELDS /\ \A x \in FIELDS : field'[x] = Zeroed(field, {})[x]
      BY <1>2, HeldFields, ZeroedFields DEF Fields
    <2>4. flags' = flags \ FlagsOf({})
      BY <1>2 DEF FlagsOf
    <2>5. "hs" \notin flags
      BY <1>2, HeldFields
    <2> QED
      BY <1>2, <2>1, <2>2, <2>3, <2>4, <2>5, FailStep
  <1>3. CASE draws < MaxDraws /\ (GenerateKeyPair \/ Encapsulate) /\ draws' = draws + 1
    BY <1>3, GenerateStep, EncapsulateStep
  <1>4. CASE Decapsulate /\ UNCHANGED draws
    BY <1>4, DecapsulateStep
  <1>5. CASE st \notin {S_GEN, S_ENC, S_DEC} /\ ~(_invalid /\ UNCHANGED <<W, draws>>)
    BY <1>5, SizeAssumption DEF exec, Drawing, GenerateKeyPair, Encapsulate, Decapsulate
  <1> QED
    BY <1>1, <1>2, <1>3, <1>4, <1>5 DEF exec
-----------------------------------------------------------------------------
(* The invariant.                                                          *)

LEMMA InitIInv == Init => IInv
  <1> SUFFICES ASSUME Init PROVE IInv
    OBVIOUS
  <1>1. /\ st \in {0, ST_READY} /\ err \in {"unsupported", "none"} /\ W = 0 /\ flags = {}
        /\ mext \in {0, Sealed} /\ draws = 0 /\ out.kind = "none"
        /\ field = [f \in FIELDS |-> Zeros(f)]
    BY DEF Init, NoOutput
  <1>2. Fields(field)
    BY <1>1, ZerosType DEF Fields
  <1>3. Typed
    BY <1>1, <1>2 DEF Typed, Fields, ERRORS
  <1>4. UnvouchedUnitsAreZero
    BY <1>1, ZerosType DEF UnvouchedUnitsAreZero
  <1>5. LoadOK /\ SecretMatchesFields /\ ChecksStillHold /\ ErrorStateIsEmpty
    BY <1>1 DEF LoadOK, SecretMatchesFields, ChecksStillHold, ErrorStateIsEmpty
  <1> QED
    BY <1>1, <1>3, <1>4, <1>5, SizeAssumption DEF IInv, StateOK

\* What an instruction puts out, and what it draws.
LEMMA OutStep ==
  ASSUME IInv, Next
  PROVE  draws' \in 0..MaxDraws /\ out'.kind \in {"none", "emitted", "secret"}
  <1>0. draws \in 0..MaxDraws /\ MaxDraws \in Nat
    BY SizeAssumption DEF IInv
  <1>1. ASSUME NEW e \in ERRORS, setste(e) PROVE draws' = draws /\ out'.kind = "none"
    BY <1>1 DEF setste, NoOutput
  <1>2. ASSUME NEW n \in Targets, setst(n) PROVE draws' = draws /\ out'.kind = "none"
    BY <1>2 DEF setst, NoOutput
  <1>3. ASSUME NEW data \in Transfers, load(data) PROVE draws' = draws /\ out'.kind = "none"
    BY <1>3 DEF load, NoOutput
  <1>4. ASSUME NEW n \in Emissions, emit(n) PROVE draws' = draws /\ out'.kind \in {"none", "emitted"}
    BY <1>4 DEF emit, NoOutput, Emitted
  <1>5. CASE exec
    <2>1. out'.kind = "none"
      BY <1>5 DEF exec, NoOutput
    <2>2. draws' = draws \/ (draws' = draws + 1 /\ draws < MaxDraws)
      BY <1>5 DEF exec
    <2> QED
      BY <1>0, <2>1, <2>2
  <1>6. ASSUME NEW dest \in Endpoints, NEW ln \in Lengths, derive(dest, ln)
        PROVE  draws' = draws /\ out'.kind \in {"none", "secret"}
    BY <1>6 DEF derive, NoOutput, Secret
  <1> QED
    BY <1>0, <1>1, <1>2, <1>3, <1>4, <1>5, <1>6 DEF Next

LEMMA NextIInv == IInv /\ [Next]_vars => IInv'
  <1>1. ASSUME IInv, Next PROVE IInv'
    <2>1. StateOK'
      <3>1. ASSUME NEW e \in ERRORS, setste(e) PROVE StateOK'
        BY <1>1, <3>1, SetsteStep
      <3>2. ASSUME NEW n \in Targets, setst(n) PROVE StateOK'
        BY <1>1, <3>2, SetstStep
      <3>3. ASSUME NEW data \in Transfers, load(data) PROVE StateOK'
        BY <1>1, <3>3, LoadStep
      <3>4. ASSUME NEW n \in Emissions, emit(n) PROVE StateOK'
        BY <1>1, <3>4, EmitStep
      <3>5. CASE exec
        BY <1>1, <3>5, ExecStep
      <3>6. ASSUME NEW dest \in Endpoints, NEW ln \in Lengths, derive(dest, ln) PROVE StateOK'
        BY <1>1, <3>6, DeriveStep
      <3> QED
        BY <1>1, <3>1, <3>2, <3>3, <3>4, <3>5, <3>6 DEF Next
    <2> QED
      BY <1>1, <2>1, OutStep DEF IInv
  <1>2. ASSUME IInv, UNCHANGED vars PROVE IInv'
    <2>1. StateOK'
      BY <1>2, SameStep DEF vars
    <2> QED
      BY <1>2, <2>1 DEF IInv, vars
  <1> QED
    BY <1>1, <1>2

\* The invariant holds of every locker, whatever software does with it.
THEOREM Invariance == Spec => []IInv
  BY InitIInv, NextIInv, PTL DEF Spec

\* Every field, flag and count keeps its type, and no transfer passes the end of
\* its field.
THEOREM TypeCorrect == Spec => []TypeOK
  <1>1. IInv => TypeOK
    BY DEF IInv, StateOK, Typed, TypeOK
  <1> QED
    BY <1>1, Invariance, PTL

\* A secret that is held belongs to the key and the ciphertext beside it.
THEOREM SecretsMatch == Spec => []SecretMatchesFields
  <1>1. IInv => SecretMatchesFields
    BY DEF IInv, StateOK
  <1> QED
    BY <1>1, Invariance, PTL

\* No operation runs on a key, a ciphertext or a secret that was not checked.
THEOREM ChecksHold == Spec => []ChecksStillHold
  <1>1. IInv => ChecksStillHold
    BY DEF IInv, StateOK
  <1> QED
    BY <1>1, Invariance, PTL

\* Nothing of an abandoned load or of a secret that was given remains.
THEOREM NothingRemains == Spec => []UnvouchedUnitsAreZero
  <1>1. IInv => UnvouchedUnitsAreZero
    BY DEF IInv, StateOK
  <1> QED
    BY <1>1, Invariance, PTL

\* An Error State, entered from anywhere, leaves no Content (Rule GR15).
THEOREM ErrorsClear == Spec => []ErrorStateIsEmpty
  <1>1. IInv => ErrorStateIsEmpty
    BY DEF IInv, StateOK
  <1> QED
    BY <1>1, Invariance, PTL
-----------------------------------------------------------------------------
(* The locker implements SecretSource.                                     *)

\* Values are sequences of their length, and so are their parts.
LEMMA ValueSeq ==
  ASSUME NEW n \in Nat, NEW v \in [1..n -> Units]
  PROVE  /\ v \in Seq(Units) /\ Len(v) = n
         /\ \A i \in 1..n + 1, j \in 0..n : i <= j + 1 =>
              /\ SubSeq(v, i, j) \in Seq(Units) /\ Len(SubSeq(v, i, j)) = j + 1 - i
              /\ \A k \in 1..(j + 1 - i) : SubSeq(v, i, j)[k] = v[i + k - 1]
  <1>1. v \in Seq(Units) /\ Len(v) = n
    OBVIOUS
  <1>2. ASSUME NEW i \in 1..n + 1, NEW j \in 0..n, i <= j + 1
        PROVE  /\ SubSeq(v, i, j) \in Seq(Units) /\ Len(SubSeq(v, i, j)) = j + 1 - i
               /\ \A k \in 1..(j + 1 - i) : SubSeq(v, i, j)[k] = v[i + k - 1]
    BY <1>1, <1>2
  <1> QED
    BY <1>1, <1>2

\* Taking a part of what is left is taking the part at its place.
LEMMA RestOfRest ==
  ASSUME NEW n \in Nat, NEW v \in [1..n -> Units], NEW w \in 0..n, NEW m \in 0..(n - w)
  PROVE  LET due == SubSeq(v, w + 1, n) IN
         /\ Len(due) = n - w
         /\ SubSeq(v, w + 1, w + m) = SubSeq(due, 1, m)
         /\ SubSeq(v, w + m + 1, n) = SubSeq(due, m + 1, Len(due))
  <1> DEFINE due == SubSeq(v, w + 1, n)
  <1>1. /\ due \in Seq(Units) /\ Len(due) = n - w
        /\ \A k \in 1..(n - w) : due[k] = v[w + k]
    <2>1. w + 1 \in 1..n + 1 /\ n \in 0..n /\ w + 1 <= n + 1 /\ n + 1 - (w + 1) = n - w
      OBVIOUS
    <2>2. /\ due \in Seq(Units) /\ Len(due) = n + 1 - (w + 1)
          /\ \A k \in 1..(n + 1 - (w + 1)) : due[k] = v[(w + 1) + k - 1]
      BY <2>1, ValueSeq
    <2>3. \A k \in 1..(n - w) : (w + 1) + k - 1 = w + k
      OBVIOUS
    <2> QED
      BY <2>1, <2>2, <2>3
  <1> HIDE DEF due
  <1>2. due \in [1..(n - w) -> Units]
    BY <1>1
  <1>3. SubSeq(v, w + 1, w + m) = SubSeq(due, 1, m)
    <2>1. /\ SubSeq(v, w + 1, w + m) \in Seq(Units) /\ Len(SubSeq(v, w + 1, w + m)) = m
          /\ \A k \in 1..m : SubSeq(v, w + 1, w + m)[k] = v[w + k]
      BY ValueSeq
    <2>2. /\ SubSeq(due, 1, m) \in Seq(Units) /\ Len(SubSeq(due, 1, m)) = m
          /\ \A k \in 1..m : SubSeq(due, 1, m)[k] = due[k]
      BY <1>2, ValueSeq
    <2> QED
      BY <1>1, <2>1, <2>2
  <1>4. SubSeq(v, w + m + 1, n) = SubSeq(due, m + 1, n - w)
    <2>1. /\ SubSeq(v, w + m + 1, n) \in Seq(Units) /\ Len(SubSeq(v, w + m + 1, n)) = n - w - m
          /\ \A k \in 1..(n - w - m) : SubSeq(v, w + m + 1, n)[k] = v[w + m + k]
      BY ValueSeq
    <2>2. /\ SubSeq(due, m + 1, n - w) \in Seq(Units) /\ Len(SubSeq(due, m + 1, n - w)) = n - w - m
          /\ \A k \in 1..(n - w - m) : SubSeq(due, m + 1, n - w)[k] = due[m + k]
      BY <1>2, ValueSeq
    <2>3. \A k \in 1..(n - w - m) : m + k \in 1..(n - w) /\ w + (m + k) = w + m + k
      OBVIOUS
    <2>4. \A k \in 1..(n - w - m) : SubSeq(v, w + m + 1, n)[k] = SubSeq(due, m + 1, n - w)[k]
      BY <1>1, <2>1, <2>2, <2>3
    <2> QED
      BY <2>1, <2>2, <2>4, SeqEqual
  <1> QED
    BY <1>1, <1>3, <1>4 DEF due

\* The variables of SecretSource.
Due == IF HasSecret /\ st = S_COUT THEN SubSeq(field["ct"], W + 1, CtSize) ELSE <<>>
Now == IF HasSecret THEN field["ss"] ELSE <<>>

\* A secret is not the value that says there is none.
LEMMA SecretHeld ==
  ASSUME IInv, HasSecret
  PROVE  Now = field["ss"] /\ Now \in [1..SsSize -> Units] /\ Len(Now) = SsSize /\ Now # <<>>
  <1>1. field["ss"] \in [1..SsSize -> Units]
    BY ZerosType DEF IInv, StateOK, Typed, Values
  <1>2. Len(field["ss"]) = SsSize /\ SsSize # 0
    BY <1>1, SizeAssumption
  <1> QED
    BY <1>1, <1>2 DEF Now

\* Steps of SecretSource.
LEMMA ForgetStep == ASSUME ~HasSecret', out' = NoOutput, mext' = mext PROVE Source!Next
  <1>1. Source!Forget
    BY DEF Source!Forget, Source!Forgotten, Source!Silent, Source!NoSecret, Source!NoOutput, NoOutput
  <1> QED
    BY <1>1 DEF Source!Next

LEMMA OtherwiseStep ==
  ASSUME Now' = Now, Due' = Due, mext' = mext, out'.kind = "none" \/ (~HasSecret /\ out'.kind = "emitted")
  PROVE  Source!Next
  <1>1. Source!Otherwise
    BY DEF Source!Otherwise, Source!NoSecret, Now, Due
  <1> QED
    BY <1>1 DEF Source!Next
LEMMA AgreeStep ==
  ASSUME IInv', ~HasSecret, HasSecret', out' = NoOutput, mext' = mext, W' = 0
  PROVE  Source!Next
  <1>1. field'["ss"] \in Values("ss") /\ field'["ct"] \in [1..CtSize -> Units]
    BY ZerosType DEF IInv, StateOK, Typed, Values
  <1>2. SubSeq(field'["ct"], W' + 1, CtSize) = field'["ct"]
    <2>1. CtSize \in Nat
      BY SizeAssumption
    <2>2. field'["ct"] \in Seq(Units) /\ Len(field'["ct"]) = CtSize
      BY <1>1, <2>1
    <2>3. SubSeq(field'["ct"], 1, Len(field'["ct"])) = field'["ct"]
      BY <2>2, SubSeqFull
    <2> QED
      BY <2>2, <2>3
  <1>3. Due' \in Values("ct") \cup {<<>>}
    BY <1>1, <1>2, ZerosType DEF Due, Values
  <1>4. Now' \in Values("ss") /\ Now = <<>>
    BY <1>1 DEF Now
  <1>5. Source!Agree
    BY <1>3, <1>4 DEF Source!Agree, Source!NoSecret, Source!Silent, Source!NoOutput, NoOutput, Now, Due
  <1> QED
    BY <1>5 DEF Source!Next

\* A secret is dropped on the way to any State but sharedkey_Output.
LEMMA GotoForgets ==
  ASSUME NEW new, NEW f, NEW fl, NEW w, _goto(new, f, fl, w),
         "hs" \in fl => st = S_SOUT \/ (st = S_COUT /\ new # S_SOUT)
  PROVE  ~HasSecret' /\ mext' = mext
  <1>1. mext' = mext
    BY DEF _goto, _invalid, Error
  <1>2. CASE _invalid
    BY <1>2 DEF _invalid, Error, HasSecret
  <1>3. CASE flags' = fl \ FlagsOf(ZeroedOnLeaving(new, w) \cup ZeroedOnEntering(new))
    <2>1. "hs" \in fl => "ss" \in ZeroedOnLeaving(new, w)
      BY DEF ZeroedOnLeaving
    <2>2. "hs" \in fl => "hs" \in FlagsOf(ZeroedOnLeaving(new, w) \cup ZeroedOnEntering(new))
      BY <2>1 DEF FlagsOf
    <2> QED
      BY <1>1, <1>3, <2>2 DEF HasSecret
  <1> QED
    BY <1>1, <1>2, <1>3 DEF _goto

LEMMA InvalidForgets ==
  ASSUME NEW e, Error(e), out' = NoOutput
  PROVE  Source!Next
  <1>1. ~HasSecret' /\ mext' = mext
    BY DEF Error, HasSecret
  <1> QED
    BY <1>1, ForgetStep

\* A load neither finds a secret nor makes one.
LEMMA LoadSource == ASSUME IInv, NEW data \in Transfers, load(data) PROVE Source!Next
  <1>0. out' = NoOutput
    BY DEF load
  <1>1. CASE _invalid
    BY <1>0, <1>1, InvalidForgets DEF _invalid
  <1>2. CASE st \in LOADING /\ UNCHANGED <<flags, mext>>
    <2>1. ~HasSecret' /\ mext' = mext
      BY <1>2, HeldFields DEF HasSecret
    <2> QED
      BY <1>0, <2>1, ForgetStep
  <1>3. CASE st \in LOADING /\ W < fsize(st) /\ LoadEnds(data)
    <2>1. "hs" \notin flags
      BY <1>3, LoadUnderWay
    <2>2. ~HasSecret' /\ mext' = mext
      <3>1. CASE \E f, w : _goto(ST_READY, f, flags \cup {"hc"}, w)
        BY <2>1, <3>1, GotoForgets
      <3>2. CASE /\ UNCHANGED mext
                 /\ \/ flags' = flags \cup {"he"}
                    \/ flags' \subseteq flags \cup {"he", "hd"}
        BY <2>1, <3>2 DEF HasSecret
      <3>3. CASE _invalid
        BY <3>3 DEF _invalid, Error, HasSecret
      <3>4. CASE st = S_EIN
        <4>1. mext' = mext
          BY <1>3, <3>4 DEF LoadEnds, _fail
        <4>2. flags' \subseteq flags \cup {"he", "hd"}
          BY <1>3, <3>4 DEF LoadEnds
        <4> QED
          BY <3>2, <4>1, <4>2
      <3>5. CASE st = S_DIN
        <4>1. CASE _invalid
          BY <3>3, <4>1
        <4>2. CASE ~_invalid
          <5>1. mext' = mext
            BY <1>3, <3>5, <4>2 DEF LoadEnds
          <5>2. flags' \subseteq flags \cup {"he", "hd"}
            BY <1>3, <3>5, <4>2 DEF LoadEnds
          <5> QED
            BY <3>2, <5>1, <5>2
        <4> QED
          BY <4>1, <4>2
      <3>6. CASE st = S_CIN
        <4>1. CASE Len(data) > Take(data)
          <5>1. mext' = mext /\ flags' \subseteq flags
            BY <1>3, <3>6, <4>1, TakeType DEF LoadEnds, _fail
          <5> QED
            BY <3>2, <5>1
        <4>2. CASE Len(data) = Take(data)
          <5>1. ~(Len(data) > Take(data))
            BY <1>3, <4>2, TakeType
          <5>2. _goto(ST_READY, LoadedFields(data), flags \cup {"hc"}, W + Take(data))
            BY <1>3, <3>6, <5>1 DEF LoadEnds, LoadedFields
          <5> QED
            BY <3>1, <5>2
        <4> QED
          BY <1>3, <3>6, <4>1, <4>2 DEF LoadEnds
      <3> QED
        BY <1>3, <3>4, <3>5, <3>6
    <2> QED
      BY <1>0, <2>2, ForgetStep
  <1> QED
    BY <1>1, <1>2, <1>3 DEF load

\* Emission: of a ciphertext whose secret is held, a part of what is due.
LEMMA EmitSource == ASSUME IInv, NEW n \in Emissions, emit(n) PROVE Source!Next
  <1>1. CASE _invalid /\ out' = NoOutput
    BY <1>1, InvalidForgets DEF _invalid
  <1>2. ASSUME st \in {S_EOUT, S_COUT}, W + n <= fsize(st),
               out' = Emitted(SubSeq(field[FieldOf(st)], base(st) + W + 1, base(st) + W + n)),
               \/ W + n < fsize(st) /\ W' = W + n /\ UNCHANGED <<st, err, flags, field, mext>>
               \/ W + n = fsize(st) /\ _goto(AfterEmission, field, flags, W + n)
        PROVE  Source!Next
    <2>0. n \in Nat /\ W \in Nat /\ CtSize \in Nat
      BY SizeAssumption DEF IInv, StateOK, Typed
    <2>1. CASE ~HasSecret
      <3>1. ~HasSecret' /\ mext' = mext
        <4>1. CASE UNCHANGED <<flags, mext>>
          BY <2>1, <4>1 DEF HasSecret
        <4>2. CASE _goto(AfterEmission, field, flags, W + n)
          BY <2>1, <4>2, GotoForgets DEF HasSecret
        <4> QED
          BY <1>2, <4>1, <4>2
      <3>2. Now' = Now /\ Due' = Due
        BY <2>1, <3>1 DEF Now, Due
      <3>3. out'.kind = "emitted"
        BY <1>2 DEF Emitted
      <3> QED
        BY <2>1, <3>1, <3>2, <3>3, OtherwiseStep
    <2>2. CASE HasSecret
      <3>1. st = S_COUT
        BY <1>2, <2>2, HeldFields DEF HasSecret
      <3>2. fsize(st) = CtSize /\ FieldOf(st) = "ct" /\ base(st) = 0
        BY <3>1 DEF fsize, FieldOf, base
      <3>3. field["ct"] \in [1..CtSize -> Units]
        BY ZerosType DEF IInv, StateOK, Typed, Values
      <3>4. out' = Emitted(SubSeq(field["ct"], W + 1, W + n))
        <4>1. 0 + W + 1 = W + 1 /\ 0 + W + n = W + n
          BY <2>0
        <4> QED
          BY <1>2, <3>2, <4>1
      <3>5. Due = SubSeq(field["ct"], W + 1, CtSize) /\ Now = field["ss"]
        BY <2>2, <3>1 DEF Due, Now
      <3>6. W + n <= CtSize
        BY <1>2, <3>2
      <3>7. /\ Len(Due) = CtSize - W
            /\ SubSeq(field["ct"], W + 1, W + n) = SubSeq(Due, 1, n)
            /\ SubSeq(field["ct"], W + n + 1, CtSize) = SubSeq(Due, n + 1, Len(Due))
        <4>1. W \in 0..CtSize /\ n \in 0..(CtSize - W)
          BY <2>0, <3>6
        <4> QED
          BY <2>0, <3>3, <3>5, <4>1, RestOfRest
      <3>8. Due' = SubSeq(Due, n + 1, Len(Due)) /\ Now' = Now /\ mext' = mext
        <4>1. CASE W' = W + n /\ UNCHANGED <<st, err, flags, field, mext>>
          BY <2>2, <3>1, <3>5, <3>7, <4>1 DEF Due, Now, HasSecret
        <4>2. CASE W + n = fsize(st) /\ _goto(AfterEmission, field, flags, W + n)
          <5>1. AfterEmission = S_SOUT
            BY <2>2, <3>1 DEF AfterEmission, HasSecret
          <5>2. ZeroedOnLeaving(S_SOUT, W + n) = {} /\ ZeroedOnEntering(S_SOUT) = {} /\ Required(S_SOUT) = {}
            BY <3>1 DEF ZeroedOnLeaving, ZeroedOnEntering, Required, Incomplete
          <5>3. st' = S_SOUT /\ flags' = flags \ FlagsOf({}) /\ field' = Zeroed(field, {}) /\ mext' = mext
            BY <4>2, <5>1, <5>2 DEF _goto
          <5>4. HasSecret'
            BY <2>2, <5>3 DEF HasSecret, FlagsOf
          <5>5. field'["ss"] = field["ss"]
            BY <5>3 DEF Zeroed
          <5>6. Due' = <<>>
            BY <5>3 DEF Due
          <5>7. SubSeq(Due, n + 1, Len(Due)) = <<>>
            <6>1. SubSeq(field["ct"], W + n + 1, CtSize) = <<>>
              <7>1. field["ct"] \in Seq(Units) /\ W + n + 1 > CtSize
                BY <2>0, <3>2, <3>3, <4>2
              <7> QED
                BY <2>0, <7>1, SubSeqEmpty
            <6> QED
              BY <3>7, <6>1
          <5> QED
            BY <3>5, <5>3, <5>4, <5>5, <5>6, <5>7 DEF Now
        <4> QED
          BY <1>2, <4>1, <4>2
      <3>9. n \in 0..Len(Due) /\ Now # <<>>
        BY <2>0, <2>2, <3>6, <3>7, SecretHeld
      <3>10. out' = [kind |-> "emitted", units |-> SubSeq(Due, 1, n)]
        BY <3>4, <3>7 DEF Emitted
      <3>11. Source!Announce
        BY <3>8, <3>9, <3>10 DEF Source!Announce, Source!NoSecret, Now, Due
      <3> QED
        BY <3>8, <3>11 DEF Source!Next
    <2> QED
      BY <2>1, <2>2
  <1> QED
    BY <1>1, <1>2 DEF emit

\* Operations agree on a secret or leave none.
LEMMA ExecSource == ASSUME IInv, IInv', exec PROVE Source!Next
  <1>0. out' = NoOutput
    BY DEF exec
  <1>1. CASE _invalid
    BY <1>0, <1>1, InvalidForgets DEF _invalid
  <1>2. CASE st \in {S_GEN, S_ENC, S_DEC} /\ ~_invalid
    <2>1. ~HasSecret
      BY <1>2, HeldFields DEF HasSecret
    <2>2. mext' = mext /\ W' = 0
      BY <1>2 DEF exec, _fail, _goto, _invalid, Error, GenerateKeyPair, Encapsulate, Decapsulate
    <2> QED
      BY <1>0, <2>1, <2>2, AgreeStep, ForgetStep
  <1> QED
    BY <1>1, <1>2, SizeAssumption DEF exec, Drawing, GenerateKeyPair, Encapsulate, Decapsulate

\* A derivation gives the secret, or a part of it, and drops it.
LEMMA DeriveSource ==
  ASSUME IInv, NEW dest \in Endpoints, NEW ln \in Lengths, derive(dest, ln)
  PROVE  Source!Next
  <1>1. CASE _invalid /\ out' = NoOutput
    BY <1>1, InvalidForgets DEF _invalid
  <1>2. CASE out' = NoOutput /\ UNCHANGED <<st, err, W, flags, field, mext>>
    <2>1. Now' = Now /\ Due' = Due /\ out'.kind = "none"
      BY <1>2 DEF Now, Due, HasSecret, NoOutput
    <2> QED
      BY <1>2, <2>1, OtherwiseStep
  <1>3. CASE /\ st = S_SOUT /\ EndpointAdmitted(dest) /\ LengthAdmitted(dest, ln)
             /\ Derived
             /\ out' = Secret(SubSeq(field["ss"], 1, dest.length), dest.src_out)
    <2>1. HasSecret
      BY <1>3 DEF IInv, StateOK, ChecksStillHold, HasSecret
    <2>2. ~HasSecret' /\ mext' = mext
      BY <1>3, GotoForgets DEF Derived
    <2>3. dest.length \in 0..SsSize /\ dest.src_out \in BOOLEAN
      <3>1. dest.length \in Nat /\ dest.src_out \in BOOLEAN
        BY SizeAssumption DEF Endpoints
      <3>2. dest.length <= SsSize
        <4>1. CASE dest.kind = "key"
          BY <1>3, <4>1 DEF LengthAdmitted
        <4>2. CASE dest.kind # "key"
          <5>1. dest.length = SsSize
            BY <4>2 DEF Endpoints
          <5> QED
            BY <5>1, SizeAssumption
        <4> QED
          BY <4>1, <4>2
      <3> QED
        BY <3>1, <3>2, SizeAssumption
    <2>4. /\ Now = field["ss"] /\ Len(Now) = SsSize /\ Now # <<>> /\ Due = <<>>
          /\ Now' = <<>> /\ Due' = <<>>
      BY <1>3, <2>1, <2>2, SecretHeld DEF Now, Due
    <2>5. ~(mext = Sealed /\ dest.src_out)
      BY <1>3 DEF EndpointAdmitted
    <2>6. out' = [kind |-> "secret", units |-> SubSeq(Now, 1, dest.length), readable |-> dest.src_out]
      BY <1>3, <2>4 DEF Secret
    <2>7. Source!Give(dest.length, dest.src_out)
      BY <2>4, <2>5, <2>6 DEF Source!Give, Source!NoSecret, Source!Forgotten, Now, Due
    <2>8. \E n \in 0..Len(Now), r \in BOOLEAN : Source!Give(n, r)
      BY <2>3, <2>4, <2>7
    <2> QED
      BY <2>2, <2>4, <2>8 DEF Source!Next, Source!NoSecret, Now
  <1> QED
    BY <1>1, <1>2, <1>3 DEF derive

LEMMA SourceInit == Init => Source!Init
  BY DEF Init, Source!Init, Source!NoSecret, Source!NoOutput, NoOutput, HasSecret

LEMMA SourceNext == IInv /\ IInv' /\ [Next]_vars => [Source!Next]_<<Now, Due, mext = Sealed, out>>
  <1>1. ASSUME IInv, IInv', Next PROVE Source!Next
    <2>1. ASSUME NEW e \in ERRORS, setste(e) PROVE Source!Next
      BY <2>1, InvalidForgets DEF setste
    <2>2. ASSUME NEW n \in Targets, setst(n) PROVE Source!Next
      <3>1. CASE SetstAdmitted(n) /\ _goto(n, field, flags, W)
        <4>1. n # S_SOUT /\ out' = NoOutput
          BY <2>2, <3>1 DEF SetstAdmitted, setst
        <4>2. "hs" \in flags => st \in {S_COUT, S_SOUT}
          BY <1>1, HeldFields
        <4> QED
          BY <3>1, <4>1, <4>2, GotoForgets, ForgetStep
      <3>2. CASE _invalid
        BY <2>2, <3>2, InvalidForgets DEF setst, _invalid
      <3> QED
        BY <2>2, <3>1, <3>2 DEF setst
    <2>3. ASSUME NEW data \in Transfers, load(data) PROVE Source!Next
      BY <1>1, <2>3, LoadSource
    <2>4. ASSUME NEW n \in Emissions, emit(n) PROVE Source!Next
      BY <1>1, <2>4, EmitSource
    <2>5. CASE exec
      BY <1>1, <2>5, ExecSource
    <2>6. ASSUME NEW dest \in Endpoints, NEW ln \in Lengths, derive(dest, ln) PROVE Source!Next
      BY <1>1, <2>6, DeriveSource
    <2> QED
      BY <1>1, <2>1, <2>2, <2>3, <2>4, <2>5, <2>6 DEF Next
  <1>2. ASSUME UNCHANGED vars PROVE UNCHANGED <<Now, Due, mext = Sealed, out>>
    BY <1>2 DEF vars, Now, Due, HasSecret
  <1> QED
    BY <1>1, <1>2

\* The locker implements a source of secrets: each is announced by its whole
\* ciphertext, in order, given to one destination, and gone.
THEOREM ImplementsSource == Spec => SourceSpec
  <1>1. IInv /\ IInv' /\ [Next]_vars => [Source!Next]_<<Now, Due, mext = Sealed, out>>
    BY SourceNext
  <1> QED
    BY <1>1, SourceInit, Invariance, PTL DEF Spec, SourceSpec, Source!Spec, Now, Due
=============================================================================
