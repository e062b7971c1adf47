---------------------------- MODULE MLDSA_proofs ----------------------------
(***************************************************************************)
(* Proofs about MLDSA, for fields of every size, every set of transfers    *)
(* and interrupts, every key and signature algorithm that the assumptions  *)
(* admit, and every number of draws, snapshots and imports.                *)
(*                                                                         *)
(* An import brings back an earlier locker, so the inductive invariant     *)
(* says the same of the live locker and of every snapshot: it is typed,    *)
(* its keys are checked and match (KeysOK), a field is complete, zero or   *)
(* under load (FieldsOK), and a random value that it holds belongs to the  *)
(* private key and message beside it (NonceOK).                            *)
(***************************************************************************)
EXTENDS MLDSAProps, TLAPS

USE DEF S_READY, S_GEN, S_PKOUT, S_PKIN, S_MUIN, S_SGEN, S_SOUT, S_SVER, S_SIN, S_PRIVIN, S_CPK,
        S_SUCCESS, S_FAILURE, DEFINED, LOADING, EMITTING, OPERATING, FIELDS, FLAGS, NoADS, Unhalted

KeysOK(s, fl, f) ==
  /\ "HAS_PRIV" \in fl => sk_ok(f["privkey"])
  /\ {"HAS_PRIV", "HAS_PUB"} \subseteq fl => f["pubkey"] = pk_from_sk(f["privkey"])
  /\ s \in {S_CPK, S_SGEN} => "HAS_PRIV" \in fl
  /\ s = S_PRIVIN => "HAS_PUB" \notin fl
  /\ s = S_PKIN => "HAS_PRIV" \notin fl

FieldsOK(s, fl, w, f) ==
  /\ \A x \in {"privkey", "pubkey", "mu"} :
       MarkOf(x) \notin fl =>
         \A i \in 1..Size[x] : (s \in LOADING /\ FieldOf(s) = x /\ i <= w) \/ f[x][i] = ZeroUnit
  /\ s \in LOADING /\ FlagOf(s) # {} => (FlagOf(s) \subseteq fl <=> w = Size[FieldOf(s)])

EmptyOK(s, fl, w, a, f, r) ==
  s = 0 => f = [x \in FIELDS |-> Zeros(x)] /\ r = 0 /\ a = NoADS /\ fl = {} /\ w = 0

NonceOK(s, fl, w, f, r) ==
  r # 0 => /\ s = S_SGEN /\ w # 0 /\ "HEDGED" \in fl
           /\ [rnd |-> r, privkey |-> f["privkey"], mu |-> f["mu"]] \in nonces

LockerOK(s, e, fl, w, a, f, r, p) ==
  /\ Typed(s, e, fl, w, a, f, r, p)
  /\ KeysOK(s, fl, f)
  /\ FieldsOK(s, fl, w, f)
  /\ EmptyOK(s, fl, w, a, f, r)
  /\ NonceOK(s, fl, w, f, r)

LiveOK  == LockerOK(st, error, flags, mu_use, ads, field, rnd, policy)
SnapsOK == \A s \in snaps : LockerOK(s.st, s.error, s.flags, s.mu_use, s.ads, s.field, s.rnd, s.policy)
NoncesOK ==
  /\ draws \in 0..MaxDraws
  /\ nonces \subseteq [rnd : 1..MaxDraws, privkey : Values("privkey"), mu : Values("mu")]
  /\ \A n \in nonces : n.rnd <= draws
  /\ OneMessagePerNonce

IInv ==
  /\ LiveOK
  /\ SnapsOK
  /\ NoncesOK
  /\ rnd # 0 => ads # NoADS
  /\ imports \in 0..MaxImports

\* The histories are unchanged: the invariant is preserved if the locker is well formed.
LEMMA LockerStep ==
  ASSUME IInv, UNCHANGED <<draws, snaps, nonces>>, imports' \in 0..MaxImports,
         Typed(st, error, flags, mu_use, ads, field, rnd, policy)',
         KeysOK(st, flags, field)', FieldsOK(st, flags, mu_use, field)',
         EmptyOK(st, flags, mu_use, ads, field, rnd)',
         rnd' # 0 => /\ st' = S_SGEN /\ mu_use' # 0 /\ "HEDGED" \in flags' /\ ads' # NoADS
                     /\ [rnd |-> rnd', privkey |-> field'["privkey"], mu |-> field'["mu"]] \in nonces
  PROVE  IInv'
  <1>1. LiveOK'
    BY DEF LiveOK, LockerOK, NonceOK, IInv
  <1>2. SnapsOK'
    BY DEF SnapsOK, LockerOK, NonceOK, IInv
  <1>3. NoncesOK'
    BY DEF NoncesOK, IInv, OneMessagePerNonce
  <1> QED
    BY <1>1, <1>2, <1>3 DEF IInv

\* The all-zero fields are fields, and their units are zero.
LEMMA ZerosType ==
  \A x \in FIELDS : Zeros(x) \in Values(x) /\ \A i \in 1..Size[x] : Zeros(x)[i] = ZeroUnit
  BY FieldAssumption DEF Zeros, Values

\* The field that a State loads is marked by the flag that the load sets.
LEMMA LoadedField ==
  /\ \A s \in LOADING \cup EMITTING : FieldOf(s) \in FIELDS
  /\ \A s \in LOADING : FieldOf(s) # "signature" => FlagOf(s) = {MarkOf(FieldOf(s))}
  /\ \A x \in FIELDS : Size[x] \in Nat \ {0}
  BY FieldAssumption DEF FieldOf, FlagOf, MarkOf

\* A locker that becomes inert is well formed, whatever it held.
LEMMA InertStep ==
  ASSUME IInv, UNCHANGED <<draws, snaps, nonces>>, imports' \in 0..MaxImports,
         st' = 0, error' \in BOOLEAN, flags' = {}, mu_use' = 0, ads' = NoADS, rnd' = 0,
         Zeroing(FIELDS), policy' \subseteq {"sign", "verify"}
  PROVE  IInv'
  <1>1. field' = [x \in FIELDS |-> Zeros(x)]
    BY DEF Zeroing
  <1>2. Typed(st, error, flags, mu_use, ads, field, rnd, policy)'
    BY <1>1, ZerosType, BoundAssumption DEF Typed
  <1>3. KeysOK(st, flags, field)'
    BY DEF KeysOK
  <1>4. FieldsOK(st, flags, mu_use, field)'
    BY <1>1, ZerosType DEF FieldsOK
  <1>5. EmptyOK(st, flags, mu_use, ads, field, rnd)'
    BY <1>1 DEF EmptyOK
  <1> QED
    BY <1>2, <1>3, <1>4, <1>5, LockerStep

\* Rule GR15: entering Invalid.
LEMMA InvalidStep == ASSUME IInv, invalid, Unused PROVE IInv'
  BY InertStep DEF invalid, Inert, Unused, IInv, LiveOK, LockerOK, Typed

THEOREM InitIInv == Init => IInv
  <1> SUFFICES ASSUME Init PROVE IInv
    OBVIOUS
  <1>1. Typed(st, error, flags, mu_use, ads, field, rnd, policy)
    <2>1. DOMAIN field = FIELDS /\ \A x \in FIELDS : field[x] \in Values(x)
      BY ZerosType DEF Init
    <2>2. policy \subseteq {"sign", "verify"}
      <3>1. Policies \subseteq SUBSET {"sign", "verify"}
        BY FieldAssumption
      <3>2. policy \in Policies
        BY DEF Init
      <3> QED
        BY <3>1, <3>2
    <2>3. st = 1 /\ error = FALSE /\ flags = {} /\ mu_use = 0 /\ ads = -1 /\ rnd = 0
      BY DEF Init
    <2>4. st \in DEFINED /\ st \notin LOADING \cup EMITTING \cup {S_SGEN}
      BY <2>3
    <2>5. flags \subseteq FLAGS /\ error \in BOOLEAN
      BY <2>3
    <2>6. mu_use \in Nat /\ ads \in Nat \cup {NoADS} /\ rnd \in 0..MaxDraws
      BY <2>3, BoundAssumption
    <2> QED
      BY <2>1, <2>2, <2>4, <2>5, <2>6 DEF Typed
  <1>2. FieldsOK(st, flags, mu_use, field)
    BY ZerosType DEF Init, FieldsOK
  <1>3. KeysOK(st, flags, field) /\ EmptyOK(st, flags, mu_use, ads, field, rnd) /\ NonceOK(st, flags, mu_use, field, rnd)
    BY DEF Init, KeysOK, EmptyOK, NonceOK
  <1>4. SnapsOK /\ NoncesOK
    BY BoundAssumption DEF Init, SnapsOK, NoncesOK, OneMessagePerNonce
  <1> QED
    BY <1>1, <1>2, <1>3, <1>4, BoundAssumption DEF IInv, LiveOK, LockerOK, Init

\* kl.setst to a State that admits it: what was incomplete is zeroed, what
\* loses its flag is zeroed, and a halted signature forgets its random value.
LEMMA EnterStep ==
  ASSUME IInv, NEW imm, NEW form, NEW hedged \in BOOLEAN, ~inert,
         SetstAdmitted(imm, form), Enter(imm, hedged), Unused
  PROVE  IInv'
  <1> USE DEF IInv, LiveOK, LockerOK
  <1>1. imm \in DEFINED /\ st' = imm /\ mu_use' = 0 /\ EntryAdmitted(imm)
    BY DEF SetstAdmitted, Enter
  <1>2. \A x \in FIELDS : field'[x] = IF x \in Incomplete \cup ZeroedOnEntry(imm) THEN Zeros(x) ELSE field[x]
    BY DEF Enter, Zeroing
  <1>3. flags' \subseteq FLAGS /\ FlagsOnLeaving \subseteq flags /\ flags' \subseteq FlagsOnLeaving \cup {"HEDGED"}
        /\ flags' \cap ClearedOnEntry(imm) \subseteq {"HEDGED"}
    BY DEF Enter, FlagsOnLeaving, Typed
  <1>4. rnd' = 0
    BY DEF Enter, DropsProgress, NonceOK
  <1>5. Typed(st, error, flags, mu_use, ads, field, rnd, policy)'
    <2>1. DOMAIN field' = FIELDS /\ \A x \in FIELDS : field'[x] \in Values(x)
      BY <1>2, ZerosType DEF Enter, Zeroing, Typed
    <2>3. mu_use' \in Nat /\ (st' \in LOADING \cup EMITTING => mu_use' <= Size[FieldOf(st')])
      BY <1>1, LoadedField
    <2>4. st' = S_SGEN => mu_use' <= Limit + 1
      BY <1>1, AlgorithmAssumption
    <2>5. ads' \in Nat \cup {NoADS} /\ error' \in BOOLEAN /\ policy' \subseteq {"sign", "verify"}
      BY DEF Enter, Typed
    <2> QED
      BY <1>1, <1>3, <1>4, <2>1, <2>3, <2>4, <2>5, BoundAssumption DEF Typed
  <1>6. ASSUME NEW x \in {"privkey", "pubkey", "mu"}, x \in Incomplete
        PROVE  MarkOf(x) \notin flags
    BY <1>6, LoadedField DEF Incomplete, FieldsOK
  <1>7. ASSUME NEW x \in {"privkey", "pubkey", "mu"}, x \in ZeroedOnEntry(imm)
        PROVE  MarkOf(x) \notin flags'
    <2>1. MarkOf(x) \in ClearedOnEntry(imm)
      <3>1. CASE imm \in {S_READY, S_PRIVIN}
        BY <1>7, <3>1 DEF ZeroedOnEntry, ClearedOnEntry, MarkOf
      <3>2. CASE imm \in LOADING \ {S_PRIVIN}
        BY <1>7, <3>2 DEF ZeroedOnEntry, ClearedOnEntry, MarkOf, FieldOf
      <3> QED
        BY <1>1, <1>7, <3>1, <3>2 DEF ZeroedOnEntry
    <2>2. MarkOf(x) # "HEDGED"
      BY DEF MarkOf
    <2> QED
      BY <1>3, <2>1, <2>2
  <1>8. KeysOK(st, flags, field)'
    <2>1. "HAS_PRIV" \in flags' => "HAS_PRIV" \in flags /\ field'["privkey"] = field["privkey"]
      BY <1>2, <1>3, <1>6, <1>7 DEF MarkOf
    <2>2. "HAS_PUB" \in flags' => "HAS_PUB" \in flags /\ field'["pubkey"] = field["pubkey"]
      BY <1>2, <1>3, <1>6, <1>7 DEF MarkOf
    <2>3. imm \in {S_CPK, S_SGEN} => "HAS_PRIV" \in flags'
      BY <1>1 DEF EntryAdmitted, Enter, ClearedOnEntry
    <2>4. /\ imm = S_PRIVIN => "HAS_PUB" \notin flags'
          /\ imm = S_PKIN => "HAS_PRIV" \notin flags'
      BY <1>1, <1>3 DEF EntryAdmitted, Enter, ClearedOnEntry
    <2> QED
      BY <1>1, <2>1, <2>2, <2>3, <2>4 DEF KeysOK
  <1>9. FieldsOK(st, flags, mu_use, field)'
    <2>1. ASSUME NEW x \in {"privkey", "pubkey", "mu"}, MarkOf(x) \notin flags', NEW i \in 1..Size[x]
          PROVE  field'[x][i] = ZeroUnit
      <3>1. CASE x \in Incomplete \cup ZeroedOnEntry(imm)
        BY <1>2, <3>1, ZerosType
      <3>2. CASE x \notin Incomplete \cup ZeroedOnEntry(imm)
        <4>1. MarkOf(x) \notin flags
          BY <1>1, <2>1, <3>2 DEF Enter, FlagsOnLeaving, ClearedOnEntry, ZeroedOnEntry, MarkOf, FieldOf
        <4>2. ~(st \in LOADING /\ FieldOf(st) = x)
          <5> SUFFICES ASSUME st \in LOADING, FieldOf(st) = x PROVE FALSE
            OBVIOUS
          <5>1. FlagOf(st) = {MarkOf(x)} /\ x \in FIELDS
            BY LoadedField
          <5>2. mu_use # Size[x]
            BY <4>1, <5>1 DEF FieldsOK
          <5>3. mu_use < Size[x]
            BY <5>1, <5>2, LoadedField DEF Typed
          <5> QED
            BY <3>2, <5>1, <5>3 DEF Incomplete
        <4> QED
          BY <1>2, <3>2, <4>1, <4>2 DEF FieldsOK
      <3> QED
        BY <3>1, <3>2
    <2>2. st' \in LOADING /\ FlagOf(st') # {} => ~(FlagOf(st') \subseteq flags') /\ mu_use' # Size[FieldOf(st')]
      BY <1>1, <1>3, FieldAssumption DEF FlagOf, FieldOf, ClearedOnEntry
    <2> QED
      BY <2>1, <2>2 DEF FieldsOK
  <1>10. EmptyOK(st, flags, mu_use, ads, field, rnd)'
    BY <1>1 DEF EmptyOK
  <1> QED
    BY <1>4, <1>5, <1>8, <1>9, <1>10, LockerStep DEF Unused

\* A transition made by the Machine, which ends whatever was under way.
LEMMA ToLive ==
  ASSUME IInv, NEW s \in {S_READY, S_PKOUT, S_SOUT, S_SUCCESS, S_FAILURE}, to(s),
         flags' \subseteq FLAGS, ads' \in Nat \cup {NoADS}, rnd' = 0,
         DOMAIN field' = FIELDS, \A x \in FIELDS : field'[x] \in Values(x),
         "HAS_PRIV" \in flags' => sk_ok(field'["privkey"]),
         {"HAS_PRIV", "HAS_PUB"} \subseteq flags' => field'["pubkey"] = pk_from_sk(field'["privkey"]),
         \A x \in {"privkey", "pubkey", "mu"} :
           MarkOf(x) \notin flags' => \A i \in 1..Size[x] : field'[x][i] = ZeroUnit
  PROVE  LiveOK'
  <1>1. st' = s /\ mu_use' = 0 /\ error' = error /\ policy' = policy
    BY DEF to
  <1>2. Typed(st, error, flags, mu_use, ads, field, rnd, policy)'
    <2>1. error' \in BOOLEAN /\ policy' \subseteq {"sign", "verify"}
      BY <1>1 DEF IInv, LiveOK, LockerOK, Typed
    <2>2. mu_use' \in Nat /\ rnd' \in 0..MaxDraws
      BY <1>1, BoundAssumption
    <2>3. st' \in LOADING \cup EMITTING => mu_use' <= Size[FieldOf(st')]
      BY <1>1, LoadedField
    <2>4. st' # S_SGEN /\ st' \in {0} \cup DEFINED \cup {S_SUCCESS, S_FAILURE}
      BY <1>1
    <2> QED
      BY <2>1, <2>2, <2>3, <2>4 DEF Typed
  <1>3. KeysOK(st, flags, field)' /\ FieldsOK(st, flags, mu_use, field)'
    BY <1>1 DEF KeysOK, FieldsOK
  <1>4. EmptyOK(st, flags, mu_use, ads, field, rnd)' /\ NonceOK(st, flags, mu_use, field, rnd)'
    BY <1>1 DEF EmptyOK, NonceOK
  <1> QED
    BY <1>2, <1>3, <1>4 DEF LiveOK, LockerOK

\* The histories are unchanged, and no random value is held.
LEMMA LiveStep ==
  ASSUME IInv, Unused, LiveOK', rnd' = 0
  PROVE  IInv'
  BY DEF IInv, Unused, LiveOK, SnapsOK, NoncesOK, LockerOK, NonceOK, OneMessagePerNonce

\* A transfer stays in its field, whatever its length.
LEMMA TransferFits ==
  ASSUME IInv, st \in LOADING, mu_use < Size[FieldOf(st)], NEW data \in Transfers
  PROVE  /\ Taken(data) \in Nat /\ Taken(data) <= Len(data)
         /\ mu_use + Taken(data) <= Size[FieldOf(st)]
         /\ Loaded(data) \in Values(FieldOf(st))
         /\ \A i \in 1..Size[FieldOf(st)] :
              i > mu_use + Taken(data) => Loaded(data)[i] = field[FieldOf(st)][i]
  <1>1. mu_use \in Nat /\ Size[FieldOf(st)] \in Nat /\ FieldOf(st) \in FIELDS
    BY LoadedField DEF IInv, LiveOK, LockerOK, Typed
  <1>2. Len(data) \in Nat /\ \A j \in 1..Len(data) : data[j] \in Units
    BY FieldAssumption
  <1>3. /\ Taken(data) \in Nat /\ Taken(data) <= Len(data)
        /\ mu_use + Taken(data) <= Size[FieldOf(st)]
    BY <1>1, <1>2 DEF Taken
  <1>4. field[FieldOf(st)] \in Values(FieldOf(st)) /\ Units \subseteq SigUnits
    BY <1>1, FieldAssumption DEF IInv, LiveOK, LockerOK, Typed
  <1>5. ASSUME NEW i \in 1..Size[FieldOf(st)]
        PROVE  /\ Loaded(data)[i] \in IF FieldOf(st) = "signature" THEN SigUnits ELSE Units
               /\ i > mu_use + Taken(data) => Loaded(data)[i] = field[FieldOf(st)][i]
    <2>1. CASE i \in mu_use + 1 .. mu_use + Taken(data)
      <3>1. i - mu_use \in 1..Len(data)
        BY <1>1, <1>2, <1>3, <2>1
      <3> QED
        BY <1>1, <1>2, <1>3, <1>4, <2>1, <3>1 DEF Loaded
    <2>2. CASE i \notin mu_use + 1 .. mu_use + Taken(data)
      BY <1>4, <2>2 DEF Loaded, Values
    <2> QED
      BY <2>1, <2>2
  <1>6. Loaded(data) \in Values(FieldOf(st))
    BY <1>5 DEF Loaded, Values
  <1> QED
    BY <1>3, <1>5, <1>6

\* Outside of signing no random value is held.
LEMMA NoRndElsewhere == ASSUME IInv, st # S_SGEN PROVE rnd = 0
  BY DEF IInv, LiveOK, LockerOK, NonceOK

\* Form B: a load that goes on or completes, fails or is refused.
LEMMA LoadStep == ASSUME IInv, NEW data \in Transfers, exec_load(data) PROVE IInv'
  <1> DEFINE F == FieldOf(st)
             done == mu_use + Taken(data) = Size[F]
  <1>1. st \in LOADING /\ mu_use < Size[F] /\ F \in FIELDS /\ Unused
    BY LoadedField DEF exec_load, ExecAdmitted
  <1>2. rnd = 0
    BY <1>1, NoRndElsewhere
  <1>3. Typed(st, error, flags, mu_use, ads, field, rnd, policy) /\ KeysOK(st, flags, field)
        /\ FieldsOK(st, flags, mu_use, field)
    BY DEF IInv, LiveOK, LockerOK
  <1>4. mu_use \in Nat /\ Size[F] \in Nat
    BY <1>1, <1>3, LoadedField DEF Typed
  <1>5. F # "signature" => FlagOf(st) = {MarkOf(F)} /\ MarkOf(F) \notin flags
    BY <1>1, <1>3, <1>4, LoadedField DEF FieldsOK
  <1>6. CASE invalid
    BY <1>1, <1>6, InvalidStep
  <1>7. CASE st \in {S_PKIN, S_SIN} /\ Zeroing({F}) /\ to(S_FAILURE) /\ UNCHANGED <<flags, ads, rnd>>
    <2>1. DOMAIN field' = FIELDS /\ \A x \in FIELDS : field'[x] = IF x = F THEN Zeros(x) ELSE field[x]
      BY <1>7 DEF Zeroing
    <2>2. \A x \in FIELDS : field'[x] \in Values(x)
      BY <1>3, <2>1, ZerosType DEF Typed
    <2>3. F \in {"pubkey", "signature"} /\ (F = "pubkey" => MarkOf(F) = "HAS_PUB")
      BY <1>7 DEF FieldOf, MarkOf
    <2>4. "HAS_PRIV" \in flags' => sk_ok(field'["privkey"])
      BY <1>3, <1>7, <2>1, <2>3 DEF KeysOK
    <2>5. {"HAS_PRIV", "HAS_PUB"} \subseteq flags' => field'["pubkey"] = pk_from_sk(field'["privkey"])
      BY <1>3, <1>5, <1>7, <2>1, <2>3 DEF KeysOK
    <2>6. ASSUME NEW x \in {"privkey", "pubkey", "mu"}, MarkOf(x) \notin flags', NEW i \in 1..Size[x]
          PROVE  field'[x][i] = ZeroUnit
      BY <1>3, <1>7, <2>1, <2>6, ZerosType DEF FieldsOK
    <2>7. flags' \subseteq FLAGS /\ ads' \in Nat \cup {NoADS} /\ rnd' = 0
      BY <1>2, <1>3, <1>7 DEF Typed
    <2>8. LiveOK'
      BY <1>7, <2>1, <2>2, <2>4, <2>5, <2>6, <2>7, ToLive
    <2> QED
      BY <1>1, <2>7, <2>8, LiveStep
  <1>8. CASE /\ ~(done /\ st = S_PRIVIN /\ ~sk_ok(Loaded(data)))
             /\ field' = [field EXCEPT ![F] = Loaded(data)]
             /\ mu_use' = mu_use + Taken(data)
             /\ flags' = LoadFlags(data)
             /\ UNCHANGED <<st, error, ads, rnd, policy>>
    <2>1. /\ Taken(data) \in Nat /\ mu_use + Taken(data) <= Size[F] /\ Loaded(data) \in Values(F)
          /\ \A i \in 1..Size[F] : i > mu_use + Taken(data) => Loaded(data)[i] = field[F][i]
      BY <1>1, TransferFits
    <2>2. DOMAIN field' = FIELDS /\ \A x \in FIELDS : field'[x] = IF x = F THEN Loaded(data) ELSE field[x]
      BY <1>1, <1>3, <1>8 DEF Typed
    <2>3. flags' = IF done THEN flags \cup FlagOf(st) ELSE flags
      BY <1>8 DEF LoadFlags
    <2>4. FlagOf(st) \subseteq FLAGS
      BY DEF FlagOf
    <2>5. Typed(st, error, flags, mu_use, ads, field, rnd, policy)'
      <3>1. \A x \in FIELDS : field'[x] \in Values(x)
        BY <1>3, <2>1, <2>2 DEF Typed
      <3>2. flags' \subseteq FLAGS
        BY <1>3, <2>3, <2>4 DEF Typed
      <3>3. mu_use' \in Nat /\ mu_use' <= Size[FieldOf(st')] /\ st' # S_SGEN
        BY <1>1, <1>4, <1>8, <2>1
      <3> QED
        BY <1>3, <1>8, <2>2, <3>1, <3>2, <3>3 DEF Typed
    <2>6. KeysOK(st, flags, field)'
      <3>1. CASE st = S_PRIVIN
        <4>1. F = "privkey" /\ FlagOf(st) = {"HAS_PRIV"} /\ "HAS_PUB" \notin flags /\ "HAS_PRIV" \notin flags
          BY <1>3, <1>5, <3>1 DEF FieldOf, FlagOf, MarkOf, KeysOK
        <4> QED
          BY <1>8, <2>2, <2>3, <3>1, <4>1 DEF KeysOK
      <3>2. CASE st = S_PKIN
        <4>1. F = "pubkey" /\ FlagOf(st) = {"HAS_PUB"} /\ "HAS_PRIV" \notin flags
          BY <1>3, <3>2 DEF FieldOf, FlagOf, KeysOK
        <4> QED
          BY <1>8, <2>2, <2>3, <3>2, <4>1 DEF KeysOK
      <3>3. CASE st \in {S_MUIN, S_SIN}
        <4>1. F \in {"mu", "signature"} /\ FlagOf(st) \subseteq {"HAS_MU"}
          BY <3>3 DEF FieldOf, FlagOf
        <4> QED
          BY <1>3, <1>8, <2>2, <2>3, <3>3, <4>1 DEF KeysOK
      <3> QED
        BY <1>1, <3>1, <3>2, <3>3
    <2>7. FieldsOK(st, flags, mu_use, field)'
      <3>1. ASSUME NEW x \in {"privkey", "pubkey", "mu"}, MarkOf(x) \notin flags', NEW i \in 1..Size[x]
            PROVE  (st' \in LOADING /\ FieldOf(st') = x /\ i <= mu_use') \/ field'[x][i] = ZeroUnit
        <4>1. MarkOf(x) \notin flags
          BY <2>3, <3>1
        <4>2. CASE x # F
          BY <1>3, <2>2, <3>1, <4>1, <4>2 DEF FieldsOK
        <4>3. CASE x = F /\ i > mu_use'
          BY <1>1, <1>3, <1>4, <1>8, <2>1, <2>2, <4>1, <4>3 DEF FieldsOK
        <4>4. CASE x = F /\ i <= mu_use'
          BY <1>1, <1>8, <4>4
        <4> QED
          BY <1>4, <1>8, <2>1, <4>2, <4>3, <4>4
      <3>2. FlagOf(st) # {} => (FlagOf(st) \subseteq flags' <=> mu_use' = Size[F])
        BY <1>1, <1>3, <1>4, <1>8, <2>3 DEF FieldsOK
      <3> QED
        BY <1>1, <1>8, <3>1, <3>2 DEF FieldsOK
    <2>8. EmptyOK(st, flags, mu_use, ads, field, rnd)'
      BY <1>1, <1>8 DEF EmptyOK
    <2>9. rnd' = 0 /\ imports' \in 0..MaxImports /\ UNCHANGED <<draws, snaps, nonces>>
      BY <1>1, <1>2, <1>8 DEF Unused, IInv
    <2> QED
      BY <2>5, <2>6, <2>7, <2>8, <2>9, LockerStep
  <1> QED
    BY <1>6, <1>7, <1>8 DEF exec_load

\* Outside of a load, an unmarked field is zero.
LEMMA UnmarkedZero ==
  ASSUME IInv, st \notin LOADING, NEW x \in {"privkey", "pubkey", "mu"}, MarkOf(x) \notin flags
  PROVE  \A i \in 1..Size[x] : field[x][i] = ZeroUnit
  BY DEF IInv, LiveOK, LockerOK, FieldsOK

\* A Machine transition that leaves the fields and the flags alone.
LEMMA ToAlone ==
  ASSUME IInv, NEW s \in {S_READY, S_PKOUT, S_SOUT, S_SUCCESS, S_FAILURE}, to(s), st \notin LOADING,
         UNCHANGED <<flags, field>>, ads' \in Nat \cup {NoADS}, rnd' = 0
  PROVE  LiveOK'
  <1>1. Typed(st, error, flags, mu_use, ads, field, rnd, policy) /\ KeysOK(st, flags, field)
    BY DEF IInv, LiveOK, LockerOK
  <1>2. flags' \subseteq FLAGS /\ DOMAIN field' = FIELDS /\ \A x \in FIELDS : field'[x] \in Values(x)
    BY <1>1 DEF Typed
  <1>3. /\ "HAS_PRIV" \in flags' => sk_ok(field'["privkey"])
        /\ {"HAS_PRIV", "HAS_PUB"} \subseteq flags' => field'["pubkey"] = pk_from_sk(field'["privkey"])
    BY <1>1 DEF KeysOK
  <1>4. \A x \in {"privkey", "pubkey", "mu"} :
           MarkOf(x) \notin flags' => \A i \in 1..Size[x] : field'[x][i] = ZeroUnit
    BY UnmarkedZero
  <1> QED
    BY <1>2, <1>3, <1>4, ToLive

LEMMA AdsType == IInv => ads \in Nat \cup {NoADS}
  BY DEF IInv, LiveOK, LockerOK, Typed

\* Form C: output that goes on, ends or runs past the end of the field.
LEMMA EmitStep == ASSUME IInv, NEW n \in Emissions, exec_emit(n) PROVE IInv'
  <1>1. st \in EMITTING /\ Unused /\ st \notin LOADING /\ rnd = 0
    BY NoRndElsewhere DEF exec_emit
  <1>2. CASE invalid
    BY <1>1, <1>2, InvalidStep
  <1>3. CASE to(S_SUCCESS) /\ UNCHANGED <<flags, ads, field, rnd>>
    BY <1>1, <1>3, ToAlone, LiveStep, AdsType
  <1>4. CASE /\ mu_use + n < Size[FieldOf(st)] /\ mu_use' = mu_use + n
             /\ UNCHANGED <<st, error, flags, ads, field, rnd, policy>>
    <2>1. mu_use \in Nat /\ n \in Nat /\ Size[FieldOf(st)] \in Nat
      BY <1>1, LoadedField, FieldAssumption DEF IInv, LiveOK, LockerOK, Typed
    <2>2. mu_use' \in Nat /\ mu_use' <= Size[FieldOf(st)]
      BY <1>4, <2>1
    <2>3. Typed(st, error, flags, mu_use, ads, field, rnd, policy)'
      BY <1>1, <1>4, <2>2 DEF IInv, LiveOK, LockerOK, Typed
    <2>4. KeysOK(st, flags, field)' /\ FieldsOK(st, flags, mu_use, field)'
          /\ EmptyOK(st, flags, mu_use, ads, field, rnd)'
      BY <1>1, <1>4 DEF IInv, LiveOK, LockerOK, KeysOK, FieldsOK, EmptyOK
    <2> QED
      BY <1>1, <1>4, <2>3, <2>4, LockerStep DEF Unused, IInv
  <1> QED
    BY <1>2, <1>3, <1>4 DEF exec_emit

\* Key generation writes a key pair.
LEMMA GenerateStep == ASSUME IInv, exec_generate PROVE IInv'
  <1>1. st = S_GEN /\ Unused /\ st \notin LOADING /\ rnd = 0
    BY NoRndElsewhere DEF exec_generate
  <1>2. CASE invalid
    BY <1>1, <1>2, InvalidStep
  <1>3. CASE LoopBound
    BY <1>1, <1>3, ToAlone, LiveStep, AdsType DEF LoopBound
  <1>4. ASSUME NEW p \in KeyPairs,
               field' = [field EXCEPT !["pubkey"] = p[1], !["privkey"] = p[2]],
               flags' = flags \cup {"HAS_PRIV", "HAS_PUB"},
               to(S_PKOUT), UNCHANGED <<ads, rnd>>
        PROVE  IInv'
    <2>1. Typed(st, error, flags, mu_use, ads, field, rnd, policy)
      BY DEF IInv, LiveOK, LockerOK
    <2>2. /\ p[1] \in Values("pubkey") /\ p[2] \in Values("privkey")
          /\ sk_ok(p[2]) /\ p[1] = pk_from_sk(p[2])
      BY AlgorithmAssumption
    <2>3. /\ DOMAIN field' = FIELDS /\ \A x \in FIELDS : field'[x] \in Values(x)
          /\ field'["pubkey"] = p[1] /\ field'["privkey"] = p[2] /\ field'["mu"] = field["mu"]
      BY <1>4, <2>1, <2>2 DEF Typed
    <2>4. flags' \subseteq FLAGS /\ rnd' = 0 /\ ads' \in Nat \cup {NoADS}
      BY <1>1, <1>4, <2>1 DEF Typed
    <2>5. \A x \in {"privkey", "pubkey", "mu"} :
            MarkOf(x) \notin flags' => x = "mu" /\ MarkOf(x) \notin flags
      BY <1>4 DEF MarkOf
    <2>6. \A x \in {"privkey", "pubkey", "mu"} :
            MarkOf(x) \notin flags' => \A i \in 1..Size[x] : field'[x][i] = ZeroUnit
      BY <1>1, <2>3, <2>5, UnmarkedZero
    <2>7. LiveOK'
      BY <1>4, <2>2, <2>3, <2>4, <2>6, ToLive
    <2> QED
      BY <1>1, <2>4, <2>7, LiveStep
  <1> QED
    BY <1>2, <1>3, <1>4 DEF exec_generate

\* The public key is derived from the private key beside it.
LEMMA ComputeStep == ASSUME IInv, exec_compute_pubkey PROVE IInv'
  <1>1. st = S_CPK /\ Unused /\ st \notin LOADING /\ rnd = 0
    BY NoRndElsewhere DEF exec_compute_pubkey
  <1>2. CASE invalid
    BY <1>1, <1>2, InvalidStep
  <1>3. CASE LoopBound
    BY <1>1, <1>3, ToAlone, LiveStep, AdsType DEF LoopBound
  <1>4. CASE /\ field' = [field EXCEPT !["pubkey"] = pk_from_sk(field["privkey"]),
                                       !["signature"] = Zeros("signature"), !["mu"] = Zeros("mu")]
             /\ flags' = (flags \cup {"HAS_PUB"}) \ {"HAS_MU"}
             /\ rnd' = 0 /\ ads' = NoADS
             /\ to(S_READY)
    <2>1. Typed(st, error, flags, mu_use, ads, field, rnd, policy) /\ KeysOK(st, flags, field)
      BY DEF IInv, LiveOK, LockerOK
    <2>2. field["privkey"] \in Values("privkey") /\ pk_from_sk(field["privkey"]) \in Values("pubkey")
          /\ sk_ok(field["privkey"])
      BY <1>1, <2>1, AlgorithmAssumption DEF Typed, KeysOK
    <2>3. /\ DOMAIN field' = FIELDS /\ field'["pubkey"] = pk_from_sk(field["privkey"])
          /\ field'["privkey"] = field["privkey"]
          /\ field'["mu"] = Zeros("mu") /\ field'["signature"] = Zeros("signature")
      BY <1>4, <2>1 DEF Typed
    <2>4. \A x \in FIELDS : field'[x] \in Values(x)
      BY <2>2, <2>3, ZerosType
    <2>5. flags' \subseteq FLAGS
      BY <1>4, <2>1 DEF Typed
    <2>6. "HAS_PRIV" \in flags'
      BY <1>1, <1>4, <2>1 DEF KeysOK
    <2>7. \A x \in {"privkey", "pubkey", "mu"} :
            MarkOf(x) \notin flags' => \A i \in 1..Size[x] : field'[x][i] = ZeroUnit
      BY <1>4, <2>3, <2>6, ZerosType DEF MarkOf
    <2>8. LiveOK'
      BY <1>4, <2>2, <2>3, <2>4, <2>5, <2>7, ToLive
    <2> QED
      BY <1>1, <1>4, <2>8, LiveStep
  <1> QED
    BY <1>2, <1>3, <1>4 DEF exec_compute_pubkey

LEMMA VerifyStep == ASSUME IInv, exec_verify PROVE IInv'
  <1>1. st = S_SVER /\ Unused /\ st \notin LOADING /\ rnd = 0
    BY NoRndElsewhere DEF exec_verify
  <1>2. PICK s \in {S_SUCCESS, S_FAILURE} : to(s) /\ UNCHANGED <<flags, ads, field, rnd>>
    BY DEF exec_verify, LoopBound
  <1> QED
    BY <1>1, <1>2, ToAlone, LiveStep, AdsType

\* What an attempt at signing starts with: a checked key, and a random value
\* that is new or the one that the halted operation began with.
LEMMA SignInputs ==
  ASSUME IInv, st = S_SGEN, Draws => draws < MaxDraws
  PROVE  /\ Nonce \in 0..MaxDraws /\ Done \in Nat
         /\ field["privkey"] \in Values("privkey") /\ sk_ok(field["privkey"])
         /\ field["mu"] \in Values("mu")
         /\ Needed \in Nat \ {0} /\ sign(field["privkey"], field["mu"], Nonce) \in Values("signature")
         /\ Nonce # 0 => "HEDGED" \in flags
         /\ Nonce # 0 => \/ Draws /\ Nonce = draws + 1
                         \/ /\ ~Draws
                            /\ [rnd |-> Nonce, privkey |-> field["privkey"], mu |-> field["mu"]] \in nonces
  <1>1. /\ Typed(st, error, flags, mu_use, ads, field, rnd, policy) /\ KeysOK(st, flags, field)
        /\ NonceOK(st, flags, mu_use, field, rnd) /\ draws \in 0..MaxDraws
    BY DEF IInv, LiveOK, LockerOK, NoncesOK
  <1>2. rnd \in 0..MaxDraws /\ ads \in Nat \cup {NoADS} /\ MaxDraws \in Nat
    BY <1>1, BoundAssumption DEF Typed
  <1>3. Nonce \in 0..MaxDraws /\ Done \in Nat
    BY <1>1, <1>2 DEF Nonce, Done, Resuming
  <1>4. field["privkey"] \in Values("privkey") /\ sk_ok(field["privkey"]) /\ field["mu"] \in Values("mu")
    BY <1>1 DEF Typed, KeysOK
  <1>5. Needed \in Nat \ {0} /\ sign(field["privkey"], field["mu"], Nonce) \in Values("signature")
    BY <1>3, <1>4, SignAssumption DEF Needed
  <1>6. CASE Draws
    BY <1>3, <1>4, <1>5, <1>6 DEF Draws, Nonce, flag
  <1>7. CASE ~Draws
    BY <1>1, <1>3, <1>4, <1>5, <1>7 DEF Nonce, NonceOK
  <1> QED
    BY <1>6, <1>7

\* The history of random values goes on as it should.
LEMMA SignHistory ==
  ASSUME IInv, NEW halt, exec_sign(halt)
  PROVE  /\ NoncesOK' /\ SnapsOK' /\ nonces \subseteq nonces' /\ imports' \in 0..MaxImports
         /\ Nonce # 0 => [rnd |-> Nonce, privkey |-> field["privkey"], mu |-> field["mu"]] \in nonces'
  <1> DEFINE new == [rnd |-> Nonce, privkey |-> field["privkey"], mu |-> field["mu"]]
  <1>1. /\ st = S_SGEN /\ (Draws => draws < MaxDraws)
        /\ draws' = (IF Draws THEN draws + 1 ELSE draws)
        /\ nonces' = (IF Nonce = 0 THEN nonces ELSE nonces \cup {new})
        /\ UNCHANGED <<snaps, imports>>
    BY DEF exec_sign
  <1>2. NoncesOK /\ SnapsOK /\ imports \in 0..MaxImports
    BY DEF IInv
  <1>3. draws \in Nat /\ MaxDraws \in Nat /\ draws' \in 0..MaxDraws /\ draws <= draws'
    BY <1>1, <1>2, BoundAssumption DEF NoncesOK
  <1>4. \A n \in nonces : n.rnd \in Nat /\ n.rnd <= draws
    BY <1>2 DEF NoncesOK
  <1>5. Nonce # 0 => /\ new \in [rnd : 1..MaxDraws, privkey : Values("privkey"), mu : Values("mu")]
                     /\ (Draws /\ Nonce = draws + 1) \/ (~Draws /\ new \in nonces)
    BY <1>1, <1>3, SignInputs
  <1>6. NoncesOK'
    <2>1. CASE Nonce = 0 \/ new \in nonces
      <3>1. nonces' = nonces
        BY <1>1, <2>1
      <3>2. \A n \in nonces : n.rnd <= draws'
        BY <1>3, <1>4
      <3> QED
        BY <1>2, <1>3, <3>1, <3>2 DEF NoncesOK, OneMessagePerNonce
    <2>2. CASE Nonce # 0 /\ new \notin nonces
      <3>1. new.rnd = draws + 1 /\ draws' = draws + 1 /\ nonces' = nonces \cup {new}
        BY <1>1, <1>5, <2>2
      <3>2. \A n \in nonces : n.rnd # new.rnd
        BY <1>3, <1>4, <3>1
      <3>3. OneMessagePerNonce'
        BY <1>2, <3>1, <3>2 DEF NoncesOK, OneMessagePerNonce
      <3>4. \A n \in nonces' : n.rnd <= draws'
        BY <1>3, <1>4, <3>1
      <3>5. nonces' \subseteq [rnd : 1..MaxDraws, privkey : Values("privkey"), mu : Values("mu")]
        BY <1>2, <1>5, <2>2, <3>1 DEF NoncesOK
      <3> QED
        BY <1>3, <3>3, <3>4, <3>5 DEF NoncesOK
    <2> QED
      BY <2>1, <2>2
  <1>7. SnapsOK'
    BY <1>1, <1>2 DEF SnapsOK, LockerOK, NonceOK
  <1> QED
    BY <1>1, <1>2, <1>6, <1>7

\* Sign_Generate: halted, failed or completed.
LEMMA SignStep == ASSUME IInv, NEW halt \in Halts \cup {Unhalted}, exec_sign(halt) PROVE IInv'
  <1>1. st = S_SGEN /\ (Draws => draws < MaxDraws) /\ st \notin LOADING
    BY DEF exec_sign
  <1>2. Typed(st, error, flags, mu_use, ads, field, rnd, policy) /\ KeysOK(st, flags, field)
        /\ FieldsOK(st, flags, mu_use, field)
    BY DEF IInv, LiveOK, LockerOK
  <1>3. NoncesOK' /\ SnapsOK' /\ imports' \in 0..MaxImports
        /\ (Nonce # 0 => [rnd |-> Nonce, privkey |-> field["privkey"], mu |-> field["mu"]] \in nonces')
    BY SignHistory
  <1>4. CASE Interrupted(halt) /\ SignHalts(halt)
    <2>1. halt \in Nat /\ Limit \in Nat
      BY <1>4, FieldAssumption, AlgorithmAssumption DEF Interrupted
    <2>2. Nonce \in 0..MaxDraws /\ Done \in Nat /\ Needed \in Nat /\ (Nonce # 0 => "HEDGED" \in flags)
      BY <1>1, SignInputs
    <2>3. ads' \in Nat /\ mu_use' \in Nat /\ mu_use' # 0 /\ mu_use' <= Limit + 1
      BY <1>4, <2>1, <2>2 DEF Interrupted, SignHalts
    <2>4. st' = S_SGEN /\ rnd' = Nonce /\ UNCHANGED <<error, flags, field, policy>>
      BY <1>1, <1>4 DEF SignHalts
    <2>5. Typed(st, error, flags, mu_use, ads, field, rnd, policy)'
      BY <1>2, <2>2, <2>3, <2>4 DEF Typed
    <2>6. KeysOK(st, flags, field)' /\ FieldsOK(st, flags, mu_use, field)'
          /\ EmptyOK(st, flags, mu_use, ads, field, rnd)'
      BY <1>1, <1>2, <2>4 DEF KeysOK, FieldsOK, EmptyOK
    <2>7. NonceOK(st, flags, mu_use, field, rnd)'
      BY <1>3, <2>2, <2>3, <2>4 DEF NonceOK
    <2>8. LiveOK'
      BY <2>5, <2>6, <2>7 DEF LiveOK, LockerOK
    <2>9. ads' # NoADS
      BY <2>3
    <2> QED
      BY <1>3, <2>8, <2>9 DEF IInv
  <1>5. CASE SignFails
    <2>1. LiveOK' /\ rnd' = 0
      BY <1>1, <1>5, ToAlone DEF SignFails
    <2> QED
      BY <1>3, <2>1 DEF IInv
  <1>6. CASE SignCompletes
    <2>1. /\ DOMAIN field' = FIELDS
          /\ field'["signature"] = sign(field["privkey"], field["mu"], Nonce)
          /\ \A x \in {"privkey", "pubkey", "mu"} : field'[x] = field[x]
      BY <1>2, <1>6 DEF SignCompletes, Typed
    <2>2. \A x \in FIELDS : field'[x] \in Values(x)
      BY <1>1, <1>2, <2>1, SignInputs DEF Typed
    <2>3. flags' \subseteq FLAGS /\ ads' = NoADS /\ rnd' = 0 /\ flags' = flags /\ to(S_SOUT)
      BY <1>2, <1>6 DEF SignCompletes, Typed
    <2>4. /\ "HAS_PRIV" \in flags' => sk_ok(field'["privkey"])
          /\ {"HAS_PRIV", "HAS_PUB"} \subseteq flags' => field'["pubkey"] = pk_from_sk(field'["privkey"])
      BY <1>2, <2>1, <2>3 DEF KeysOK
    <2>5. \A x \in {"privkey", "pubkey", "mu"} :
            MarkOf(x) \notin flags' => \A i \in 1..Size[x] : field'[x][i] = ZeroUnit
      BY <1>1, <2>1, <2>3, UnmarkedZero
    <2>6. LiveOK'
      BY <2>1, <2>2, <2>3, <2>4, <2>5, ToLive
    <2> QED
      BY <1>3, <2>3, <2>6 DEF IInv
  <1> QED
    BY <1>4, <1>5, <1>6 DEF exec_sign

\* kl.rstr and the provisioning of an inert locker.
LEMMA PolicyStep == ASSUME IInv, NEW p \in Policies, rstr(p) \/ provision(p) PROVE IInv'
  <1>1. p \subseteq {"sign", "verify"}
    <2>1. Policies \subseteq SUBSET {"sign", "verify"}
      BY FieldAssumption
    <2> QED
      BY <2>1
  <1>2. Typed(st, error, flags, mu_use, ads, field, rnd, policy) /\ KeysOK(st, flags, field)
        /\ FieldsOK(st, flags, mu_use, field) /\ EmptyOK(st, flags, mu_use, ads, field, rnd)
        /\ NonceOK(st, flags, mu_use, field, rnd)
    BY DEF IInv, LiveOK, LockerOK
  <1>3. Unused /\ UNCHANGED <<flags, mu_use, ads, field, rnd>>
    BY DEF rstr, provision
  <1>4. CASE rstr(p)
    <2>1. UNCHANGED <<st, error>> /\ policy' \subseteq {"sign", "verify"}
      BY <1>1, <1>4 DEF rstr
    <2>2. Typed(st, error, flags, mu_use, ads, field, rnd, policy)'
      BY <1>2, <1>3, <2>1 DEF Typed
    <2>3. KeysOK(st, flags, field)' /\ FieldsOK(st, flags, mu_use, field)'
          /\ EmptyOK(st, flags, mu_use, ads, field, rnd)'
      BY <1>2, <1>3, <2>1 DEF KeysOK, FieldsOK, EmptyOK
    <2>4. rnd' # 0 => /\ st' = S_SGEN /\ mu_use' # 0 /\ "HEDGED" \in flags' /\ ads' # NoADS
                      /\ [rnd |-> rnd', privkey |-> field'["privkey"], mu |-> field'["mu"]] \in nonces
      BY <1>2, <1>3, <2>1 DEF NonceOK, IInv
    <2> QED
      BY <1>3, <2>2, <2>3, <2>4, LockerStep DEF Unused, IInv
  <1>5. CASE provision(p)
    <2>1. st = 0 /\ st' = S_READY /\ error' = FALSE /\ policy' = p
      BY <1>5 DEF provision, inert
    <2>2. /\ flags' = {} /\ mu_use' = 0 /\ ads' = NoADS /\ rnd' = 0
          /\ field' = [x \in FIELDS |-> Zeros(x)]
      BY <1>2, <1>3, <2>1 DEF EmptyOK
    <2>3. Typed(st, error, flags, mu_use, ads, field, rnd, policy)'
      <3>1. st' \in DEFINED /\ st' \notin LOADING \cup EMITTING \cup {S_SGEN}
        BY <2>1
      <3>2. /\ flags' \subseteq FLAGS /\ mu_use' \in Nat /\ ads' \in Nat \cup {NoADS} /\ rnd' \in 0..MaxDraws
            /\ DOMAIN field' = FIELDS /\ \A x \in FIELDS : field'[x] \in Values(x)
        BY <1>2, <1>3 DEF Typed
      <3>3. error' \in BOOLEAN
        BY <2>1
      <3> QED
        BY <1>1, <2>1, <3>1, <3>2, <3>3 DEF Typed
    <2>4. KeysOK(st, flags, field)' /\ FieldsOK(st, flags, mu_use, field)'
          /\ EmptyOK(st, flags, mu_use, ads, field, rnd)'
      BY <2>1, <2>2, ZerosType DEF KeysOK, FieldsOK, EmptyOK
    <2> QED
      BY <1>3, <2>2, <2>3, <2>4, LockerStep DEF Unused, IInv
  <1> QED
    BY <1>4, <1>5

\* A snapshot is as well formed as the locker, with or without its ADS.
LEMMA ExportStep == ASSUME IInv, NEW content2 \in BOOLEAN, export(content2) PROVE IInv'
  <1> DEFINE a == IF content2 THEN ads ELSE NoADS
             new == [st |-> st, error |-> error, flags |-> flags, mu_use |-> mu_use,
                     ads |-> a, field |-> field, rnd |-> rnd, policy |-> policy]
  <1>1. snaps' = snaps \cup {new} /\ UNCHANGED <<locker, draws, imports, nonces>>
    BY DEF export
  <1>2. a \in {ads, NoADS}
    OBVIOUS
  <1>3. LiveOK /\ SnapsOK /\ NoncesOK
    BY DEF IInv
  <1>4. LockerOK(st, error, flags, mu_use, a, field, rnd, policy)
    <2> HIDE DEF a
    <2> QED
      BY <1>2, <1>3 DEF LiveOK, LockerOK, Typed, EmptyOK
  <1>5. LockerOK(new.st, new.error, new.flags, new.mu_use, new.ads, new.field, new.rnd, new.policy)
    <2> HIDE DEF a
    <2> QED
      BY <1>4
  <1>6. SnapsOK'
    <2> HIDE DEF new
    <2> QED
      BY <1>1, <1>3, <1>5 DEF SnapsOK, LockerOK, NonceOK
  <1>7. LiveOK'
    BY <1>1, <1>3 DEF locker, LiveOK, LockerOK, NonceOK
  <1>8. NoncesOK'
    BY <1>1, <1>3 DEF NoncesOK, OneMessagePerNonce
  <1> QED
    BY <1>1, <1>6, <1>7, <1>8 DEF IInv, locker

\* An import is as well formed as its snapshot; a halted signature that misses
\* its ADS comes back at its start, without random value.
LEMMA ImportStep == ASSUME IInv, NEW content2 \in BOOLEAN, NEW s \in snaps, import_(s, content2) PROVE IInv'
  <1>1. imports' \in 0..MaxImports /\ UNCHANGED <<draws, snaps, nonces>>
    BY BoundAssumption DEF import_, IInv
  <1>2. /\ Typed(s.st, s.error, s.flags, s.mu_use, s.ads, s.field, s.rnd, s.policy)
        /\ KeysOK(s.st, s.flags, s.field) /\ FieldsOK(s.st, s.flags, s.mu_use, s.field)
        /\ EmptyOK(s.st, s.flags, s.mu_use, s.ads, s.field, s.rnd)
        /\ NonceOK(s.st, s.flags, s.mu_use, s.field, s.rnd)
    BY DEF IInv, SnapsOK, LockerOK
  <1>3. CASE /\ st' = 0 /\ error' = TRUE /\ flags' = {} /\ mu_use' = 0 /\ ads' = NoADS /\ rnd' = 0
             /\ Zeroing(FIELDS) /\ policy' = s.policy
    BY <1>1, <1>2, <1>3, InertStep DEF Typed
  <1>4. CASE Restore(s, content2)
    <2>1. /\ st' = s.st /\ error' = s.error /\ flags' = s.flags /\ field' = s.field /\ policy' = s.policy
          /\ ads' \in {s.ads, NoADS}
      BY <1>4 DEF Restore
    <2>2. \/ mu_use' = s.mu_use
          \/ mu_use' = 0 /\ s.st = S_SGEN
      BY <1>4 DEF Restore, Restarts
    <2>3. \/ rnd' = 0
          \/ rnd' = s.rnd /\ mu_use' = s.mu_use /\ (s.st = S_SGEN /\ s.mu_use # 0 => ads' # NoADS)
      BY <1>4 DEF Restore, Restarts
    <2>4. Typed(st, error, flags, mu_use, ads, field, rnd, policy)'
      <3>1. mu_use' \in Nat /\ rnd' \in 0..MaxDraws /\ ads' \in Nat \cup {NoADS}
        BY <1>2, <2>1, <2>2, <2>3, BoundAssumption DEF Typed
      <3>2. st' = S_SGEN => mu_use' <= Limit + 1
        BY <1>2, <2>1, <2>2, AlgorithmAssumption DEF Typed
      <3>3. st' \in LOADING \cup EMITTING => mu_use' <= Size[FieldOf(st')]
        BY <1>2, <2>1, <2>2 DEF Typed
      <3> QED
        BY <1>2, <2>1, <3>1, <3>2, <3>3 DEF Typed
    <2>5. KeysOK(st, flags, field)' /\ EmptyOK(st, flags, mu_use, ads, field, rnd)'
      BY <1>2, <2>1, <2>2, <2>3 DEF KeysOK, EmptyOK
    <2>6. FieldsOK(st, flags, mu_use, field)'
      BY <1>2, <2>1, <2>2 DEF FieldsOK
    <2>7. rnd' # 0 => /\ st' = S_SGEN /\ mu_use' # 0 /\ "HEDGED" \in flags' /\ ads' # NoADS
                      /\ [rnd |-> rnd', privkey |-> field'["privkey"], mu |-> field'["mu"]] \in nonces
      BY <1>2, <2>1, <2>3 DEF NonceOK
    <2> QED
      BY <1>1, <2>4, <2>5, <2>6, <2>7, LockerStep
  <1> QED
    BY <1>3, <1>4 DEF import_

THEOREM NextIInv == IInv /\ [Next]_vars => IInv'
  <1> SUFFICES ASSUME IInv, [Next]_vars PROVE IInv'
    OBVIOUS
  <1>1. ASSUME NEW imm, NEW form, NEW hedged \in BOOLEAN, setst(imm, form, hedged) PROVE IInv'
    BY <1>1, EnterStep, InvalidStep DEF setst
  <1>2. ASSUME setst_zero PROVE IInv'
    <2>1. policy \subseteq {"sign", "verify"} /\ imports \in 0..MaxImports
      BY DEF IInv, LiveOK, LockerOK, Typed
    <2> QED
      BY <1>2, <2>1, InertStep DEF setst_zero, Inert, Unused
  <1>3. ASSUME NEW form, exec_refused(form) PROVE IInv'
    BY <1>3, InvalidStep DEF exec_refused
  <1>4. ASSUME exec_sign_rbg_failure PROVE IInv'
    BY <1>4, InvalidStep DEF exec_sign_rbg_failure
  <1>5. CASE UNCHANGED vars
    <2>1. LiveOK' /\ SnapsOK' /\ NoncesOK'
      BY <1>5 DEF IInv, vars, locker, LiveOK, SnapsOK, NoncesOK, LockerOK, NonceOK, OneMessagePerNonce
    <2> QED
      BY <1>5, <2>1 DEF IInv, vars, locker
  <1> QED
    BY <1>1, <1>2, <1>3, <1>4, <1>5, LoadStep, EmitStep, GenerateStep, ComputeStep, VerifyStep, SignStep,
       PolicyStep, ExportStep, ImportStep DEF Next

\* The inductive invariant holds in every reachable state.
THEOREM Invariance == Spec => []IInv
  BY InitIInv, NextIInv, PTL DEF Spec

-----------------------------------------------------------------------------
(* The properties.                                                         *)

\* Type correctness, of the locker and of every snapshot: no transfer moves the
\* counter past its field and no iteration the progress past the limit.
THEOREM TypeCorrect == Spec => []TypeOK
  <1>1. IInv => TypeOK
    BY DEF IInv, LiveOK, SnapsOK, NoncesOK, LockerOK, TypeOK
  <1> QED
    BY <1>1, Invariance, PTL

\* A public key beside a private key is its public key (setst, exec_load,
\* exec_generate, exec_compute_pubkey and import_).
THEOREM KeyPairsMatch == Spec => []KeyPairMatches
  <1>1. IInv => KeyPairMatches
    BY DEF IInv, LiveOK, LockerOK, KeysOK, KeyPairMatches
  <1> QED
    BY <1>1, Invariance, PTL

\* Nothing is left in a field that its flag does not mark.
THEOREM NothingLeftBehind == Spec => [](UnmarkedFieldsAreZero /\ FlagMarksWholeField /\ InertLockerIsEmpty)
  <1>1. IInv => UnmarkedFieldsAreZero /\ FlagMarksWholeField
    BY DEF IInv, LiveOK, LockerOK, FieldsOK, UnmarkedFieldsAreZero, FlagMarksWholeField
  <1>2. IInv => InertLockerIsEmpty
    BY DEF IInv, LiveOK, LockerOK, EmptyOK, InertLockerIsEmpty, inert
  <1> QED
    BY <1>1, <1>2, Invariance, PTL

\* The random value of hedged signing exists only while its operation is
\* interrupted and can be resumed.
THEOREM RndIsTransient == Spec => []RndOnlyWhileHalted
  <1>1. IInv => RndOnlyWhileHalted
    BY DEF IInv, LiveOK, LockerOK, NonceOK, RndOnlyWhileHalted, flag
  <1> QED
    BY <1>1, Invariance, PTL

\* No random value signs two messages, or one with two keys, whatever is
\* halted, exported, imported, resumed and restarted.
THEOREM NoncesAreUsedOnce == Spec => []OneMessagePerNonce
  <1>1. IInv => OneMessagePerNonce
    BY DEF IInv, NoncesOK
  <1> QED
    BY <1>1, Invariance, PTL

-----------------------------------------------------------------------------
(* An ML-DSA locker implements SigningSession: Spec => SessionSpec.  A     *)
(* session is under way while a halted signature has its progress and its  *)
(* ADS.  Every instruction but a signature and an emission leaves the      *)
(* State without either; the progress in the ADS, the transfers and the    *)
(* checks do not show.                                                     *)

Current     == SessionOf(Held)
Ready       == SignatureOf(Held)
Saved       == {<<SessionOf(s), SignatureOf(s)>> : s \in snaps}
SessionStep == [Session!Next]_<<Current, Ready, Saved, 1..draws>>

\* Neither a session nor a signature.
Idle(s, w) == s # S_SOUT /\ (s = S_SGEN => w = 0)

-----------------------------------------------------------------------------
(* What a locker shows.                                                    *)

LEMMA LiveSession ==
  /\ Current = IF st = S_SGEN /\ mu_use # 0 /\ ads # NoADS THEN <<field["privkey"], field["mu"], rnd>> ELSE <<>>
  /\ Ready = IF st = S_SOUT THEN field["signature"] ELSE <<>>
  BY DEF Current, Ready, Held, SessionOf, SignatureOf

LEMMA NextSession ==
  /\ Current' = IF st' = S_SGEN /\ mu_use' # 0 /\ ads' # NoADS
                  THEN <<field'["privkey"], field'["mu"], rnd'>> ELSE <<>>
  /\ Ready' = IF st' = S_SOUT THEN field'["signature"] ELSE <<>>
  BY DEF Current, Ready, Held, SessionOf, SignatureOf

LEMMA IdleNext == ASSUME Idle(st', mu_use') PROVE Current' = <<>> /\ Ready' = <<>>
  BY NextSession DEF Idle

-----------------------------------------------------------------------------
(* The actions of SigningSession.                                          *)

LEMMA Stutters == ASSUME UNCHANGED <<Current, Ready, snaps, draws>> PROVE SessionStep
  BY DEF SessionStep, Saved

LEMMA Drops == ASSUME Current' = <<>>, Ready' = <<>>, UNCHANGED <<snaps, draws>> PROVE SessionStep
  BY DEF SessionStep, Saved, Current, Ready, Session!Next, Session!Drop, Session!NoSession, Session!NoSignature

LEMMA Finishes ==
  ASSUME NEW s, Current = s, s # <<>>, Current' = <<>>, Ready' = sign(s[1], s[2], s[3]), UNCHANGED <<snaps, draws>>
  PROVE  SessionStep
  BY DEF SessionStep, Saved, Current, Ready, Session!Next, Session!Finish, Session!NoSession

LEMMA Begins ==
  ASSUME NEW s \in Session!Sessions, Current = <<>>, Current' = s, Ready' = <<>>, UNCHANGED snaps,
         s[3] = 0 \/ s[3] \notin 1..draws,
         1..draws' = IF s[3] = 0 THEN 1..draws ELSE (1..draws) \cup {s[3]}
  PROVE  SessionStep
  BY DEF SessionStep, Saved, Current, Ready, Session!Next, Session!Begin, Session!NoSession, Session!NoSignature,
         Session!Fresh, Session!Began

LEMMA SignsAtOnce ==
  ASSUME NEW s \in Session!Sessions, Current = <<>>, Current' = <<>>, Ready' = sign(s[1], s[2], s[3]),
         UNCHANGED snaps, s[3] = 0 \/ s[3] \notin 1..draws,
         1..draws' = IF s[3] = 0 THEN 1..draws ELSE (1..draws) \cup {s[3]}
  PROVE  SessionStep
  BY DEF SessionStep, Saved, Current, Ready, Session!Next, Session!SignAtOnce, Session!NoSession,
         Session!Fresh, Session!Began

LEMMA FailsAtOnce ==
  ASSUME NEW r \in 0..MaxDraws, Current = <<>>, Current' = <<>>, Ready' = <<>>,
         UNCHANGED snaps, r = 0 \/ r \notin 1..draws,
         1..draws' = IF r = 0 THEN 1..draws ELSE (1..draws) \cup {r}
  PROVE  SessionStep
  BY DEF SessionStep, Saved, Current, Ready, Session!Next, Session!FailAtOnce, Session!NoSession,
         Session!NoSignature, Session!Fresh, Session!Began

LEMMA Saves ==
  ASSUME NEW s \in {Current, <<>>}, Saved' = Saved \cup {<<s, Ready>>}, UNCHANGED <<Current, Ready, draws>>
  PROVE  SessionStep
  BY DEF SessionStep, Saved, Current, Ready, Session!Next, Session!Save, Session!NoSession

LEMMA TakesUp ==
  ASSUME NEW p \in Saved, Current' \in {p[1], <<>>}, Ready' = p[2], UNCHANGED <<snaps, draws>>
  PROVE  SessionStep
  BY DEF SessionStep, Saved, Current, Ready, Session!Next, Session!TakeUp, Session!NoSession

\* A step that leaves the State without a session or a signature.
LEMMA LeavesIdle == ASSUME Idle(st', mu_use'), Unused PROVE SessionStep
  BY IdleNext, Drops DEF Unused

-----------------------------------------------------------------------------
(* Every instruction but a signature.                                      *)

LEMMA InvalidSession == ASSUME invalid, Unused PROVE SessionStep
  BY LeavesIdle DEF invalid, Inert, Idle

LEMMA SetstSession == ASSUME NEW imm, NEW form, NEW hedged, setst(imm, form, hedged) PROVE SessionStep
  BY InvalidSession, LeavesIdle DEF setst, SetstAdmitted, Enter, Idle

LEMMA LoadSession == ASSUME NEW data, exec_load(data) PROVE SessionStep
  <1>1. st \in LOADING /\ Unused
    BY DEF exec_load
  <1>2. invalid \/ st' = S_FAILURE \/ st' = st
    BY DEF exec_load, to
  <1> QED
    BY <1>1, <1>2, InvalidSession, LeavesIdle DEF Idle

LEMMA EmitSession == ASSUME NEW n, exec_emit(n) PROVE SessionStep
  <1>1. st \in EMITTING /\ Unused
    BY DEF exec_emit
  <1>2. CASE invalid
    BY <1>1, <1>2, InvalidSession
  <1>3. CASE to(S_SUCCESS)
    BY <1>1, <1>3, LeavesIdle DEF to, Idle
  <1>4. CASE UNCHANGED <<st, error, flags, ads, field, rnd, policy>>
    <2>1. UNCHANGED <<Current, Ready>>
      BY <1>1, <1>4, LiveSession, NextSession
    <2> QED
      BY <1>1, <2>1, Stutters DEF Unused
  <1> QED
    BY <1>2, <1>3, <1>4 DEF exec_emit

LEMMA OperationSession == ASSUME exec_generate \/ exec_compute_pubkey \/ exec_verify PROVE SessionStep
  <1>1. Unused
    BY DEF exec_generate, exec_compute_pubkey, exec_verify
  <1>2. invalid \/ st' \in {S_FAILURE, S_PKOUT, S_READY, S_SUCCESS}
    BY DEF exec_generate, exec_compute_pubkey, exec_verify, LoopBound, to
  <1> QED
    BY <1>1, <1>2, InvalidSession, LeavesIdle DEF Idle

LEMMA PolicySession == ASSUME NEW p, rstr(p) \/ provision(p) PROVE SessionStep
  <1>1. UNCHANGED <<Current, Ready>>
    BY LiveSession, NextSession DEF rstr, provision, inert
  <1> QED
    BY <1>1, Stutters DEF rstr, provision, Unused

LEMMA ExportSession == ASSUME NEW content2 \in BOOLEAN, export(content2) PROVE SessionStep
  <1> DEFINE e == [st |-> st, error |-> error, flags |-> flags, mu_use |-> mu_use,
                   ads |-> IF content2 THEN ads ELSE NoADS, field |-> field, rnd |-> rnd, policy |-> policy]
  <1>1. snaps' = snaps \cup {e} /\ UNCHANGED <<locker, draws>>
    BY DEF export
  <1>2. SessionOf(e) \in {Current, <<>>} /\ SignatureOf(e) = Ready
    BY LiveSession DEF SessionOf, SignatureOf
  <1> HIDE DEF e
  <1>3. Saved' = Saved \cup {<<SessionOf(e), SignatureOf(e)>>}
    BY <1>1 DEF Saved
  <1>4. UNCHANGED <<Current, Ready>>
    BY <1>1, LiveSession, NextSession DEF locker
  <1> QED
    BY <1>1, <1>2, <1>3, <1>4, Saves

LEMMA ImportSession == ASSUME NEW content2 \in BOOLEAN, NEW s \in snaps, import_(s, content2) PROVE SessionStep
  <1>1. UNCHANGED <<snaps, draws>>
    BY DEF import_
  <1>2. CASE st' = 0
    BY <1>1, <1>2, IdleNext, Drops DEF Idle
  <1>3. CASE Restore(s, content2)
    <2> DEFINE p == <<SessionOf(s), SignatureOf(s)>>
    <2>1. p \in Saved
      BY DEF Saved
    <2>2. Ready' = SignatureOf(s)
      BY <1>3, NextSession DEF Restore, SignatureOf
    <2>3. Current' \in {SessionOf(s), <<>>}
      BY <1>3, NextSession DEF Restore, Restarts, SessionOf
    <2> QED
      BY <1>1, <2>1, <2>2, <2>3, TakesUp
  <1> QED
    BY <1>2, <1>3 DEF import_

-----------------------------------------------------------------------------
(* A signature.                                                            *)

LEMMA SignSession == ASSUME IInv, NEW halt \in Halts \cup {Unhalted}, exec_sign(halt) PROVE SessionStep
  <1> DEFINE s == <<field["privkey"], field["mu"], Nonce>>
  <1>1. st = S_SGEN /\ UNCHANGED snaps
    BY DEF exec_sign
  <1>2. /\ field["privkey"] \in Values("privkey") /\ sk_ok(field["privkey"]) /\ field["mu"] \in Values("mu")
        /\ ads \in Nat \cup {NoADS} /\ rnd \in 0..MaxDraws /\ draws \in 0..MaxDraws
    <2>1. Typed(st, error, flags, mu_use, ads, field, rnd, policy) /\ KeysOK(st, flags, field) /\ NoncesOK
      BY DEF IInv, LiveOK, LockerOK
    <2>2. \A x \in FIELDS : field[x] \in Values(x)
      BY <2>1 DEF Typed
    <2>3. sk_ok(field["privkey"])
      BY <1>1, <2>1 DEF KeysOK
    <2>4. ads \in Nat \cup {NoADS} /\ rnd \in 0..MaxDraws
      BY <2>1 DEF Typed
    <2>5. draws \in 0..MaxDraws
      BY <2>1 DEF NoncesOK
    <2> QED
      BY <2>2, <2>3, <2>4, <2>5
  <1>3. Halts \subseteq Nat /\ Done \in Nat
    BY <1>2, FieldAssumption DEF Done, Resuming
  <1>4. /\ Nonce \in 0..MaxDraws
        /\ Nonce = 0 \/ Nonce \notin 1..draws \/ Resuming
        /\ ~Resuming => 1..draws' = IF Nonce = 0 THEN 1..draws ELSE (1..draws) \cup {Nonce}
        /\ Resuming => draws' = draws
    <2>1. draws \in Nat /\ draws =< MaxDraws /\ MaxDraws \in Nat /\ rnd \in 0..MaxDraws
      BY <1>2, BoundAssumption
    <2>2. draws' = (IF Draws THEN draws + 1 ELSE draws) /\ (Draws => draws < MaxDraws)
      BY DEF exec_sign
    <2>3. CASE Draws
      <3>1. Nonce = draws + 1 /\ draws' = draws + 1 /\ draws < MaxDraws /\ ~Resuming
        BY <2>2, <2>3 DEF Nonce, Draws
      <3>2. draws + 1 \in 0..MaxDraws /\ draws + 1 \notin 1..draws /\ draws + 1 # 0
        BY <2>1, <3>1
      <3>3. 1..(draws + 1) = (1..draws) \cup {draws + 1}
        BY <2>1
      <3> QED
        BY <3>1, <3>2, <3>3
    <2>4. CASE ~Draws /\ Resuming
      <3>1. Nonce = rnd /\ draws' = draws
        BY <2>2, <2>4 DEF Nonce
      <3> QED
        BY <2>1, <2>4, <3>1
    <2>5. CASE ~Draws /\ ~Resuming
      <3>1. Nonce = 0 /\ draws' = draws
        BY <2>2, <2>5 DEF Nonce
      <3> QED
        BY <2>1, <2>5, <3>1
    <2> QED
      BY <2>3, <2>4, <2>5
  <1>5. s \in Session!Sessions /\ s[1] = field["privkey"] /\ s[2] = field["mu"] /\ s[3] = Nonce /\ s # <<>>
    BY <1>2, <1>4 DEF Session!Sessions
  <1>6. Current = IF Resuming THEN s ELSE <<>>
    BY <1>1, LiveSession DEF Resuming, Nonce, Draws
  <1>7. CASE Interrupted(halt) /\ SignHalts(halt)
    <2>1. mu_use' # 0 /\ ads' # NoADS /\ st' = st /\ UNCHANGED field /\ rnd' = Nonce
      BY <1>3, <1>7 DEF SignHalts, Interrupted
    <2>2. Current' = s /\ Ready' = <<>>
      BY <1>1, <2>1, NextSession
    <2>3. Ready = <<>>
      BY <1>1, LiveSession
    <2> HIDE DEF s
    <2> QED
      BY <1>1, <1>4, <1>5, <1>6, <2>2, <2>3, Stutters, Begins
  <1>8. CASE SignFails
    <2>1. Current' = <<>> /\ Ready' = <<>>
      BY <1>8, IdleNext DEF SignFails, to, Idle
    <2> HIDE DEF s
    <2> QED
      BY <1>1, <1>4, <1>6, <2>1, Drops, FailsAtOnce
  <1>9. CASE SignCompletes
    <2>1. Current' = <<>>
      BY <1>9, NextSession DEF SignCompletes, to
    <2>2. "signature" \in DOMAIN field
      BY DEF IInv, LiveOK, LockerOK, Typed
    <2>3. Ready' = sign(s[1], s[2], s[3])
      BY <1>5, <1>9, <2>2, NextSession DEF SignCompletes, to
    <2> HIDE DEF s
    <2> QED
      BY <1>1, <1>4, <1>5, <1>6, <2>1, <2>3, Finishes, SignsAtOnce
  <1> QED
    BY <1>7, <1>8, <1>9 DEF exec_sign

-----------------------------------------------------------------------------
LEMMA StepSession == ASSUME IInv, [Next]_vars PROVE SessionStep
  <1>1. ASSUME setst_zero PROVE SessionStep
    BY <1>1, LeavesIdle DEF setst_zero, Inert, Idle
  <1>2. ASSUME NEW form, exec_refused(form) PROVE SessionStep
    BY <1>2, InvalidSession DEF exec_refused
  <1>3. ASSUME exec_sign_rbg_failure PROVE SessionStep
    BY <1>3, InvalidSession DEF exec_sign_rbg_failure
  <1>4. ASSUME UNCHANGED vars PROVE SessionStep
    <2>1. UNCHANGED <<Current, Ready>>
      BY <1>4, LiveSession, NextSession DEF vars, locker
    <2> QED
      BY <1>4, <2>1, Stutters DEF vars
  <1> QED
    BY <1>1, <1>2, <1>3, <1>4, SetstSession, LoadSession, EmitSession, OperationSession, PolicySession,
       ExportSession, ImportSession, SignSession DEF Next

\* Halts, resumptions, copies and restarts of a signature do not show: the locker implements
\* SigningSession (_exec_D, export and import_ of class Locker).
THEOREM ImplementsSession == Spec => SessionSpec
  <1>1. Init => Session!Init
    <2> SUFFICES ASSUME Init PROVE Session!Init
      OBVIOUS
    <2>1. Current = <<>> /\ Ready = <<>> /\ Saved = {} /\ 1..draws = {}
      BY LiveSession DEF Init, Saved
    <2> QED
      BY <2>1 DEF Current, Ready, Saved, Session!Init, Session!NoSession, Session!NoSignature
  <1>2. IInv /\ [Next]_vars => [Session!Next]_<<Current, Ready, Saved, 1..draws>>
    BY StepSession DEF SessionStep
  <1> QED
    BY <1>1, <1>2, Invariance, PTL DEF Spec, SessionSpec, Session!Spec, Current, Ready, Saved
=============================================================================
