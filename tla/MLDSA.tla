------------------------------- MODULE MLDSA -------------------------------
(***************************************************************************)
(* An ML-DSA locker, src/kat/mldsa_locker.py (class Locker): four long     *)
(* fields that are loaded or emitted in pieces, the operations on them,    *)
(* and the signature that may halt after any iteration and be resumed,     *)
(* restarted, exported, imported or abandoned.                             *)
(*                                                                         *)
(* A field is a sequence of units, some bytes each; which units make a     *)
(* proper key, and what the algorithms compute, are constants.  A random   *)
(* value is the number of its draw, 0 is the all-zero value.               *)
(***************************************************************************)
EXTENDS Integers, Sequences, FiniteSets

CONSTANTS
  Units,                \* values of a piece of a key or message
  SigUnits,             \* values of a piece of a signature
  ZeroUnit,             \* the all-zero piece
  Size,                 \* units of each field
  Transfers,            \* sequences of units that one Form B kl.exec may carry
  Emissions,            \* numbers of units that one Form C kl.exec may ask for
  Halts,                \* numbers of iterations after which an interrupt may come
  Targets,              \* States that kl.setst may name
  Policies,             \* values of MachinePolicy
  sk_ok(_),             \* is this a well-formed privkey?
  pk_from_sk(_),        \* the pubkey of a privkey
  tr_matches(_),        \* does the tr embedded in this privkey match it?
  KeyPairs,             \* <<pubkey, privkey>> that keygen_internal may return
  sign(_, _, _),        \* the signature by privkey of mu with rnd
  iterations(_, _, _),  \* iterations of the signing loop that it takes
  Limit,                \* the limit of the signing loop
  verify_internal(_, _, _),
  Bounded,              \* operating States in which a loop limit may be reached
  MaxDraws,             \* bound: values of rnd drawn
  MaxSnaps,             \* bound: exported snapshots kept
  ExportStates,         \* bound: States in which a snapshot is exported
  MaxImports            \* bound: snapshots imported

S_READY == 1   S_GEN == 2    S_PKOUT == 3   S_PKIN == 4   S_MUIN == 6
S_SGEN == 8    S_SOUT == 9   S_SVER == 10   S_SIN == 11   S_PRIVIN == 12  S_CPK == 13
S_SUCCESS == 54   S_FAILURE == 55

DEFINED   == {S_READY, S_GEN, S_PKOUT, S_PKIN, S_MUIN, S_SGEN, S_SOUT, S_SVER, S_SIN, S_PRIVIN, S_CPK}
LOADING   == {S_PRIVIN, S_PKIN, S_MUIN, S_SIN}
EMITTING  == {S_PKOUT, S_SOUT}
OPERATING == {S_GEN, S_CPK, S_SVER, S_SGEN}
FIELDS    == {"privkey", "pubkey", "signature", "mu"}
FLAGS     == {"HAS_PRIV", "HAS_PUB", "HEDGED", "HAS_MU"}
NoADS     == -1
Unhalted  == -1

\* The field that a State loads or emits.
FieldOf(s) == CASE s = S_PRIVIN -> "privkey"
                [] s \in {S_PKIN, S_PKOUT} -> "pubkey"
                [] s = S_MUIN -> "mu"
                [] OTHER -> "signature"

Values(f) == [1..Size[f] -> IF f = "signature" THEN SigUnits ELSE Units]
Zeros(f)  == [i \in 1..Size[f] |-> ZeroUnit]

ASSUME FieldAssumption ==
  /\ ZeroUnit \in Units /\ Units \subseteq SigUnits
  /\ Size \in [FIELDS -> Nat \ {0}]
  /\ Transfers \subseteq Seq(Units)
  /\ Emissions \subseteq Nat
  /\ Halts \subseteq Nat
  /\ Policies \subseteq SUBSET {"sign", "verify"}
ASSUME AlgorithmAssumption ==
  /\ \A sk \in Values("privkey") : /\ sk_ok(sk) \in BOOLEAN
                                   /\ tr_matches(sk) \in BOOLEAN
                                   /\ pk_from_sk(sk) \in Values("pubkey")
  /\ \A p \in KeyPairs : p[2] \in Values("privkey") /\ sk_ok(p[2]) /\ p[1] = pk_from_sk(p[2])
  /\ Limit \in Nat \ {0}
ASSUME SignAssumption ==
  \A sk \in Values("privkey"), m \in Values("mu"), r \in 0..MaxDraws :
     sk_ok(sk) => sign(sk, m, r) \in Values("signature") /\ iterations(sk, m, r) \in Nat \ {0}
ASSUME BoundAssumption == MaxDraws \in Nat /\ MaxSnaps \in Nat /\ MaxImports \in Nat

VARIABLES
  st,        \* State, 0 when inert
  error,     \* inert in Error State Invalid, not Unconfigured
  flags,     \* the flags of StateExtension that are set
  mu_use,    \* MachineUse: transfer counter W, or progress P
  ads,       \* iterations recorded in the ADS, or NoADS
  field,     \* the long fields
  rnd,       \* the random value of hedged signing
  policy,    \* MachinePolicy
  draws,     \* values of rnd drawn so far
  snaps,     \* exported snapshots
  imports,   \* snapshots imported so far
  nonces     \* history: the <<rnd, privkey, mu>> that were signed with a drawn rnd

locker == <<st, error, flags, mu_use, ads, field, rnd, policy>>
vars   == <<locker, draws, snaps, imports, nonces>>
Unused == UNCHANGED <<draws, snaps, imports, nonces>>

\* A locker, live or in a snapshot: the transfer counter stays in its field,
\* the progress within the limit of the loop.
Typed(s, e, fl, w, a, f, r, p) ==
  /\ s \in {0} \cup DEFINED \cup {S_SUCCESS, S_FAILURE}
  /\ e \in BOOLEAN
  /\ fl \subseteq FLAGS
  /\ w \in Nat
  /\ s \in LOADING \cup EMITTING => w <= Size[FieldOf(s)]
  /\ s = S_SGEN => w <= Limit + 1
  /\ a \in Nat \cup {NoADS}
  /\ DOMAIN f = FIELDS /\ \A x \in FIELDS : f[x] \in Values(x)
  /\ r \in 0..MaxDraws
  /\ p \subseteq {"sign", "verify"}

TypeOK ==
  /\ Typed(st, error, flags, mu_use, ads, field, rnd, policy)
  /\ \A s \in snaps : Typed(s.st, s.error, s.flags, s.mu_use, s.ads, s.field, s.rnd, s.policy)
  /\ draws \in 0..MaxDraws
  /\ imports \in 0..MaxImports
  /\ nonces \subseteq [rnd : 1..MaxDraws, privkey : Values("privkey"), mu : Values("mu")]

inert == st = 0
flag(b) == b \in flags
PolicyAdmits(s) == /\ s \in {S_SGEN, S_SOUT} => "sign" \in policy
                   /\ s \in {S_SVER, S_SIN} => "verify" \in policy

Init ==
  /\ st = S_READY /\ error = FALSE /\ flags = {} /\ mu_use = 0 /\ ads = NoADS
  /\ field = [f \in FIELDS |-> Zeros(f)]
  /\ rnd = 0
  /\ policy \in Policies
  /\ draws = 0 /\ snaps = {} /\ imports = 0 /\ nonces = {}

-----------------------------------------------------------------------------
(* Ways to leave a State.                                                  *)

Zeroing(fs) == field' = [f \in FIELDS |-> IF f \in fs THEN Zeros(f) ELSE field[f]]

\* The locker becomes inert, its Content zeroed.
Inert(isError) ==
  /\ st' = 0 /\ error' = isError /\ flags' = {} /\ mu_use' = 0 /\ ads' = NoADS /\ rnd' = 0
  /\ Zeroing(FIELDS)
  /\ UNCHANGED policy

invalid == Inert(TRUE)

\* A transition made by the Machine itself.
to(s) == st' = s /\ mu_use' = 0 /\ UNCHANGED <<error, policy>>

-----------------------------------------------------------------------------
(* kl.setst.                                                               *)

\* Mutant: a load left incomplete keeps what was loaded.
NeverIncomplete == {}
\* The field whose load the kl.setst leaves incomplete.
Incomplete == {f \in FIELDS : st \in LOADING /\ f = FieldOf(st) /\ mu_use < Size[f]}

FlagsOnLeaving == IF "mu" \in Incomplete THEN flags \ {"HAS_MU"} ELSE flags

\* Mutant: a public key may be loaded beside a private key.
EntryAdmittedBesidePriv(imm) ==
  /\ imm = S_PKOUT => "HAS_PUB" \in FlagsOnLeaving
  /\ imm \in {S_CPK, S_SGEN} => "HAS_PRIV" \in FlagsOnLeaving
  /\ imm = S_SVER => "HAS_PUB" \in FlagsOnLeaving
  /\ imm \in {S_SGEN, S_SVER} => "HAS_MU" \in FlagsOnLeaving

EntryAdmitted(imm) ==
  /\ imm = S_PKIN => "HAS_PRIV" \notin FlagsOnLeaving
  /\ imm = S_PKOUT => "HAS_PUB" \in FlagsOnLeaving
  /\ imm \in {S_CPK, S_SGEN} => "HAS_PRIV" \in FlagsOnLeaving
  /\ imm = S_SVER => "HAS_PUB" \in FlagsOnLeaving
  /\ imm \in {S_SGEN, S_SVER} => "HAS_MU" \in FlagsOnLeaving

SetstAdmitted(imm, form) ==
  /\ imm \in DEFINED \ {S_SOUT}
  /\ st \in {S_SUCCESS, S_FAILURE} => imm = S_READY
  /\ form \in IF imm = S_SGEN THEN {"A", "B"} ELSE {"A"}
  /\ PolicyAdmits(imm)
  /\ imm = st => imm \in {S_READY} \cup LOADING
  /\ EntryAdmitted(imm)

ZeroedOnEntry(imm) ==
  CASE imm = S_READY  -> {"signature", "mu"}
    [] imm = S_PRIVIN -> {"privkey", "pubkey"}
    [] imm \in LOADING \ {S_PRIVIN} -> {FieldOf(imm)}
    [] OTHER -> {}

ClearedOnEntry(imm) ==
  CASE imm \in {S_READY, S_MUIN} -> {"HAS_MU"}
    [] imm = S_PRIVIN -> {"HAS_PRIV", "HAS_PUB"}
    [] imm = S_PKIN   -> {"HAS_PUB"}
    [] imm = S_SGEN   -> {"HEDGED"}
    [] OTHER -> {}

\* Mutant: the random value of a halted signature is forgotten only by Ready.
DropsProgressInReady(imm) == imm = S_READY
\* Entering Ready, or leaving a halted signature, forgets rnd and the ADS.
DropsProgress(imm) == imm = S_READY \/ (st = S_SGEN /\ mu_use # 0)

Enter(imm, hedged) ==
  /\ st' = imm
  /\ mu_use' = 0
  /\ flags' = (FlagsOnLeaving \ ClearedOnEntry(imm)) \cup (IF imm = S_SGEN /\ hedged THEN {"HEDGED"} ELSE {})
  /\ Zeroing(Incomplete \cup ZeroedOnEntry(imm))
  /\ rnd' = IF DropsProgress(imm) THEN 0 ELSE rnd
  /\ ads' = IF DropsProgress(imm) THEN NoADS ELSE ads
  /\ UNCHANGED <<error, policy>>

setst(imm, form, hedged) ==
  /\ ~inert
  /\ \/ SetstAdmitted(imm, form) /\ Enter(imm, hedged)
     \/ ~SetstAdmitted(imm, form) /\ invalid
  /\ Unused

\* kl.setst to 0.
setst_zero == ~inert /\ Inert(FALSE) /\ Unused

-----------------------------------------------------------------------------
(* kl.exec.                                                                *)

ExecAdmitted(form) ==
  /\ st \in LOADING \cup EMITTING \cup OPERATING
  /\ PolicyAdmits(st)
  /\ CASE st \in LOADING  -> form = "B" /\ mu_use < Size[FieldOf(st)]
       [] st \in EMITTING -> form = "C"
       [] OTHER -> form = "D"

exec_refused(form) == ~inert /\ ~ExecAdmitted(form) /\ invalid /\ Unused

Taken(data)  == LET left == Size[FieldOf(st)] - mu_use
                IN IF Len(data) < left THEN Len(data) ELSE left
Excess(data) == Len(data) > Taken(data)

\* The loaded field after the transfer of data.
Loaded(data) ==
  [i \in 1..Size[FieldOf(st)] |->
     IF i \in mu_use + 1 .. mu_use + Taken(data) THEN data[i - mu_use] ELSE field[FieldOf(st)][i]]

FlagOf(s) == CASE s = S_PRIVIN -> {"HAS_PRIV"} [] s = S_PKIN -> {"HAS_PUB"}
               [] s = S_MUIN -> {"HAS_MU"} [] OTHER -> {}

LoadFlags(data) == IF mu_use + Taken(data) = Size[FieldOf(st)] THEN flags \cup FlagOf(st) ELSE flags

exec_load(data) ==
  LET done == mu_use + Taken(data) = Size[FieldOf(st)] IN
  /\ st \in LOADING /\ ExecAdmitted("B")
  /\ \/ /\ done /\ st = S_PRIVIN /\ ~sk_ok(Loaded(data))
        /\ invalid
     \/ /\ done /\ st \in {S_PKIN, S_SIN} /\ Excess(data)
        /\ Zeroing({FieldOf(st)})
        /\ to(S_FAILURE)
        /\ UNCHANGED <<flags, ads, rnd>>
     \/ /\ ~(done /\ st = S_PRIVIN /\ ~sk_ok(Loaded(data)))
        /\ ~(done /\ st \in {S_PKIN, S_SIN} /\ Excess(data))
        /\ field' = [field EXCEPT ![FieldOf(st)] = Loaded(data)]
        /\ mu_use' = mu_use + Taken(data)
        /\ flags' = LoadFlags(data)
        /\ UNCHANGED <<st, error, ads, rnd, policy>>
  /\ Unused

exec_emit(n) ==
  LET f == FieldOf(st) IN
  /\ st \in EMITTING /\ ExecAdmitted("C")
  /\ \/ mu_use + n > Size[f] /\ invalid
     \/ mu_use + n = Size[f] /\ to(S_SUCCESS) /\ UNCHANGED <<flags, ads, field, rnd>>
     \/ mu_use + n < Size[f] /\ mu_use' = mu_use + n
          /\ UNCHANGED <<st, error, flags, ads, field, rnd, policy>>
  /\ Unused

\* A loop limit reached ends the operation in Failure, without output.
LoopBound == st \in Bounded /\ to(S_FAILURE) /\ UNCHANGED <<flags, ads, field, rnd>>

exec_generate ==
  /\ st = S_GEN
  /\ \/ invalid                                                       \* RBG failure
     \/ LoopBound
     \/ \E p \in KeyPairs :
          /\ field' = [field EXCEPT !["pubkey"] = p[1], !["privkey"] = p[2]]
          /\ flags' = flags \cup {"HAS_PRIV", "HAS_PUB"}
          /\ to(S_PKOUT)
          /\ UNCHANGED <<ads, rnd>>
  /\ Unused

exec_compute_pubkey ==
  /\ st = S_CPK
  /\ \/ LoopBound
     \/ ~tr_matches(field["privkey"]) /\ invalid
     \/ /\ tr_matches(field["privkey"])
        /\ field' = [field EXCEPT !["pubkey"] = pk_from_sk(field["privkey"]),
                                  !["signature"] = Zeros("signature"), !["mu"] = Zeros("mu")]
        /\ flags' = (flags \cup {"HAS_PUB"}) \ {"HAS_MU"}
        /\ rnd' = 0 /\ ads' = NoADS
        /\ to(S_READY)
  /\ Unused

exec_verify ==
  /\ st = S_SVER /\ PolicyAdmits(st)
  /\ \/ LoopBound
     \/ /\ to(IF verify_internal(field["pubkey"], field["mu"], field["signature"]) THEN S_SUCCESS ELSE S_FAILURE)
        /\ UNCHANGED <<flags, ads, field, rnd>>
  /\ Unused

-----------------------------------------------------------------------------
(* Sign_Generate.                                                          *)

\* A halted operation is resumed if its ADS is there, and restarted otherwise.
Resuming == mu_use # 0 /\ ads # NoADS

\* Mutant: a resumed operation draws again.
DrawsAgain == flag("HEDGED")
Draws == ~Resuming /\ flag("HEDGED")

\* Mutant: a resumed operation starts its loop again.
DoneForgotten == 0
Done   == IF Resuming THEN ads ELSE 0
\* Mutant: a draw may return the last random value again.
NonceOfLastDraw == IF flag("HEDGED") /\ draws > 0 THEN draws ELSE IF Draws THEN draws + 1 ELSE 0
Nonce  == IF Draws THEN draws + 1 ELSE IF Resuming THEN rnd ELSE 0
Needed == iterations(field["privkey"], field["mu"], Nonce)

\* The interrupt comes before the operation ends or reaches the limit.
Interrupted(halt) ==
  /\ halt # Unhalted
  /\ IF Needed > Limit THEN Done + halt <= Limit ELSE Done + halt < Needed

SignHalts(halt) ==
  /\ ads' = Done + halt
  /\ mu_use' = Done + halt + 1
  /\ rnd' = Nonce
  /\ UNCHANGED <<st, error, flags, field, policy>>

SignFails == to(S_FAILURE) /\ rnd' = 0 /\ ads' = NoADS /\ UNCHANGED <<flags, field>>

SignCompletes ==
  /\ field' = [field EXCEPT !["signature"] = sign(field["privkey"], field["mu"], Nonce)]
  /\ rnd' = 0 /\ ads' = NoADS
  /\ to(S_SOUT)
  /\ UNCHANGED flags

exec_sign(halt) ==
  /\ st = S_SGEN /\ PolicyAdmits(st)
  /\ Draws => draws < MaxDraws
  /\ \/ Interrupted(halt) /\ SignHalts(halt)
     \/ ~Interrupted(halt) /\ Needed > Limit /\ SignFails
     \/ ~Interrupted(halt) /\ Needed <= Limit /\ SignCompletes
  /\ draws' = IF Draws THEN draws + 1 ELSE draws
  /\ nonces' = IF Nonce = 0 THEN nonces
               ELSE nonces \cup {[rnd |-> Nonce, privkey |-> field["privkey"], mu |-> field["mu"]]}
  /\ UNCHANGED <<snaps, imports>>

exec_sign_rbg_failure == st = S_SGEN /\ PolicyAdmits(st) /\ Draws /\ invalid /\ Unused

-----------------------------------------------------------------------------
(* Policy, export and import.                                              *)

rstr(p) == ~inert /\ policy' = policy \cap p
           /\ UNCHANGED <<st, error, flags, mu_use, ads, field, rnd>> /\ Unused

\* The snapshot carries the ADS if it has a Content2.
export(content2) ==
  /\ Cardinality(snaps) < MaxSnaps /\ st \in ExportStates
  /\ snaps' = snaps \cup
       {[st |-> st, error |-> error, flags |-> flags, mu_use |-> mu_use,
         ads |-> IF content2 THEN ads ELSE NoADS, field |-> field, rnd |-> rnd, policy |-> policy]}
  /\ UNCHANGED <<locker, draws, imports, nonces>>

\* An import that misses the ADS of a halted signature restarts it.
Restarts(s, content2) == s.st = S_SGEN /\ s.mu_use # 0 /\ (s.ads = NoADS \/ ~content2)

Restore(s, content2) ==
  /\ st' = s.st /\ error' = s.error /\ flags' = s.flags /\ field' = s.field /\ policy' = s.policy
  /\ ads' = IF content2 THEN s.ads ELSE NoADS
  /\ mu_use' = IF Restarts(s, content2) THEN 0 ELSE s.mu_use
  /\ rnd' = IF Restarts(s, content2) THEN 0 ELSE s.rnd

\* A genuine snapshot with HAS_PRIV holds a privkey that was checked.
import_(s, content2) ==
  /\ imports < MaxImports
  /\ imports' = imports + 1
  /\ IF "HAS_PRIV" \in s.flags /\ ~sk_ok(s.field["privkey"])
       THEN /\ st' = 0 /\ error' = TRUE /\ flags' = {} /\ mu_use' = 0 /\ ads' = NoADS /\ rnd' = 0
            /\ Zeroing(FIELDS)
            /\ policy' = s.policy
       ELSE Restore(s, content2)
  /\ UNCHANGED <<draws, snaps, nonces>>

\* The unit provisions the locker anew.
provision(p) ==
  /\ inert
  /\ st' = S_READY /\ error' = FALSE /\ policy' = p
  /\ UNCHANGED <<flags, mu_use, ads, field, rnd>> /\ Unused

-----------------------------------------------------------------------------
Next ==
  \/ \E imm \in Targets, form \in {"A", "B"}, hedged \in BOOLEAN :
       setst(imm, form, hedged)
  \/ setst_zero
  \/ \E form \in {"B", "C", "D"} : exec_refused(form)
  \/ \E data \in Transfers : exec_load(data)
  \/ \E n \in Emissions : exec_emit(n)
  \/ exec_generate \/ exec_compute_pubkey \/ exec_verify
  \/ \E halt \in Halts \cup {Unhalted} : exec_sign(halt)
  \/ exec_sign_rbg_failure
  \/ \E p \in Policies : rstr(p) \/ provision(p)
  \/ \E content2 \in BOOLEAN : export(content2) \/ (\E s \in snaps : import_(s, content2))

Spec == Init /\ [][Next]_vars

\* Software that was interrupted issues the kl.exec again, and each attempt
\* completes at least one iteration (forward progress of a halted operation).
Reissue ==
  \/ \E halt \in (Halts \ {0}) \cup {Unhalted} : exec_sign(halt)
  \/ st = S_SGEN /\ exec_refused("D")
FairSpec == Spec /\ WF_vars(Reissue)
=============================================================================
