------------------------------ MODULE Metadata ------------------------------
(***************************************************************************)
(* The Metadata Header (MDH) of a cryptographic context, and the pure      *)
(* functions of src/kat/common.py and src/kat/mgmt_model.py on it:         *)
(* validation, the transition to an Error State, narrowing, restriction    *)
(* and the toy table of what a Machine admits.                             *)
(*                                                                         *)
(* An MDH is a record with one field per field of MDH_FIELDS.  A bit mask  *)
(* is the set of its set bits; the three two-bit subfields of Locality are *)
(* numbers and its bits 8:6 a set; the three reserved fields are one flag, *)
(* because the code only asks whether one of them is non-zero.             *)
(***************************************************************************)
EXTENDS Integers, FiniteSets

CONSTANTS
  zk,           \* is Zklexpire implemented?                       KLE.zk
  has_sks,      \* are System Key Identifiers supported?           KLE.sks is not None
  has_rng,      \* is random key generation supported?             KLE.has_rng
  max_ads,      \* longest ADS that the implementation keeps       KLE.max_ads
  MaxDate       \* largest ExpirationDate and clock value (2^20-1 in the code)

ASSUME OptionsAssumption == zk \in BOOLEAN /\ has_sks \in BOOLEAN /\ has_rng \in BOOLEAN
ASSUME BoundsAssumption  == max_ads \in Nat /\ MaxDate \in Nat

-----------------------------------------------------------------------------
(* Fields.                                                                 *)

\* The toy Machines that the KLE unit implements; every other Machine value,
\* zero included, is Unimplemented.
CONTENT == {"M_ENC", "M_SIG", "M_KEY", "M_KEM", "M_KEY32", "M_HASH", "M_VER", "M_CMAC", "M_XOF"}
Unimplemented == "unimplemented"

LocalityType == [s0 : 0..3, s2 : 0..3, s4 : 0..3, flags : SUBSET (0..2)]

MDH == [ Machine          : CONTENT \cup {Unimplemented},
         MachinePolicy    : SUBSET (0..1),
         SCProtection     : SUBSET (0..2),
         Transparent      : 0..1,
         State            : 0..63,
         StateExtension   : 0..15,
         KeyType          : 0..3,
         AuxDataLen       : Nat,
         ADSDropped       : 0..1,
         MachineUse       : Nat,
         Version          : 0..3,
         UsagePolicy      : SUBSET (0..4),
         Locality         : LocalityType,
         AuxInfo          : Nat,
         ExpirationDate   : 0..MaxDate,
         Reserved         : BOOLEAN ]

NoLocality == [s0 |-> 0, s2 |-> 0, s4 |-> 0, flags |-> {}]

\* The MDH of an Unconfigured locker: all zero.
ZeroMDH == [ Machine |-> Unimplemented, MachinePolicy |-> {}, SCProtection |-> {},
             Transparent |-> 0, State |-> 0, StateExtension |-> 0, KeyType |-> 0,
             AuxDataLen |-> 0, ADSDropped |-> 0, MachineUse |-> 0, Version |-> 0,
             UsagePolicy |-> {}, Locality |-> NoLocality, AuxInfo |-> 0,
             ExpirationDate |-> 0, Reserved |-> FALSE ]

-----------------------------------------------------------------------------
(* States.                                                                 *)

Provisioning == 56
Exporting    == 57
Importing    == 58
PPIExporting == 59
PPIImporting == 60

PI_STATES    == {Provisioning, PPIExporting, PPIImporting}
SCC_STATES   == {Exporting, Importing}
ValidStates  == 1 .. 55
ConfigStates == 56 .. 60
ErrorCodes   == 1 .. 6

SE_INVALID        == 2
SE_OUT_OF_MEMORY  == 3
SE_MGMT_AUTH      == 4
SE_PRIV_VIOLATION == 5
SE_EXPIRED        == 6

Inert(m)        == m.State = 0
IsUnconfigured(m) == m.State = 0 /\ m.StateExtension = 0
IsErrorState(m) == m.State = 0 /\ m.StateExtension \in ErrorCodes
config(m)       == m.State \in ConfigStates
IsValid(m)      == m.State \in ValidStates

-----------------------------------------------------------------------------
(* Localities: the LST entries that a Locality field names, and the entry  *)
(* that substitutes for an unconfigured one, the next configured entry of  *)
(* its chain.  lst is the set of configured entries.                       *)

LST == 0 .. 10

loc_entries(loc) ==
  (IF loc.s0 = 0 THEN {} ELSE {loc.s0 - 1})
    \cup (IF loc.s2 = 0 THEN {} ELSE {3 + loc.s2 - 1})
    \cup (IF loc.s4 \in {1, 2} THEN {6 + loc.s4 - 1} ELSE {})
    \cup {8 + b : b \in loc.flags}

conf(lst, j) ==
  CASE j \in 0..2 -> \E b \in lst : b \in j..2
    [] j \in 3..5 -> \E b \in lst : b \in j..5
    [] OTHER      -> j \in lst

LocalityConfigured(lst, m) == \A j \in loc_entries(m.Locality) : conf(lst, j)

-----------------------------------------------------------------------------
(* Validity of supplied Metadata, ctx being "provision" or "import".       *)

InvalidVersion(m, ctx) ==
  IF m.Version = 3
    THEN \/ ctx # "import"
         \/ m.State \notin {0, Importing, Exporting}
         \/ m.AuxDataLen = 0
         \/ m.StateExtension # 0 \/ m.KeyType # 0 \/ m.Transparent # 0
         \/ m.ADSDropped # 0 \/ m.MachineUse # 0
    ELSE m.Version # 0 \/ m.AuxDataLen = 1

InvalidContext(m, ctx) ==
  IF ctx = "provision"
    THEN m.State # 0 \/ m.StateExtension # 0 \/ m.AuxDataLen # 0 \/ m.ADSDropped # 0
    ELSE \/ m.State \in 61..63
         \/ m.State = 0 /\ (m.StateExtension > 6 \/ (m.StateExtension = 0 /\ m.Version # 3))
         \/ m.KeyType = 2 /\ m.State \notin PI_STATES
         \/ m.State \in PI_STATES /\ (m.AuxDataLen # 0 \/ m.ADSDropped # 0)

invalid(m, ctx) ==
  \/ m.Reserved \/ 2 \in m.SCProtection \/ m.KeyType = 3 \/ m.Locality.s4 = 3
  \/ m.Transparent = 1 /\ m.KeyType = 1
  \/ InvalidVersion(m, ctx)
  \/ ~zk /\ (m.StateExtension = 6 \/ m.ExpirationDate # 0)
  \/ m.Machine \in {"M_ENC", "M_KEY"} /\ m.MachinePolicy = {}
  \/ m.Machine \in CONTENT \ {"M_KEY"} /\ m.KeyType \in {1, 2}
  \/ InvalidContext(m, ctx)

\* KLE.val: the verdict of validate, then the LST and the key sources.
val(lst, m, ctx) ==
  CASE invalid(m, ctx)              -> "invalid"
    [] ~invalid(m, ctx) /\ m.Machine \notin CONTENT -> "unsupported"
    [] ~invalid(m, ctx) /\ m.Machine \in CONTENT /\ ~LocalityConfigured(lst, m) -> "invalid"
    [] OTHER -> IF (m.KeyType = 1 /\ ~has_sks) \/ (m.KeyType = 2 /\ ~has_rng)
                  THEN "unsupported" ELSE "ok"

-----------------------------------------------------------------------------
(* The MDH with which a locker enters an Error State.  err of              *)
(* mgmt_model.py leaves MachineUse, which Rule GR15 zeroes (see README).   *)

\* Mutant: the placeholder of a random key survives.
ErrMDHKeepingKeyType(m, se) ==
  [m EXCEPT !.State = 0, !.StateExtension = se, !.AuxDataLen = 0, !.ADSDropped = 0,
            !.Version = IF @ = 3 THEN 0 ELSE @]

ErrMDH(m, se) ==
  [m EXCEPT !.State = 0, !.StateExtension = se, !.AuxDataLen = 0, !.ADSDropped = 0,
            !.Version = IF @ = 3 THEN 0 ELSE @,
            !.KeyType = IF @ = 2 THEN 0 ELSE @]

InvalidMDH == [ZeroMDH EXCEPT !.StateExtension = SE_INVALID]

-----------------------------------------------------------------------------
(* Machine admission (toy table): which kl.exec and which kl.setst targets *)
(* a Valid State admits.                                                   *)

admits_exec(m) ==
  \/ m.State = 2 /\ (m.Machine \in {"M_SIG", "M_KEM", "M_HASH"} \/ 0 \in m.MachinePolicy)
  \/ m.State = 3 /\ (m.Machine = "M_SIG" \/ 1 \in m.MachinePolicy)

admits_setst(m, target) ==
  \/ target = 1
  \/ /\ m.State = 1
     /\ CASE m.Machine = "M_SIG"              -> target \in {2, 3}
          [] m.Machine \in {"M_KEM", "M_HASH"} -> target = 2
          [] OTHER -> \/ target = 2 /\ 0 \in m.MachinePolicy
                      \/ target = 3 /\ 1 \in m.MachinePolicy

-----------------------------------------------------------------------------
(* kl.rstr*.  A request is the part of an MDH image that the instruction   *)
(* takes: part is the half or halves, other says that one of the fields    *)
(* that the instruction may not change is non-zero in them.                *)

RestrictRequest ==
  [part : {"l", "h", "v"}, MachinePolicy : SUBSET (0..1), UsagePolicy : SUBSET (0..4),
   ExpirationDate : 0..MaxDate, Locality : LocalityType, other : BOOLEAN]

TakesLow(rq)  == rq.part \in {"l", "v"}
TakesHigh(rq) == rq.part \in {"h", "v"}

RequestInvalid(rq) == rq.other \/ (TakesHigh(rq) /\ ~zk /\ rq.ExpirationDate # 0)

\* One Locality subfield a under the request b; hw marks the chains, whose
\* entries may be replaced by a stricter one.
SubfieldRefused(a, b, hw) == b # 0 /\ b # a /\ a # 0 /\ ~(hw /\ b > a)
Subfield(a, b)            == IF b = 0 THEN a ELSE b

LocalityRefused(lm, lr) ==
  \/ SubfieldRefused(lm.s0, lr.s0, TRUE)
  \/ SubfieldRefused(lm.s2, lr.s2, TRUE)
  \/ SubfieldRefused(lm.s4, lr.s4, FALSE)

\* Mutant: the flag bits are overwritten.
RestrictLocalityOverwriting(lm, lr) ==
  [s0 |-> Subfield(lm.s0, lr.s0), s2 |-> Subfield(lm.s2, lr.s2),
   s4 |-> Subfield(lm.s4, lr.s4), flags |-> lr.flags]

RestrictLocality(lm, lr) ==
  [s0 |-> Subfield(lm.s0, lr.s0), s2 |-> Subfield(lm.s2, lr.s2),
   s4 |-> Subfield(lm.s4, lr.s4), flags |-> lm.flags \cup lr.flags]

EarlierDate(c, e) == IF e # 0 /\ (c = 0 \/ e <= c) THEN e ELSE c

RestrictMDH(m, rq) ==
  [m EXCEPT !.MachinePolicy  = IF TakesLow(rq)  THEN @ \cap rq.MachinePolicy ELSE @,
            !.UsagePolicy    = IF TakesHigh(rq) THEN @ \cap rq.UsagePolicy ELSE @,
            !.ExpirationDate = IF TakesHigh(rq) THEN EarlierDate(@, rq.ExpirationDate) ELSE @,
            !.Locality       = IF TakesHigh(rq) THEN RestrictLocality(@, rq.Locality) ELSE @]

-----------------------------------------------------------------------------
(* The order that narrowing descends: a is at least as restrictive as b.   *)

SubfieldTighter(a, b, hw) == b = 0 \/ a = b \/ (hw /\ a >= b)

LocalityTighter(a, b) ==
  /\ SubfieldTighter(a.s0, b.s0, TRUE)
  /\ SubfieldTighter(a.s2, b.s2, TRUE)
  /\ SubfieldTighter(a.s4, b.s4, FALSE)
  /\ b.flags \subseteq a.flags

DateTighter(a, b) == b = 0 \/ (a # 0 /\ a <= b)

Tighter(m, n) ==
  /\ m.MachinePolicy \subseteq n.MachinePolicy
  /\ m.UsagePolicy \subseteq n.UsagePolicy
  /\ DateTighter(m.ExpirationDate, n.ExpirationDate)
  /\ LocalityTighter(m.Locality, n.Locality)

\* The fields that no instruction changes in a configured locker.
SameBinding(m, n) ==
  /\ m.Machine = n.Machine
  /\ m.SCProtection = n.SCProtection
  /\ m.Transparent = n.Transparent
=============================================================================
