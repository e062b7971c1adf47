--------------------------- MODULE KLEMgmt_proofs ---------------------------
(***************************************************************************)
(* Proofs about KLEMgmt, for every number of lockers, every capacity and   *)
(* every set of supplied Metadata, images, requests and options.           *)
(*                                                                         *)
(* The inductive invariant is StoreOK /\ ControlOK: the store (lockers,    *)
(* free slots, released contents) is typed, conserves capacity and holds   *)
(* only well-formed lockers; the other variables are typed.  An            *)
(* instruction changes the store in one of a few ways (a locker is         *)
(* discarded, allocated, updated in place, or two are moved), so there is  *)
(* one lemma for each, and the step proofs only show that the new locker   *)
(* records are well formed.  The words of a CSK and the effect of traps    *)
(* have small invariants of their own (CSKOK, TrapDestroys).               *)
(*                                                                         *)
(* Three parts: the invariants; the steps (policies only narrow, usage is  *)
(* gated, the named locker keeps its CC, contents have a lineage); the     *)
(* refinement of CCLifecycle.                                              *)
(***************************************************************************)
EXTENDS KLEMgmtProps, FiniteSetTheorems, SequenceTheorems, TLAPS

\* A locker record that the unit may hold.
WellFormed(l) == l \in Locker /\ Emptied(l) /\ Shaped(l.mdh)

StoreOK ==
  /\ L \in [Lockers -> Locker]
  /\ slots \in Nat
  /\ pool \in Seq(Contents)
  /\ CapacityConserved
  /\ InertIsCleared
  /\ PoolBacksFreeSlots
  /\ ConfiguredShape

ControlOK ==
  /\ nl \in Lockers \cup {NONE}
  /\ start \in Nat
  /\ csk_levels \subseteq Levels
  /\ csk_sel \in Levels
  /\ csk_partial \in Seq(Levels)
  /\ lst \subseteq LST
  /\ mode \in 0..3
  /\ clock \in (0..MaxDate + 1) \cup {NoClock}
  /\ out \in {"retired"} \cup Traps

IInv == StoreOK /\ ControlOK

-----------------------------------------------------------------------------
(* Locker records.                                                         *)

\* The MDH of an Unconfigured locker is an MDH.
LEMMA ZeroMDHType == ZeroMDH \in MDH
  BY BoundsAssumption DEF ZeroMDH, MDH, Unimplemented, NoLocality, LocalityType

\* A locker that keeps an inert, cleaned MDH and nothing else is well formed.
LEMMA BareWellFormed ==
  ASSUME NEW m \in MDH, Inert(m),
         m.AuxDataLen = 0, m.ADSDropped = 0, m.Version # 3, m.KeyType # 2,
         IsUnconfigured(m) => m = ZeroMDH
  PROVE  WellFormed(Bare(m)) /\ Bare(m).slot = FALSE
  <1>1. Bare(m) \in Locker /\ Bare(m).mdh = m /\ Bare(m).slot = FALSE
    BY ContentAssumption DEF Bare, Locker
  <1>2. Emptied(Bare(m)) /\ Shaped(Bare(m).mdh)
    BY <1>1 DEF Emptied, Shaped
  <1> QED
    BY <1>1, <1>2 DEF WellFormed

\* An Unconfigured locker is well formed.
LEMMA NoLockerWellFormed == WellFormed(NoLocker) /\ NoLocker.slot = FALSE
  <1>1. /\ Inert(ZeroMDH) /\ ZeroMDH.AuxDataLen = 0 /\ ZeroMDH.ADSDropped = 0
        /\ ZeroMDH.Version # 3 /\ ZeroMDH.KeyType # 2
    BY DEF ZeroMDH, Inert
  <1> QED
    BY <1>1, ZeroMDHType, BareWellFormed DEF NoLocker

\* The MDH that an invalid opening leaves.
LEMMA InvalidLockerWellFormed == WellFormed(Bare(InvalidMDH)) /\ Bare(InvalidMDH).slot = FALSE
  <1>1. InvalidMDH \in MDH
    BY ZeroMDHType DEF InvalidMDH, MDH, SE_INVALID
  <1>2. /\ Inert(InvalidMDH) /\ InvalidMDH.AuxDataLen = 0 /\ InvalidMDH.ADSDropped = 0
        /\ InvalidMDH.Version # 3 /\ InvalidMDH.KeyType # 2 /\ ~IsUnconfigured(InvalidMDH)
    BY DEF InvalidMDH, ZeroMDH, Inert, IsUnconfigured, SE_INVALID
  <1> QED
    BY <1>1, <1>2, BareWellFormed

\* GR15: the MDH of an Error State is an MDH.
LEMMA ErrMDHType ==
  ASSUME NEW m \in MDH, NEW se \in 0..15
  PROVE  ErrMDH(m, se) \in MDH
  <1> DEFINE a == [m EXCEPT !.State = 0]
             b == [a EXCEPT !.StateExtension = se]
             c == [b EXCEPT !.AuxDataLen = 0]
             d == [c EXCEPT !.ADSDropped = 0]
             e == [d EXCEPT !.Version = IF @ = 3 THEN 0 ELSE @]
             f == [e EXCEPT !.KeyType = IF @ = 2 THEN 0 ELSE @]
  <1>1. ErrMDH(m, se) = f
    BY DEF ErrMDH
  <1>2. a \in MDH
    BY DEF MDH
  <1> HIDE DEF a
  <1>3. b \in MDH
    BY <1>2 DEF MDH
  <1> HIDE DEF b
  <1>4. c \in MDH
    BY <1>3 DEF MDH
  <1> HIDE DEF c
  <1>5. d \in MDH
    BY <1>4 DEF MDH
  <1> HIDE DEF d
  <1>6. e \in MDH
    BY <1>5 DEF MDH
  <1> HIDE DEF e
  <1>7. f \in MDH
    BY <1>6 DEF MDH
  <1> QED
    BY <1>1, <1>7

\* A locker that has entered an Error State is well formed.
LEMMA ErrorLockerWellFormed ==
  ASSUME NEW m \in MDH, NEW se \in 1..6
  PROVE  WellFormed(Bare(ErrMDH(m, se))) /\ Bare(ErrMDH(m, se)).slot = FALSE
  <1>1. ErrMDH(m, se) \in MDH
    BY ErrMDHType
  <1>2. /\ ErrMDH(m, se).State = 0 /\ ErrMDH(m, se).StateExtension = se
        /\ ErrMDH(m, se).AuxDataLen = 0 /\ ErrMDH(m, se).ADSDropped = 0
        /\ ErrMDH(m, se).Version # 3 /\ ErrMDH(m, se).KeyType # 2
    BY DEF ErrMDH, MDH
  <1>3. Inert(ErrMDH(m, se)) /\ ~IsUnconfigured(ErrMDH(m, se))
    BY <1>2 DEF Inert, IsUnconfigured
  <1> QED
    BY <1>1, <1>2, <1>3, BareWellFormed

\* A locker with a slot and a well-shaped configured MDH is well formed.
LEMMA ConfiguredWellFormed ==
  ASSUME NEW l \in Locker, l.slot = TRUE, ~Inert(l.mdh), Shaped(l.mdh)
  PROVE  WellFormed(l)
  BY DEF WellFormed, Emptied, IsUnconfigured, Inert

\* Every locker of the store is well formed.
LEMMA StoredWellFormed ==
  ASSUME StoreOK, NEW k \in Lockers
  PROVE  WellFormed(L[k]) /\ L[k] \in Locker /\ L[k].mdh \in MDH
  <1>1. L[k] \in Locker /\ Emptied(L[k]) /\ Shaped(L[k].mdh)
    BY DEF StoreOK, InertIsCleared, ConfiguredShape
  <1>2. L[k].mdh \in MDH
    BY <1>1 DEF Locker
  <1> QED
    BY <1>1, <1>2 DEF WellFormed

-----------------------------------------------------------------------------
(* Steps of the store.                                                     *)

\* The lockers that hold a slot are finitely many.
LEMMA HeldFinite == IsFiniteSet(Held) /\ Cardinality(Held) \in Nat
  <1>1. IsFiniteSet(Lockers)
    BY SizeAssumption, FS_Interval DEF Lockers
  <1>2. Held \subseteq Lockers
    BY DEF Held
  <1> QED
    BY <1>1, <1>2, FS_Subset, FS_CardinalityType

\* Replacing one locker record changes the number of held slots by its own.
LEMMA HeldStep ==
  ASSUME L \in [Lockers -> Locker], NEW k \in Lockers, NEW l \in Locker, L' = [L EXCEPT ![k] = l]
  PROVE  Cardinality(Held') = Cardinality(Held) + (IF l.slot THEN 1 ELSE 0)
                                                - (IF L[k].slot THEN 1 ELSE 0)
  <1>1. IsFiniteSet(Held) /\ Cardinality(Held) \in Nat
    BY HeldFinite
  <1>2. l.slot \in BOOLEAN /\ \A j \in Lockers : L[j].slot \in BOOLEAN
    BY DEF Locker
  <1>3. k \in Held <=> L[k].slot
    BY DEF Held
  <1>4. CASE l.slot
    <2>1. Held' = Held \cup {k}
      BY <1>4 DEF Held
    <2>2. Cardinality(Held \cup {k}) = IF k \in Held THEN Cardinality(Held) ELSE Cardinality(Held) + 1
      BY <1>1, FS_AddElement
    <2> QED
      BY <1>1, <1>3, <1>4, <2>1, <2>2
  <1>5. CASE ~l.slot
    <2>1. Held' = Held \ {k}
      BY <1>5 DEF Held
    <2>2. Cardinality(Held \ {k}) = IF k \in Held THEN Cardinality(Held) - 1 ELSE Cardinality(Held)
      BY <1>1, FS_RemoveElement
    <2> QED
      BY <1>1, <1>3, <1>5, <2>1, <2>2
  <1> QED
    BY <1>4, <1>5

\* What StoreOK asks of the lockers, one record at a time.
LEMMA StoreFromRecords ==
  ASSUME L' \in [Lockers -> Locker], \A j \in Lockers : WellFormed(L'[j])
  PROVE  InertIsCleared' /\ ConfiguredShape'
  BY DEF WellFormed, InertIsCleared, ConfiguredShape

\* Replacing one record by a well-formed one keeps every record well formed.
LEMMA ReplaceWellFormed ==
  ASSUME StoreOK, NEW k \in Lockers, NEW l, WellFormed(l), L' = [L EXCEPT ![k] = l]
  PROVE  L' \in [Lockers -> Locker] /\ InertIsCleared' /\ ConfiguredShape'
  <1>1. L \in [Lockers -> Locker] /\ l \in Locker
    BY DEF StoreOK, WellFormed
  <1>2. L' \in [Lockers -> Locker]
    BY <1>1
  <1>3. \A j \in Lockers : WellFormed(L'[j])
    BY <1>1, StoredWellFormed
  <1> QED
    BY <1>2, <1>3, StoreFromRecords

\* Freeing a locker releases at most its own slot, and its content with it.
LEMMA AfterFree ==
  ASSUME StoreOK, NEW k \in Lockers
  PROVE  /\ SlotsAfterFree(k) \in Nat
         /\ SlotsAfterFree(k) = slots + (IF L[k].slot THEN 1 ELSE 0)
         /\ PoolAfterFree(k) \in Seq(Contents)
         /\ Len(PoolAfterFree(k)) <= SlotsAfterFree(k)
  <1>1. L[k] \in Locker /\ L[k].content \in Contents
    BY StoredWellFormed DEF Locker
  <1>2. slots \in Nat /\ pool \in Seq(Contents) /\ Len(pool) <= slots
    BY DEF StoreOK, PoolBacksFreeSlots
  <1> QED
    BY <1>1, <1>2 DEF SlotsAfterFree, PoolAfterFree

\* free(k) and a well-formed record without a slot.
LEMMA DiscardStore ==
  ASSUME StoreOK, NEW k \in Lockers, NEW l, WellFormed(l), l.slot = FALSE, Discard(k, l)
  PROVE  StoreOK'
  <1>1. L' = [L EXCEPT ![k] = l] /\ slots' = SlotsAfterFree(k) /\ pool' = PoolAfterFree(k)
    BY DEF Discard
  <1>2. L' \in [Lockers -> Locker] /\ InertIsCleared' /\ ConfiguredShape'
    BY <1>1, ReplaceWellFormed
  <1>3. CapacityConserved'
    <2>1. l \in Locker /\ L \in [Lockers -> Locker] /\ Cardinality(Held) \in Nat
      BY HeldFinite DEF StoreOK, WellFormed
    <2>2. Cardinality(Held') = Cardinality(Held) + 0 - (IF L[k].slot THEN 1 ELSE 0)
      BY <1>1, <2>1, HeldStep
    <2> QED
      BY <1>1, <2>1, <2>2, AfterFree, HeldFinite, SizeAssumption DEF StoreOK, CapacityConserved
  <1> QED
    BY <1>1, <1>2, <1>3, AfterFree DEF StoreOK, PoolBacksFreeSlots

\* A sequence without its last element.
LEMMA ButLast ==
  ASSUME NEW S, NEW p \in Seq(S), p # <<>>
  PROVE  /\ SubSeq(p, 1, Len(p) - 1) \in Seq(S)
         /\ Len(SubSeq(p, 1, Len(p) - 1)) = Len(p) - 1
  <1> DEFINE n == Len(p) - 1
  <1>1. n \in Nat /\ n + 1 = Len(p)
    BY EmptySeq, LenProperties
  <1>2. \A i \in 1..n : p[i] \in S
    BY <1>1, ElementOfSeq
  <1> HIDE DEF n
  <1>3. SubSeq(p, 1, n) \in Seq(S) /\ Len(SubSeq(p, 1, n)) = IF 1 <= n THEN n - 1 + 1 ELSE 0
    BY <1>1, <1>2, SubSeqProperties
  <1>4. Len(SubSeq(p, 1, n)) = n
    BY <1>1, <1>3
  <1> QED
    BY <1>3, <1>4 DEF n

\* free(k), alloc(k) and a well-shaped configured record.
LEMMA AllocateStore ==
  ASSUME StoreOK, NEW k \in Lockers, NEW l \in Locker, WellFormed(l), l.slot = TRUE, Allocate(k, l)
  PROVE  StoreOK' /\ out' \in {"retired"} \cup Traps
  <1>1. CASE SlotsAfterFree(k) = 0 /\ Discard(k, NoLocker) /\ out' = "out_of_memory"
    BY <1>1, DiscardStore, NoLockerWellFormed DEF Traps
  <1>2. CASE /\ SlotsAfterFree(k) > 0
             /\ slots' = SlotsAfterFree(k) - 1
             /\ pool' = PoolAfterAlloc(PoolAfterFree(k))
             /\ L' = [L EXCEPT ![k] = l]
             /\ out' = "retired"
    <2>2. L' \in [Lockers -> Locker] /\ InertIsCleared' /\ ConfiguredShape'
      BY <1>2, ReplaceWellFormed
    <2>3. Cardinality(Held') = Cardinality(Held) + 1 - (IF L[k].slot THEN 1 ELSE 0)
      BY <1>2, HeldStep, HeldFinite DEF StoreOK
    <2>4. CapacityConserved' /\ slots' \in Nat
      <3> DEFINE h == IF L[k].slot THEN 1 ELSE 0
      <3>1. h \in 0..1 /\ slots \in Nat /\ Cardinality(Held) \in Nat
        BY HeldFinite DEF StoreOK
      <3>2. slots' = slots + h - 1 /\ slots + h > 0 /\ slots + Cardinality(Held) = Capacity
        BY <1>2, AfterFree DEF StoreOK, CapacityConserved
      <3>3. Cardinality(Held') = Cardinality(Held) + 1 - h
        BY <2>3
      <3> HIDE DEF h
      <3> QED
        BY <3>1, <3>2, <3>3 DEF CapacityConserved
    <2>5. pool' \in Seq(Contents) /\ PoolBacksFreeSlots'
      <3>1. CASE PoolAfterFree(k) = <<>>
        BY <1>2, <2>4, <3>1, AfterFree DEF PoolAfterAlloc, PoolBacksFreeSlots
      <3>2. CASE PoolAfterFree(k) # <<>>
        <4>1. PoolAfterFree(k) \in Seq(Contents) /\ Len(PoolAfterFree(k)) <= SlotsAfterFree(k)
          BY AfterFree
        <4>2. pool' = SubSeq(PoolAfterFree(k), 1, Len(PoolAfterFree(k)) - 1)
          BY <1>2, <3>2 DEF PoolAfterAlloc
        <4>3. pool' \in Seq(Contents) /\ Len(pool') = Len(PoolAfterFree(k)) - 1
          BY <3>2, <4>1, <4>2, ButLast
        <4> QED
          BY <1>2, <4>1, <4>3, AfterFree DEF PoolBacksFreeSlots
      <3> QED
        BY <3>1, <3>2
    <2> QED
      BY <1>2, <2>2, <2>4, <2>5 DEF StoreOK, Traps
  <1> QED
    BY <1>1, <1>2 DEF Allocate

\* A record updated in place, which keeps its slot.
LEMMA UpdateStore ==
  ASSUME StoreOK, NEW k \in Lockers, NEW l, WellFormed(l), l.slot = L[k].slot,
         L' = [L EXCEPT ![k] = l], UNCHANGED <<slots, pool>>
  PROVE  StoreOK'
  <1>1. L' \in [Lockers -> Locker] /\ InertIsCleared' /\ ConfiguredShape'
    BY ReplaceWellFormed
  <1>2. Held' = Held
    BY DEF Held, StoreOK
  <1> QED
    BY <1>1, <1>2 DEF StoreOK, CapacityConserved, PoolBacksFreeSlots

\* An instruction that leaves the store alone.
LEMMA SameStore ==
  ASSUME StoreOK, UNCHANGED store
  PROVE  StoreOK'
  BY DEF StoreOK, store, CapacityConserved, Held, InertIsCleared, PoolBacksFreeSlots, ConfiguredShape

-----------------------------------------------------------------------------
(* Metadata that the instructions produce.                                 *)

\* An edit of one field.
LEMMA StateEdit ==
  ASSUME NEW m \in MDH, NEW v \in 0..63
  PROVE  [m EXCEPT !.State = v] \in MDH /\ [m EXCEPT !.State = v].State = v
  BY DEF MDH

\* A State that a well-shaped configured MDH may move to: any Valid State or
\* SCC State from outside the PI States, but no Valid State under a
\* system-specific Version; any PI State from a PI State.
LEMMA StateEditShaped ==
  ASSUME NEW m \in MDH, ~Inert(m), Shaped(m), NEW v \in 0..63,
         \/ m.State \in PI_STATES /\ v \in PI_STATES
         \/ m.State \notin PI_STATES /\ v \in SCC_STATES
         \/ m.State \notin PI_STATES /\ v \in ValidStates /\ m.Version # 3
  PROVE  Shaped([m EXCEPT !.State = v]) /\ ~Inert([m EXCEPT !.State = v])
  <1> DEFINE r == [m EXCEPT !.State = v]
  <1>1. /\ r.State = v /\ r.Version = m.Version /\ r.KeyType = m.KeyType
        /\ r.AuxDataLen = m.AuxDataLen /\ r.ADSDropped = m.ADSDropped
        /\ r.SCProtection = m.SCProtection
    BY DEF MDH
  <1> HIDE DEF r
  <1>2. /\ m.KeyType = 2 => m.State \in PI_STATES
        /\ m.State \in PI_STATES => m.AuxDataLen = 0 /\ m.ADSDropped = 0
        /\ m.Version = 3 => m.State \in SCC_STATES
        /\ 2 \notin m.SCProtection
    BY DEF Shaped
  <1>3. v \in ValidStates \cup ConfigStates
    BY DEF PI_STATES, SCC_STATES, ConfigStates, Provisioning, Exporting, Importing, PPIExporting, PPIImporting
  <1>4. PI_STATES \cap SCC_STATES = {} /\ PI_STATES \cap ValidStates = {}
    BY DEF PI_STATES, SCC_STATES, ValidStates, Provisioning, Exporting, Importing, PPIExporting, PPIImporting
  <1>5. ~Inert(r)
    BY <1>1, <1>3 DEF Inert, ValidStates, ConfigStates
  <1>6. Shaped(r)
    BY <1>1, <1>2, <1>3, <1>4 DEF Shaped
  <1> QED
    BY <1>5, <1>6 DEF r

\* Metadata that validate has accepted.
LEMMA AcceptedMDH ==
  ASSUME NEW m \in MDH, NEW ctx, ~invalid(m, ctx)
  PROVE  /\ 2 \notin m.SCProtection
         /\ m.Version = 3 => ctx = "import" /\ m.State \in {0, Importing, Exporting}
         /\ ctx = "provision" => m.AuxDataLen = 0 /\ m.ADSDropped = 0
         /\ ctx # "provision" /\ m.KeyType = 2 => m.State \in PI_STATES
         /\ ctx # "provision" /\ m.State \in PI_STATES => m.AuxDataLen = 0 /\ m.ADSDropped = 0
  BY DEF invalid, InvalidVersion, InvalidContext

\* A verdict other than "invalid" means that validate has accepted.
LEMMA VerdictAccepts ==
  ASSUME NEW m \in MDH, NEW ctx, val(lst, m, ctx) # "invalid"
  PROVE  ~invalid(m, ctx)
  BY DEF val

\* The MDH of an opened provisioning.
LEMMA OpenedProvisioning ==
  ASSUME NEW md \in MDH, ~invalid(md, "provision")
  PROVE  /\ OpenedMDH(Provisioning, md) \in MDH
         /\ ~Inert(OpenedMDH(Provisioning, md))
         /\ Shaped(OpenedMDH(Provisioning, md))
  <1> DEFINE a == [md EXCEPT !.State = Provisioning]
             b == [a EXCEPT !.MachineUse = 0]
             c == [b EXCEPT !.AuxInfo = 0]
  <1>1. OpenedMDH(Provisioning, md) = c
    BY DEF OpenedMDH
  <1>2. a \in MDH
    BY DEF MDH, Provisioning
  <1> HIDE DEF a
  <1>3. b \in MDH
    BY <1>2 DEF MDH
  <1> HIDE DEF b
  <1>4. c \in MDH
    BY <1>3 DEF MDH
  <1>5. /\ c.State = Provisioning /\ c.Version = md.Version /\ c.KeyType = md.KeyType
        /\ c.AuxDataLen = md.AuxDataLen /\ c.ADSDropped = md.ADSDropped
        /\ c.SCProtection = md.SCProtection
    BY DEF a, b, c, MDH
  <1> HIDE DEF c
  <1>6. ~Inert(c) /\ Shaped(c)
    BY <1>5, AcceptedMDH
    DEF Inert, Shaped, PI_STATES, SCC_STATES, ValidStates, ConfigStates,
        Provisioning, Exporting, Importing, PPIExporting, PPIImporting
  <1> QED
    BY <1>1, <1>4, <1>6

\* The MDH of an opened import.
LEMMA OpenedImport ==
  ASSUME NEW md \in MDH, ~invalid(md, "import")
  PROVE  /\ OpenedMDH(Importing, md) \in MDH
         /\ ~Inert(OpenedMDH(Importing, md))
         /\ Shaped(OpenedMDH(Importing, md))
  <1> DEFINE st == IF md.State \in PI_STATES THEN PPIImporting ELSE Importing
             drop == IF md.Version = 3 THEN md.ADSDropped ELSE IF DropsADS(md) THEN 1 ELSE 0
             a == [md EXCEPT !.State = st]
             b == [a EXCEPT !.ADSDropped = drop]
  <1>1. OpenedMDH(Importing, md) = b
    BY DEF OpenedMDH, Importing, Provisioning
  <1>2. st \in 0..63 /\ drop \in 0..1
    BY DEF MDH, PPIImporting, Importing
  <1>3. md.State \in PI_STATES => drop = 0
    BY AcceptedMDH DEF DropsADS, MDH
  <1>4. st \in {Importing, PPIImporting} /\ (st = PPIImporting <=> md.State \in PI_STATES)
    BY DEF Importing, PPIImporting
  <1> HIDE DEF st, drop
  <1>5. a \in MDH
    BY <1>2 DEF MDH
  <1>6. a.State = st /\ a.Version = md.Version /\ a.KeyType = md.KeyType
        /\ a.AuxDataLen = md.AuxDataLen /\ a.SCProtection = md.SCProtection
    BY DEF MDH
  <1> HIDE DEF a
  <1>7. b \in MDH
    BY <1>2, <1>5 DEF MDH
  <1>8. /\ b.State = st /\ b.Version = md.Version /\ b.KeyType = md.KeyType
        /\ b.AuxDataLen = md.AuxDataLen /\ b.ADSDropped = drop
        /\ b.SCProtection = md.SCProtection
    BY <1>5, <1>6 DEF MDH
  <1> HIDE DEF b
  <1>9. /\ md.Version = 3 => md.State \notin PI_STATES
        /\ md.KeyType = 2 => md.State \in PI_STATES
        /\ md.State \in PI_STATES => md.AuxDataLen = 0
        /\ 2 \notin md.SCProtection
    BY AcceptedMDH DEF PI_STATES, Provisioning, Exporting, Importing, PPIExporting, PPIImporting
  <1>10. ~Inert(b) /\ Shaped(b)
    BY <1>3, <1>4, <1>8, <1>9
    DEF Inert, Shaped, PI_STATES, SCC_STATES, ValidStates, ConfigStates,
        Provisioning, Exporting, Importing, PPIExporting, PPIImporting
  <1> QED
    BY <1>1, <1>7, <1>10

\* What the completion of a provisioning makes of the MDH.
LEMMA ProvisionedShaped ==
  ASSUME NEW m \in MDH, Shaped(m), m.State = Provisioning
  PROVE  /\ ProvisionedMDH(m) \in MDH
         /\ ~Inert(ProvisionedMDH(m))
         /\ Shaped(ProvisionedMDH(m))
  <1> DEFINE a == [m EXCEPT !.State = 1]
             b == [a EXCEPT !.StateExtension = 0]
             c == [b EXCEPT !.MachineUse = 0]
             d == [c EXCEPT !.AuxInfo = 0]
             e == [d EXCEPT !.KeyType = IF @ = 2 THEN 0 ELSE @]
  <1>1. ProvisionedMDH(m) = e
    BY DEF ProvisionedMDH
  <1>2. a \in MDH /\ a.State = 1 /\ a.Version = m.Version /\ a.SCProtection = m.SCProtection
    BY DEF MDH
  <1> HIDE DEF a
  <1>3. b \in MDH /\ b.State = 1 /\ b.Version = m.Version /\ b.SCProtection = m.SCProtection
    BY <1>2 DEF MDH
  <1> HIDE DEF b
  <1>4. c \in MDH /\ c.State = 1 /\ c.Version = m.Version /\ c.SCProtection = m.SCProtection
    BY <1>3 DEF MDH
  <1> HIDE DEF c
  <1>5. d \in MDH /\ d.State = 1 /\ d.Version = m.Version /\ d.SCProtection = m.SCProtection
    BY <1>4 DEF MDH
  <1> HIDE DEF d
  <1>6. /\ e \in MDH /\ e.State = 1 /\ e.Version = m.Version /\ e.SCProtection = m.SCProtection
        /\ e.KeyType # 2
    BY <1>5 DEF MDH
  <1> HIDE DEF e
  <1>7. m.Version # 3 /\ 2 \notin m.SCProtection
    BY DEF Shaped, Inert, Provisioning, SCC_STATES, Exporting, Importing
  <1>8. ~Inert(e) /\ Shaped(e)
    BY <1>6, <1>7 DEF Inert, Shaped, ValidStates, PI_STATES, Provisioning, PPIExporting, PPIImporting
  <1> QED
    BY <1>1, <1>6, <1>8

\* What kl.clearads makes of the MDH.
LEMMA WithoutADSShaped ==
  ASSUME NEW m \in MDH, Shaped(m), IsValid(m)
  PROVE  WithoutADS(m) \in MDH /\ ~Inert(WithoutADS(m)) /\ Shaped(WithoutADS(m))
  <1> DEFINE a == [m EXCEPT !.AuxDataLen = 0]
             b == [a EXCEPT !.ADSDropped = 0]
             c == [b EXCEPT !.MachineUse = 0]
             d == [c EXCEPT !.AuxInfo = 0]
             Same(r) == /\ r \in MDH /\ r.State = m.State /\ r.Version = m.Version
                        /\ r.KeyType = m.KeyType /\ r.SCProtection = m.SCProtection
  <1>1. WithoutADS(m) = d
    BY DEF WithoutADS
  <1>2. Same(a) /\ a.AuxDataLen = 0
    BY DEF MDH
  <1> HIDE DEF a
  <1>3. Same(b) /\ b.AuxDataLen = 0 /\ b.ADSDropped = 0
    BY <1>2 DEF MDH
  <1> HIDE DEF b
  <1>4. Same(c) /\ c.AuxDataLen = 0 /\ c.ADSDropped = 0
    BY <1>3 DEF MDH
  <1> HIDE DEF c
  <1>5. Same(d) /\ d.AuxDataLen = 0 /\ d.ADSDropped = 0
    BY <1>4 DEF MDH
  <1> HIDE DEF d
  <1>6. ~Inert(d) /\ Shaped(d)
    BY <1>5 DEF Shaped, Inert, IsValid, ValidStates
  <1> QED
    BY <1>1, <1>5, <1>6

\* What kl.rstr* makes of the MDH.
LEMMA RestrictedShaped ==
  ASSUME NEW m \in MDH, NEW rq \in RestrictRequest, Shaped(m), ~Inert(m)
  PROVE  RestrictMDH(m, rq) \in MDH /\ ~Inert(RestrictMDH(m, rq)) /\ Shaped(RestrictMDH(m, rq))
  <1> DEFINE a == [m EXCEPT !.MachinePolicy  = IF TakesLow(rq)  THEN @ \cap rq.MachinePolicy ELSE @]
             b == [a EXCEPT !.UsagePolicy    = IF TakesHigh(rq) THEN @ \cap rq.UsagePolicy ELSE @]
             c == [b EXCEPT !.ExpirationDate = IF TakesHigh(rq) THEN EarlierDate(@, rq.ExpirationDate) ELSE @]
             d == [c EXCEPT !.Locality       = IF TakesHigh(rq) THEN RestrictLocality(@, rq.Locality) ELSE @]
             Same(r) == /\ r \in MDH /\ r.State = m.State /\ r.Version = m.Version
                        /\ r.KeyType = m.KeyType /\ r.SCProtection = m.SCProtection
                        /\ r.AuxDataLen = m.AuxDataLen /\ r.ADSDropped = m.ADSDropped
  <1>1. RestrictMDH(m, rq) = d
    BY DEF RestrictMDH
  <1>2. Same(a)
    BY DEF MDH
  <1> HIDE DEF a
  <1>3. Same(b)
    BY <1>2 DEF MDH
  <1> HIDE DEF b
  <1>4. Same(c)
    <2>1. \A x, y \in 0..MaxDate : EarlierDate(x, y) \in 0..MaxDate
      BY DEF EarlierDate
    <2>2. rq.ExpirationDate \in 0..MaxDate /\ b.ExpirationDate \in 0..MaxDate
      BY <1>3 DEF RestrictRequest, MDH
    <2>3. EarlierDate(b.ExpirationDate, rq.ExpirationDate) \in 0..MaxDate
      BY <2>1, <2>2
    <2> QED
      BY <1>3, <2>3 DEF MDH
  <1> HIDE DEF c
  <1>5. Same(d)
    <2>1. \A x, y \in 0..3 : Subfield(x, y) \in 0..3
      BY DEF Subfield
    <2>2. \A x, y \in LocalityType : RestrictLocality(x, y) \in LocalityType
      BY <2>1 DEF RestrictLocality, LocalityType
    <2>3. rq.Locality \in LocalityType /\ c.Locality \in LocalityType
      BY <1>4 DEF RestrictRequest, MDH
    <2>4. RestrictLocality(c.Locality, rq.Locality) \in LocalityType
      BY <2>2, <2>3
    <2> QED
      BY <1>4, <2>4 DEF MDH
  <1> HIDE DEF d
  <1>6. ~Inert(d) /\ Shaped(d)
    BY <1>5 DEF Shaped, Inert
  <1> QED
    BY <1>1, <1>5, <1>6

-----------------------------------------------------------------------------
(* Pieces that the instructions share.                                     *)

\* What an operand names.
LEMMA TargetType ==
  ASSUME ControlOK, NEW o \in Operands
  PROVE  tgt(o) \in Lockers \cup {NONE} /\ (tgt(o) # NONE => tgt(o) \in Lockers)
  BY DEF ControlOK, Operands, tgt

\* A step that keeps the control variables, with an outcome of its own.
LEMMA SameControl ==
  ASSUME ControlOK, UNCHANGED <<named, csk, env>>, out' \in {"retired"} \cup Traps
  PROVE  ControlOK'
  BY DEF ControlOK, named, csk, env

\* A step that writes klnamedlocker and klstart.
LEMMA NamedControl ==
  ASSUME ControlOK, nl' \in Lockers \cup {NONE}, start' \in Nat, UNCHANGED <<csk, env>>,
         out' \in {"retired"} \cup Traps
  PROVE  ControlOK'
  BY DEF ControlOK, csk, env

\* A step that raises a trap and does nothing else, or falls through.
LEMMA NoEffect ==
  ASSUME IInv, UNCHANGED <<store, named, csk, env>>, out' \in {"retired"} \cup Traps
  PROVE  IInv'
  BY SameStore, SameControl DEF IInv

\* A refused or inert instruction.
LEMMA RaiseKeeps == ASSUME IInv, NEW trap \in Traps, Raise(trap) PROVE IInv'
  BY NoEffect DEF Raise

\* An instruction that falls through keeps the invariant: only its outcome changes.
LEMMA FallThroughKeeps == ASSUME IInv, FallThrough PROVE IInv'
  BY NoEffect DEF FallThrough, Retire

\* err(k, se).
LEMMA EnterErrorStore ==
  ASSUME StoreOK, NEW k \in Lockers, NEW m \in MDH, NEW se \in 1..6, EnterError(k, m, se)
  PROVE  StoreOK'
  BY DiscardStore, ErrorLockerWellFormed DEF EnterError

\* A configured locker whose MDH is edited in place.
LEMMA EditStore ==
  ASSUME StoreOK, NEW k \in Lockers, ~Inert(L[k].mdh),
         NEW l \in Locker, l.slot = L[k].slot, ~Inert(l.mdh), Shaped(l.mdh),
         L' = [L EXCEPT ![k] = l], UNCHANGED <<slots, pool>>
  PROVE  StoreOK'
  <1>1. L[k].slot = TRUE
    BY StoredWellFormed DEF WellFormed, Emptied, Locker
  <1> QED
    BY <1>1, ConfiguredWellFormed, UpdateStore

\* Replacing the MDH of a configured locker by a well-shaped one keeps the store: its slot
\* and its content stay.
LEMMA EditMDHStore ==
  ASSUME StoreOK, NEW k \in Lockers, ~Inert(L[k].mdh),
         NEW m \in MDH, ~Inert(m), Shaped(m),
         L' = [L EXCEPT ![k].mdh = m], UNCHANGED <<slots, pool>>
  PROVE  StoreOK'
  <1> DEFINE l == [L[k] EXCEPT !.mdh = m]
  <1>1. L[k] \in Locker /\ L \in [Lockers -> Locker]
    BY StoredWellFormed DEF StoreOK
  <1>2. l \in Locker /\ l.slot = L[k].slot /\ l.mdh = m
    BY <1>1 DEF Locker
  <1>3. L' = [L EXCEPT ![k] = l]
    BY <1>1
  <1> HIDE DEF l
  <1> QED
    BY <1>2, <1>3, EditStore

\* A change of State in place.
LEMMA EditStateStore ==
  ASSUME StoreOK, NEW k \in Lockers, ~Inert(L[k].mdh), NEW v \in 0..63,
         \/ L[k].mdh.State \in PI_STATES /\ v \in PI_STATES
         \/ L[k].mdh.State \notin PI_STATES /\ v \in SCC_STATES
         \/ L[k].mdh.State \notin PI_STATES /\ v \in ValidStates /\ L[k].mdh.Version # 3,
         L' = [L EXCEPT ![k].mdh.State = v], UNCHANGED <<slots, pool>>
  PROVE  StoreOK'
  <1>1. L[k].mdh \in MDH /\ Shaped(L[k].mdh) /\ L \in [Lockers -> Locker] /\ L[k] \in Locker
    BY StoredWellFormed DEF StoreOK, WellFormed
  <1> DEFINE m == [L[k].mdh EXCEPT !.State = v]
  <1>2. m \in MDH /\ ~Inert(m) /\ Shaped(m)
    BY <1>1, StateEdit, StateEditShaped
  <1>3. L' = [L EXCEPT ![k].mdh = m]
    BY <1>1
  <1> HIDE DEF m
  <1> QED
    BY <1>2, <1>3, EditMDHStore

\* A retargeted CSK selection.
LEMMA RaiseLevelControl ==
  ASSUME ControlOK, NEW m \in MDH, 2 \notin m.SCProtection,
         nl' \in Lockers \cup {NONE}, start' \in Nat, RaiseLevelCSK(m), UNCHANGED env
  PROVE  ControlOK'
  <1>1. m.SCProtection \in Levels
    BY DEF MDH, Levels
  <1>2. csk_sel' \in Levels /\ csk_partial' \in Seq(Levels) /\ csk_levels' = csk_levels /\ out' \in Traps
    BY <1>1 DEF RaiseLevelCSK, ControlOK, Traps
  <1> QED
    BY <1>2 DEF ControlOK, env

-----------------------------------------------------------------------------
(* The instructions and the environment preserve the invariant.            *)

\* Clearing a locker releases its slot and drops its name.
LEMMA ClearLockerKeeps ==
  ASSUME IInv, NEW k \in Lockers, ClearLocker(k)
  PROVE  IInv'
  <1>1. StoreOK'
    BY DiscardStore, NoLockerWellFormed DEF IInv, ClearLocker
  <1>2. ControlOK'
    BY NamedControl DEF IInv, ClearLocker, NameAfterClear, Retire, ControlOK
  <1> QED
    BY <1>1, <1>2 DEF IInv

\* kl.clear, on a locker or falling through, keeps the invariant.
LEMMA ClearKeeps ==
  ASSUME IInv, NEW o \in Operands, clear(o)
  PROVE  IInv'
  BY TargetType, FallThroughKeeps, ClearLockerKeeps DEF clear, IInv

\* clearall releases every held slot at once, in the order of the lockers.
LEMMA ClearAllKeeps ==
  ASSUME IInv, clearall
  PROVE  IInv'
  <1>1. L' = [k \in Lockers |-> NoLocker] /\ slots' = slots + Cardinality(Held)
    BY DEF clearall
  <1>2. L' \in [Lockers -> Locker] /\ InertIsCleared' /\ ConfiguredShape'
    BY <1>1, NoLockerWellFormed, StoreFromRecords DEF WellFormed
  <1>3. Held' = {}
    BY <1>1, NoLockerWellFormed DEF Held
  <1>4. Cardinality(Held') = 0
    BY <1>3, FS_EmptySet
  <1>5. CapacityConserved' /\ slots' \in Nat
    BY <1>1, <1>4, HeldFinite DEF IInv, StoreOK, CapacityConserved
  <1>6. pool' \in Seq(Contents) /\ Len(pool') <= slots'
    <2> DEFINE n == Cardinality(Held)
    <2>1. PICK order \in [1..n -> Held] : pool' = pool \o [i \in 1..n |-> L[order[i]].content]
      BY DEF clearall
    <2> DEFINE s == [i \in 1..n |-> L[order[i]].content]
    <2>2. n \in Nat
      BY HeldFinite
    <2>3. \A i \in 1..n : L[order[i]].content \in Contents
      BY <2>1, StoredWellFormed DEF IInv, Held, Locker
    <2>4. s \in Seq(Contents) /\ Len(s) = n
      BY <2>2, <2>3, IsASeq
    <2>5. pool \in Seq(Contents) /\ Len(pool) <= slots /\ slots \in Nat
      BY DEF IInv, StoreOK, PoolBacksFreeSlots
    <2> HIDE DEF s
    <2>6. pool \o s \in Seq(Contents) /\ Len(pool \o s) = Len(pool) + Len(s)
      BY <2>4, <2>5, ConcatProperties
    <2> QED
      BY <1>1, <2>1, <2>2, <2>4, <2>5, <2>6 DEF s
  <1>7. StoreOK'
    BY <1>2, <1>5, <1>6 DEF StoreOK, PoolBacksFreeSlots
  <1>8. ControlOK'
    BY NamedControl DEF IInv, clearall, Retire
  <1> QED
    BY <1>7, <1>8 DEF IInv

\* A write of klnamedlocker keeps the invariant.
LEMMA SetnlKeeps ==
  ASSUME IInv, NEW v \in Lockers \cup {NONE}, setnl(v)
  PROVE  IInv'
  <1>1. ControlOK'
    BY NamedControl DEF IInv, setnl, Retire, ControlOK
  <1> QED
    BY <1>1, SameStore DEF IInv, setnl

\* err(k, se), with nothing else changed.
LEMMA EnterErrorKeeps ==
  ASSUME IInv, NEW k \in Lockers, NEW m \in MDH, NEW se \in 1..6, EnterError(k, m, se), RetireStore
  PROVE  IInv'
  <1>1. StoreOK'
    BY EnterErrorStore DEF IInv
  <1>2. ControlOK'
    BY SameControl DEF IInv, RetireStore, Retire
  <1> QED
    BY <1>1, <1>2 DEF IInv

\* kl.setste puts its locker in an Error State, which releases its slot.
LEMMA SetsteKeeps ==
  ASSUME IInv, NEW o \in Operands, NEW se \in Errors, setste(o, se)
  PROVE  IInv'
  <1>1. CASE tgt(o) = NONE
    BY <1>1, FallThroughKeeps DEF setste
  <1>2. CASE tgt(o) # NONE
    <2> DEFINE m == IF IsUnconfigured(L[tgt(o)].mdh) THEN ZeroMDH ELSE L[tgt(o)].mdh
    <2>1. tgt(o) \in Lockers
      BY <1>2, TargetType DEF IInv
    <2>2. m \in MDH
      BY <2>1, ZeroMDHType, StoredWellFormed DEF IInv
    <2>3. EnterError(tgt(o), m, se) /\ RetireStore
      BY <1>2 DEF setste
    <2>4. se \in 1..6
      BY InputAssumption
    <2> HIDE DEF m
    <2> QED
      BY <2>1, <2>2, <2>3, <2>4, EnterErrorKeeps
  <1> QED
    BY <1>1, <1>2

\* A usage instruction keeps the invariant if the use that it gates does.
LEMMA RefuseKeeps ==
  ASSUME IInv, NEW k \in Lockers, Refuse(k)
  PROVE  IInv'
  BY EnterErrorKeeps, StoredWellFormed DEF IInv, Refuse, SE_INVALID

\* An expired locker enters its Error State and releases its slot.
LEMMA ExpireKeeps ==
  ASSUME IInv, NEW k \in Lockers, Expire(k)
  PROVE  IInv'
  BY EnterErrorKeeps, StoredWellFormed DEF IInv, Expire, SE_EXPIRED

\* A usage instruction keeps the invariant when its use does: the gate only traps or expires.
LEMMA GatedKeeps ==
  ASSUME IInv, NEW k \in Lockers, NEW ACTION use, Gated(k, use),
         IsValid(L[k].mdh) /\ use => IInv'
  PROVE  IInv'
  <1>1. "privilege_violation" \in Traps
    BY DEF Traps
  <1> QED
    BY <1>1, RaiseKeeps, ExpireKeeps DEF Gated

\* An instruction that only edits the MDH of a configured locker keeps the invariant.
LEMMA EditKeeps ==
  ASSUME IInv, NEW k \in Lockers, ~Inert(L[k].mdh), NEW m \in MDH, ~Inert(m), Shaped(m),
         L' = [L EXCEPT ![k].mdh = m], RetireLocker
  PROVE  IInv'
  <1>1. StoreOK'
    BY EditMDHStore DEF IInv, RetireLocker
  <1>2. ControlOK'
    BY SameControl DEF IInv, RetireLocker, Retire
  <1> QED
    BY <1>1, <1>2 DEF IInv

\* kl.exec.
LEMMA ExecKeeps ==
  ASSUME IInv, NEW o \in Operands, exec(o)
  PROVE  IInv'
  <1>1. ASSUME start' = 0 /\ Retire /\ UNCHANGED <<store, nl, csk, env>>
        PROVE  IInv'
    <2>1. StoreOK'
      BY <1>1, SameStore DEF IInv
    <2>2. ControlOK'
      BY <1>1, NamedControl DEF IInv, Retire, ControlOK
    <2> QED
      BY <2>1, <2>2 DEF IInv
  <1> DEFINE k == tgt(o)
             use == IF admits_exec(L[k].mdh)
                      THEN start' = 0 /\ Retire /\ UNCHANGED <<store, nl, csk, env>>
                      ELSE Refuse(k)
  <1>2. CASE k = NONE \/ Inert(L[k].mdh)
    BY <1>1, <1>2 DEF exec
  <1>3. CASE ~(k = NONE \/ Inert(L[k].mdh))
    <2>1. k \in Lockers /\ Gated(k, use)
      BY <1>3, TargetType DEF exec, IInv
    <2>2. use => IInv'
      BY <1>1, <2>1, RefuseKeeps
    <2> HIDE DEF use, k
    <2> QED
      BY <2>1, <2>2, GatedKeeps
  <1> QED
    BY <1>2, <1>3

\* kl.setst into a State that the Machine may admit.
LEMMA SetstKeeps ==
  ASSUME IInv, NEW o \in Operands, NEW target \in Targets, setst(o, target)
  PROVE  IInv'
  <1> DEFINE k == tgt(o)
             use == IF admits_setst(L[k].mdh, target)
                      THEN L' = [L EXCEPT ![k].mdh.State = target] /\ RetireLocker
                      ELSE Refuse(k)
  <1>1. CASE k = NONE \/ Inert(L[k].mdh)
    BY <1>1, FallThroughKeeps DEF setst
  <1>2. CASE ~(k = NONE \/ Inert(L[k].mdh))
    <2>1. k \in Lockers /\ Gated(k, use)
      BY <1>2, TargetType DEF setst, IInv
    <2>2. ASSUME IsValid(L[k].mdh), use
          PROVE  IInv'
      <3>1. CASE ~admits_setst(L[k].mdh, target)
        BY <2>1, <2>2, <3>1, RefuseKeeps
      <3>2. CASE L' = [L EXCEPT ![k].mdh.State = target] /\ RetireLocker
        <4>1. target \in 1..53 /\ target \in ValidStates
          BY InputAssumption DEF ValidStates
        <4>2. L[k].mdh.State \in ValidStates /\ L[k].mdh.State \notin PI_STATES
          BY <2>2 DEF IsValid, ValidStates, PI_STATES, Provisioning, PPIExporting, PPIImporting
        <4>3. L[k].mdh.Version # 3
          BY <1>2, <2>1, <4>2, StoredWellFormed
          DEF IInv, WellFormed, Shaped, ValidStates, SCC_STATES, Exporting, Importing
        <4>4. StoreOK'
          <5>1. StoreOK /\ ~Inert(L[k].mdh) /\ target \in 0..63 /\ UNCHANGED <<slots, pool>>
            BY <1>2, <3>2, <4>1 DEF IInv, RetireLocker
          <5>2. L' = [L EXCEPT ![k].mdh.State = target]
            BY <3>2
          <5> HIDE DEF k
          <5> QED
            BY <2>1, <4>1, <4>2, <4>3, <5>1, <5>2, EditStateStore
        <4>5. ControlOK'
          BY <3>2, SameControl DEF IInv, RetireLocker, Retire
        <4> QED
          BY <4>4, <4>5 DEF IInv
      <3> QED
        BY <2>2, <3>1, <3>2
    <2> HIDE DEF use, k
    <2> QED
      BY <2>1, <2>2, GatedKeeps
  <1> QED
    BY <1>1, <1>2

\* A kl.setst that names no admitted State keeps the invariant.
LEMMA SetstRefusedKeeps ==
  ASSUME IInv, NEW o \in Operands, setst_refused(o)
  PROVE  IInv'
  <1> DEFINE k == tgt(o)
  <1>1. CASE k = NONE \/ Inert(L[k].mdh)
    BY <1>1, FallThroughKeeps DEF setst_refused
  <1>2. CASE ~(k = NONE \/ Inert(L[k].mdh))
    <2>1. k \in Lockers /\ Gated(k, Refuse(k))
      BY <1>2, TargetType DEF setst_refused, IInv
    <2> HIDE DEF k
    <2> QED
      BY <2>1, RefuseKeeps, GatedKeeps
  <1> QED
    BY <1>1, <1>2

\* kl.clearads keeps the invariant: it zeroes the ADS fields in place.
LEMMA ClearadsKeeps ==
  ASSUME IInv, NEW o \in Operands, clearads(o)
  PROVE  IInv'
  <1> DEFINE k == tgt(o)
             use == L' = [L EXCEPT ![k].mdh = WithoutADS(@)] /\ RetireLocker
  <1>1. CASE k = NONE \/ Inert(L[k].mdh)
    BY <1>1, FallThroughKeeps DEF clearads
  <1>2. CASE ~(k = NONE \/ Inert(L[k].mdh))
    <2>1. k \in Lockers /\ Gated(k, use)
      BY <1>2, TargetType DEF clearads, IInv
    <2>2. ASSUME IsValid(L[k].mdh), use
          PROVE  IInv'
      <3>1. L[k].mdh \in MDH /\ Shaped(L[k].mdh) /\ L \in [Lockers -> Locker] /\ L[k] \in Locker
        BY <2>1, StoredWellFormed DEF IInv, StoreOK, WellFormed
      <3>2. L' = [L EXCEPT ![k].mdh = WithoutADS(L[k].mdh)] /\ RetireLocker
        BY <2>1, <2>2, <3>1
      <3> QED
        BY <1>2, <2>1, <2>2, <3>1, <3>2, WithoutADSShaped, EditKeeps
    <2> HIDE DEF use, k
    <2> QED
      BY <2>1, <2>2, GatedKeeps
  <1> QED
    BY <1>1, <1>2

\* kl.rstr* keeps the invariant: a narrowed MDH is one of the same shape.
LEMMA RstrKeeps ==
  ASSUME IInv, NEW o \in Operands, NEW rq \in Requests, rstr(o, rq)
  PROVE  IInv'
  <1> DEFINE k == tgt(o)
  <1>1. CASE k = NONE \/ Inert(L[k].mdh)
    BY <1>1, FallThroughKeeps DEF rstr
  <1>2. CASE ~(k = NONE \/ Inert(L[k].mdh))
    <2>1. k \in Lockers
      BY <1>2, TargetType DEF IInv
    <2>2. CASE Raise("privilege_violation")
      BY <2>2, RaiseKeeps DEF Traps
    <2>3. CASE Refuse(k)
      BY <2>1, <2>3, RefuseKeeps
    <2>4. CASE L' = [L EXCEPT ![k].mdh = RestrictMDH(L[k].mdh, rq)] /\ RetireLocker
      <3>1. rq \in RestrictRequest
        BY InputAssumption
      <3>2. L[k].mdh \in MDH /\ Shaped(L[k].mdh)
        BY <2>1, StoredWellFormed DEF IInv, WellFormed
      <3> QED
        BY <1>2, <2>1, <2>4, <3>1, <3>2, RestrictedShaped, EditKeeps
    <2> QED
      BY <1>2, <2>2, <2>3, <2>4 DEF rstr
  <1> QED
    BY <1>1, <1>2

\* kl.clone.
LEMMA CloneLockerKeeps ==
  ASSUME IInv, NEW d \in Lockers, NEW src \in Lockers, CloneLocker(d, src)
  PROVE  IInv'
  <1>1. WellFormed(L[src]) /\ L[src] \in Locker /\ L[src].mdh \in MDH
    BY StoredWellFormed DEF IInv
  <1>2. nl' \in Lockers \cup {NONE} /\ start' = start /\ UNCHANGED <<csk, env>>
    BY DEF CloneLocker, NameAfterClear, IInv, ControlOK
  <1>3. CASE Inert(L[src].mdh) /\ Discard(d, Bare(L[src].mdh)) /\ Retire
    <2>1. WellFormed(Bare(L[src].mdh)) /\ Bare(L[src].mdh).slot = FALSE
      BY <1>1, <1>3, BareWellFormed DEF WellFormed, Emptied
    <2>2. StoreOK'
      BY <1>3, <2>1, DiscardStore DEF IInv
    <2> QED
      BY <1>2, <1>3, <2>2, NamedControl DEF IInv, Retire, ControlOK
  <1>4. CASE Discard(d, NoLocker) /\ out' = "privilege_violation"
    <2>1. StoreOK'
      BY <1>4, NoLockerWellFormed, DiscardStore DEF IInv
    <2> QED
      BY <1>2, <1>4, <2>1, NamedControl DEF IInv, Traps, ControlOK
  <1>5. CASE IsValid(L[src].mdh) /\ Allocate(d, [L[src] EXCEPT !.slot = TRUE])
    <2> DEFINE l == [L[src] EXCEPT !.slot = TRUE]
    <2>1. ~Inert(L[src].mdh)
      BY <1>5 DEF IsValid, Inert, ValidStates
    <2>2. l \in Locker /\ l.slot = TRUE /\ l.mdh = L[src].mdh
      BY <1>1 DEF Locker
    <2>3. Allocate(d, l)
      BY <1>5
    <2> HIDE DEF l
    <2>4. WellFormed(l)
      BY <1>1, <2>1, <2>2, ConfiguredWellFormed DEF WellFormed
    <2>5. StoreOK' /\ out' \in {"retired"} \cup Traps
      BY <2>2, <2>3, <2>4, AllocateStore DEF IInv
    <2> QED
      BY <1>2, <2>5, NamedControl DEF IInv, ControlOK
  <1> QED
    BY <1>3, <1>4, <1>5 DEF CloneLocker

\* kl.rename: the number of held slots after a locker record has moved.
LEMMA RenameLockerKeeps ==
  ASSUME IInv, NEW d \in Lockers, NEW src \in Lockers, d # src, RenameLocker(d, src)
  PROVE  IInv'
  <1>1. /\ L' = [L EXCEPT ![d] = L[src], ![src] = NoLocker]
        /\ slots' = SlotsAfterFree(d) /\ pool' = PoolAfterFree(d)
    BY DEF RenameLocker
  <1>2. L \in [Lockers -> Locker] /\ NoLocker \in Locker /\ NoLocker.slot = FALSE
    BY NoLockerWellFormed DEF IInv, StoreOK, WellFormed
  <1>3. L' \in [Lockers -> Locker] /\ L'[d] = L[src] /\ L'[src] = NoLocker
        /\ \A j \in Lockers \ {d, src} : L'[j] = L[j]
    BY <1>1, <1>2
  <1>4. InertIsCleared' /\ ConfiguredShape'
    <2>1. \A j \in Lockers : WellFormed(L'[j])
      BY <1>3, StoredWellFormed, NoLockerWellFormed DEF IInv
    <2> QED
      BY <1>3, <2>1, StoreFromRecords
  <1>5. Cardinality(Held') = Cardinality(Held) - (IF L[d].slot THEN 1 ELSE 0)
    <2>1. IsFiniteSet(Held) /\ Cardinality(Held) \in Nat
      BY HeldFinite
    <2>2. IsFiniteSet(Held \ {d}) /\ Cardinality(Held \ {d}) = Cardinality(Held) - (IF L[d].slot THEN 1 ELSE 0)
      <3>1. d \in Held <=> L[d].slot
        BY DEF Held
      <3> QED
        BY <2>1, <3>1, FS_RemoveElement
    <2>3. CASE ~L[src].slot
      <3>1. Held' = Held \ {d}
        BY <1>2, <1>3, <2>3 DEF Held
      <3> QED
        BY <2>2, <3>1
    <2>4. CASE L[src].slot
      <3>1. Held' = ((Held \ {d}) \ {src}) \cup {d}
        BY <1>2, <1>3, <2>4 DEF Held
      <3>2. src \in Held \ {d} /\ d \notin (Held \ {d}) \ {src}
        BY <2>4 DEF Held
      <3>3. /\ IsFiniteSet((Held \ {d}) \ {src})
            /\ Cardinality((Held \ {d}) \ {src}) = Cardinality(Held \ {d}) - 1
        BY <2>2, <3>2, FS_RemoveElement
      <3>4. Cardinality(Held') = Cardinality((Held \ {d}) \ {src}) + 1
        BY <3>1, <3>2, <3>3, FS_AddElement
      <3> QED
        BY <2>1, <2>2, <3>3, <3>4
    <2> QED
      BY <2>3, <2>4
  <1>6. CapacityConserved'
    BY <1>1, <1>5, AfterFree, HeldFinite, SizeAssumption DEF IInv, StoreOK, CapacityConserved
  <1>7. StoreOK'
    BY <1>1, <1>3, <1>4, <1>6, AfterFree DEF IInv, StoreOK, PoolBacksFreeSlots
  <1>8. ControlOK'
    BY NamedControl DEF IInv, RenameLocker, NameAfterMove, NameAfterClear, Retire, ControlOK
  <1> QED
    BY <1>7, <1>8 DEF IInv

\* kl.swap.
LEMMA SwapLockersKeeps ==
  ASSUME IInv, NEW d \in Lockers, NEW src \in Lockers, d # src, SwapLockers(d, src)
  PROVE  IInv'
  <1>1. L' = [L EXCEPT ![d] = L[src], ![src] = L[d]] /\ UNCHANGED <<slots, pool>>
    BY DEF SwapLockers
  <1>2. L \in [Lockers -> Locker]
    BY DEF IInv, StoreOK
  <1>3. L' \in [Lockers -> Locker] /\ L'[d] = L[src] /\ L'[src] = L[d]
        /\ \A j \in Lockers \ {d, src} : L'[j] = L[j]
    BY <1>1, <1>2
  <1>4. InertIsCleared' /\ ConfiguredShape'
    <2>1. \A j \in Lockers : WellFormed(L'[j])
      BY <1>3, StoredWellFormed DEF IInv
    <2> QED
      BY <1>3, <2>1, StoreFromRecords
  <1>5. Cardinality(Held') = Cardinality(Held)
    <2>1. CASE L[d].slot = L[src].slot
      <3>1. Held' = Held
        BY <1>3, <2>1 DEF Held
      <3> QED
        BY <3>1
    <2>2. CASE L[d].slot # L[src].slot
      <3> DEFINE a == IF L[d].slot THEN d ELSE src
                 b == IF L[d].slot THEN src ELSE d
      <3>0. L[d].slot \in BOOLEAN /\ L[src].slot \in BOOLEAN
        BY <1>2 DEF Locker
      <3>1. a \in Held /\ b \notin Held /\ b \notin Held \ {a}
        BY <2>2, <3>0 DEF Held
      <3>2. Held' = (Held \ {a}) \cup {b}
        BY <1>3, <2>2, <3>0 DEF Held
      <3>3. /\ IsFiniteSet(Held \ {a}) /\ Cardinality(Held \ {a}) = Cardinality(Held) - 1
        BY <3>1, HeldFinite, FS_RemoveElement
      <3>4. Cardinality((Held \ {a}) \cup {b}) = Cardinality(Held \ {a}) + 1
        BY <3>1, <3>3, FS_AddElement
      <3> QED
        BY <3>2, <3>3, <3>4, HeldFinite
    <2> QED
      BY <2>1, <2>2
  <1>6. StoreOK'
    BY <1>1, <1>3, <1>4, <1>5 DEF IInv, StoreOK, CapacityConserved, PoolBacksFreeSlots
  <1>7. ControlOK'
    BY NamedControl DEF IInv, SwapLockers, NameAfterSwap, Retire, ControlOK
  <1> QED
    BY <1>6, <1>7 DEF IInv

\* The three instructions on two lockers.
LEMMA TwoLockersKeep ==
  ASSUME IInv, NEW od \in Operands, NEW os \in Operands,
         clone(od, os) \/ rename(od, os) \/ swap(od, os)
  PROVE  IInv'
  <1> DEFINE d == tgt(od)
             src == tgt(os)
  <1>1. CASE NoMove(d, src)
    BY <1>1, FallThroughKeeps DEF clone, rename, swap
  <1>2. CASE ~NoMove(d, src)
    <2>1. d \in Lockers /\ src \in Lockers /\ d # src
      BY <1>2, TargetType DEF IInv, NoMove
    <2>2. CloneLocker(d, src) \/ ClearLocker(d) \/ RenameLocker(d, src) \/ SwapLockers(d, src)
      BY <1>2 DEF clone, rename, swap
    <2> HIDE DEF d, src
    <2> QED
      BY <2>1, <2>2, CloneLockerKeeps, ClearLockerKeeps, RenameLockerKeeps, SwapLockersKeeps
  <1> QED
    BY <1>1, <1>2

-----------------------------------------------------------------------------
(* kl.mgmt and the management transfer.                                    *)

\* What MgmtNames leaves in the control variables.
LEMMA MgmtControl ==
  ASSUME ControlOK, NEW k \in Lockers, MgmtNames(k), UNCHANGED <<csk, env>>,
         out' \in {"retired"} \cup Traps
  PROVE  ControlOK'
  BY NamedControl DEF MgmtNames

\* A kl.mgmt that names its locker keeps the control part of the invariant.
LEMMA MgmtControlCSK ==
  ASSUME ControlOK, NEW k \in Lockers, MgmtNames(k), UNCHANGED env,
         NEW m \in MDH, 2 \notin m.SCProtection, RaiseLevelCSK(m)
  PROVE  ControlOK'
  BY RaiseLevelControl DEF MgmtNames

\* A kl.mgmt with no named locker only clears klstart.
LEMMA MgmtInertKeeps ==
  ASSUME IInv, NEW o \in Operands, mgmt_inert(o)
  PROVE  IInv'
  <1>1. StoreOK'
    BY SameStore DEF IInv, mgmt_inert
  <1>2. ControlOK'
    BY NamedControl DEF IInv, mgmt_inert, Retire, ControlOK
  <1> QED
    BY <1>1, <1>2 DEF IInv

\* A provisioning or import opening.
LEMMA OpenKeeps ==
  ASSUME IInv, NEW o \in Operands, NEW immed \in {Provisioning, Importing}, NEW md \in Supplied,
         mgmt_open(o, immed, md)
  PROVE  IInv'
  <1> DEFINE k == tgt(o)
             ctx == IF immed = Provisioning THEN "provision" ELSE "import"
             m == OpenedMDH(immed, md)
  <1>1. k \in Lockers /\ md \in MDH /\ MgmtNames(k) /\ UNCHANGED env
    BY TargetType, InputAssumption DEF mgmt_open, IInv
  <1>2. CASE /\ Discard(k, Bare(InvalidMDH))
             /\ Retire /\ UNCHANGED csk
    BY <1>1, <1>2, InvalidLockerWellFormed, DiscardStore, MgmtControl DEF IInv, Retire
  <1>3. CASE /\ ShortImport(immed, md)
             /\ Discard(k, Bare(ErrMDH(md, md.StateExtension)))
             /\ Retire /\ UNCHANGED csk
    <2>1. md.StateExtension \in 1..6
      BY <1>3 DEF ShortImport, IsErrorState, ErrorCodes
    <2>2. StoreOK'
      BY <1>1, <1>3, <2>1, ErrorLockerWellFormed, DiscardStore DEF IInv
    <2> QED
      BY <1>1, <1>3, <2>2, MgmtControl DEF IInv, Retire
  <1>4. CASE Discard(k, NoLocker) /\ out' = "unsupported" /\ UNCHANGED csk
    BY <1>1, <1>4, NoLockerWellFormed, DiscardStore, MgmtControl DEF IInv, Traps
  <1>5. ASSUME Verdict(immed, md) = "ok"
        PROVE  ~invalid(md, ctx)
    BY <1>1, <1>5, VerdictAccepts DEF Verdict
  <1>6. CASE /\ Verdict(immed, md) = "ok"
             /\ Discard(k, NoLocker)
             /\ RaiseLevelCSK(md)
    <2>1. 2 \notin md.SCProtection
      BY <1>1, <1>5, <1>6, AcceptedMDH
    <2>2. StoreOK'
      BY <1>1, <1>6, NoLockerWellFormed, DiscardStore DEF IInv
    <2> QED
      BY <1>1, <1>6, <2>1, <2>2, MgmtControlCSK DEF IInv
  <1>7. CASE /\ Verdict(immed, md) = "ok"
             /\ UNCHANGED csk
             /\ Allocate(k, OpenedLocker(k, m))
    <2>1. m \in MDH /\ ~Inert(m) /\ Shaped(m)
      BY <1>1, <1>5, <1>7, OpenedProvisioning, OpenedImport DEF Provisioning, Importing
    <2> DEFINE l == OpenedLocker(k, m)
    <2>2. AllocatedContent(PoolAfterFree(k)) \in Contents
      <3>1. PoolAfterFree(k) \in Seq(Contents)
        BY <1>1, AfterFree DEF IInv
      <3>2. PoolAfterFree(k) # <<>> => PoolAfterFree(k)[Len(PoolAfterFree(k))] \in Contents
        BY <3>1
      <3> QED
        BY <3>2, ContentAssumption DEF AllocatedContent
    <2>3. l \in Locker /\ l.slot = TRUE /\ l.mdh = m
      BY <2>1, <2>2, ContentAssumption DEF OpenedLocker, Locker
    <2>4. Allocate(k, l)
      BY <1>7
    <2> HIDE DEF l, m, k
    <2>5. WellFormed(l)
      BY <2>1, <2>3, ConfiguredWellFormed
    <2>6. StoreOK' /\ out' \in {"retired"} \cup Traps
      BY <1>1, <2>3, <2>4, <2>5, AllocateStore DEF IInv
    <2> QED
      BY <1>1, <1>7, <2>6, MgmtControl DEF IInv
  <1> QED
    BY <1>2, <1>3, <1>4, <1>6, <1>7 DEF mgmt_open, OpenLocker

\* An export opening.
LEMMA ExportKeeps ==
  ASSUME IInv, NEW o \in Operands, mgmt_export(o)
  PROVE  IInv'
  <1> DEFINE k == tgt(o)
             m == L[k].mdh
             to == IF m.State \in PI_STATES THEN PPIExporting ELSE Exporting
  <1>1. k \in Lockers /\ MgmtNames(k) /\ UNCHANGED env /\ ExportLocker(k)
    BY TargetType DEF mgmt_export, IInv
  <1>2. m \in MDH /\ Shaped(m)
    BY <1>1, StoredWellFormed DEF IInv, WellFormed
  <1>3. CASE Retire /\ UNCHANGED <<store, csk>>
    BY <1>1, <1>3, SameStore, MgmtControl DEF IInv, Retire
  <1>4. CASE IsValid(m) /\ RaiseLevelCSK(m) /\ UNCHANGED store
    <2>1. 2 \notin m.SCProtection
      BY <1>2, <1>4 DEF Shaped, Inert, IsValid, ValidStates
    <2> QED
      BY <1>1, <1>2, <1>4, <2>1, SameStore, MgmtControlCSK DEF IInv
  <1>5. CASE /\ config(m) \/ IsValid(m)
             /\ L' = [L EXCEPT ![k].mdh.State = to]
             /\ Retire /\ UNCHANGED <<slots, pool, csk>>
    <2>1. ~Inert(m) /\ to \in 0..63
      BY <1>5 DEF Inert, config, IsValid, ValidStates, ConfigStates, PPIExporting, Exporting
    <2>2. \/ m.State \in PI_STATES /\ to \in PI_STATES
          \/ m.State \notin PI_STATES /\ to \in SCC_STATES
      BY DEF PI_STATES, SCC_STATES
    <2>3. L' = [L EXCEPT ![k].mdh.State = to] /\ UNCHANGED <<slots, pool>>
      BY <1>5
    <2> HIDE DEF to, k
    <2>4. StoreOK'
      BY <1>1, <2>1, <2>2, <2>3, EditStateStore DEF IInv
    <2> QED
      BY <1>1, <1>5, <2>4, MgmtControl DEF IInv, Retire
  <1> QED
    BY <1>1, <1>3, <1>4, <1>5 DEF ExportLocker

\* The completion of a provisioning.
LEMMA CompleteProvisioningStore ==
  ASSUME StoreOK, NEW k \in Lockers, L[k].mdh.State = Provisioning, CompleteProvisioning(k)
  PROVE  StoreOK'
  <1> DEFINE m == L[k].mdh
  <1>1. m \in MDH /\ Shaped(m) /\ L[k] \in Locker /\ L \in [Lockers -> Locker]
    BY StoredWellFormed DEF StoreOK, WellFormed
  <1>2. CASE EnterError(k, m, SE_INVALID)
    BY <1>1, <1>2, EnterErrorStore DEF SE_INVALID
  <1>3. CASE /\ \E key \in IF m.KeyType = 2 THEN RandomKeys ELSE {L[k].content} :
                  L' = [L EXCEPT ![k].content = key, ![k].mdh = ProvisionedMDH(m)]
             /\ UNCHANGED <<slots, pool>>
    <2>1. PICK key \in IF m.KeyType = 2 THEN RandomKeys ELSE {L[k].content} :
                 L' = [L EXCEPT ![k].content = key, ![k].mdh = ProvisionedMDH(m)]
      BY <1>3
    <2>2. key \in Contents
      BY <1>1, ContentAssumption DEF Locker
    <2>3. ProvisionedMDH(m) \in MDH /\ ~Inert(ProvisionedMDH(m)) /\ Shaped(ProvisionedMDH(m))
      BY <1>1, ProvisionedShaped
    <2> DEFINE a == [L[k] EXCEPT !.content = key]
               l == [a EXCEPT !.mdh = ProvisionedMDH(m)]
    <2>4. a \in Locker /\ a.slot = L[k].slot
      BY <1>1, <2>2 DEF Locker
    <2>5. L' = [L EXCEPT ![k] = l]
      BY <1>1, <2>1
    <2> HIDE DEF a
    <2>6. l \in Locker /\ l.slot = L[k].slot /\ l.mdh = ProvisionedMDH(m)
      BY <2>3, <2>4 DEF Locker
    <2> HIDE DEF l
    <2>7. ~Inert(m)
      BY DEF Inert, Provisioning
    <2> QED
      BY <1>3, <2>3, <2>5, <2>6, <2>7, EditStore
  <1> QED
    BY <1>2, <1>3 DEF CompleteProvisioning

\* A restored State: the values that Admitted admits keep the MDH well shaped.
LEMMA RestoredState ==
  ASSUME NEW m \in MDH, config(m), Shaped(m), NEW st \in Admitted(m) \ {0}
  PROVE  /\ st \in 1..60
         /\ \/ m.State \in PI_STATES /\ st \in PI_STATES
            \/ m.State \notin PI_STATES /\ st \in SCC_STATES
            \/ m.State \notin PI_STATES /\ st \in ValidStates /\ m.Version # 3
  BY DEF Admitted, config, Shaped, Inert, PI_STATES, SCC_STATES, ValidStates, ConfigStates,
         Provisioning, Exporting, Importing, PPIExporting, PPIImporting

\* The restoration of an export or import.
LEMMA RestoreStore ==
  ASSUME StoreOK, NEW k \in Lockers, config(L[k].mdh), NEW st \in Admitted(L[k].mdh) \ {0}, Restore(k, st)
  PROVE  StoreOK'
  <1> DEFINE m == L[k].mdh
             r == [m EXCEPT !.State = st]
  <1>1. m \in MDH /\ Shaped(m) /\ ~Inert(m) /\ L[k] \in Locker /\ L \in [Lockers -> Locker]
    BY StoredWellFormed DEF StoreOK, WellFormed, config, Inert, ConfigStates
  <1>2. /\ st \in 0..63
        /\ \/ m.State \in PI_STATES /\ st \in PI_STATES
           \/ m.State \notin PI_STATES /\ st \in SCC_STATES
           \/ m.State \notin PI_STATES /\ st \in ValidStates /\ m.Version # 3
    BY <1>1, RestoredState
  <1>3. r \in MDH /\ ~Inert(r) /\ Shaped(r)
    BY <1>1, <1>2, StateEdit, StateEditShaped
  <1> HIDE DEF r
  <1>4. CASE \E se \in {SE_INVALID, SE_MGMT_AUTH} : EnterError(k, r, se)
    BY <1>3, <1>4, EnterErrorStore DEF SE_INVALID, SE_MGMT_AUTH
  <1>5. CASE L' = [L EXCEPT ![k].mdh = r, ![k].unverified = FALSE] /\ UNCHANGED <<slots, pool>>
    <2> DEFINE a == [L[k] EXCEPT !.mdh = r]
               l == [a EXCEPT !.unverified = FALSE]
    <2>1. a \in Locker /\ a.slot = L[k].slot /\ a.mdh = r
      BY <1>1, <1>3 DEF Locker
    <2>2. L' = [L EXCEPT ![k] = l]
      BY <1>1, <1>5
    <2> HIDE DEF a
    <2>3. l \in Locker /\ l.slot = L[k].slot /\ l.mdh = r
      BY <2>1 DEF Locker
    <2> HIDE DEF l
    <2> QED
      BY <1>1, <1>3, <1>5, <2>2, <2>3, EditStore
  <1>6. CASE L' = [L EXCEPT ![k].mdh = r] /\ UNCHANGED <<slots, pool>>
    BY <1>1, <1>3, <1>6, EditMDHStore
  <1> QED
    BY <1>4, <1>5, <1>6 DEF Restore, r

\* Any completion.
LEMMA CompleteKeeps ==
  ASSUME IInv, NEW o \in Operands, NEW st \in Completions, mgmt_complete(o, st)
  PROVE  IInv'
  <1> DEFINE k == tgt(o)
             m == L[k].mdh
  <1>1. k \in Lockers /\ MgmtNames(k) /\ UNCHANGED env /\ CompleteLocker(k, st)
    BY TargetType DEF mgmt_complete, IInv
  <1>2. m \in MDH /\ Shaped(m)
    BY <1>1, StoredWellFormed DEF IInv, WellFormed
  <1>3. CASE (Retire \/ out' = "illegal") /\ UNCHANGED <<store, csk>>
    BY <1>1, <1>3, SameStore, MgmtControl DEF IInv, Retire, Traps
  <1>4. CASE m.State = Provisioning /\ CompleteProvisioning(k) /\ Retire /\ UNCHANGED csk
    <2>1. StoreOK'
      BY <1>1, <1>4, CompleteProvisioningStore DEF IInv
    <2> QED
      BY <1>1, <1>4, <2>1, MgmtControl DEF IInv, Retire
  <1>5. CASE config(m) /\ RaiseLevelCSK(m) /\ UNCHANGED store
    <2>1. 2 \notin m.SCProtection
      BY <1>2, <1>5 DEF Shaped, Inert, config, ConfigStates
    <2> QED
      BY <1>1, <1>2, <1>5, <2>1, SameStore, MgmtControlCSK DEF IInv
  <1>6. CASE /\ config(m) /\ st \in Admitted(m) \ {0}
             /\ Restore(k, st) /\ Retire /\ UNCHANGED csk
    <2>1. StoreOK'
      BY <1>1, <1>6, RestoreStore DEF IInv
    <2> QED
      BY <1>1, <1>6, <2>1, MgmtControl DEF IInv, Retire
  <1> QED
    BY <1>1, <1>3, <1>4, <1>5, <1>6 DEF CompleteLocker

\* The management transfer into the named locker.
LEMMA MvinKeeps ==
  ASSUME IInv, NEW image \in Images, mvin(image)
  PROVE  IInv'
  <1>1. CASE FallThrough
    BY <1>1, FallThroughKeeps
  <1>2. CASE Raise("illegal")
    BY <1>2, RaiseKeeps DEF Traps
  <1>3. CASE /\ nl # NONE
             /\ L[nl].mdh.State \in {Provisioning, Importing, PPIImporting}
             /\ L' = [L EXCEPT ![nl].content = image[1], ![nl].tag = image[2]]
             /\ RetireLocker
    <2>1. nl \in Lockers
      BY <1>3 DEF IInv, ControlOK
    <2>2. L[nl] \in Locker /\ L \in [Lockers -> Locker] /\ Shaped(L[nl].mdh)
      BY <2>1, StoredWellFormed DEF IInv, StoreOK, WellFormed
    <2>3. image[1] \in Contents /\ image[2] \in Tags
      BY ContentAssumption
    <2> DEFINE a == [L[nl] EXCEPT !.content = image[1]]
               l == [a EXCEPT !.tag = image[2]]
    <2>4. a \in Locker /\ a.slot = L[nl].slot /\ a.mdh = L[nl].mdh
      BY <2>2, <2>3 DEF Locker
    <2>5. L' = [L EXCEPT ![nl] = l]
      BY <1>3, <2>1, <2>2
    <2> HIDE DEF a
    <2>6. l \in Locker /\ l.slot = L[nl].slot /\ l.mdh = L[nl].mdh
      BY <2>3, <2>4 DEF Locker
    <2> HIDE DEF l
    <2>7. ~Inert(L[nl].mdh)
      BY <1>3 DEF Inert, Provisioning, Importing, PPIImporting
    <2>8. UNCHANGED <<slots, pool, named, csk, env>> /\ out' = "retired"
      BY <1>3 DEF RetireLocker, Retire
    <2>9. StoreOK'
      BY <2>1, <2>2, <2>5, <2>6, <2>7, <2>8, EditStore DEF IInv
    <2> QED
      BY <2>8, <2>9, SameControl DEF IInv
  <1> QED
    BY <1>1, <1>2, <1>3 DEF mvin

-----------------------------------------------------------------------------
(* The environment, and the specification.                                 *)

\* Software's writes of the CSRs.
LEMMA EnvironmentKeeps ==
  ASSUME IInv, Environment
  PROVE  IInv'
  <1>1. UNCHANGED store
    BY DEF Environment, WriteKlstart, SwitchMode, ConfigureLST, Tick, WriteCSK, WithdrawCSK
  <1>2. ASSUME NEW v \in StartValues, WriteKlstart(v)
        PROVE  ControlOK'
    BY <1>2, InputAssumption, NamedControl DEF IInv, WriteKlstart, ControlOK
  <1>3. ASSUME NEW m \in Modes, SwitchMode(m)
        PROVE  ControlOK'
    BY <1>3, InputAssumption DEF IInv, SwitchMode, ControlOK, named, csk
  <1>4. ASSUME NEW c \in LSTs, ConfigureLST(c)
        PROVE  ControlOK'
    BY <1>4, InputAssumption DEF IInv, ConfigureLST, ControlOK, named, csk
  <1>5. ASSUME Tick
        PROVE  ControlOK'
    BY <1>5, BoundsAssumption DEF IInv, Tick, ControlOK, named, csk, NoClock
  <1>6. ASSUME WriteCSK
        PROVE  ControlOK'
    <2>1. csk_partial \in Seq(Levels) /\ csk_sel \in Levels /\ csk_levels \subseteq Levels
      BY DEF IInv, ControlOK
    <2>2. Append(csk_partial, csk_sel) \in Seq(Levels) /\ <<>> \in Seq(Levels)
      BY <2>1
    <2>3. csk_partial' \in Seq(Levels)
      BY <1>6, <2>1, <2>2 DEF WriteCSK
    <2>4. csk_levels' \subseteq Levels
      BY <1>6, <2>1 DEF WriteCSK
    <2> QED
      BY <1>6, <2>3, <2>4 DEF IInv, WriteCSK, ControlOK, named, env
  <1>7. ASSUME NEW level \in Withdrawals, WithdrawCSK(level)
        PROVE  ControlOK'
    BY <1>7 DEF IInv, WithdrawCSK, ControlOK, named, env
  <1>8. ControlOK'
    BY <1>2, <1>3, <1>4, <1>5, <1>6, <1>7 DEF Environment
  <1> QED
    BY <1>1, <1>8, SameStore DEF IInv

\* A reset releases every slot and keeps no remains.
LEMMA ResetKeeps ==
  ASSUME IInv, reset
  PROVE  IInv'
  <1>1. L' = [k \in Lockers |-> NoLocker] /\ slots' = slots + Cardinality(Held) /\ pool' = <<>>
    BY DEF reset
  <1>2. L' \in [Lockers -> Locker] /\ InertIsCleared' /\ ConfiguredShape'
    BY <1>1, NoLockerWellFormed, StoreFromRecords DEF WellFormed
  <1>3. Cardinality(Held') = 0
    BY <1>1, NoLockerWellFormed, FS_EmptySet DEF Held
  <1>4. CapacityConserved' /\ slots' \in Nat
    BY <1>1, <1>3, HeldFinite DEF IInv, StoreOK, CapacityConserved
  <1>5. pool' \in Seq(Contents) /\ Len(pool') <= slots'
    BY <1>1, <1>4
  <1>6. StoreOK'
    BY <1>2, <1>4, <1>5 DEF StoreOK, PoolBacksFreeSlots
  <1>7. csk_levels' \subseteq Levels /\ csk_sel' \in Levels /\ csk_partial' \in Seq(Levels)
    BY DEF IInv, ControlOK, reset, WordsAfterReset, Levels
  <1>8. ControlOK'
    BY <1>7 DEF IInv, ControlOK, reset, Retire, env
  <1> QED
    BY <1>6, <1>8 DEF IInv

\* The initial states satisfy the invariant.
LEMMA InitIInv == Init => IInv
  <1> SUFFICES ASSUME Init PROVE IInv
    OBVIOUS
  <1>1. \A k \in Lockers : L[k] = NoLocker
    BY DEF Init
  <1>2. L \in [Lockers -> Locker] /\ InertIsCleared /\ ConfiguredShape
    BY <1>1, NoLockerWellFormed DEF Init, WellFormed, InertIsCleared, ConfiguredShape
  <1>3. Held = {}
    BY <1>1, NoLockerWellFormed DEF Held
  <1>4. CapacityConserved /\ slots \in Nat
    BY <1>3, FS_EmptySet, SizeAssumption DEF Init, CapacityConserved
  <1>5. pool \in Seq(Contents) /\ PoolBacksFreeSlots
    BY <1>4, SizeAssumption DEF Init, PoolBacksFreeSlots
  <1>6. ControlOK
    BY SizeAssumption, InputAssumption DEF Init, ControlOK, Levels
  <1> QED
    BY <1>2, <1>4, <1>5, <1>6 DEF IInv, StoreOK

\* Every step preserves the invariant.
LEMMA NextIInv == IInv /\ [Next]_vars => IInv'
  <1> SUFFICES ASSUME IInv, [Next]_vars PROVE IInv'
    OBVIOUS
  <1>1. CASE Manage
    BY <1>1, MgmtInertKeeps, ExportKeeps, OpenKeeps, CompleteKeeps, MvinKeeps DEF Manage
  <1>2. CASE Configure
    BY <1>2, SetnlKeeps, ClearKeeps, ClearAllKeeps, SetsteKeeps, RstrKeeps, TwoLockersKeep DEF Configure
  <1>3. CASE Use
    BY <1>3, ExecKeeps, SetstRefusedKeeps, ClearadsKeeps, SetstKeeps DEF Use
  <1>4. CASE Environment
    BY <1>4, EnvironmentKeeps
  <1>5. CASE MissingCSK \/ Reserved
    BY <1>5, RaiseKeeps DEF MissingCSK, Reserved, Traps
  <1>6. CASE UNCHANGED vars
    <2>1. UNCHANGED <<store, named, csk, env>> /\ out' = out
      BY <1>6 DEF vars
    <2> QED
      BY <2>1, NoEffect DEF IInv, ControlOK
  <1>7. CASE reset
    BY <1>7, ResetKeeps
  <1> QED
    BY <1>1, <1>2, <1>3, <1>4, <1>5, <1>6, <1>7 DEF Next

\* The inductive invariant holds of every reachable state.
THEOREM Invariance == Spec => []IInv
  BY InitIInv, NextIInv, PTL DEF Spec

\* The variables keep their types.
THEOREM TypeCorrect == Spec => []TypeOK
  <1>1. IInv => TypeOK
    BY DEF IInv, StoreOK, ControlOK, TypeOK
  <1> QED
    BY <1>1, Invariance, PTL

\* KLF capacity is neither lost nor created, whatever sequence of openings,
\* clones, moves, errors and traps frees and allocates it (KLE.free, KLE.alloc).
THEOREM CapacityIsConserved == Spec => []CapacityConserved
  <1>1. IInv => CapacityConserved
    BY DEF IInv, StoreOK
  <1> QED
    BY <1>1, Invariance, PTL

\* A locker holds a slot exactly while it is configured; an inert one has no
\* content, tag or ADS, no Version 3 and no KeyType 2, and no more is said of
\* the MDH of an Error State (KLE.free, KLE.err).
THEOREM InertLockersAreCleared == Spec => []InertIsCleared
  <1>1. IInv => InertIsCleared
    BY DEF IInv, StoreOK
  <1> QED
    BY <1>1, Invariance, PTL

\* A configured locker has the Metadata of its State (validate, mgmt, _complete).
THEOREM ConfiguredLockersAreShaped == Spec => []ConfiguredShape
  <1>1. IInv => ConfiguredShape
    BY DEF IInv, StoreOK
  <1> QED
    BY <1>1, Invariance, PTL

\* The remains kept in the pool never outnumber the free slots.
THEOREM PoolNeverOutgrowsSlots == Spec => []PoolBacksFreeSlots
  <1>1. IInv => PoolBacksFreeSlots
    BY DEF IInv, StoreOK
  <1> QED
    BY <1>1, Invariance, PTL
-----------------------------------------------------------------------------
(* The establishment of CSKs.                                              *)

\* Words are kept under the first establishment way only.
CSKOK ==
  /\ PartialGroupMatchesSelection
  /\ csk_method # 1 => csk_partial = <<>>

\* Every step leaves the selection and the words alone, is a missing-CSK
\* exception for a level, or writes a word.
Retargets == \E m \in MDH : RaiseLevelCSK(m)

LEMMA OpenCSK == ASSUME NEW o, NEW immed, NEW md \in MDH, mgmt_open(o, immed, md)
                 PROVE  UNCHANGED csk \/ Retargets
  BY DEF mgmt_open, OpenLocker, Retargets

LEMMA ExportCSK == ASSUME IInv, NEW o \in Operands, mgmt_export(o) PROVE UNCHANGED csk \/ Retargets
  <1>1. tgt(o) \in Lockers
    BY TargetType DEF mgmt_export, IInv
  <1>2. L[tgt(o)].mdh \in MDH
    BY <1>1 DEF IInv, StoreOK, Locker
  <1> QED
    BY <1>2 DEF mgmt_export, ExportLocker, Retargets

LEMMA CompleteCSK ==
  ASSUME IInv, NEW o \in Operands, NEW s, mgmt_complete(o, s)
  PROVE  UNCHANGED csk \/ Retargets
  <1>1. tgt(o) \in Lockers
    BY TargetType DEF mgmt_complete, IInv
  <1>2. L[tgt(o)].mdh \in MDH
    BY <1>1 DEF IInv, StoreOK, Locker
  <1> QED
    BY <1>2 DEF mgmt_complete, CompleteLocker, Retargets

LEMMA UseCSK ==
  ASSUME NEW k, NEW ACTION use, Gated(k, use), use => UNCHANGED csk
  PROVE  UNCHANGED csk
  BY DEF Gated, Raise, Expire, RetireStore
LEMMA OtherCSK ==
  ASSUME Configure \/ Use \/ MissingCSK \/ Reserved \/ (\E o \in Operands : mgmt_inert(o)) \/ (\E i \in Images : mvin(i))
  PROVE  UNCHANGED csk
  <1>1. ASSUME NEW o, exec(o) \/ setst_refused(o) \/ clearads(o) PROVE UNCHANGED csk
    <2>1. exec(o) => UNCHANGED csk
      BY UseCSK DEF exec, Refuse, RetireStore
    <2>2. setst_refused(o) => UNCHANGED csk
      BY UseCSK DEF setst_refused, Refuse, RetireStore, FallThrough
    <2>3. clearads(o) => UNCHANGED csk
      BY UseCSK DEF clearads, RetireLocker, FallThrough
    <2> QED
      BY <1>1, <2>1, <2>2, <2>3
  <1>2. ASSUME NEW o, NEW target, setst(o, target) PROVE UNCHANGED csk
    BY <1>2, UseCSK DEF setst, Refuse, RetireStore, RetireLocker, FallThrough
  <1>3. Use => UNCHANGED csk
    BY <1>1, <1>2 DEF Use
  <1>4. ASSUME NEW d, NEW src, clone(d, src) \/ rename(d, src) \/ swap(d, src) PROVE UNCHANGED csk
    BY <1>4 DEF clone, CloneLocker, rename, RenameLocker, ClearLocker, swap, SwapLockers, FallThrough
  <1>5. ASSUME NEW o, NEW rq, rstr(o, rq) PROVE UNCHANGED csk
    BY <1>5 DEF rstr, FallThrough, Raise, Refuse, RetireStore, RetireLocker
  <1>6. Configure => UNCHANGED csk
    BY <1>4, <1>5 DEF Configure, setnl, clear, ClearLocker, FallThrough, clearall, setste, RetireStore
  <1>7. MissingCSK \/ Reserved => UNCHANGED csk
    BY DEF MissingCSK, Reserved, Raise
  <1>8. (\E o \in Operands : mgmt_inert(o)) \/ (\E i \in Images : mvin(i)) => UNCHANGED csk
    BY DEF mgmt_inert, mvin, FallThrough, Raise, RetireLocker
  <1> QED
    BY <1>3, <1>6, <1>7, <1>8

LEMMA NextCSK ==
  ASSUME IInv, Next
  PROVE  \/ UNCHANGED <<csk_sel, csk_partial>>
         \/ Retargets
         \/ WriteCSK
         \/ reset
  <1>1. CASE Environment
    BY <1>1 DEF Environment, WriteKlstart, SwitchMode, ConfigureLST, Tick, WithdrawCSK, csk
  <1>2. CASE Manage
    <2>1. Manage => UNCHANGED csk \/ Retargets
      BY OpenCSK, ExportCSK, CompleteCSK, OtherCSK, InputAssumption DEF Manage
    <2> QED
      BY <1>2, <2>1 DEF csk
  <1>3. CASE ~Environment /\ ~Manage /\ ~reset
    BY <1>3, OtherCSK DEF Next, csk
  <1> QED
    BY <1>1, <1>2, <1>3

LEMMA CSKStep == IInv /\ CSKOK /\ [Next]_vars => CSKOK'
  <1> SUFFICES ASSUME IInv, CSKOK, [Next]_vars PROVE CSKOK'
    OBVIOUS
  <1>1. CASE UNCHANGED <<csk_sel, csk_partial>>
    BY <1>1 DEF CSKOK, PartialGroupMatchesSelection
  <1>2. CASE Retargets
    <2>1. csk_partial' = <<>> \/ (csk_partial' = csk_partial /\ csk_sel' = csk_sel) \/ (csk_partial' = csk_partial /\ csk_method = 2)
      BY <1>2 DEF Retargets, RaiseLevelCSK
    <2>2. csk_partial' = <<>> \/ (csk_partial' = csk_partial /\ csk_sel' = csk_sel)
      BY <2>1 DEF CSKOK
    <2> QED
      BY <2>2 DEF CSKOK, PartialGroupMatchesSelection
  <1>3. CASE WriteCSK
    <2>0. csk_sel' = csk_sel /\ csk_partial \in Seq(Levels) /\ csk_sel \in Levels
      BY <1>3 DEF WriteCSK, IInv, ControlOK
    <2>1. CASE csk_partial' = <<>> \/ csk_partial' = csk_partial
      BY <2>0, <2>1 DEF CSKOK, PartialGroupMatchesSelection
    <2>2. CASE csk_method = 1 /\ Len(csk_partial) = 0 /\ csk_partial' = Append(csk_partial, csk_sel)
      <3>1. Len(csk_partial') = 1 /\ csk_partial'[1] = csk_sel /\ csk_partial' \in Seq(Levels)
        BY <2>0, <2>2
      <3>2. DOMAIN csk_partial' = {1}
        BY <3>1
      <3> QED
        BY <2>0, <2>2, <3>1, <3>2 DEF CSKOK, PartialGroupMatchesSelection
    <2> QED
      BY <1>3, <2>1, <2>2 DEF WriteCSK
  <1>4. CASE UNCHANGED vars
    BY <1>4, <1>1 DEF vars, csk
  <1>5. CASE reset
    <2>1. csk_partial' = <<>>
      BY <1>5 DEF reset, WordsAfterReset, CSKOK
    <2> QED
      BY <2>1 DEF CSKOK, PartialGroupMatchesSelection
  <1> QED
    BY <1>1, <1>2, <1>3, <1>4, <1>5, NextCSK

\* The words of a CSK that is being established are all meant for one level,
\* whatever missing-CSK exceptions come in between (require_csk).
THEOREM WordsMatchSelection == Spec => []PartialGroupMatchesSelection
  <1>1. Init => CSKOK
    BY DEF Init, CSKOK, PartialGroupMatchesSelection
  <1>2. CSKOK => PartialGroupMatchesSelection
    BY DEF CSKOK
  <1> QED
    BY <1>1, <1>2, CSKStep, Invariance, PTL DEF Spec

-----------------------------------------------------------------------------
(* Traps.                                                                  *)

Destroys == \A k \in Lockers : L'[k] = L[k] \/ L'[k] = NoLocker
TrapDestroys == out' \in Traps => Destroys

LEMMA StoreKept == ASSUME UNCHANGED store PROVE Destroys
  BY DEF store, Destroys

LEMMA Retired == ASSUME out' = "retired" PROVE TrapDestroys
  BY DEF TrapDestroys, Traps

LEMMA DiscardDestroys == ASSUME IInv, NEW k, Discard(k, NoLocker) PROVE Destroys
  <1>1. \A j \in Lockers : L'[j] = IF j = k THEN NoLocker ELSE L[j]
    BY DEF Discard, IInv, StoreOK
  <1> QED
    BY <1>1 DEF Destroys

LEMMA AllocateDestroys == ASSUME IInv, NEW k, NEW l, Allocate(k, l) PROVE TrapDestroys
  BY DiscardDestroys, Retired DEF Allocate, TrapDestroys

LEMMA RaiseDestroys == ASSUME NEW trap, Raise(trap) PROVE TrapDestroys
  BY StoreKept DEF Raise, TrapDestroys

LEMMA ExpireDestroys == ASSUME NEW k, Expire(k) PROVE TrapDestroys
  BY Retired DEF Expire, RetireStore, Retire

LEMMA FallThroughDestroys == FallThrough => TrapDestroys
  BY Retired DEF FallThrough, Retire

LEMMA RefuseDestroys == ASSUME NEW k, Refuse(k) PROVE TrapDestroys
  BY Retired DEF Refuse, RetireStore, Retire

LEMMA UseDestroys == Use => TrapDestroys
  <1>1. ASSUME NEW o, exec(o) PROVE TrapDestroys
    <2>1. Retire => TrapDestroys
      BY Retired DEF Retire
    <2> QED
      BY <1>1, <2>1, RaiseDestroys, ExpireDestroys, RefuseDestroys DEF exec, Gated
  <1>2. ASSUME NEW o, setst_refused(o) PROVE TrapDestroys
    BY <1>2, RaiseDestroys, ExpireDestroys, RefuseDestroys, FallThroughDestroys DEF setst_refused, Gated
  <1>3. ASSUME NEW o, clearads(o) PROVE TrapDestroys
    <2>1. RetireLocker => TrapDestroys
      BY Retired DEF RetireLocker, Retire
    <2> QED
      BY <1>3, <2>1, RaiseDestroys, ExpireDestroys, FallThroughDestroys DEF clearads, Gated
  <1>4. ASSUME NEW o, NEW target, setst(o, target) PROVE TrapDestroys
    <2>1. RetireLocker => TrapDestroys
      BY Retired DEF RetireLocker, Retire
    <2> QED
      BY <1>4, <2>1, RaiseDestroys, ExpireDestroys, RefuseDestroys, FallThroughDestroys DEF setst, Gated
  <1> QED
    BY <1>1, <1>2, <1>3, <1>4 DEF Use

LEMMA ConfigureDestroys == IInv /\ Configure => TrapDestroys
  <1> SUFFICES ASSUME IInv, Configure PROVE TrapDestroys
    OBVIOUS
  <1>1. \A v : setnl(v) => TrapDestroys
    BY Retired DEF setnl, Retire
  <1>2. ASSUME NEW k, ClearLocker(k) PROVE TrapDestroys
    BY <1>2, Retired DEF ClearLocker, Retire
  <1>3. \A o : clear(o) => TrapDestroys
    BY <1>2, FallThroughDestroys DEF clear
  <1>4. clearall => TrapDestroys
    BY Retired DEF clearall, Retire
  <1>5. \A o, se : setste(o, se) => TrapDestroys
    BY FallThroughDestroys, Retired DEF setste, RetireStore, Retire
  <1>6. \A o, rq : rstr(o, rq) => TrapDestroys
    <2>1. RetireLocker => TrapDestroys
      BY Retired DEF RetireLocker, Retire
    <2> QED
      BY <2>1, FallThroughDestroys, RaiseDestroys, RefuseDestroys DEF rstr
  <1>7. ASSUME NEW d, NEW src, CloneLocker(d, src) PROVE TrapDestroys
    <2>1. Retire => TrapDestroys
      BY Retired DEF Retire
    <2>2. Discard(d, NoLocker) => TrapDestroys
      BY DiscardDestroys DEF TrapDestroys
    <2> QED
      BY <1>7, <2>1, <2>2, AllocateDestroys DEF CloneLocker
  <1>8. \A d, src : clone(d, src) => TrapDestroys
    BY <1>7, FallThroughDestroys DEF clone
  <1>9. \A d, src : rename(d, src) => TrapDestroys
    BY <1>2, FallThroughDestroys, Retired DEF rename, RenameLocker, Retire
  <1>10. \A d, src : swap(d, src) => TrapDestroys
    BY FallThroughDestroys, Retired DEF swap, SwapLockers, Retire
  <1> QED
    BY <1>1, <1>3, <1>4, <1>5, <1>6, <1>8, <1>9, <1>10 DEF Configure

LEMMA ManageDestroys == IInv /\ Manage => TrapDestroys
  <1> SUFFICES ASSUME IInv, Manage PROVE TrapDestroys
    OBVIOUS
  <1>0. Retire => TrapDestroys
    BY Retired DEF Retire
  <1>1. \A o : mgmt_inert(o) => TrapDestroys
    BY <1>0 DEF mgmt_inert
  <1>2. UNCHANGED store => TrapDestroys
    BY StoreKept DEF TrapDestroys
  <1>3. ASSUME NEW k, NEW immed, NEW md, OpenLocker(k, immed, md) PROVE TrapDestroys
    <2>1. Discard(k, NoLocker) => TrapDestroys
      BY DiscardDestroys DEF TrapDestroys
    <2> QED
      BY <1>0, <1>3, <2>1, AllocateDestroys DEF OpenLocker
  <1>4. \A o, immed, md : mgmt_open(o, immed, md) => TrapDestroys
    BY <1>3 DEF mgmt_open
  <1>5. \A o : mgmt_export(o) => TrapDestroys
    BY <1>0, <1>2 DEF mgmt_export, ExportLocker
  <1>6. \A o, s : mgmt_complete(o, s) => TrapDestroys
    BY <1>0, <1>2 DEF mgmt_complete, CompleteLocker
  <1>7. \A i : mvin(i) => TrapDestroys
    <2>1. RetireLocker => TrapDestroys
      BY <1>0 DEF RetireLocker
    <2> QED
      BY <2>1, FallThroughDestroys, RaiseDestroys DEF mvin
  <1> QED
    BY <1>1, <1>4, <1>5, <1>6, <1>7 DEF Manage

\* An instruction that traps has changed no locker, or made it Unconfigured
\* (the destructive first step of mgmt, clone and alloc).
THEOREM TrapsOnlyDestroy == Spec => TrapOnlyDestroys
  <1>1. ASSUME IInv, [Next]_vars PROVE TrapDestroys
    <2>1. CASE Environment
      BY <2>1, StoreKept DEF Environment, WriteKlstart, SwitchMode, ConfigureLST, Tick, WriteCSK, WithdrawCSK, TrapDestroys
    <2>2. CASE MissingCSK \/ Reserved
      BY <2>2, RaiseDestroys DEF MissingCSK, Reserved
    <2>3. CASE UNCHANGED vars
      BY <2>3, StoreKept DEF vars, TrapDestroys
    <2>4. CASE reset
      BY <2>4, Retired DEF reset, Retire
    <2> QED
      BY <1>1, <2>1, <2>2, <2>3, <2>4, ManageDestroys, ConfigureDestroys, UseDestroys DEF Next
  <1>2. IInv /\ [Next]_vars => [out' \in Traps => \A k \in Lockers : L'[k] = L[k] \/ L'[k] = NoLocker]_vars
    BY <1>1 DEF TrapDestroys, Destroys
  <1> QED
    BY <1>2, Invariance, PTL DEF Spec, TrapOnlyDestroys

-----------------------------------------------------------------------------
(***************************************************************************)
(* Proofs about the steps of KLEMgmt: policies only narrow, usage is       *)
(* gated, the named locker keeps its CC, and contents have a lineage.      *)
(*                                                                         *)
(* Each step changes the lockers in one of the ways of StoreStep.  That    *)
(* every instruction is such a step is shown once; three action            *)
(* properties then follow from StoreStep and the invariant IInv.           *)
(***************************************************************************)

Opened(n) ==
  /\ n.State \in {Provisioning, Importing, PPIImporting}
  /\ \E md \in Supplied, immed \in {Provisioning, Importing} : n = OpenedMDH(immed, md)

\* Software may use m now.
GateOpen(m) ==
  mode \in m.UsagePolicy /\ ((zk /\ m.ExpirationDate # 0) => clock # NoClock /\ clock < m.ExpirationDate)

\* The MDH of a configured locker edited in place.
Edits(k, n) ==
  LET m == L[k].mdh IN
  /\ ~Inert(m) /\ SameBinding(n, m) /\ Tighter(n, m)
  /\ IsValid(m) /\ IsValid(n) /\ m.State # n.State => GateOpen(m)
  /\ n = m \/ (IsValid(m) /\ IsValid(n)) \/ start' = 0

\* The MDH n is written to locker k.
Writes(k, n) ==
  \/ Inert(n) /\ (start' = 0 \/ nl' # k \/ \E se \in ErrorCodes : n = ErrMDH(L[k].mdh, se))
  \/ Opened(n) /\ start' = 0
  \/ nl' # k /\ \E j \in Lockers \ {k} : ~Inert(L[j].mdh) /\ n = L[j].mdh
  \/ Edits(k, n)

\* Two lockers are moved, and the name of either is moved with it.
NameMoves(d, src) == nl' = nl => nl \notin {d, src}

OthersKept(ks) == \A j \in Lockers \ ks : L'[j] = L[j]

StoreStep ==
  \/ OthersKept({})
  \/ \E k \in Lockers : OthersKept({k}) /\ Writes(k, L'[k].mdh)
  \/ \E d, src \in Lockers : /\ d # src /\ NameMoves(d, src) /\ OthersKept({d, src})
                             /\ L'[d] = L[src] /\ L'[src] \in {NoLocker, L[d]}
  \/ (\A k \in Lockers : L'[k] = NoLocker) /\ nl' = NONE

-----------------------------------------------------------------------------
(* Metadata.                                                               *)

\* The policies and the binding of an MDH.
SamePolicies(n, m) ==
  /\ n.Machine = m.Machine /\ n.SCProtection = m.SCProtection /\ n.Transparent = m.Transparent
  /\ n.MachinePolicy = m.MachinePolicy /\ n.UsagePolicy = m.UsagePolicy
  /\ n.ExpirationDate = m.ExpirationDate /\ n.Locality = m.Locality

LEMMA SamePoliciesTighter ==
  ASSUME NEW m \in MDH, NEW n, SamePolicies(n, m)
  PROVE  SameBinding(n, m) /\ Tighter(n, m)
  <1>1. m.ExpirationDate \in Nat /\ m.Locality \in LocalityType
    BY BoundsAssumption DEF MDH
  <1>2. DateTighter(m.ExpirationDate, m.ExpirationDate)
    BY <1>1 DEF DateTighter
  <1>3. LocalityTighter(m.Locality, m.Locality)
    BY <1>1 DEF LocalityTighter, SubfieldTighter, LocalityType
  <1> QED
    BY <1>2, <1>3 DEF SamePolicies, SameBinding, Tighter

LEMMA RestrictedTighter ==
  ASSUME NEW m \in MDH, NEW rq \in RestrictRequest, ~(TakesHigh(rq) /\ LocalityRefused(m.Locality, rq.Locality))
  PROVE  LET n == RestrictMDH(m, rq)
         IN SameBinding(n, m) /\ Tighter(n, m) /\ n.State = m.State
  <1> DEFINE n == RestrictMDH(m, rq)
             a == m.Locality
             b == rq.Locality
  <1>1. /\ n.Machine = m.Machine /\ n.SCProtection = m.SCProtection /\ n.Transparent = m.Transparent
        /\ n.State = m.State
        /\ n.MachinePolicy \subseteq m.MachinePolicy /\ n.UsagePolicy \subseteq m.UsagePolicy
        /\ n.ExpirationDate = IF TakesHigh(rq) THEN EarlierDate(m.ExpirationDate, rq.ExpirationDate) ELSE m.ExpirationDate
        /\ n.Locality = IF TakesHigh(rq) THEN RestrictLocality(a, b) ELSE a
    BY DEF RestrictMDH, MDH
  <1> HIDE DEF n
  <1>2. /\ m.ExpirationDate \in Nat /\ rq.ExpirationDate \in Nat
        /\ a \in LocalityType /\ b \in LocalityType
    BY BoundsAssumption DEF MDH, RestrictRequest
  <1>3. DateTighter(n.ExpirationDate, m.ExpirationDate)
    BY <1>1, <1>2 DEF DateTighter, EarlierDate
  <1> HIDE DEF a, b
  <1>4. LocalityTighter(a, a)
    BY <1>2 DEF LocalityTighter, SubfieldTighter, LocalityType
  <1>5. ~ LocalityRefused(a, b) => LocalityTighter(RestrictLocality(a, b), a)
    BY <1>2 DEF LocalityTighter, SubfieldTighter, LocalityType, LocalityRefused, SubfieldRefused,
                RestrictLocality, Subfield
  <1>6. LocalityTighter(n.Locality, m.Locality)
    BY <1>1, <1>4, <1>5 DEF a, b
  <1>7. SameBinding(n, m) /\ Tighter(n, m) /\ n.State = m.State
    BY <1>1, <1>3, <1>6 DEF SameBinding, Tighter
  <1> QED
    BY <1>7 DEF n

\* The gate lets a use pass only before the date.
LEMMA GatePasses ==
  ASSUME ControlOK, NEW m \in MDH, usage_gate(m) = "pass"
  PROVE  GateOpen(m)
  <1>1. m.ExpirationDate \in 0..MaxDate /\ clock \in (0..MaxDate + 1) \cup {NoClock}
    BY DEF MDH, ControlOK
  <1>2. mode \in m.UsagePolicy
    BY DEF usage_gate
  <1>3. ASSUME zk, m.ExpirationDate # 0
        PROVE  clock # NoClock /\ ~(Saturated(clock) >= m.ExpirationDate)
    BY <1>2, <1>3, OptionsAssumption DEF usage_gate
  <1>4. ASSUME clock # NoClock, ~(Saturated(clock) >= m.ExpirationDate)
        PROVE  clock < m.ExpirationDate
    BY <1>1, <1>4, BoundsAssumption DEF Saturated, NoClock
  <1> QED
    BY <1>2, <1>3, <1>4 DEF GateOpen

\* The MDH of an opening.
LEMMA OpenedState ==
  ASSUME NEW md \in Supplied, NEW immed \in {Provisioning, Importing}
  PROVE  Opened(OpenedMDH(immed, md))
  <1>1. md \in MDH
    BY InputAssumption
  <1>2. OpenedMDH(immed, md).State \in {Provisioning, Importing, PPIImporting}
    <2>1. CASE immed = Provisioning
      BY <1>1, <2>1 DEF OpenedMDH, MDH
    <2>2. CASE immed # Provisioning
      BY <1>1, <2>2 DEF OpenedMDH, MDH
    <2> QED
      BY <2>1, <2>2
  <1> QED
    BY <1>2 DEF Opened

-----------------------------------------------------------------------------
(* Steps of the store.                                                     *)

LEMMA KeptStep == ASSUME UNCHANGED L PROVE StoreStep
  BY DEF StoreStep, OthersKept

\* A new record in locker k.
LEMMA WriteStep ==
  ASSUME IInv, NEW k \in Lockers, NEW l, L' = [L EXCEPT ![k] = l], Writes(k, l.mdh)
  PROVE  StoreStep
  <1>1. L'[k] = l /\ OthersKept({k})
    BY DEF IInv, StoreOK, OthersKept
  <1> QED
    BY <1>1 DEF StoreStep

\* An Unconfigured locker whose name was dropped, or whose kl.mgmt cleared it.
LEMMA EmptyStep ==
  ASSUME IInv, NEW k \in Lockers, Discard(k, NoLocker), start' = 0 \/ nl' # k
  PROVE  StoreStep
  <1>1. Inert(NoLocker.mdh)
    BY DEF NoLocker, Bare, ZeroMDH, Inert
  <1>2. Writes(k, NoLocker.mdh)
    BY <1>1 DEF Writes
  <1> QED
    BY <1>2, WriteStep DEF Discard

\* err(k, se): the Error State is that of the CC, but for kl.mgmt.
LEMMA ErrorStep ==
  ASSUME IInv, NEW k \in Lockers, NEW m \in MDH, NEW se \in ErrorCodes, EnterError(k, m, se), m = L[k].mdh \/ start' = 0
  PROVE  StoreStep
  <1>1. ErrMDH(m, se).State = 0
    BY DEF ErrMDH, MDH
  <1>2. Inert(ErrMDH(m, se)) /\ Bare(ErrMDH(m, se)).mdh = ErrMDH(m, se)
    BY <1>1 DEF Inert, Bare
  <1>3. Writes(k, Bare(ErrMDH(m, se)).mdh)
    <2> HIDE DEF Bare
    <2> QED
      BY <1>2 DEF Writes
  <1> QED
    BY <1>3, WriteStep DEF EnterError, Discard

\* A record whose MDH is an edit of that of locker k.
LEMMA EditStep ==
  ASSUME IInv, NEW k \in Lockers, NEW n, Edits(k, n), L'[k].mdh = n, OthersKept({k})
  PROVE  StoreStep
  BY DEF StoreStep, Writes

\* Another State of the same MDH.
LEMMA StatePolicies ==
  ASSUME NEW m \in MDH, NEW v
  PROVE  LET n == [m EXCEPT !.State = v] IN n.State = v /\ SameBinding(n, m) /\ Tighter(n, m)
  <1> DEFINE n == [m EXCEPT !.State = v]
  <1>1. n.State = v /\ SamePolicies(n, m)
    BY DEF MDH, SamePolicies
  <1> HIDE DEF n
  <1>2. SameBinding(n, m) /\ Tighter(n, m)
    BY <1>1, SamePoliciesTighter
  <1> QED
    BY <1>1, <1>2 DEF n

-----------------------------------------------------------------------------
(* Usage and restriction.                                                  *)

LEMMA RefuseStep ==
  ASSUME IInv, NEW k \in Lockers, Refuse(k) \/ Expire(k)
  PROVE  StoreStep
  BY ErrorStep, StoredWellFormed DEF IInv, Refuse, Expire, SE_INVALID, SE_EXPIRED, ErrorCodes

LEMMA NoStep == ASSUME UNCHANGED store \/ FallThrough \/ (\E t \in Traps : Raise(t)) PROVE StoreStep
  BY KeptStep DEF FallThrough, Raise, store

\* A usage instruction changes the store in the ways of its use, or expires its locker.
LEMMA GatedStep ==
  ASSUME IInv, NEW k \in Lockers, NEW ACTION use, Gated(k, use),
         (IsValid(L[k].mdh) /\ usage_gate(L[k].mdh) = "pass" /\ use) => StoreStep
  PROVE  StoreStep
  <1>1. "privilege_violation" \in Traps
    BY DEF Traps
  <1> QED
    BY <1>1, NoStep, RefuseStep DEF Gated

LEMMA ExecStep == ASSUME IInv, NEW o \in Operands, exec(o) PROVE StoreStep
  <1> DEFINE k == tgt(o)
             use == IF admits_exec(L[k].mdh)
                      THEN start' = 0 /\ Retire /\ UNCHANGED <<store, nl, csk, env>>
                      ELSE Refuse(k)
  <1>1. CASE k = NONE \/ Inert(L[k].mdh)
    BY <1>1, NoStep DEF exec
  <1>2. CASE ~(k = NONE \/ Inert(L[k].mdh))
    <2>1. k \in Lockers /\ Gated(k, use)
      BY <1>2, TargetType DEF exec, IInv
    <2>2. use => StoreStep
      BY <2>1, NoStep, RefuseStep
    <2> HIDE DEF use, k
    <2> QED
      BY <2>1, <2>2, GatedStep
  <1> QED
    BY <1>1, <1>2

LEMMA SetstStep == ASSUME IInv, NEW o \in Operands, NEW target \in Targets, setst(o, target) PROVE StoreStep
  <1> DEFINE k == tgt(o)
             use == IF admits_setst(L[k].mdh, target)
                      THEN L' = [L EXCEPT ![k].mdh.State = target] /\ RetireLocker
                      ELSE Refuse(k)
  <1>1. CASE k = NONE \/ Inert(L[k].mdh)
    BY <1>1, NoStep DEF setst
  <1>2. CASE ~(k = NONE \/ Inert(L[k].mdh))
    <2>1. k \in Lockers /\ Gated(k, use)
      BY <1>2, TargetType DEF setst, IInv
    <2>2. ASSUME IsValid(L[k].mdh), usage_gate(L[k].mdh) = "pass", use
          PROVE  StoreStep
      <3>1. CASE ~admits_setst(L[k].mdh, target)
        BY <2>1, <2>2, <3>1, RefuseStep
      <3>2. CASE L' = [L EXCEPT ![k].mdh.State = target]
        <4> DEFINE m == L[k].mdh
                   n == [m EXCEPT !.State = target]
        <4>1. m \in MDH /\ L[k] \in Locker /\ L \in [Lockers -> Locker]
          BY <2>1, StoredWellFormed DEF IInv, StoreOK
        <4>2. L'[k].mdh = n /\ OthersKept({k})
          BY <2>1, <3>2, <4>1 DEF OthersKept, Locker
        <4>3. n.State = target /\ SameBinding(n, m) /\ Tighter(n, m)
          BY <4>1, StatePolicies
        <4>4. GateOpen(m)
          BY <2>2, <4>1, GatePasses DEF IInv
        <4>5. target \in ValidStates
          BY InputAssumption DEF ValidStates
        <4> HIDE DEF n
        <4>6. Edits(k, n)
          BY <2>2, <4>3, <4>4, <4>5 DEF Edits, IsValid, Inert, ValidStates
        <4> HIDE DEF k, m
        <4> QED
          BY <2>1, <4>2, <4>6, EditStep
      <3> QED
        BY <2>2, <3>1, <3>2
    <2> HIDE DEF use, k
    <2> QED
      BY <2>1, <2>2, GatedStep
  <1> QED
    BY <1>1, <1>2

LEMMA SetstRefusedStep == ASSUME IInv, NEW o \in Operands, setst_refused(o) PROVE StoreStep
  <1> DEFINE k == tgt(o)
  <1>1. CASE k = NONE \/ Inert(L[k].mdh)
    BY <1>1, NoStep DEF setst_refused
  <1>2. CASE ~(k = NONE \/ Inert(L[k].mdh))
    <2>1. k \in Lockers /\ Gated(k, Refuse(k))
      BY <1>2, TargetType DEF setst_refused, IInv
    <2> HIDE DEF k
    <2> QED
      BY <2>1, RefuseStep, GatedStep
  <1> QED
    BY <1>1, <1>2

LEMMA ClearadsStep == ASSUME IInv, NEW o \in Operands, clearads(o) PROVE StoreStep
  <1> DEFINE k == tgt(o)
             use == L' = [L EXCEPT ![k].mdh = WithoutADS(@)] /\ RetireLocker
  <1>1. CASE k = NONE \/ Inert(L[k].mdh)
    BY <1>1, NoStep DEF clearads
  <1>2. CASE ~(k = NONE \/ Inert(L[k].mdh))
    <2>1. k \in Lockers /\ Gated(k, use)
      BY <1>2, TargetType DEF clearads, IInv
    <2>2. ASSUME IsValid(L[k].mdh), use
          PROVE  StoreStep
      <3> DEFINE m == L[k].mdh
                 n == WithoutADS(m)
      <3>1. m \in MDH /\ L[k] \in Locker /\ L \in [Lockers -> Locker]
        BY <2>1, StoredWellFormed DEF IInv, StoreOK
      <3>2. L'[k].mdh = n /\ OthersKept({k})
        BY <2>1, <2>2, <3>1 DEF OthersKept, Locker
      <3>3. n.State = m.State /\ SamePolicies(n, m)
        BY <3>1 DEF WithoutADS, SamePolicies, MDH
      <3> HIDE DEF n
      <3>4. SameBinding(n, m) /\ Tighter(n, m)
        BY <3>1, <3>3, SamePoliciesTighter
      <3>5. Edits(k, n)
        BY <2>2, <3>3, <3>4 DEF Edits, IsValid, Inert, ValidStates
      <3> HIDE DEF k, m
      <3> QED
        BY <2>1, <3>2, <3>5, EditStep
    <2> HIDE DEF use, k
    <2> QED
      BY <2>1, <2>2, GatedStep
  <1> QED
    BY <1>1, <1>2

LEMMA RstrStep == ASSUME IInv, NEW o \in Operands, NEW rq \in Requests, rstr(o, rq) PROVE StoreStep
  <1> DEFINE k == tgt(o)
             m == L[k].mdh
             n == RestrictMDH(m, rq)
  <1>1. CASE k = NONE \/ Inert(L[k].mdh)
    BY <1>1, NoStep DEF rstr
  <1>2. CASE ~(k = NONE \/ Inert(L[k].mdh))
    <2>1. k \in Lockers /\ rq \in RestrictRequest
      BY <1>2, TargetType, InputAssumption DEF IInv
    <2>2. CASE Raise("privilege_violation")
      BY <2>2, KeptStep DEF Raise, store
    <2>3. CASE Refuse(k)
      BY <2>1, <2>3, RefuseStep
    <2>4. CASE /\ IsValid(m) /\ ~(TakesHigh(rq) /\ LocalityRefused(m.Locality, rq.Locality))
               /\ L' = [L EXCEPT ![k].mdh = n]
      <3>1. m \in MDH /\ L[k] \in Locker /\ L \in [Lockers -> Locker]
        BY <2>1, StoredWellFormed DEF IInv, StoreOK
      <3>2. SameBinding(n, m) /\ Tighter(n, m) /\ n.State = m.State
        BY <2>1, <2>4, <3>1, RestrictedTighter
      <3> HIDE DEF n
      <3>3. L'[k].mdh = n /\ OthersKept({k})
        BY <2>1, <2>4, <3>1 DEF OthersKept, Locker
      <3>4. Edits(k, n)
        BY <2>4, <3>2 DEF Edits, IsValid, Inert, ValidStates
      <3> HIDE DEF k, m
      <3> QED
        BY <2>1, <3>3, <3>4, EditStep
    <2> QED
      BY <1>2, <2>2, <2>3, <2>4 DEF rstr
  <1> QED
    BY <1>1, <1>2

LEMMA UseStep == ASSUME IInv, Use PROVE StoreStep
  BY ExecStep, SetstStep, SetstRefusedStep, ClearadsStep DEF Use

-----------------------------------------------------------------------------
(* Destruction and moves.                                                  *)

LEMMA ClearLockerStep == ASSUME IInv, NEW k \in Lockers, ClearLocker(k) PROVE StoreStep
  <1>1. NameAfterClear(k) # k
    BY SizeAssumption DEF NameAfterClear, Lockers, NONE
  <1> QED
    BY <1>1, EmptyStep DEF ClearLocker

LEMMA SetsteStep == ASSUME IInv, NEW o \in Operands, NEW se \in Errors, setste(o, se) PROVE StoreStep
  <1>1. CASE tgt(o) = NONE
    BY <1>1, NoStep DEF setste
  <1>2. CASE tgt(o) # NONE
    <2> DEFINE m == IF IsUnconfigured(L[tgt(o)].mdh) THEN ZeroMDH ELSE L[tgt(o)].mdh
    <2>1. tgt(o) \in Lockers
      BY <1>2, TargetType DEF IInv
    <2>2. m \in MDH
      BY <2>1, ZeroMDHType, StoredWellFormed DEF IInv
    <2>3. EnterError(tgt(o), m, se) /\ se \in ErrorCodes
      BY <1>2, InputAssumption DEF setste, ErrorCodes
    <2>4. m = L[tgt(o)].mdh
      BY <2>1 DEF IInv, StoreOK, InertIsCleared, Emptied
    <2> HIDE DEF m
    <2> QED
      BY <2>1, <2>2, <2>3, <2>4, ErrorStep
  <1> QED
    BY <1>1, <1>2

LEMMA CloneLockerStep ==
  ASSUME IInv, NEW d \in Lockers, NEW src \in Lockers, d # src, CloneLocker(d, src)
  PROVE  StoreStep
  <1> DEFINE m == L[src].mdh
             l == [L[src] EXCEPT !.slot = TRUE]
  <1>1. nl' # d
    BY SizeAssumption DEF CloneLocker, NameAfterClear, Lockers, NONE
  <1>2. L[src] \in Locker /\ m \in MDH
    BY StoredWellFormed DEF IInv
  <1>3. CASE Inert(m) /\ Discard(d, Bare(m))
    <2>1. Writes(d, Bare(m).mdh)
      BY <1>1, <1>3 DEF Writes, Bare
    <2> QED
      BY <1>3, <2>1, WriteStep DEF Discard
  <1>4. CASE Discard(d, NoLocker)
    BY <1>1, <1>4, EmptyStep
  <1>5. CASE IsValid(m) /\ L' = [L EXCEPT ![d] = l]
    <2>1. l.mdh = m /\ ~Inert(m)
      BY <1>2, <1>5 DEF Locker, IsValid, Inert, ValidStates
    <2> HIDE DEF l
    <2>2. Writes(d, l.mdh)
      BY <1>1, <2>1 DEF Writes
    <2> QED
      BY <1>5, <2>2, WriteStep
  <1> QED
    BY <1>3, <1>4, <1>5 DEF CloneLocker, Allocate

LEMMA RenameLockerStep ==
  ASSUME IInv, NEW d \in Lockers, NEW src \in Lockers, d # src, RenameLocker(d, src)
  PROVE  StoreStep
  <1>1. L'[d] = L[src] /\ L'[src] = NoLocker /\ OthersKept({d, src})
    BY DEF RenameLocker, IInv, StoreOK, OthersKept
  <1>2. NameMoves(d, src)
    BY SizeAssumption DEF RenameLocker, NameMoves, NameAfterMove, NameAfterClear, Lockers, NONE
  <1> QED
    BY <1>1, <1>2 DEF StoreStep

LEMMA SwapLockersStep ==
  ASSUME IInv, NEW d \in Lockers, NEW src \in Lockers, d # src, SwapLockers(d, src)
  PROVE  StoreStep
  <1>1. L'[d] = L[src] /\ L'[src] = L[d] /\ OthersKept({d, src})
    BY DEF SwapLockers, IInv, StoreOK, OthersKept
  <1>2. NameMoves(d, src)
    BY DEF SwapLockers, NameMoves, NameAfterSwap
  <1> QED
    BY <1>1, <1>2 DEF StoreStep

LEMMA TwoLockersStep ==
  ASSUME IInv, NEW od \in Operands, NEW os \in Operands,
         clone(od, os) \/ rename(od, os) \/ swap(od, os)
  PROVE  StoreStep
  <1> DEFINE d == tgt(od)
             src == tgt(os)
  <1>1. CASE NoMove(d, src)
    BY <1>1, NoStep DEF clone, rename, swap
  <1>2. CASE ~NoMove(d, src)
    <2>1. d \in Lockers /\ src \in Lockers /\ d # src
      BY <1>2, TargetType DEF IInv, NoMove
    <2>2. CloneLocker(d, src) \/ ClearLocker(d) \/ RenameLocker(d, src) \/ SwapLockers(d, src)
      BY <1>2 DEF clone, rename, swap
    <2> HIDE DEF d, src
    <2> QED
      BY <2>1, <2>2, CloneLockerStep, ClearLockerStep, RenameLockerStep, SwapLockersStep
  <1> QED
    BY <1>1, <1>2

LEMMA AllEmptyStep == ASSUME IInv, clearall \/ reset PROVE StoreStep
  BY DEF clearall, reset, StoreStep

LEMMA ConfigureStep == ASSUME IInv, Configure PROVE StoreStep
  <1>1. ASSUME NEW v, setnl(v) PROVE StoreStep
    BY <1>1, KeptStep DEF setnl, store
  <1>2. ASSUME NEW o \in Operands, clear(o) PROVE StoreStep
    BY <1>2, TargetType, NoStep, ClearLockerStep DEF clear, IInv
  <1> QED
    BY <1>1, <1>2, AllEmptyStep, SetsteStep, RstrStep, TwoLockersStep DEF Configure

-----------------------------------------------------------------------------
(* kl.mgmt and the management transfer.                                    *)

LEMMA OpenStep ==
  ASSUME IInv, NEW o \in Operands, NEW immed \in {Provisioning, Importing}, NEW md \in Supplied,
         mgmt_open(o, immed, md)
  PROVE  StoreStep
  <1> DEFINE k == tgt(o)
             l == OpenedLocker(k, OpenedMDH(immed, md))
  <1>1. k \in Lockers /\ start' = 0
    BY TargetType DEF mgmt_open, IInv, MgmtNames
  <1>2. CASE Discard(k, Bare(InvalidMDH))
    <2>1. Inert(Bare(InvalidMDH).mdh)
      BY DEF Bare, InvalidMDH, ZeroMDH, Inert
    <2>2. Writes(k, Bare(InvalidMDH).mdh)
      BY <1>1, <2>1 DEF Writes
    <2> QED
      BY <1>1, <1>2, <2>2, WriteStep DEF Discard
  <1>3. CASE ShortImport(immed, md) /\ Discard(k, Bare(ErrMDH(md, md.StateExtension)))
    <2>1. md \in MDH /\ md.StateExtension \in ErrorCodes
      BY <1>3, InputAssumption DEF ShortImport, IsErrorState, ErrorCodes
    <2> QED
      BY <1>1, <1>3, <2>1, ErrorStep DEF EnterError
  <1>4. CASE Discard(k, NoLocker)
    BY <1>1, <1>4, EmptyStep
  <1>5. CASE L' = [L EXCEPT ![k] = l]
    <2>1. Writes(k, l.mdh)
      BY <1>1, OpenedState DEF Writes, OpenedLocker
    <2> HIDE DEF k, l
    <2> QED
      BY <1>1, <1>5, <2>1, WriteStep
  <1> QED
    BY <1>2, <1>3, <1>4, <1>5 DEF mgmt_open, OpenLocker, Allocate

LEMMA ExportStep == ASSUME IInv, NEW o \in Operands, mgmt_export(o) PROVE StoreStep
  <1> DEFINE k == tgt(o)
             m == L[k].mdh
             to == IF m.State \in PI_STATES THEN PPIExporting ELSE Exporting
             n == [m EXCEPT !.State = to]
  <1>1. k \in Lockers /\ start' = 0 /\ ExportLocker(k)
    BY TargetType DEF mgmt_export, IInv, MgmtNames
  <1>2. CASE UNCHANGED store
    BY <1>2, NoStep
  <1>3. CASE config(m) \/ IsValid(m)
    <2>1. CASE L' = [L EXCEPT ![k].mdh.State = to]
      <3>1. m \in MDH /\ L[k] \in Locker /\ L \in [Lockers -> Locker]
        BY <1>1, StoredWellFormed DEF IInv, StoreOK
      <3>2. L'[k].mdh = n /\ OthersKept({k})
        BY <1>1, <2>1, <3>1 DEF OthersKept, Locker
      <3>3. n.State = to /\ SameBinding(n, m) /\ Tighter(n, m)
        BY <3>1, StatePolicies
      <3>4. to \in {PPIExporting, Exporting}
        OBVIOUS
      <3> HIDE DEF n, to
      <3>5. config(n) /\ ~IsValid(n)
        BY <3>3, <3>4 DEF config, IsValid, ConfigStates, ValidStates, PPIExporting, Exporting
      <3>6. ~Inert(m)
        BY <1>3 DEF config, IsValid, Inert, ConfigStates, ValidStates
      <3>7. Edits(k, n)
        BY <1>1, <3>3, <3>5, <3>6 DEF Edits
      <3> HIDE DEF k, m
      <3> QED
        BY <1>1, <3>2, <3>7, EditStep
    <2> QED
      BY <1>1, <1>2, <2>1 DEF ExportLocker, store
  <1> QED
    BY <1>1, <1>2, <1>3 DEF ExportLocker, store

LEMMA CompleteProvisioningStep ==
  ASSUME IInv, NEW k \in Lockers, L[k].mdh.State = Provisioning, start' = 0, CompleteProvisioning(k)
  PROVE  StoreStep
  <1> DEFINE m == L[k].mdh
             n == ProvisionedMDH(m)
  <1>1. m \in MDH /\ L[k] \in Locker /\ L \in [Lockers -> Locker]
    BY StoredWellFormed DEF IInv, StoreOK
  <1>2. CASE EnterError(k, m, SE_INVALID)
    BY <1>1, <1>2, ErrorStep DEF SE_INVALID, ErrorCodes
  <1>3. CASE \E key \in IF m.KeyType = 2 THEN RandomKeys ELSE {L[k].content} :
               L' = [L EXCEPT ![k].content = key, ![k].mdh = n]
    <2>1. n.State = 1 /\ SamePolicies(n, m)
      BY <1>1 DEF ProvisionedMDH, MDH, SamePolicies
    <2>2. L'[k].mdh = n /\ OthersKept({k})
      BY <1>1, <1>3 DEF OthersKept, Locker
    <2> HIDE DEF n
    <2>3. SameBinding(n, m) /\ Tighter(n, m)
      BY <1>1, <2>1, SamePoliciesTighter
    <2>4. config(m) /\ ~Inert(m) /\ ~IsValid(m)
      BY DEF config, Inert, IsValid, ConfigStates, ValidStates, Provisioning
    <2>5. Edits(k, n)
      BY <2>3, <2>4 DEF Edits
    <2> HIDE DEF m
    <2> QED
      BY <2>2, <2>5, EditStep
  <1> QED
    BY <1>2, <1>3 DEF CompleteProvisioning

LEMMA RestoreStep ==
  ASSUME IInv, NEW k \in Lockers, config(L[k].mdh), NEW st \in Admitted(L[k].mdh) \ {0}, start' = 0,
         Restore(k, st)
  PROVE  StoreStep
  <1> DEFINE m == L[k].mdh
             n == [m EXCEPT !.State = st]
  <1>1. m \in MDH /\ Shaped(m) /\ L[k] \in Locker /\ L \in [Lockers -> Locker]
    BY StoredWellFormed DEF IInv, StoreOK, WellFormed
  <1>2. st \in 0..63
    BY <1>1, RestoredState
  <1>3. n \in MDH /\ n.State = st /\ SameBinding(n, m) /\ Tighter(n, m)
    BY <1>1, <1>2, StateEdit, StatePolicies
  <1>4. CASE L' = [L EXCEPT ![k].mdh = n, ![k].unverified = FALSE] \/ L' = [L EXCEPT ![k].mdh = n]
    <2> HIDE DEF n
    <2>1. L'[k].mdh = n /\ OthersKept({k})
      BY <1>1, <1>4 DEF OthersKept, Locker
    <2>2. ~Inert(m) /\ ~IsValid(m)
      BY DEF config, Inert, IsValid, ConfigStates, ValidStates
    <2>3. Edits(k, n)
      BY <1>3, <2>2 DEF Edits
    <2> HIDE DEF m
    <2> QED
      BY <2>1, <2>3, EditStep
  <1> HIDE DEF n
  <1>5. CASE \E se \in {SE_INVALID, SE_MGMT_AUTH} : EnterError(k, n, se)
    BY <1>3, <1>5, ErrorStep DEF SE_INVALID, SE_MGMT_AUTH, ErrorCodes
  <1> QED
    BY <1>4, <1>5 DEF Restore, n

LEMMA CompleteStep ==
  ASSUME IInv, NEW o \in Operands, NEW st \in Completions, mgmt_complete(o, st)
  PROVE  StoreStep
  <1> DEFINE k == tgt(o)
  <1>1. k \in Lockers /\ start' = 0 /\ CompleteLocker(k, st)
    BY TargetType DEF mgmt_complete, IInv, MgmtNames
  <1>2. CASE UNCHANGED store
    BY <1>2, NoStep
  <1>3. CASE L[k].mdh.State = Provisioning /\ CompleteProvisioning(k)
    BY <1>1, <1>3, CompleteProvisioningStep
  <1>4. CASE config(L[k].mdh) /\ st \in Admitted(L[k].mdh) \ {0} /\ Restore(k, st)
    BY <1>1, <1>4, RestoreStep
  <1> QED
    BY <1>1, <1>2, <1>3, <1>4 DEF CompleteLocker

LEMMA MvinStep == ASSUME IInv, NEW image \in Images, mvin(image) PROVE StoreStep
  <1>1. CASE FallThrough \/ Raise("illegal")
    BY <1>1, KeptStep DEF FallThrough, Raise, store
  <1>2. CASE /\ nl # NONE
             /\ L[nl].mdh.State \in {Provisioning, Importing, PPIImporting}
             /\ L' = [L EXCEPT ![nl].content = image[1], ![nl].tag = image[2]]
    <2> DEFINE m == L[nl].mdh
    <2>1. nl \in Lockers
      BY <1>2 DEF IInv, ControlOK
    <2>2. L[nl] \in Locker /\ m \in MDH /\ L \in [Lockers -> Locker]
      BY <2>1, StoredWellFormed DEF IInv, StoreOK
    <2>3. L'[nl].mdh = m /\ OthersKept({nl})
      BY <1>2, <2>1, <2>2 DEF OthersKept, Locker
    <2>4. SameBinding(m, m) /\ Tighter(m, m)
      BY <2>2, SamePoliciesTighter DEF SamePolicies
    <2>5. ~Inert(m)
      BY <1>2 DEF Inert, Provisioning, Importing, PPIImporting
    <2>6. Edits(nl, m)
      BY <2>4, <2>5 DEF Edits
    <2> HIDE DEF m
    <2> QED
      BY <2>1, <2>3, <2>6, EditStep
  <1> QED
    BY <1>1, <1>2 DEF mvin

LEMMA ManageStep == ASSUME IInv, Manage PROVE StoreStep
  <1>1. \A o : mgmt_inert(o) => StoreStep
    BY NoStep DEF mgmt_inert
  <1> QED
    BY <1>1, OpenStep, ExportStep, CompleteStep, MvinStep DEF Manage

\* Every step changes the lockers in one of the ways of StoreStep.
LEMMA NextStep == ASSUME IInv, [Next]_vars PROVE StoreStep
  <1>1. CASE Environment
    BY <1>1, NoStep DEF Environment, WriteKlstart, SwitchMode, ConfigureLST, Tick, WriteCSK, WithdrawCSK
  <1>2. CASE MissingCSK \/ Reserved
    BY <1>2, KeptStep DEF MissingCSK, Reserved, Raise, store
  <1>3. CASE UNCHANGED vars
    BY <1>3, NoStep DEF vars
  <1> QED
    BY <1>1, <1>2, <1>3, ManageStep, ConfigureStep, UseStep, AllEmptyStep DEF Next

-----------------------------------------------------------------------------
(* The properties of the steps.                                            *)

LEMMA UnconfiguredInert == Inert(NoLocker.mdh) /\ ~IsValid(NoLocker.mdh)
  BY DEF NoLocker, Bare, ZeroMDH, Inert, IsValid, ValidStates

\* An MDH is as tight as itself.
LEMMA StoredTighter ==
  ASSUME IInv, NEW k \in Lockers
  PROVE  SameBinding(L[k].mdh, L[k].mdh) /\ Tighter(L[k].mdh, L[k].mdh)
  <1>1. L[k].mdh \in MDH
    BY StoredWellFormed DEF IInv
  <1> QED
    BY <1>1, SamePoliciesTighter DEF SamePolicies

Narrows(k) ==
  \/ Inert(L'[k].mdh)
  \/ Opened(L'[k].mdh)
  \/ \E j \in Lockers : /\ ~Inert(L[j].mdh)
                        /\ SameBinding(L'[k].mdh, L[j].mdh)
                        /\ Tighter(L'[k].mdh, L[j].mdh)

LEMMA StepNarrows == ASSUME IInv, StoreStep, NEW k \in Lockers PROVE Narrows(k)
  <1>1. ASSUME NEW j \in Lockers, L'[k].mdh = L[j].mdh PROVE Narrows(k)
    BY <1>1, StoredTighter DEF Narrows
  <1>2. ASSUME Writes(k, L'[k].mdh) PROVE Narrows(k)
    BY <1>1, <1>2 DEF Writes, Edits, Narrows
  <1>3. L'[k] = NoLocker => Narrows(k)
    BY UnconfiguredInert DEF Narrows
  <1> QED
    BY <1>1, <1>2, <1>3 DEF StoreStep, OthersKept

Gates(k) ==
  LET m == L[k].mdh
      n == L'[k].mdh
  IN IsValid(m) /\ IsValid(n) /\ m.State # n.State /\ (\A j \in Lockers \ {k} : n # L[j].mdh) => GateOpen(m)

LEMMA StepGates == ASSUME IInv, StoreStep, NEW k \in Lockers PROVE Gates(k)
  <1>1. ASSUME NEW j \in Lockers, L'[k] = L[j] PROVE Gates(k)
    BY <1>1 DEF Gates
  <1>2. ASSUME Writes(k, L'[k].mdh) PROVE Gates(k)
    BY <1>2 DEF Writes, Edits, Gates, Opened, Inert, IsValid, ValidStates, Provisioning, Importing, PPIImporting
  <1>3. L'[k] = NoLocker => Gates(k)
    BY UnconfiguredInert DEF Gates
  <1> QED
    BY <1>1, <1>2, <1>3 DEF StoreStep, OthersKept

Started(n) == \E md \in Supplied, immed \in {Provisioning, Importing} : n = OpenedMDH(immed, md)
Keeps ==
  nl' = nl /\ nl \in Lockers /\ L'[nl] # L[nl] =>
    LET m == L[nl].mdh
        n == L'[nl].mdh
    IN /\ \A k \in Lockers \ {nl} : L'[k] = L[k]
       /\ \/ \E se \in ErrorCodes : n = ErrMDH(m, se)
          \/ ~Inert(m) /\ SameBinding(n, m) /\ Tighter(n, m) /\ (n = m \/ (IsValid(m) /\ IsValid(n)))
          \/ start' = 0 /\ ~Inert(m) /\ SameBinding(n, m) /\ Tighter(n, m)
          \/ start' = 0 /\ (Inert(n) \/ Started(n))

LEMMA StepKeeps == ASSUME IInv, StoreStep PROVE Keeps
  <1> SUFFICES ASSUME nl' = nl, nl \in Lockers, L'[nl] # L[nl] PROVE Keeps
    BY DEF Keeps
  <1>1. nl # NONE
    BY SizeAssumption DEF Lockers, NONE
  <1>2. OthersKept({nl}) /\ Writes(nl, L'[nl].mdh)
    BY <1>1 DEF StoreStep, OthersKept, NameMoves
  <1>3. \A n : Opened(n) => Started(n)
    BY DEF Opened, Started
  <1>4. Inert(L'[nl].mdh) => start' = 0 \/ \E se \in ErrorCodes : L'[nl].mdh = ErrMDH(L[nl].mdh, se)
    <2> SUFFICES ASSUME Inert(L'[nl].mdh), ~(start' = 0) PROVE \E se \in ErrorCodes : L'[nl].mdh = ErrMDH(L[nl].mdh, se)
      OBVIOUS
    <2> QED
      BY <1>2 DEF Writes, Edits, Opened, Inert, IsValid, ValidStates, Provisioning, Importing, PPIImporting
  <1> QED
    BY <1>2, <1>3, <1>4 DEF Writes, Edits, Keeps, OthersKept

\* No sequence of moves, exports, completions and restrictions widens the policies of a CC
\* (Rule GR16, rstr, clone, rename, swap, mgmt).
THEOREM PoliciesNarrow == Spec => PoliciesOnlyNarrow
  <1>1. IInv /\ [Next]_vars => \A k \in Lockers : Narrows(k)
    BY NextStep, StepNarrows
  <1>2. IInv /\ [Next]_vars =>
          [\A k \in Lockers :
             \/ Inert(L'[k].mdh)
             \/ /\ L'[k].mdh.State \in {Provisioning, Importing, PPIImporting}
                /\ \E md \in Supplied, immed \in {Provisioning, Importing} :
                     L'[k].mdh = OpenedMDH(immed, md)
             \/ \E j \in Lockers :
                  /\ ~Inert(L[j].mdh)
                  /\ SameBinding(L'[k].mdh, L[j].mdh)
                  /\ Tighter(L'[k].mdh, L[j].mdh)]_vars
    BY <1>1 DEF Narrows, Opened
  <1> QED
    BY <1>2, Invariance, PTL DEF Spec, PoliciesOnlyNarrow

\* A State changes in place only under a mode that the UsagePolicy admits and before the
\* ExpirationDate (usage_gate).
THEOREM UsageGated == Spec => UsageIsGated
  <1>1. IInv /\ [Next]_vars => \A k \in Lockers : Gates(k)
    BY NextStep, StepGates
  <1>2. IInv /\ [Next]_vars =>
          [\A k \in Lockers :
             LET m == L[k].mdh
                 n == L'[k].mdh
             IN (/\ IsValid(m) /\ IsValid(n) /\ m.State # n.State
                 /\ \A j \in Lockers \ {k} : L'[k].mdh # L[j].mdh)
                  => /\ mode \in m.UsagePolicy
                     /\ (zk /\ m.ExpirationDate # 0) =>
                          clock # NoClock /\ clock < m.ExpirationDate]_vars
    BY <1>1 DEF Gates, GateOpen
  <1> QED
    BY <1>2, Invariance, PTL DEF Spec, UsageIsGated

\* A step that keeps the name on a locker moves no other CC into it: it edits the CC in place, or
\* ends it in its Error State, or is a kl.mgmt on it, which clears klstart (Rule GR21).
THEOREM NamedLockerKept == Spec => NamedLockerKeepsItsCC
  <1>1. IInv /\ [Next]_vars => Keeps
    BY NextStep, StepKeeps
  <1>2. IInv /\ [Next]_vars =>
          [nl' = nl /\ nl \in Lockers /\ L'[nl] # L[nl] =>
             LET m == L[nl].mdh
                 n == L'[nl].mdh
             IN /\ \A k \in Lockers \ {nl} : L'[k] = L[k]
                /\ \/ \E se \in ErrorCodes : n = ErrMDH(m, se)
                   \/ ~Inert(m) /\ SameBinding(n, m) /\ Tighter(n, m) /\ (n = m \/ (IsValid(m) /\ IsValid(n)))
                   \/ start' = 0 /\ ~Inert(m) /\ SameBinding(n, m) /\ Tighter(n, m)
                   \/ start' = 0 /\ (Inert(n) \/ \E md \in Supplied, immed \in {Provisioning, Importing} :
                                                    n = OpenedMDH(immed, md))]_vars
    BY <1>1 DEF Keeps, Started
  <1> QED
    BY <1>2, Invariance, PTL DEF Spec, NamedLockerKeepsItsCC

-----------------------------------------------------------------------------
(* Where the content of a locker comes from, when allocated capacity reads *)
(* as zero.  A locker without a slot holds no content, so a content that   *)
(* a step copies from any locker is one that a configured locker held.     *)

Rightful(k) ==
  \/ L'[k].content = Zero
  \/ \E j \in Lockers : L[j].slot /\ L[j].content = L'[k].content
  \/ /\ nl = k /\ L[k].mdh.State \in {Provisioning, Importing, PPIImporting}
     /\ L'[k].mdh = L[k].mdh
  \/ L[k].mdh.State = Provisioning /\ L[k].mdh.KeyType = 2 /\ L'[k].mdh.State = 1
LineageStep == \A k \in Lockers : Rightful(k)

-----------------------------------------------------------------------------
(* Steps by what they do to the content.                                   *)

\* A content that is in some locker before the step.
LEMMA FromLocker ==
  ASSUME IInv, NEW k \in Lockers, NEW j \in Lockers, L'[k].content = L[j].content
  PROVE  Rightful(k)
  <1>1. L[j].slot \/ L[j] = Bare(L[j].mdh)
    BY StoredWellFormed DEF IInv, WellFormed, Emptied
  <1>2. Bare(L[j].mdh).content = Zero
    BY DEF Bare
  <1> QED
    BY <1>1, <1>2 DEF Rightful

LEMMA SameLineage == ASSUME IInv, UNCHANGED L PROVE LineageStep
  BY FromLocker DEF LineageStep

LEMMA IdleLineage == ASSUME IInv, FallThrough \/ (\E t \in Traps : Raise(t)) PROVE LineageStep
  BY SameLineage DEF FallThrough, Raise, store

\* One locker is replaced, by nothing or by a copy.
LEMMA ReplacedLineage ==
  ASSUME IInv, NEW k \in Lockers, NEW l, L' = [L EXCEPT ![k] = l],
         l.content = Zero \/ \E j \in Lockers : l.content = L[j].content
  PROVE  LineageStep
  <1>1. L \in [Lockers -> Locker]
    BY DEF IInv, StoreOK
  <1>2. \A i \in Lockers : i # k => Rightful(i)
    BY <1>1, FromLocker
  <1>3. L'[k] = l
    BY <1>1
  <1>4. Rightful(k)
    <2>1. CASE l.content = Zero
      BY <1>3, <2>1 DEF Rightful
    <2>2. CASE \E j \in Lockers : l.content = L[j].content
      BY <1>3, <2>2, FromLocker
    <2> QED
      BY <2>1, <2>2
  <1> QED
    BY <1>2, <1>4 DEF LineageStep

\* One MDH is edited in place.
LEMMA EditedLineage ==
  ASSUME IInv, NEW k \in Lockers, NEW m, L' = [L EXCEPT ![k].mdh = m]
  PROVE  LineageStep
  <1>1. L \in [Lockers -> Locker] /\ L[k] \in Locker
    BY StoredWellFormed DEF IInv, StoreOK
  <1>2. \A i \in Lockers : L'[i].content = L[i].content
    BY <1>1 DEF Locker
  <1> QED
    BY <1>2, FromLocker DEF LineageStep

LEMMA DiscardLineage ==
  ASSUME IInv, NEW k \in Lockers, NEW m, Discard(k, Bare(m))
  PROVE  LineageStep
  <1>1. Bare(m).content = Zero
    BY DEF Bare
  <1> QED
    BY <1>1, ReplacedLineage DEF Discard

LEMMA EmptyLineage == ASSUME IInv, NEW k \in Lockers, Discard(k, NoLocker) PROVE LineageStep
  BY DiscardLineage DEF NoLocker

LEMMA RefuseLineage == ASSUME IInv, NEW k \in Lockers, Refuse(k) \/ Expire(k) PROVE LineageStep
  BY DiscardLineage DEF Refuse, Expire, EnterError

LEMMA GatedLineage ==
  ASSUME IInv, NEW k \in Lockers, NEW ACTION use, Gated(k, use), use => LineageStep
  PROVE  LineageStep
  <1>1. "privilege_violation" \in Traps
    BY DEF Traps
  <1> QED
    BY <1>1, IdleLineage, RefuseLineage DEF Gated

-----------------------------------------------------------------------------
(* The instructions.                                                       *)

LEMMA UseLineage == ASSUME IInv, Use PROVE LineageStep
  <1>1. ASSUME NEW o \in Operands, exec(o) PROVE LineageStep
    <2> DEFINE k == tgt(o)
               use == IF admits_exec(L[k].mdh)
                        THEN start' = 0 /\ Retire /\ UNCHANGED <<store, nl, csk, env>>
                        ELSE Refuse(k)
    <2>1. CASE k = NONE \/ Inert(L[k].mdh)
      BY <1>1, <2>1, SameLineage DEF exec, store
    <2>2. CASE ~(k = NONE \/ Inert(L[k].mdh))
      <3>1. k \in Lockers /\ Gated(k, use)
        BY <1>1, <2>2, TargetType DEF exec, IInv
      <3>2. use => LineageStep
        BY <3>1, SameLineage, RefuseLineage DEF store
      <3> HIDE DEF use, k
      <3> QED
        BY <3>1, <3>2, GatedLineage
    <2> QED
      BY <2>1, <2>2
  <1>2. ASSUME NEW o \in Operands, NEW target \in Targets, setst(o, target) PROVE LineageStep
    <2> DEFINE k == tgt(o)
               use == IF admits_setst(L[k].mdh, target)
                        THEN L' = [L EXCEPT ![k].mdh.State = target] /\ RetireLocker
                        ELSE Refuse(k)
    <2>1. CASE k = NONE \/ Inert(L[k].mdh)
      BY <1>2, <2>1, IdleLineage DEF setst
    <2>2. CASE ~(k = NONE \/ Inert(L[k].mdh))
      <3>1. k \in Lockers /\ Gated(k, use)
        BY <1>2, <2>2, TargetType DEF setst, IInv
      <3>2. CASE L' = [L EXCEPT ![k].mdh.State = target]
        <4>1. L' = [L EXCEPT ![k].mdh = [L[k].mdh EXCEPT !.State = target]]
          BY <3>1, <3>2
        <4> QED
          BY <3>1, <4>1, EditedLineage
      <3>3. use => LineageStep
        BY <3>1, <3>2, RefuseLineage
      <3> HIDE DEF use, k
      <3> QED
        BY <3>1, <3>3, GatedLineage
    <2> QED
      BY <2>1, <2>2
  <1>3. ASSUME NEW o \in Operands, setst_refused(o) PROVE LineageStep
    <2> DEFINE k == tgt(o)
    <2>1. CASE k = NONE \/ Inert(L[k].mdh)
      BY <1>3, <2>1, IdleLineage DEF setst_refused
    <2>2. CASE ~(k = NONE \/ Inert(L[k].mdh))
      <3>1. k \in Lockers /\ Gated(k, Refuse(k))
        BY <1>3, <2>2, TargetType DEF setst_refused, IInv
      <3> HIDE DEF k
      <3> QED
        BY <3>1, RefuseLineage, GatedLineage
    <2> QED
      BY <2>1, <2>2
  <1>4. ASSUME NEW o \in Operands, clearads(o) PROVE LineageStep
    <2> DEFINE k == tgt(o)
               use == L' = [L EXCEPT ![k].mdh = WithoutADS(@)] /\ RetireLocker
    <2>1. CASE k = NONE \/ Inert(L[k].mdh)
      BY <1>4, <2>1, IdleLineage DEF clearads
    <2>2. CASE ~(k = NONE \/ Inert(L[k].mdh))
      <3>1. k \in Lockers /\ Gated(k, use)
        BY <1>4, <2>2, TargetType DEF clearads, IInv
      <3>2. use => LineageStep
        <4>1. use => L' = [L EXCEPT ![k].mdh = WithoutADS(L[k].mdh)]
          OBVIOUS
        <4> QED
          BY <3>1, <4>1, EditedLineage
      <3> HIDE DEF use, k
      <3> QED
        BY <3>1, <3>2, GatedLineage
    <2> QED
      BY <2>1, <2>2
  <1> QED
    BY <1>1, <1>2, <1>3, <1>4 DEF Use

LEMMA RstrLineage == ASSUME IInv, NEW o \in Operands, NEW rq \in Requests, rstr(o, rq) PROVE LineageStep
  <1> DEFINE k == tgt(o)
  <1>1. CASE k = NONE \/ Inert(L[k].mdh)
    BY <1>1, IdleLineage DEF rstr
  <1>2. CASE ~(k = NONE \/ Inert(L[k].mdh))
    <2>1. k \in Lockers
      BY <1>2, TargetType DEF IInv
    <2>2. Raise("privilege_violation") \/ Refuse(k) \/ L' = [L EXCEPT ![k].mdh = RestrictMDH(L[k].mdh, rq)]
      BY <1>2 DEF rstr
    <2>3. "privilege_violation" \in Traps
      BY DEF Traps
    <2> HIDE DEF k
    <2> QED
      BY <2>1, <2>2, <2>3, IdleLineage, RefuseLineage, EditedLineage
  <1> QED
    BY <1>1, <1>2

LEMMA TwoLockersLineage ==
  ASSUME IInv, NEW od \in Operands, NEW os \in Operands,
         clone(od, os) \/ rename(od, os) \/ swap(od, os)
  PROVE  LineageStep
  <1> DEFINE d == tgt(od)
             s == tgt(os)
  <1>1. CASE NoMove(d, s)
    BY <1>1, IdleLineage DEF clone, rename, swap
  <1>2. CASE ~NoMove(d, s)
    <2>1. d \in Lockers /\ s \in Lockers /\ d # s
      BY <1>2, TargetType DEF IInv, NoMove
    <2>2. CloneLocker(d, s) \/ ClearLocker(d) \/ RenameLocker(d, s) \/ SwapLockers(d, s)
      BY <1>2 DEF clone, rename, swap
    <2> HIDE DEF d, s
    <2>3. L \in [Lockers -> Locker] /\ L[s] \in Locker
      BY <2>1, StoredWellFormed DEF IInv, StoreOK
    <2>4. CASE ClearLocker(d)
      BY <2>1, <2>4, EmptyLineage DEF ClearLocker
    <2>5. CASE CloneLocker(d, s)
      <3> DEFINE l == [L[s] EXCEPT !.slot = TRUE]
      <3>1. Discard(d, Bare(L[s].mdh)) \/ Discard(d, NoLocker) \/ L' = [L EXCEPT ![d] = l]
        BY <2>5 DEF CloneLocker, Allocate
      <3>2. l.content = L[s].content
        BY <2>3 DEF Locker
      <3> HIDE DEF l
      <3> QED
        BY <2>1, <3>1, <3>2, DiscardLineage, EmptyLineage, ReplacedLineage
    <2>6. CASE RenameLocker(d, s) \/ SwapLockers(d, s)
      <3>1. NoLocker.content = Zero
        BY DEF NoLocker, Bare
      <3>2. \A i \in Lockers : L'[i].content = Zero \/ \E j \in Lockers : L'[i].content = L[j].content
        BY <2>1, <2>3, <2>6, <3>1 DEF RenameLocker, SwapLockers
      <3>3. \A i \in Lockers : Rightful(i)
        BY <3>2, FromLocker DEF Rightful
      <3> QED
        BY <3>3 DEF LineageStep
    <2> QED
      BY <2>2, <2>4, <2>5, <2>6
  <1> QED
    BY <1>1, <1>2

LEMMA AllEmptyLineage == ASSUME clearall \/ reset PROVE LineageStep
  <1>1. L' = [k \in Lockers |-> NoLocker] /\ NoLocker.content = Zero
    BY DEF clearall, reset, NoLocker, Bare
  <1> QED
    BY <1>1 DEF LineageStep, Rightful

LEMMA ConfigureLineage == ASSUME IInv, Configure PROVE LineageStep
  <1>1. \A v : setnl(v) => LineageStep
    BY SameLineage DEF setnl, store
  <1>2. ASSUME NEW o \in Operands, clear(o) PROVE LineageStep
    BY <1>2, TargetType, IdleLineage, EmptyLineage DEF clear, ClearLocker, IInv
  <1>3. ASSUME NEW o \in Operands, NEW se \in Errors, setste(o, se) PROVE LineageStep
    BY <1>3, TargetType, IdleLineage, DiscardLineage DEF setste, EnterError, IInv
  <1> QED
    BY <1>1, <1>2, <1>3, AllEmptyLineage, RstrLineage, TwoLockersLineage DEF Configure

-----------------------------------------------------------------------------
(* kl.mgmt and the management transfer.                                    *)

LEMMA OpenLineage ==
  ASSUME zero_alloc, IInv, NEW k \in Lockers, NEW immed, NEW md, OpenLocker(k, immed, md)
  PROVE  LineageStep
  <1> DEFINE l == OpenedLocker(k, OpenedMDH(immed, md))
  <1>1. l.content = Zero
    BY DEF OpenedLocker, AllocatedContent
  <1> HIDE DEF l
  <1>2. \/ \E m : Discard(k, Bare(m))
        \/ Discard(k, NoLocker)
        \/ L' = [L EXCEPT ![k] = l]
    BY DEF OpenLocker, Allocate, l
  <1> QED
    BY <1>1, <1>2, DiscardLineage, EmptyLineage, ReplacedLineage

LEMMA ExportLineage == ASSUME IInv, NEW k \in Lockers, ExportLocker(k) PROVE LineageStep
  <1> DEFINE to == IF L[k].mdh.State \in PI_STATES THEN PPIExporting ELSE Exporting
  <1>1. UNCHANGED L \/ L' = [L EXCEPT ![k].mdh = [L[k].mdh EXCEPT !.State = to]]
    BY DEF ExportLocker, store
  <1> HIDE DEF to
  <1> QED
    BY <1>1, SameLineage, EditedLineage

LEMMA CompleteLineage == ASSUME IInv, NEW k \in Lockers, NEW st, CompleteLocker(k, st) PROVE LineageStep
  <1> DEFINE m == L[k].mdh
             n == ProvisionedMDH(m)
  <1>1. L \in [Lockers -> Locker] /\ L[k] \in Locker /\ m \in MDH
    BY StoredWellFormed DEF IInv, StoreOK
  <1>2. CASE UNCHANGED L
    BY <1>2, SameLineage
  <1>3. CASE m.State = Provisioning /\ CompleteProvisioning(k)
    <2>1. n.State = 1
      BY <1>1 DEF ProvisionedMDH, MDH
    <2> HIDE DEF n
    <2>2. CASE EnterError(k, m, SE_INVALID)
      BY <2>2, DiscardLineage DEF EnterError
    <2>3. ASSUME NEW key \in IF m.KeyType = 2 THEN RandomKeys ELSE {L[k].content},
                 L' = [L EXCEPT ![k].content = key, ![k].mdh = n]
          PROVE  LineageStep
      <3>1. L'[k].content = key /\ L'[k].mdh = n /\ \A i \in Lockers : i # k => L'[i] = L[i]
        BY <1>1, <2>3 DEF Locker
      <3>2. CASE m.KeyType = 2
        BY <1>3, <2>1, <3>1, <3>2, FromLocker DEF LineageStep, Rightful
      <3>3. CASE m.KeyType # 2
        BY <3>1, <3>3, FromLocker DEF LineageStep
      <3> QED
        BY <3>2, <3>3
    <2> QED
      BY <1>3, <2>2, <2>3 DEF CompleteProvisioning, n
  <1>4. CASE Restore(k, st)
    <2> DEFINE r == [m EXCEPT !.State = st]
    <2>1. \/ \E se : EnterError(k, r, se)
          \/ L' = [L EXCEPT ![k].mdh = r]
          \/ L' = [L EXCEPT ![k].mdh = r, ![k].unverified = FALSE]
      BY <1>4 DEF Restore
    <2> HIDE DEF r
    <2>2. CASE L' = [L EXCEPT ![k].mdh = r, ![k].unverified = FALSE]
      <3>1. \A i \in Lockers : L'[i].content = L[i].content
        BY <1>1, <2>2 DEF Locker
      <3> QED
        BY <3>1, FromLocker DEF LineageStep
    <2> QED
      BY <2>1, <2>2, DiscardLineage, EditedLineage DEF EnterError
  <1> QED
    BY <1>2, <1>3, <1>4 DEF CompleteLocker, store

LEMMA MvinLineage == ASSUME IInv, NEW image \in Images, mvin(image) PROVE LineageStep
  <1>1. CASE FallThrough \/ Raise("illegal")
    BY <1>1, IdleLineage DEF Traps
  <1>2. CASE /\ nl # NONE
             /\ L[nl].mdh.State \in {Provisioning, Importing, PPIImporting}
             /\ L' = [L EXCEPT ![nl].content = image[1], ![nl].tag = image[2]]
    <2>1. nl \in Lockers /\ L \in [Lockers -> Locker] /\ L[nl] \in Locker
      BY <1>2, StoredWellFormed DEF IInv, ControlOK, StoreOK
    <2>2. L'[nl].mdh = L[nl].mdh /\ \A i \in Lockers : i # nl => L'[i] = L[i]
      BY <1>2, <2>1 DEF Locker
    <2> QED
      BY <1>2, <2>2, FromLocker DEF LineageStep, Rightful
  <1> QED
    BY <1>1, <1>2 DEF mvin

LEMMA ManageLineage == ASSUME zero_alloc, IInv, Manage PROVE LineageStep
  <1>1. \A o : mgmt_inert(o) => LineageStep
    BY SameLineage DEF mgmt_inert, store
  <1> QED
    BY <1>1, TargetType, OpenLineage, ExportLineage, CompleteLineage, MvinLineage
    DEF Manage, mgmt_open, mgmt_export, mgmt_complete, IInv

LEMMA NextLineage == ASSUME zero_alloc, IInv, [Next]_vars PROVE LineageStep
  <1>1. CASE Environment
    BY <1>1, SameLineage DEF Environment, WriteKlstart, SwitchMode, ConfigureLST, Tick, WriteCSK, WithdrawCSK,
                             store
  <1>2. CASE MissingCSK \/ Reserved \/ UNCHANGED vars
    BY <1>2, SameLineage DEF MissingCSK, Reserved, Raise, vars, store
  <1> QED
    BY <1>1, <1>2, ManageLineage, ConfigureLineage, UseLineage, AllEmptyLineage DEF Next

\* Where allocated capacity reads as zero, no content comes out of a released
\* slot: it is copied from a configured locker, transferred in by the
\* operation under way, or drawn (alloc, _complete and _mvin of class Unit).
THEOREM ContentHasLineage == ASSUME zero_alloc PROVE Spec => ContentLineage
  <1>1. IInv /\ [Next]_vars =>
          [\A k \in Lockers :
             \/ L'[k].content = Zero
             \/ \E j \in Lockers : L[j].slot /\ L[j].content = L'[k].content
             \/ /\ nl = k /\ L[k].mdh.State \in {Provisioning, Importing, PPIImporting}
                /\ L'[k].mdh = L[k].mdh
             \/ L[k].mdh.State = Provisioning /\ L[k].mdh.KeyType = 2 /\ L'[k].mdh.State = 1]_vars
    BY NextLineage DEF LineageStep, Rightful
  <1> QED
    BY <1>1, Invariance, PTL DEF Spec, ContentLineage

-----------------------------------------------------------------------------
(***************************************************************************)
(* The KLE unit implements CCLifecycle, for every number of lockers, every *)
(* capacity and every set of inputs: Spec => LifecycleSpec.                *)
(*                                                                         *)
(* The class of a locker follows from its MDH alone.  An instruction that  *)
(* writes one locker changes one class; that the class it opens or copies  *)
(* to is within Capacity is the conservation of KLF slots, because exactly *)
(* the configured lockers hold one.                                        *)
(***************************************************************************)

Phases   == [k \in Lockers |-> Class(L[k].mdh)]
LifeStep == [Lifecycle!Next]_<<Phases, nl>>

Turns(k, class) == Phases' = [Phases EXCEPT ![k] = class]

-----------------------------------------------------------------------------
(* The actions of CCLifecycle, by their effect on Phases.                  *)

LEMMA LifeStutter == ASSUME UNCHANGED <<Phases, nl>> PROVE LifeStep
  BY DEF LifeStep

\* The cardinality that CCLifecycle speaks of.
LEMMA SameCardinality == \A S : Lifecycle!Cardinality(S) = Cardinality(S)
  BY DEF Lifecycle!Cardinality, Cardinality

LEMMA LifeOpen ==
  ASSUME NEW k \in Lockers, Cardinality(Held \cup {k}) <= Capacity, Lifecycle!Holds(Phases) = Held,
         Turns(k, "config"), nl' = k
  PROVE  LifeStep
  BY SameCardinality DEF LifeStep, Turns, Phases, Lifecycle!Next, Lifecycle!Open, Lifecycle!Becomes

LEMMA LifeOpenFail ==
  ASSUME NEW k \in Lockers, Turns(k, "error") \/ Turns(k, "unconfigured"), nl' = k
  PROVE  LifeStep
  BY DEF LifeStep, Turns, Phases, Lifecycle!Next, Lifecycle!OpenFail, Lifecycle!Becomes

LEMMA LifeReopen ==
  ASSUME NEW k \in Lockers, Phases[k] \in {"config", "valid"}, Turns(k, "config"), nl' = k
  PROVE  LifeStep
  BY DEF LifeStep, Turns, Phases, Lifecycle!Next, Lifecycle!Reopen, Lifecycle!Becomes

LEMMA LifeFinish ==
  ASSUME NEW k \in Lockers, Phases[k] = "config", Turns(k, "valid") \/ Turns(k, "error"), nl' = k
  PROVE  LifeStep
  BY DEF LifeStep, Turns, Phases, Lifecycle!Next, Lifecycle!Finish, Lifecycle!Becomes

LEMMA LifePoint ==
  ASSUME NEW k \in Lockers \cup {NONE}, nl' = k, UNCHANGED Phases
  PROVE  LifeStep
  BY DEF LifeStep, Phases, Lifecycle!Next, Lifecycle!Point

LEMMA LifeFail ==
  ASSUME NEW k \in Lockers, Turns(k, "error"), UNCHANGED nl
  PROVE  LifeStep
  BY DEF LifeStep, Turns, Phases, Lifecycle!Next, Lifecycle!Fail, Lifecycle!Becomes

LEMMA LifeClear ==
  ASSUME NEW k \in Lockers, Turns(k, "unconfigured"), nl' = NameAfterClear(k)
  PROVE  LifeStep
  BY DEF LifeStep, Turns, Phases, Lifecycle!Next, Lifecycle!Clear, Lifecycle!Becomes, Lifecycle!LosesName,
         NameAfterClear

LEMMA LifeClearAll ==
  ASSUME Phases' = [k \in Lockers |-> "unconfigured"], nl' = NONE
  PROVE  LifeStep
  BY DEF LifeStep, Phases, Lifecycle!Next, Lifecycle!ClearAll

LEMMA LifeCopy ==
  ASSUME NEW d \in Lockers, NEW s \in Lockers, d # s, Phases[s] # "config", Lifecycle!Holds(Phases) = Held,
         Phases[s] = "valid" => Cardinality(Held \cup {d}) <= Capacity,
         Turns(d, Phases[s]), nl' = NameAfterClear(d)
  PROVE  LifeStep
  BY SameCardinality
  DEF LifeStep, Turns, Phases, Lifecycle!Next, Lifecycle!Copy, Lifecycle!Becomes, Lifecycle!LosesName,
      NameAfterClear

LEMMA LifeMove ==
  ASSUME NEW d \in Lockers, NEW s \in Lockers, d # s,
         Phases' = [Phases EXCEPT ![d] = Phases[s], ![s] = "unconfigured"], nl' = NameAfterMove(d, s)
  PROVE  LifeStep
  BY DEF LifeStep, Phases, Lifecycle!Next, Lifecycle!Move, NameAfterMove, NameAfterClear

LEMMA LifeExchange ==
  ASSUME NEW d \in Lockers, NEW s \in Lockers, d # s,
         Phases' = [Phases EXCEPT ![d] = Phases[s], ![s] = Phases[d]], nl' = NameAfterSwap(d, s)
  PROVE  LifeStep
  <1>1. nl' = IF nl = s THEN d ELSE IF nl = d THEN s ELSE nl
    BY DEF NameAfterSwap
  <1> QED
    BY <1>1 DEF LifeStep, Phases, Lifecycle!Next, Lifecycle!Exchange

-----------------------------------------------------------------------------
(* Classes.                                                                *)

\* The class of an MDH by its State.
LEMMA ClassOf ==
  ASSUME NEW m
  PROVE  /\ IsUnconfigured(m) => Class(m) = "unconfigured"
         /\ Inert(m) /\ ~IsUnconfigured(m) => Class(m) = "error"
         /\ config(m) => Class(m) = "config"
         /\ IsValid(m) => Class(m) = "valid"
         /\ Class(m) \in {"config", "valid"} <=> ~Inert(m)
  BY DEF Class, IsUnconfigured, Inert, config, IsValid, ConfigStates, ValidStates

LEMMA UnconfiguredClass == Class(NoLocker.mdh) = "unconfigured"
  <1>1. IsUnconfigured(NoLocker.mdh)
    BY DEF NoLocker, Bare, ZeroMDH, IsUnconfigured
  <1> QED
    BY <1>1, ClassOf

\* The lockers with a CC are those that hold a slot.
LEMMA HoldersHold == ASSUME IInv PROVE Lifecycle!Holds(Phases) = Held
  <1>1. \A k \in Lockers : L[k].slot <=> Phases[k] \in {"config", "valid"}
    BY StoredWellFormed, ClassOf DEF IInv, WellFormed, Emptied, Phases
  <1> QED
    BY <1>1 DEF Lifecycle!Holds, Held

\* Writing one locker changes one class.
LEMMA OneTurns ==
  ASSUME IInv, NEW k \in Lockers, NEW l, L' = [L EXCEPT ![k] = l]
  PROVE  Turns(k, Class(l.mdh))
  <1>1. L \in [Lockers -> Locker]
    BY DEF IInv, StoreOK
  <1> QED
    BY <1>1 DEF Turns, Phases

\* A class that does not change.
LEMMA SamePhases ==
  ASSUME IInv, NEW k \in Lockers, OthersKept({k}), Class(L'[k].mdh) = Class(L[k].mdh)
  PROVE  UNCHANGED Phases
  BY DEF Phases, OthersKept

\* A class that changes, by the MDH written.
LEMMA MDHTurns ==
  ASSUME IInv, NEW k \in Lockers, OthersKept({k})
  PROVE  Turns(k, Class(L'[k].mdh))
  BY DEF Turns, Phases, OthersKept

\* A slot that is free after free(k) is room for one CC more.
LEMMA RoomForOne ==
  ASSUME IInv, NEW k \in Lockers, SlotsAfterFree(k) > 0
  PROVE  Cardinality(Held \cup {k}) <= Capacity
  <1>1. IsFiniteSet(Held) /\ Cardinality(Held) \in Nat /\ slots \in Nat
    BY HeldFinite DEF IInv, StoreOK
  <1>2. Cardinality(Held \cup {k}) = IF k \in Held THEN Cardinality(Held) ELSE Cardinality(Held) + 1
    BY <1>1, FS_AddElement
  <1>3. k \in Held <=> L[k].slot
    BY DEF Held
  <1>4. slots + Cardinality(Held) = Capacity
    BY DEF IInv, StoreOK, CapacityConserved
  <1> QED
    BY <1>1, <1>2, <1>3, <1>4 DEF SlotsAfterFree

-----------------------------------------------------------------------------
(* The instructions.                                                       *)

\* err(k, se).
LEMMA ErrorTurns ==
  ASSUME IInv, NEW k \in Lockers, NEW m \in MDH, NEW se \in 1..6, EnterError(k, m, se)
  PROVE  Turns(k, "error")
  <1>1. ErrMDH(m, se).State = 0 /\ ErrMDH(m, se).StateExtension = se
    BY DEF ErrMDH, MDH
  <1>2. Inert(ErrMDH(m, se)) /\ ~IsUnconfigured(ErrMDH(m, se))
    BY <1>1 DEF Inert, IsUnconfigured
  <1>3. Class(Bare(ErrMDH(m, se)).mdh) = "error"
    BY <1>2, ClassOf DEF Bare
  <1> QED
    BY <1>3, OneTurns DEF EnterError, Discard

LEMMA EmptyTurns ==
  ASSUME IInv, NEW k \in Lockers, Discard(k, NoLocker)
  PROVE  Turns(k, "unconfigured")
  BY OneTurns, UnconfiguredClass DEF Discard

LEMMA KeptLife == ASSUME UNCHANGED L, UNCHANGED nl PROVE LifeStep
  BY LifeStutter DEF Phases

LEMMA IdleLife == ASSUME FallThrough \/ (\E t \in Traps : Raise(t)) PROVE LifeStep
  BY KeptLife DEF FallThrough, Raise, store, named

LEMMA RefuseLife ==
  ASSUME IInv, NEW k \in Lockers, Refuse(k) \/ Expire(k)
  PROVE  LifeStep
  <1>1. Turns(k, "error")
    BY ErrorTurns, StoredWellFormed DEF IInv, Refuse, Expire, SE_INVALID, SE_EXPIRED
  <1> QED
    BY <1>1, LifeFail DEF Refuse, Expire, RetireStore, named

LEMMA GatedLife ==
  ASSUME IInv, NEW k \in Lockers, NEW ACTION use, Gated(k, use), (IsValid(L[k].mdh) /\ use) => LifeStep
  PROVE  LifeStep
  <1>1. "privilege_violation" \in Traps
    BY DEF Traps
  <1> QED
    BY <1>1, IdleLife, RefuseLife DEF Gated

\* An edit in place that keeps a Valid State valid.
LEMMA ValidEditLife ==
  ASSUME IInv, NEW k \in Lockers, IsValid(L[k].mdh), NEW n, IsValid(n),
         L' = [L EXCEPT ![k].mdh = n], RetireLocker
  PROVE  LifeStep
  <1>1. L \in [Lockers -> Locker] /\ L[k] \in Locker
    BY StoredWellFormed DEF IInv, StoreOK
  <1>2. L'[k].mdh = n /\ OthersKept({k})
    BY <1>1 DEF OthersKept, Locker
  <1>3. UNCHANGED Phases
    BY <1>2, ClassOf, SamePhases
  <1> QED
    BY <1>3, LifeStutter DEF RetireLocker, named

LEMMA ExecLife == ASSUME IInv, NEW o \in Operands, exec(o) PROVE LifeStep
  <1> DEFINE k == tgt(o)
             use == IF admits_exec(L[k].mdh)
                      THEN start' = 0 /\ Retire /\ UNCHANGED <<store, nl, csk, env>>
                      ELSE Refuse(k)
  <1>1. CASE k = NONE \/ Inert(L[k].mdh)
    BY <1>1, KeptLife DEF exec, store
  <1>2. CASE ~(k = NONE \/ Inert(L[k].mdh))
    <2>1. k \in Lockers /\ Gated(k, use)
      BY <1>2, TargetType DEF exec, IInv
    <2>2. use => LifeStep
      BY <2>1, KeptLife, RefuseLife DEF store
    <2> HIDE DEF use, k
    <2> QED
      BY <2>1, <2>2, GatedLife
  <1> QED
    BY <1>1, <1>2

LEMMA SetstLife == ASSUME IInv, NEW o \in Operands, NEW target \in Targets, setst(o, target) PROVE LifeStep
  <1> DEFINE k == tgt(o)
             use == IF admits_setst(L[k].mdh, target)
                      THEN L' = [L EXCEPT ![k].mdh.State = target] /\ RetireLocker
                      ELSE Refuse(k)
  <1>1. CASE k = NONE \/ Inert(L[k].mdh)
    BY <1>1, IdleLife DEF setst
  <1>2. CASE ~(k = NONE \/ Inert(L[k].mdh))
    <2>1. k \in Lockers /\ Gated(k, use)
      BY <1>2, TargetType DEF setst, IInv
    <2>2. ASSUME IsValid(L[k].mdh), use
          PROVE  LifeStep
      <3>1. CASE ~admits_setst(L[k].mdh, target)
        BY <2>1, <2>2, <3>1, RefuseLife
      <3>2. CASE L' = [L EXCEPT ![k].mdh.State = target] /\ RetireLocker
        <4> DEFINE m == L[k].mdh
                   n == [m EXCEPT !.State = target]
        <4>1. m \in MDH /\ L[k] \in Locker /\ L \in [Lockers -> Locker]
          BY <2>1, StoredWellFormed DEF IInv, StoreOK
        <4>2. n.State = target /\ target \in ValidStates
          BY <4>1, InputAssumption DEF ValidStates, MDH
        <4>3. L' = [L EXCEPT ![k].mdh = n] /\ RetireLocker
          BY <2>1, <3>2, <4>1
        <4> HIDE DEF n
        <4>4. IsValid(n)
          BY <4>2 DEF IsValid
        <4> HIDE DEF k, m
        <4> QED
          BY <2>1, <2>2, <4>3, <4>4, ValidEditLife DEF m
      <3> QED
        BY <2>2, <3>1, <3>2
    <2> HIDE DEF use, k
    <2> QED
      BY <2>1, <2>2, GatedLife
  <1> QED
    BY <1>1, <1>2

LEMMA SetstRefusedLife == ASSUME IInv, NEW o \in Operands, setst_refused(o) PROVE LifeStep
  <1> DEFINE k == tgt(o)
  <1>1. CASE k = NONE \/ Inert(L[k].mdh)
    BY <1>1, IdleLife DEF setst_refused
  <1>2. CASE ~(k = NONE \/ Inert(L[k].mdh))
    <2>1. k \in Lockers /\ Gated(k, Refuse(k))
      BY <1>2, TargetType DEF setst_refused, IInv
    <2> HIDE DEF k
    <2> QED
      BY <2>1, RefuseLife, GatedLife
  <1> QED
    BY <1>1, <1>2

LEMMA ClearadsLife == ASSUME IInv, NEW o \in Operands, clearads(o) PROVE LifeStep
  <1> DEFINE k == tgt(o)
             use == L' = [L EXCEPT ![k].mdh = WithoutADS(@)] /\ RetireLocker
  <1>1. CASE k = NONE \/ Inert(L[k].mdh)
    BY <1>1, IdleLife DEF clearads
  <1>2. CASE ~(k = NONE \/ Inert(L[k].mdh))
    <2>1. k \in Lockers /\ Gated(k, use)
      BY <1>2, TargetType DEF clearads, IInv
    <2>2. ASSUME IsValid(L[k].mdh), use
          PROVE  LifeStep
      <3> DEFINE m == L[k].mdh
                 n == WithoutADS(m)
      <3>1. m \in MDH /\ L[k] \in Locker /\ L \in [Lockers -> Locker]
        BY <2>1, StoredWellFormed DEF IInv, StoreOK
      <3>2. L' = [L EXCEPT ![k].mdh = n] /\ RetireLocker
        BY <2>1, <2>2, <3>1
      <3>3. n.State = m.State
        BY <3>1 DEF WithoutADS, MDH
      <3> HIDE DEF n
      <3>4. IsValid(n)
        BY <2>2, <3>3 DEF IsValid
      <3> HIDE DEF k, m
      <3> QED
        BY <2>1, <2>2, <3>2, <3>4, ValidEditLife
    <2> HIDE DEF use, k
    <2> QED
      BY <2>1, <2>2, GatedLife
  <1> QED
    BY <1>1, <1>2

LEMMA RstrLife == ASSUME IInv, NEW o \in Operands, NEW rq \in Requests, rstr(o, rq) PROVE LifeStep
  <1> DEFINE k == tgt(o)
             m == L[k].mdh
             n == RestrictMDH(m, rq)
  <1>1. CASE k = NONE \/ Inert(L[k].mdh)
    BY <1>1, IdleLife DEF rstr
  <1>2. CASE ~(k = NONE \/ Inert(L[k].mdh))
    <2>1. k \in Lockers
      BY <1>2, TargetType DEF IInv
    <2>2. CASE Raise("privilege_violation")
      BY <2>2, IdleLife DEF Traps
    <2>3. CASE Refuse(k)
      BY <2>1, <2>3, RefuseLife
    <2>4. CASE IsValid(m) /\ L' = [L EXCEPT ![k].mdh = n] /\ RetireLocker
      <3>1. m \in MDH
        BY <2>1, StoredWellFormed DEF IInv
      <3>2. n.State = m.State
        BY <3>1 DEF RestrictMDH, MDH
      <3> HIDE DEF n
      <3>3. IsValid(n)
        BY <2>4, <3>2 DEF IsValid
      <3> HIDE DEF k
      <3> QED
        BY <2>1, <2>4, <3>3, ValidEditLife
    <2> QED
      BY <1>2, <2>2, <2>3, <2>4 DEF rstr
  <1> QED
    BY <1>1, <1>2

LEMMA UseLife == ASSUME IInv, Use PROVE LifeStep
  BY ExecLife, SetstLife, SetstRefusedLife, ClearadsLife DEF Use

LEMMA ClearLockerLife == ASSUME IInv, NEW k \in Lockers, ClearLocker(k) PROVE LifeStep
  BY EmptyTurns, LifeClear DEF ClearLocker

LEMMA SetsteLife == ASSUME IInv, NEW o \in Operands, NEW se \in Errors, setste(o, se) PROVE LifeStep
  <1>1. CASE tgt(o) = NONE
    BY <1>1, IdleLife DEF setste
  <1>2. CASE tgt(o) # NONE
    <2> DEFINE m == IF IsUnconfigured(L[tgt(o)].mdh) THEN ZeroMDH ELSE L[tgt(o)].mdh
    <2>1. tgt(o) \in Lockers
      BY <1>2, TargetType DEF IInv
    <2>2. m \in MDH
      BY <2>1, ZeroMDHType, StoredWellFormed DEF IInv
    <2>3. EnterError(tgt(o), m, se) /\ se \in 1..6 /\ UNCHANGED nl
      BY <1>2, InputAssumption DEF setste, RetireStore, named
    <2> HIDE DEF m
    <2> QED
      BY <2>1, <2>2, <2>3, ErrorTurns, LifeFail
  <1> QED
    BY <1>1, <1>2

LEMMA CloneLockerLife ==
  ASSUME IInv, NEW d \in Lockers, NEW src \in Lockers, d # src, CloneLocker(d, src)
  PROVE  LifeStep
  <1> DEFINE m == L[src].mdh
             l == [L[src] EXCEPT !.slot = TRUE]
  <1>1. nl' = NameAfterClear(d)
    BY DEF CloneLocker
  <1>2. L[src] \in Locker /\ Phases[src] = Class(m)
    BY StoredWellFormed DEF IInv, Phases
  <1>3. CASE Inert(m) /\ Discard(d, Bare(m))
    <2>1. Turns(d, Class(Bare(m).mdh))
      BY <1>3, OneTurns DEF Discard
    <2>2. Turns(d, Phases[src])
      BY <1>2, <2>1 DEF Bare
    <2>3. Phases[src] \notin {"config", "valid"}
      BY <1>2, <1>3, ClassOf
    <2> QED
      BY <1>1, <2>2, <2>3, HoldersHold, LifeCopy
  <1>4. CASE Discard(d, NoLocker)
    BY <1>1, <1>4, EmptyTurns, LifeClear
  <1>5. CASE IsValid(m) /\ SlotsAfterFree(d) > 0 /\ L' = [L EXCEPT ![d] = l]
    <2>1. l.mdh = m /\ Class(m) = "valid"
      BY <1>2, <1>5, ClassOf DEF Locker
    <2> HIDE DEF l
    <2>2. Turns(d, Phases[src])
      BY <1>2, <1>5, <2>1, OneTurns
    <2> QED
      BY <1>1, <1>2, <1>5, <2>1, <2>2, HoldersHold, RoomForOne, LifeCopy
  <1> QED
    BY <1>3, <1>4, <1>5 DEF CloneLocker, Allocate

LEMMA RenameLockerLife ==
  ASSUME IInv, NEW d \in Lockers, NEW src \in Lockers, d # src, RenameLocker(d, src)
  PROVE  LifeStep
  <1>1. L' = [L EXCEPT ![d] = L[src], ![src] = NoLocker] /\ L \in [Lockers -> Locker]
    BY DEF RenameLocker, IInv, StoreOK
  <1>2. Phases' = [Phases EXCEPT ![d] = Phases[src], ![src] = "unconfigured"]
    BY <1>1, UnconfiguredClass DEF Phases
  <1> QED
    BY <1>2, LifeMove DEF RenameLocker

LEMMA SwapLockersLife ==
  ASSUME IInv, NEW d \in Lockers, NEW src \in Lockers, d # src, SwapLockers(d, src)
  PROVE  LifeStep
  <1>1. L' = [L EXCEPT ![d] = L[src], ![src] = L[d]] /\ L \in [Lockers -> Locker]
    BY DEF SwapLockers, IInv, StoreOK
  <1>2. Phases' = [Phases EXCEPT ![d] = Phases[src], ![src] = Phases[d]]
    BY <1>1 DEF Phases
  <1> QED
    BY <1>2, LifeExchange DEF SwapLockers

LEMMA TwoLockersLife ==
  ASSUME IInv, NEW od \in Operands, NEW os \in Operands,
         clone(od, os) \/ rename(od, os) \/ swap(od, os)
  PROVE  LifeStep
  <1> DEFINE d == tgt(od)
             src == tgt(os)
  <1>1. CASE NoMove(d, src)
    BY <1>1, IdleLife DEF clone, rename, swap
  <1>2. CASE ~NoMove(d, src)
    <2>1. d \in Lockers /\ src \in Lockers /\ d # src
      BY <1>2, TargetType DEF IInv, NoMove
    <2>2. CloneLocker(d, src) \/ ClearLocker(d) \/ RenameLocker(d, src) \/ SwapLockers(d, src)
      BY <1>2 DEF clone, rename, swap
    <2> HIDE DEF d, src
    <2> QED
      BY <2>1, <2>2, CloneLockerLife, ClearLockerLife, RenameLockerLife, SwapLockersLife
  <1> QED
    BY <1>1, <1>2

LEMMA AllEmptyLife == ASSUME IInv, clearall \/ reset PROVE LifeStep
  <1>1. L' = [k \in Lockers |-> NoLocker] /\ nl' = NONE
    BY DEF clearall, reset
  <1>2. Phases' = [k \in Lockers |-> "unconfigured"]
    BY <1>1, UnconfiguredClass DEF Phases
  <1> QED
    BY <1>1, <1>2, LifeClearAll

LEMMA ConfigureLife == ASSUME IInv, Configure PROVE LifeStep
  <1>1. ASSUME NEW v \in Lockers \cup {NONE}, setnl(v) PROVE LifeStep
    <2>1. UNCHANGED Phases
      BY <1>1 DEF setnl, store, Phases
    <2> QED
      BY <1>1, <2>1, LifePoint DEF setnl
  <1>2. ASSUME NEW o \in Operands, clear(o) PROVE LifeStep
    BY <1>2, TargetType, IdleLife, ClearLockerLife DEF clear, IInv
  <1> QED
    BY <1>1, <1>2, AllEmptyLife, SetsteLife, RstrLife, TwoLockersLife DEF Configure

-----------------------------------------------------------------------------
(* kl.mgmt and the management transfer.                                    *)

LEMMA OpenLife ==
  ASSUME IInv, NEW o \in Operands, NEW immed \in {Provisioning, Importing}, NEW md \in Supplied,
         mgmt_open(o, immed, md)
  PROVE  LifeStep
  <1> DEFINE k == tgt(o)
             l == OpenedLocker(k, OpenedMDH(immed, md))
  <1>1. k \in Lockers /\ nl' = k
    BY TargetType DEF mgmt_open, IInv, MgmtNames
  <1>2. CASE Discard(k, Bare(InvalidMDH))
    <2>1. Class(Bare(InvalidMDH).mdh) = "error"
      <3>1. InvalidMDH.State = 0 /\ InvalidMDH.StateExtension = 2
        BY DEF InvalidMDH, ZeroMDH, SE_INVALID
      <3>2. Inert(InvalidMDH) /\ ~IsUnconfigured(InvalidMDH)
        BY <3>1 DEF Inert, IsUnconfigured
      <3> QED
        BY <3>2, ClassOf DEF Bare
    <2> QED
      BY <1>1, <1>2, <2>1, OneTurns, LifeOpenFail DEF Discard
  <1>3. CASE ShortImport(immed, md) /\ Discard(k, Bare(ErrMDH(md, md.StateExtension)))
    <2>1. md \in MDH /\ md.StateExtension \in 1..6
      BY <1>3, InputAssumption DEF ShortImport, IsErrorState, ErrorCodes
    <2> QED
      BY <1>1, <1>3, <2>1, ErrorTurns, LifeOpenFail DEF EnterError
  <1>4. CASE Discard(k, NoLocker)
    BY <1>1, <1>4, EmptyTurns, LifeOpenFail
  <1>5. CASE SlotsAfterFree(k) > 0 /\ L' = [L EXCEPT ![k] = l]
    <2>1. config(OpenedMDH(immed, md))
      <3>1. OpenedMDH(immed, md).State \in {Provisioning, Importing, PPIImporting}
        BY OpenedState DEF Opened
      <3> QED
        BY <3>1 DEF config, ConfigStates, Provisioning, Importing, PPIImporting
    <2>2. Class(l.mdh) = "config"
      BY <2>1, ClassOf DEF OpenedLocker
    <2> HIDE DEF k, l
    <2> QED
      BY <1>1, <1>5, <2>2, OneTurns, HoldersHold, RoomForOne, LifeOpen
  <1> QED
    BY <1>2, <1>3, <1>4, <1>5 DEF mgmt_open, OpenLocker, Allocate

\* A kl.mgmt that leaves the store alone only names its locker.
LEMMA NameOnlyLife ==
  ASSUME NEW k \in Lockers, MgmtNames(k), UNCHANGED store
  PROVE  LifeStep
  <1>1. UNCHANGED Phases /\ nl' = k
    BY DEF store, Phases, MgmtNames
  <1> QED
    BY <1>1, LifePoint

LEMMA ExportLife == ASSUME IInv, NEW o \in Operands, mgmt_export(o) PROVE LifeStep
  <1> DEFINE k == tgt(o)
             m == L[k].mdh
             to == IF m.State \in PI_STATES THEN PPIExporting ELSE Exporting
             n == [m EXCEPT !.State = to]
  <1>1. k \in Lockers /\ MgmtNames(k) /\ ExportLocker(k)
    BY TargetType DEF mgmt_export, IInv
  <1>2. CASE UNCHANGED store
    BY <1>1, <1>2, NameOnlyLife
  <1>3. CASE (config(m) \/ IsValid(m)) /\ L' = [L EXCEPT ![k].mdh.State = to]
    <2>1. m \in MDH /\ L[k] \in Locker /\ L \in [Lockers -> Locker]
      BY <1>1, StoredWellFormed DEF IInv, StoreOK
    <2>2. L'[k].mdh = n /\ OthersKept({k})
      BY <1>1, <1>3, <2>1 DEF OthersKept, Locker
    <2>3. n.State = to /\ to \in {PPIExporting, Exporting}
      BY <2>1 DEF MDH
    <2> HIDE DEF n, to
    <2>4. Class(n) = "config"
      BY <2>3, ClassOf DEF config, ConfigStates, PPIExporting, Exporting
    <2>5. Turns(k, "config")
      BY <1>1, <2>2, <2>4, MDHTurns
    <2>6. Phases[k] \in {"config", "valid"}
      BY <1>1, <1>3, ClassOf DEF Phases
    <2> HIDE DEF k, m
    <2> QED
      BY <1>1, <2>5, <2>6, LifeReopen DEF MgmtNames
  <1> QED
    BY <1>1, <1>2, <1>3 DEF ExportLocker, store

LEMMA CompleteProvisioningLife ==
  ASSUME IInv, NEW k \in Lockers, L[k].mdh.State = Provisioning, nl' = k, CompleteProvisioning(k)
  PROVE  LifeStep
  <1> DEFINE m == L[k].mdh
             n == ProvisionedMDH(m)
  <1>1. m \in MDH /\ L[k] \in Locker /\ L \in [Lockers -> Locker]
    BY StoredWellFormed DEF IInv, StoreOK
  <1>2. Phases[k] = "config"
    BY ClassOf DEF Phases, config, ConfigStates, Provisioning
  <1>3. CASE EnterError(k, m, SE_INVALID)
    <2>1. Turns(k, "error")
      BY <1>1, <1>3, ErrorTurns DEF SE_INVALID
    <2> QED
      BY <1>2, <2>1, LifeFinish
  <1>4. CASE \E key \in IF m.KeyType = 2 THEN RandomKeys ELSE {L[k].content} :
               L' = [L EXCEPT ![k].content = key, ![k].mdh = n]
    <2>1. n.State = 1
      BY <1>1 DEF ProvisionedMDH, MDH
    <2>2. L'[k].mdh = n /\ OthersKept({k})
      BY <1>1, <1>4 DEF OthersKept, Locker
    <2> HIDE DEF n
    <2>3. Class(n) = "valid"
      BY <2>1, ClassOf DEF IsValid, ValidStates
    <2> QED
      BY <1>2, <2>2, <2>3, MDHTurns, LifeFinish
  <1> QED
    BY <1>3, <1>4 DEF CompleteProvisioning

LEMMA RestoreLife ==
  ASSUME IInv, NEW k \in Lockers, config(L[k].mdh), NEW st \in Admitted(L[k].mdh) \ {0}, nl' = k,
         Restore(k, st)
  PROVE  LifeStep
  <1> DEFINE m == L[k].mdh
             n == [m EXCEPT !.State = st]
  <1>1. m \in MDH /\ Shaped(m) /\ L[k] \in Locker /\ L \in [Lockers -> Locker]
    BY StoredWellFormed DEF IInv, StoreOK, WellFormed
  <1>2. st \in 0..63 /\ st \in ValidStates \cup ConfigStates
    BY <1>1, RestoredState DEF PI_STATES, SCC_STATES, ValidStates, ConfigStates, Provisioning, Exporting,
                               Importing, PPIExporting, PPIImporting
  <1>3. n \in MDH /\ n.State = st
    BY <1>1, <1>2, StateEdit
  <1>4. Phases[k] = "config"
    BY ClassOf DEF Phases
  <1> HIDE DEF n
  <1>5. CASE L' = [L EXCEPT ![k].mdh = n, ![k].unverified = FALSE] \/ L' = [L EXCEPT ![k].mdh = n]
    <2>1. L'[k].mdh = n /\ OthersKept({k})
      BY <1>1, <1>5 DEF OthersKept, Locker
    <2>2. Turns(k, Class(n))
      BY <2>1, MDHTurns
    <2>3. Class(n) = "valid" \/ Class(n) = "config"
      BY <1>2, <1>3, ClassOf DEF IsValid, config
    <2> QED
      BY <1>4, <2>2, <2>3, LifeFinish, LifeReopen
  <1>6. CASE \E se \in {SE_INVALID, SE_MGMT_AUTH} : EnterError(k, n, se)
    <2>1. Turns(k, "error")
      BY <1>3, <1>6, ErrorTurns DEF SE_INVALID, SE_MGMT_AUTH
    <2> QED
      BY <1>4, <2>1, LifeFinish
  <1> QED
    BY <1>5, <1>6 DEF Restore, n

LEMMA CompleteLife ==
  ASSUME IInv, NEW o \in Operands, NEW st \in Completions, mgmt_complete(o, st)
  PROVE  LifeStep
  <1> DEFINE k == tgt(o)
  <1>1. k \in Lockers /\ MgmtNames(k) /\ nl' = k /\ CompleteLocker(k, st)
    BY TargetType DEF mgmt_complete, IInv, MgmtNames
  <1>2. CASE UNCHANGED store
    BY <1>1, <1>2, NameOnlyLife
  <1>3. CASE L[k].mdh.State = Provisioning /\ CompleteProvisioning(k)
    BY <1>1, <1>3, CompleteProvisioningLife
  <1>4. CASE config(L[k].mdh) /\ st \in Admitted(L[k].mdh) \ {0} /\ Restore(k, st)
    BY <1>1, <1>4, RestoreLife
  <1> QED
    BY <1>1, <1>2, <1>3, <1>4 DEF CompleteLocker, store

LEMMA MvinLife == ASSUME IInv, NEW image \in Images, mvin(image) PROVE LifeStep
  <1>1. CASE FallThrough \/ Raise("illegal")
    BY <1>1, IdleLife DEF Traps
  <1>2. CASE /\ nl # NONE
             /\ L' = [L EXCEPT ![nl].content = image[1], ![nl].tag = image[2]]
             /\ RetireLocker
    <2>1. nl \in Lockers
      BY <1>2 DEF IInv, ControlOK
    <2>2. L[nl] \in Locker /\ L \in [Lockers -> Locker]
      BY <2>1, StoredWellFormed DEF IInv, StoreOK
    <2>3. L'[nl].mdh = L[nl].mdh /\ OthersKept({nl})
      BY <1>2, <2>1, <2>2 DEF OthersKept, Locker
    <2>4. UNCHANGED Phases
      BY <2>1, <2>3, SamePhases
    <2> QED
      BY <1>2, <2>4, LifeStutter DEF RetireLocker, named
  <1> QED
    BY <1>1, <1>2 DEF mvin

LEMMA ManageLife == ASSUME IInv, Manage PROVE LifeStep
  <1>1. \A o : mgmt_inert(o) => LifeStep
    BY KeptLife DEF mgmt_inert, store
  <1> QED
    BY <1>1, OpenLife, ExportLife, CompleteLife, MvinLife DEF Manage

LEMMA NextLife == ASSUME IInv, [Next]_vars PROVE LifeStep
  <1>1. CASE Environment
    BY <1>1, KeptLife DEF Environment, WriteKlstart, SwitchMode, ConfigureLST, Tick, WriteCSK, WithdrawCSK,
                          store, named
  <1>2. CASE MissingCSK \/ Reserved
    BY <1>2, KeptLife DEF MissingCSK, Reserved, Raise, store, named
  <1>3. CASE UNCHANGED vars
    BY <1>3, KeptLife DEF vars, store, named
  <1> QED
    BY <1>1, <1>2, <1>3, ManageLife, ConfigureLife, UseLife, AllEmptyLife DEF Next

\* The unit implements the lifecycle of cryptographic contexts (class KLE).
THEOREM ImplementsLifecycle == Spec => LifecycleSpec
  <1>1. Init => Lifecycle!Init
    <2> SUFFICES ASSUME Init PROVE Lifecycle!Init
      OBVIOUS
    <2>1. Phases = [k \in Lockers |-> "unconfigured"] /\ nl = NONE
      BY UnconfiguredClass DEF Init, Phases
    <2> QED
      BY <2>1 DEF Phases, Lifecycle!Init
  <1>2. IInv /\ [Next]_vars => [Lifecycle!Next]_<<Phases, nl>>
    BY NextLife DEF LifeStep
  <1> QED
    BY <1>1, <1>2, Invariance, PTL DEF Spec, LifecycleSpec, Lifecycle!Spec, Phases

=============================================================================
