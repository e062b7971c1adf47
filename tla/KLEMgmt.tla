------------------------------ MODULE KLEMgmt ------------------------------
(***************************************************************************)
(* The KLE unit of src/kat/mgmt_model.py (class KLE): a set of lockers,    *)
(* each with an MDH, a content, an authentication tag and possibly a slot  *)
(* of KLF capacity; the named locker; the CSK levels; and one action per   *)
(* instruction.  Any number of harts and handlers may issue instructions,  *)
(* so Next is any instruction with any operand, interleaved with the       *)
(* writes of CSRs by software (mode, clock, LST, CSK).                     *)
(*                                                                         *)
(* Every instruction ends with out, its outcome: "retired" or the trap or  *)
(* exception that it raises.  Instructions that only read (getmd, getst,   *)
(* size, avail, mvout) change nothing and are left out of Next.            *)
(***************************************************************************)
EXTENDS Metadata, Sequences

CONSTANTS
  N,            \* number of lockers (32)
  Capacity,     \* slots of KLF capacity
  zero_alloc,   \* does allocated capacity read as zero?
  multcsk,      \* is Smklmultcsk implemented?
  csk_method,   \* CSK establishment way, 1..4
  Contents,     \* content values
  Zero,         \* the all-zero content
  Tags,         \* authentication tags
  NoTag,        \* the all-zero tag
  toy_tag(_),   \* the toy MAC over a content
  RandomKeys,   \* contents that the RNG may draw
  Supplied,     \* MDHs that software supplies to an opening kl.mgmt
  Images,       \* <<content, tag>> pairs that mvin may carry
  Completions,  \* values of ml.State that a completing kl.mgmt may carry
  Targets,      \* Valid States that kl.setst may name
  Errors,       \* immediates of kl.setste
  Requests,     \* operands of kl.rstr*
  Modes,        \* privilege modes
  InitialCSK,   \* CSK levels in use at reset
  LSTs,         \* LST configurations (sets of configured entries)
  Clocks,       \* initial clock values
  StartValues,  \* values that software writes to klstart
  Withdrawals   \* CSK levels that software may withdraw

NoClock == -1
Levels == SUBSET (0..1)

ASSUME SizeAssumption == N \in Nat \ {0} /\ Capacity \in Nat
ASSUME OptionAssumption == zero_alloc \in BOOLEAN /\ multcsk \in BOOLEAN /\ csk_method \in 1..4
ASSUME ContentAssumption ==
  /\ Zero \in Contents /\ NoTag \in Tags
  /\ \A c \in Contents : toy_tag(c) \in Tags
  /\ RandomKeys \subseteq Contents
  /\ Images \subseteq Contents \X Tags
ASSUME InputAssumption ==
  /\ Supplied \subseteq MDH
  /\ Completions \subseteq 0..63
  /\ Targets \subseteq 1..53
  /\ Errors \subseteq 1..6
  /\ Requests \subseteq RestrictRequest
  /\ Modes \subseteq 0..3
  /\ InitialCSK \in SUBSET Levels
  /\ LSTs \subseteq SUBSET LST
  /\ Clocks \subseteq (0..MaxDate + 1) \cup {NoClock}
  /\ StartValues \subseteq Nat
  /\ Withdrawals \subseteq Levels

Lockers  == 0 .. N - 1
NONE     == N              \* the value 32 of klnamedlocker
KLNL     == N + 1          \* the operand "the named locker"
Operands == Lockers \cup {KLNL}
Traps    == {"illegal", "no_csk", "out_of_memory", "privilege_violation", "clock_unavailable",
             "unsupported"}

VARIABLES
  L,            \* the lockers
  nl,           \* klnamedlocker
  start,        \* klstart
  slots,        \* free slots of KLF capacity
  pool,         \* contents left in released slots, the last released last
  csk_levels,   \* CSK levels in use
  csk_sel,      \* the level that a write to mklcsk establishes
  csk_partial,  \* words of a CSK written so far, each with the level it was meant for
  lst,          \* configured LST entries
  mode,         \* privilege mode of the issuing hart
  clock,        \* the clock of Zklexpire, or NoClock
  out           \* outcome of the last instruction

store == <<L, slots, pool>>
named == <<nl, start>>
csk   == <<csk_levels, csk_sel, csk_partial>>
env   == <<lst, mode, clock>>
vars  == <<store, named, csk, env, out>>

\* unverified is a history field: the content is that of an SCC import whose
\* tag has not been compared.
Locker == [mdh : MDH, content : Contents, tag : Tags, slot : BOOLEAN, unverified : BOOLEAN]

\* A locker that keeps the MDH m and nothing else.
Bare(m)  == [mdh |-> m, content |-> Zero, tag |-> NoTag, slot |-> FALSE, unverified |-> FALSE]
NoLocker == Bare(ZeroMDH)

TypeOK ==
  /\ L \in [Lockers -> Locker]
  /\ nl \in Lockers \cup {NONE}
  /\ start \in Nat
  /\ slots \in Nat
  /\ pool \in Seq(Contents)
  /\ csk_levels \in SUBSET Levels
  /\ csk_sel \in Levels
  /\ csk_partial \in Seq(Levels)
  /\ lst \in SUBSET LST
  /\ mode \in 0..3
  /\ clock \in (0..MaxDate + 1) \cup {NoClock}
  /\ out \in {"retired"} \cup Traps

Init ==
  /\ L = [k \in Lockers |-> NoLocker]
  /\ nl = NONE
  /\ start = 0
  /\ slots = Capacity
  /\ pool = <<>>
  /\ csk_levels = InitialCSK
  /\ csk_sel = {}
  /\ csk_partial = <<>>
  /\ lst \in LSTs
  /\ mode \in Modes
  /\ clock \in Clocks
  /\ out = "retired"

-----------------------------------------------------------------------------
(* Capacity.                                                               *)

SlotsAfterFree(k) == IF L[k].slot THEN slots + 1 ELSE slots
PoolAfterFree(k)  == IF L[k].slot THEN Append(pool, L[k].content) ELSE pool

\* free(k), and then the locker record l, which holds no capacity.
Discard(k, l) ==
  /\ L' = [L EXCEPT ![k] = l]
  /\ slots' = SlotsAfterFree(k)
  /\ pool' = PoolAfterFree(k)

\* Mutant: zero_alloc is ignored.
AllocatedRemains(p) == IF p = <<>> THEN Zero ELSE p[Len(p)]
\* Mutant: the released slot stays in the pool.
PoolKept(p) == p

\* The content of a slot taken from the pool p of released ones.
AllocatedContent(p) == IF zero_alloc \/ p = <<>> THEN Zero ELSE p[Len(p)]
PoolAfterAlloc(p)   == IF p = <<>> THEN <<>> ELSE SubSeq(p, 1, Len(p) - 1)

\* Mutant: capacity is not checked.
AllocateUnchecked(k, l) ==
  /\ slots' = SlotsAfterFree(k) - 1
  /\ pool' = PoolAfterAlloc(PoolAfterFree(k))
  /\ L' = [L EXCEPT ![k] = l]
  /\ out' = "retired"

\* Mutant: the record is written before capacity is checked.
AllocateLate(k, l) ==
  \/ /\ SlotsAfterFree(k) = 0
     /\ Discard(k, [l EXCEPT !.slot = FALSE])
     /\ out' = "out_of_memory"
  \/ /\ SlotsAfterFree(k) > 0
     /\ slots' = SlotsAfterFree(k) - 1
     /\ pool' = PoolAfterAlloc(PoolAfterFree(k))
     /\ L' = [L EXCEPT ![k] = l]
     /\ out' = "retired"

\* free(k), alloc(k), and then the locker record l, which holds the slot.
Allocate(k, l) ==
  \/ /\ SlotsAfterFree(k) = 0
     /\ Discard(k, NoLocker)
     /\ out' = "out_of_memory"
  \/ /\ SlotsAfterFree(k) > 0
     /\ slots' = SlotsAfterFree(k) - 1
     /\ pool' = PoolAfterAlloc(PoolAfterFree(k))
     /\ L' = [L EXCEPT ![k] = l]
     /\ out' = "retired"

\* Mutant: the Error State keeps the slot accounted for.
EnterErrorKeepingSlot(k, m, se) ==
  L' = [L EXCEPT ![k] = Bare(ErrMDH(m, se))] /\ UNCHANGED <<slots, pool>>

\* err(k, se): Rule GR15.
EnterError(k, m, se) == Discard(k, Bare(ErrMDH(m, se)))

-----------------------------------------------------------------------------
(* Outcomes.                                                               *)

common == csk_levels # {}
tgt(o) == IF o = KLNL THEN nl ELSE o

Retire == out' = "retired"
Raise(trap) == out' = trap /\ UNCHANGED <<store, named, csk, env>>
FallThrough  == Retire /\ UNCHANGED <<store, named, csk, env>>
RetireStore  == Retire /\ UNCHANGED <<named, csk, env>>
RetireLocker == Retire /\ UNCHANGED <<slots, pool, named, csk, env>>

\* Every instruction raises no_csk before it looks at a locker (Rule GR12).
MissingCSK == ~common /\ Raise("no_csk")

\* Reserved encodings: KLNL with a locker number, a bad immediate or Form.
Reserved == Raise("illegal")

csk_in_use(m) == m.SCProtection \in csk_levels /\ (multcsk \/ m.SCProtection = csk_sel)

\* Mutant: the words written so far survive the retargeting.
RetargetKeepingWords(m) ==
  /\ out' = "no_csk"
  /\ csk_sel' = IF multcsk /\ csk_method \in {1, 2} THEN m.SCProtection ELSE csk_sel
  /\ UNCHANGED <<csk_partial, csk_levels>>

\* require_csk raises no_csk for the level of m, and retargets the selection.
RaiseLevelCSK(m) ==
  /\ out' = "no_csk"
  /\ csk_sel' = IF multcsk /\ csk_method \in {1, 2} THEN m.SCProtection ELSE csk_sel
  /\ csk_partial' = IF multcsk /\ csk_method = 1 THEN <<>> ELSE csk_partial
  /\ UNCHANGED csk_levels

-----------------------------------------------------------------------------
(* klnamedlocker.                                                          *)

\* klnamedlocker when locker d is overwritten, when src moves to d, and when
\* they exchange.
NameAfterClear(d)     == IF nl = d THEN NONE ELSE nl
\* Mutant: the name does not follow the CC.
NameUnmoved(d, src)   == nl
NameAfterMove(d, src) == IF nl = src THEN d ELSE NameAfterClear(d)
NameAfterSwap(d, src) == IF nl = d THEN src ELSE IF nl = src THEN d ELSE nl

setnl(v) == nl' = v /\ Retire /\ UNCHANGED <<store, start, csk, env>>

-----------------------------------------------------------------------------
(* Destructive configuration.                                              *)

ClearLocker(k) ==
  /\ Discard(k, NoLocker)
  /\ nl' = NameAfterClear(k)
  /\ Retire
  /\ UNCHANGED <<start, csk, env>>

clear(o) ==
  /\ common
  /\ IF tgt(o) = NONE THEN FallThrough ELSE ClearLocker(tgt(o))

\* The lockers release their slots in the order of their numbers.
Held == {k \in Lockers : L[k].slot}

Ascending(s) == \A i, j \in DOMAIN s : i < j => s[i] < s[j]

clearall ==
  /\ common
  /\ L' = [k \in Lockers |-> NoLocker]
  /\ slots' = slots + Cardinality(Held)
  /\ \E order \in [1..Cardinality(Held) -> Held] :
       /\ Ascending(order)
       /\ pool' = pool \o [i \in 1..Cardinality(Held) |-> L[order[i]].content]
  /\ nl' = NONE
  /\ start' = 0
  /\ Retire
  /\ UNCHANGED <<csk, env>>

setste(o, se) ==
  /\ common
  /\ se = SE_EXPIRED => zk
  /\ IF tgt(o) = NONE THEN FallThrough
     ELSE LET k == tgt(o)
              m == IF IsUnconfigured(L[k].mdh) THEN ZeroMDH ELSE L[k].mdh
          IN EnterError(k, m, se) /\ RetireStore

-----------------------------------------------------------------------------
(* Usage instructions on a locker in a Valid State (Rule GR13.5).          *)

\* Mutant: the clock wraps at the width of ExpirationDate.
Wrapped(c)   == c % (MaxDate + 1)
Saturated(c) == IF c > MaxDate THEN MaxDate ELSE c

usage_gate(m) ==
  IF mode \notin m.UsagePolicy THEN "privilege_violation"
  ELSE IF ~zk \/ m.ExpirationDate = 0 THEN "pass"
  ELSE IF clock = NoClock THEN "clock_unavailable"
  ELSE IF Saturated(clock) >= m.ExpirationDate THEN "expired" ELSE "pass"

Expire(k) == EnterError(k, L[k].mdh, SE_EXPIRED) /\ RetireStore
Refuse(k) == EnterError(k, L[k].mdh, SE_INVALID) /\ RetireStore

\* A usage instruction on locker k: the State class, then the gate, then use.
Gated(k, use) ==
  LET m == L[k].mdh IN
  \/ config(m) /\ Raise("privilege_violation")
  \/ IsValid(m) /\ usage_gate(m) \in Traps /\ Raise(usage_gate(m))
  \/ IsValid(m) /\ usage_gate(m) = "expired" /\ Expire(k)
  \/ IsValid(m) /\ usage_gate(m) = "pass" /\ use

\* kl.exec zeroes klstart when it falls through or is performed.
exec(o) ==
  LET k == tgt(o) IN
  /\ common
  /\ IF k = NONE \/ Inert(L[k].mdh)
       THEN start' = 0 /\ Retire /\ UNCHANGED <<store, nl, csk, env>>
       ELSE Gated(k, IF admits_exec(L[k].mdh)
                       THEN start' = 0 /\ Retire /\ UNCHANGED <<store, nl, csk, env>>
                       ELSE Refuse(k))

setst(o, target) ==
  LET k == tgt(o) IN
  /\ common
  /\ IF k = NONE \/ Inert(L[k].mdh)
       THEN FallThrough
       ELSE Gated(k, IF admits_setst(L[k].mdh, target)
                       THEN L' = [L EXCEPT ![k].mdh.State = target] /\ RetireLocker
                       ELSE Refuse(k))

\* kl.setst naming Success, Failure or an undefined immediate, and
\* kl.clearads of a Form other than A, end in Invalid.
setst_refused(o) ==
  LET k == tgt(o) IN
  /\ common
  /\ IF k = NONE \/ Inert(L[k].mdh) THEN FallThrough ELSE Gated(k, Refuse(k))

WithoutADS(m) == [m EXCEPT !.AuxDataLen = 0, !.ADSDropped = 0, !.MachineUse = 0, !.AuxInfo = 0]

clearads(o) ==
  LET k == tgt(o) IN
  /\ common
  /\ IF k = NONE \/ Inert(L[k].mdh)
       THEN FallThrough
       ELSE Gated(k, L' = [L EXCEPT ![k].mdh = WithoutADS(@)] /\ RetireLocker)

\* kl.rstr* is a configuration instruction: no usage gate.
rstr(o, rq) ==
  LET k == tgt(o) IN
  /\ common
  /\ IF k = NONE \/ Inert(L[k].mdh) THEN FallThrough
     ELSE LET m == L[k].mdh IN
          \/ config(m) /\ Raise("privilege_violation")
          \/ IsValid(m) /\ RequestInvalid(rq) /\ Refuse(k)
          \/ /\ IsValid(m) /\ ~RequestInvalid(rq)
             /\ TakesHigh(rq) /\ LocalityRefused(m.Locality, rq.Locality)
             /\ Raise("privilege_violation")
          \/ /\ IsValid(m) /\ ~RequestInvalid(rq)
             /\ ~(TakesHigh(rq) /\ LocalityRefused(m.Locality, rq.Locality))
             /\ L' = [L EXCEPT ![k].mdh = RestrictMDH(m, rq)]
             /\ RetireLocker

-----------------------------------------------------------------------------
(* kl.clone, kl.rename and kl.swap.                                        *)

NoMove(d, src) == d = NONE \/ src = NONE \/ d = src

\* clone clears its destination before it looks at the source.
CloneLocker(d, src) ==
  LET m == L[src].mdh IN
  /\ \/ /\ Inert(m)
        /\ Discard(d, Bare(m))
        /\ Retire
     \/ /\ config(m)
        /\ Discard(d, NoLocker)
        /\ out' = "privilege_violation"
     \/ /\ IsValid(m)
        /\ Allocate(d, [L[src] EXCEPT !.slot = TRUE])
  /\ nl' = NameAfterClear(d)
  /\ UNCHANGED <<start, csk, env>>

clone(od, os) ==
  /\ common
  /\ IF NoMove(tgt(od), tgt(os)) THEN FallThrough ELSE CloneLocker(tgt(od), tgt(os))

RenameLocker(d, src) ==
  /\ L' = [L EXCEPT ![d] = L[src], ![src] = NoLocker]
  /\ slots' = SlotsAfterFree(d)
  /\ pool' = PoolAfterFree(d)
  /\ nl' = NameAfterMove(d, src)
  /\ Retire
  /\ UNCHANGED <<start, csk, env>>

rename(od, os) ==
  LET d == tgt(od)
      src == tgt(os)
  IN
  /\ common
  /\ IF NoMove(d, src) THEN FallThrough
     ELSE IF IsUnconfigured(L[src].mdh) THEN ClearLocker(d) ELSE RenameLocker(d, src)

SwapLockers(d, src) ==
  /\ L' = [L EXCEPT ![d] = L[src], ![src] = L[d]]
  /\ nl' = NameAfterSwap(d, src)
  /\ Retire
  /\ UNCHANGED <<slots, pool, start, csk, env>>

swap(od, os) ==
  /\ common
  /\ IF NoMove(tgt(od), tgt(os)) THEN FallThrough ELSE SwapLockers(tgt(od), tgt(os))

-----------------------------------------------------------------------------
(* kl.mgmt.  With KLNL while klnamedlocker names no locker it only clears  *)
(* klstart; otherwise it names its locker and clears klstart, whatever it  *)
(* does next.                                                              *)

mgmt_inert(o) ==
  /\ common /\ tgt(o) = NONE
  /\ start' = 0 /\ Retire
  /\ UNCHANGED <<store, nl, csk, env>>

\* Mutant: kl.mgmt leaves klnamedlocker alone.
MgmtNamesNothing(k) == start' = 0 /\ UNCHANGED nl

MgmtNames(k) == nl' = k /\ start' = 0

\* The MDH that an opening installs.
DropsADS(md) == md.AuxDataLen >= 2 /\ (md.ADSDropped = 1 \/ md.AuxDataLen > max_ads)

OpenedMDH(immed, md) ==
  IF immed = Provisioning
    THEN [md EXCEPT !.State = Provisioning, !.MachineUse = 0, !.AuxInfo = 0]
    ELSE [md EXCEPT !.State = IF @ \in PI_STATES THEN PPIImporting ELSE Importing,
                    !.ADSDropped = CASE md.Version = 3 -> @
                                     [] OTHER -> IF DropsADS(md) THEN 1 ELSE 0]

OpenedLocker(k, m) ==
  [mdh |-> m, content |-> AllocatedContent(PoolAfterFree(k)), tag |-> NoTag, slot |-> TRUE,
   unverified |-> (m.State = Importing)]

ShortImport(immed, md) == immed = Importing /\ IsErrorState(md)
NeedsLevelCSK(immed, md) == immed = Importing /\ md.Version # 3 /\ md.State \notin PI_STATES

\* The verdict on the supplied MDH once the locker has been cleared.
Verdict(immed, md) == val(lst, md, IF immed = Provisioning THEN "provision" ELSE "import")

OpenLocker(k, immed, md) ==
  LET v == Verdict(immed, md) IN
  \/ /\ v = "invalid"
     /\ Discard(k, Bare(InvalidMDH))
     /\ Retire /\ UNCHANGED csk
  \/ /\ v # "invalid" /\ ShortImport(immed, md)
     /\ Discard(k, Bare(ErrMDH(md, md.StateExtension)))
     /\ Retire /\ UNCHANGED csk
  \/ /\ v = "unsupported" /\ ~ShortImport(immed, md)
     /\ Discard(k, NoLocker)
     /\ out' = "unsupported" /\ UNCHANGED csk
  \/ /\ v = "ok" /\ ~ShortImport(immed, md)
     /\ NeedsLevelCSK(immed, md) /\ ~csk_in_use(md)
     /\ Discard(k, NoLocker)
     /\ RaiseLevelCSK(md)
  \/ /\ v = "ok" /\ ~ShortImport(immed, md)
     /\ NeedsLevelCSK(immed, md) => csk_in_use(md)
     /\ UNCHANGED csk
     /\ Allocate(k, OpenedLocker(k, OpenedMDH(immed, md)))

mgmt_open(o, immed, md) ==
  /\ common /\ tgt(o) # NONE
  /\ OpenLocker(tgt(o), immed, md)
  /\ MgmtNames(tgt(o))
  /\ UNCHANGED env

ExportLocker(k) ==
  LET m == L[k].mdh
      to == IF m.State \in PI_STATES THEN PPIExporting ELSE Exporting
  IN
  \/ /\ Inert(m)
     /\ Retire /\ UNCHANGED <<store, csk>>
  \/ /\ IsValid(m) /\ ~csk_in_use(m)
     /\ RaiseLevelCSK(m) /\ UNCHANGED store
  \/ /\ IsValid(m) /\ csk_in_use(m) /\ ~LocalityConfigured(lst, m)
     /\ Retire /\ UNCHANGED <<store, csk>>
  \/ /\ config(m) \/ (IsValid(m) /\ csk_in_use(m) /\ LocalityConfigured(lst, m))
     /\ L' = [L EXCEPT ![k].mdh.State = to]
     /\ Retire /\ UNCHANGED <<slots, pool, csk>>

mgmt_export(o) ==
  /\ common /\ tgt(o) # NONE
  /\ ExportLocker(tgt(o))
  /\ MgmtNames(tgt(o))
  /\ UNCHANGED env

-----------------------------------------------------------------------------
(* Completion: _complete(k, ml), of which only ml.State matters.           *)

ProvisionedMDH(m) ==
  [m EXCEPT !.State = 1, !.StateExtension = 0, !.MachineUse = 0, !.AuxInfo = 0,
            !.KeyType = IF @ = 2 THEN 0 ELSE @]

CompleteProvisioning(k) ==
  LET m == L[k].mdh IN
  IF m.AuxDataLen # 0 \/ m.ADSDropped # 0
    THEN EnterError(k, m, SE_INVALID)
    ELSE /\ \E key \in IF m.KeyType = 2 THEN RandomKeys ELSE {L[k].content} :
              L' = [L EXCEPT ![k].content = key, ![k].mdh = ProvisionedMDH(m)]
         /\ UNCHANGED <<slots, pool>>

\* The values of ml.State that an export or import in State st admits.
Admitted(m) ==
  IF m.Version = 3
    THEN SCC_STATES \cup (IF m.State = Importing THEN {0} ELSE {})
    ELSE IF m.State \in PI_STATES THEN PI_STATES ELSE ValidStates \cup SCC_STATES

Restore(k, st) ==
  LET m == L[k].mdh
      restored == [m EXCEPT !.State = st]
  IN
  \/ /\ st \in ValidStates /\ ~LocalityConfigured(lst, m)
     /\ EnterError(k, restored, SE_INVALID)
  \/ /\ st \in ValidStates /\ LocalityConfigured(lst, m)
     /\ m.State = Importing /\ L[k].tag # toy_tag(L[k].content)
     /\ EnterError(k, restored, SE_MGMT_AUTH)
  \/ /\ st \in ValidStates /\ LocalityConfigured(lst, m)
     /\ m.State = Importing /\ L[k].tag = toy_tag(L[k].content)
     /\ L' = [L EXCEPT ![k].mdh = restored, ![k].unverified = FALSE]
     /\ UNCHANGED <<slots, pool>>
  \/ /\ st \notin ValidStates \/ (m.State # Importing /\ LocalityConfigured(lst, m))
     /\ L' = [L EXCEPT ![k].mdh = restored]
     /\ UNCHANGED <<slots, pool>>

\* The completion into a Valid State of an SCC operation first needs its CSK.
CompletionNeedsCSK(m, st) == m.State \in SCC_STATES /\ m.Version # 3 /\ st \in ValidStates

CompleteLocker(k, st) ==
  LET m == L[k].mdh IN
  \/ /\ Inert(m)
     /\ Retire /\ UNCHANGED <<store, csk>>
  \/ /\ IsValid(m)
     /\ out' = "illegal" /\ UNCHANGED <<store, csk>>
  \/ /\ m.State = Provisioning
     /\ CompleteProvisioning(k)
     /\ Retire /\ UNCHANGED csk
  \/ /\ config(m) /\ m.State # Provisioning /\ st \notin Admitted(m)
     /\ out' = "illegal" /\ UNCHANGED <<store, csk>>
  \/ /\ config(m) /\ m.State # Provisioning
     /\ st \in Admitted(m) /\ CompletionNeedsCSK(m, st) /\ ~csk_in_use(m)
     /\ RaiseLevelCSK(m) /\ UNCHANGED store
  \/ /\ config(m) /\ m.State # Provisioning /\ st \in Admitted(m) \ {0}
     /\ CompletionNeedsCSK(m, st) => csk_in_use(m)
     /\ Restore(k, st)
     /\ Retire /\ UNCHANGED csk

mgmt_complete(o, st) ==
  /\ common /\ tgt(o) # NONE
  /\ CompleteLocker(tgt(o), st)
  /\ MgmtNames(tgt(o))
  /\ UNCHANGED env

-----------------------------------------------------------------------------
(* Management transfer into the named locker.                              *)

mvin(image) ==
  \/ nl = NONE /\ FallThrough
  \/ nl # NONE /\ Inert(L[nl].mdh) /\ FallThrough
  \/ /\ nl # NONE /\ ~Inert(L[nl].mdh)
     /\ L[nl].mdh.State \notin {Provisioning, Importing, PPIImporting}
     /\ Raise("illegal")
  \/ /\ nl # NONE
     /\ L[nl].mdh.State \in {Provisioning, Importing, PPIImporting}
     /\ L' = [L EXCEPT ![nl].content = image[1], ![nl].tag = image[2]]
     /\ RetireLocker

-----------------------------------------------------------------------------
(* Software writes the CSRs that the instructions read.                    *)

WriteKlstart(v) == start' = v /\ out' = "retired" /\ UNCHANGED <<store, nl, csk, env>>

SwitchMode(m) == mode' = m /\ UNCHANGED <<store, named, csk, lst, clock, out>>

ConfigureLST(c) == lst' = c /\ UNCHANGED <<store, named, csk, mode, clock, out>>

Tick ==
  /\ clock # NoClock /\ clock <= MaxDate
  /\ clock' = clock + 1
  /\ UNCHANGED <<store, named, csk, lst, mode, out>>

\* M-mode establishes the CSK of level csk_sel: in two words under the first
\* establishment way, at once under the second.
WriteCSK ==
  /\ \/ /\ csk_method = 1 /\ Len(csk_partial) = 0
        /\ csk_partial' = Append(csk_partial, csk_sel)
        /\ UNCHANGED csk_levels
     \/ /\ csk_method = 1 /\ Len(csk_partial) = 1
        /\ csk_partial' = <<>>
        /\ csk_levels' = csk_levels \cup {csk_sel}
     \/ /\ csk_method = 2
        /\ csk_levels' = csk_levels \cup {csk_sel}
        /\ UNCHANGED csk_partial
  /\ UNCHANGED <<store, named, csk_sel, env, out>>

WithdrawCSK(level) ==
  /\ csk_levels' = csk_levels \ {level}
  /\ UNCHANGED <<store, named, csk_sel, csk_partial, env, out>>

\* Mutant: a word of a CSK outlives the reset.
WordsKept == csk_partial
WordsAfterReset == IF csk_method = 1 THEN <<>> ELSE csk_partial

\* A reset of the unit, of KLE2: a CSK is forgotten unless its establishment is hardwired.
reset ==
  /\ L' = [k \in Lockers |-> NoLocker]
  /\ slots' = slots + Cardinality(Held)
  /\ pool' = <<>>
  /\ nl' = NONE /\ start' = 0
  /\ csk_levels' = IF csk_method \in {3, 4} THEN csk_levels ELSE {}
  /\ csk_sel' = IF csk_method \in {1, 2} THEN {} ELSE csk_sel
  /\ csk_partial' = WordsAfterReset
  /\ Retire /\ UNCHANGED env

-----------------------------------------------------------------------------
Manage ==
  \/ \E o \in Operands : mgmt_inert(o) \/ mgmt_export(o)
  \/ \E o \in Operands, md \in Supplied, immed \in {Provisioning, Importing} : mgmt_open(o, immed, md)
  \/ \E o \in Operands, st \in Completions : mgmt_complete(o, st)
  \/ \E image \in Images : mvin(image)

Configure ==
  \/ \E v \in Lockers \cup {NONE} : setnl(v)
  \/ \E o \in Operands : clear(o)
  \/ clearall
  \/ \E o \in Operands, se \in Errors : setste(o, se)
  \/ \E o \in Operands, rq \in Requests : rstr(o, rq)
  \/ \E d, src \in Operands : clone(d, src) \/ rename(d, src) \/ swap(d, src)

Use ==
  \/ \E o \in Operands : exec(o) \/ setst_refused(o) \/ clearads(o)
  \/ \E o \in Operands, target \in Targets : setst(o, target)

Environment ==
  \/ \E v \in StartValues : WriteKlstart(v)
  \/ \E m \in Modes : SwitchMode(m)
  \/ \E c \in LSTs : ConfigureLST(c)
  \/ Tick
  \/ WriteCSK
  \/ \E level \in Withdrawals : WithdrawCSK(level)

Next == Manage \/ Configure \/ Use \/ Environment \/ reset \/ MissingCSK \/ Reserved

Spec == Init /\ [][Next]_vars
=============================================================================
