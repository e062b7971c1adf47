---------------------------- MODULE KLEMgmtProps ----------------------------
(***************************************************************************)
(* What makes the KLE unit of KLEMgmt correct.                             *)
(***************************************************************************)
EXTENDS KLEMgmt

(* Capacity ****************************************************************)

\* Capacity is neither lost nor created: the free slots and the slots that
\* lockers hold always add up to the capacity of the unit, whatever sequence
\* of openings, clones, moves, errors and traps frees and allocates them.
CapacityConserved == slots + Cardinality(Held) = Capacity

\* A locker holds a slot exactly while it is configured.  However it came into
\* an Error State (err, setste, a short import), it has released the slot, has
\* no content and no tag, announces no ADS and none that was dropped, and has
\* neither a Version of 3 nor a KeyType of 2.  The other fields of its MDH are
\* those of the CC: MachineUse too, which Rule GR15 zeroes and err does not
\* (see README.md).  An Unconfigured locker keeps nothing at all.
Emptied(l) ==
  /\ l.slot <=> ~Inert(l.mdh)
  /\ Inert(l.mdh) =>
       /\ l = Bare(l.mdh)
       /\ l.mdh.AuxDataLen = 0 /\ l.mdh.ADSDropped = 0
       /\ l.mdh.Version # 3 /\ l.mdh.KeyType # 2
  /\ IsUnconfigured(l.mdh) => l.mdh = ZeroMDH
InertIsCleared == \A k \in Lockers : Emptied(L[k])

\* The contents left in released slots belong to slots that are free now, so
\* an allocation never takes the remains of a slot that another locker holds.
PoolBacksFreeSlots == Len(pool) <= slots

(* Management operations ***************************************************)

\* A locker in a Configuration State or a Valid State has the Metadata of it:
\* a system-specific Version only during an SCC operation, the placeholder of
\* a random key (KeyType 2) only before the provisioning that draws the key,
\* no ADS in an operation on a Provisioning Input.
Shaped(m) ==
  ~Inert(m) =>
    /\ m.State \in ValidStates \cup ConfigStates
    /\ m.Version = 3 => m.State \in SCC_STATES
    /\ m.KeyType = 2 => m.State \in PI_STATES
    /\ m.State \in PI_STATES => m.AuxDataLen = 0 /\ m.ADSDropped = 0
    /\ 2 \notin m.SCProtection
ConfiguredShape == \A k \in Lockers : Shaped(L[k].mdh)

\* An instruction that traps leaves every locker as it was, but for a locker
\* that its destructive step has made Unconfigured: no trap of an opening, a
\* clone, a restriction or a completion leaves a locker half configured.
TrapOnlyDestroys ==
  [][out' \in Traps => \A k \in Lockers : L'[k] = L[k] \/ L'[k] = NoLocker]_vars

\* The content of a locker is one that a configured locker held before the
\* step, or is moved in by the management transfer of the operation under way,
\* or is the key drawn by the completion of a provisioning: what a released
\* slot held does not come back through a later allocation.
ContentLineage ==
  [][\A k \in Lockers :
       \/ L'[k].content = Zero
       \/ \E j \in Lockers : L[j].slot /\ L[j].content = L'[k].content
       \/ /\ nl = k /\ L[k].mdh.State \in {Provisioning, Importing, PPIImporting}
          /\ L'[k].mdh = L[k].mdh
       \/ L[k].mdh.State = Provisioning /\ L[k].mdh.KeyType = 2 /\ L'[k].mdh.State = 1]_vars

\* Policies only narrow.  A configured locker after a step is one that the
\* step opened, or holds the CC of a configured locker before the step, with
\* the same Machine, SCProtection and Transparent bit and no wider policies:
\* no sequence of moves, exports, completions and restrictions widens them.
PoliciesOnlyNarrow ==
  [][\A k \in Lockers :
       \/ Inert(L'[k].mdh)
       \/ /\ L'[k].mdh.State \in {Provisioning, Importing, PPIImporting}
          /\ \E md \in Supplied, immed \in {Provisioning, Importing} :
               L'[k].mdh = OpenedMDH(immed, md)
       \/ \E j \in Lockers :
            /\ ~Inert(L[j].mdh)
            /\ SameBinding(L'[k].mdh, L[j].mdh)
            /\ Tighter(L'[k].mdh, L[j].mdh)]_vars

(* Usage *******************************************************************)

\* A locker moves from one Valid State to another in place only under a mode
\* that its UsagePolicy admits and before its ExpirationDate, the clock
\* saturating at the largest date.
UsageIsGated ==
  [][\A k \in Lockers :
       LET m == L[k].mdh
           n == L'[k].mdh
       IN (/\ IsValid(m) /\ IsValid(n) /\ m.State # n.State
           /\ \A j \in Lockers \ {k} : L'[k].mdh # L[j].mdh)
            => /\ mode \in m.UsagePolicy
               /\ (zk /\ m.ExpirationDate # 0) =>
                    clock # NoClock /\ clock < m.ExpirationDate]_vars

(* Named locker ************************************************************)

\* klnamedlocker follows its locker (Rule GR21).  A step that keeps the name on
\* a locker and changes that locker moves nothing in: no other locker changes,
\* and the CC stays the one that is named, edited in place, or enters its own
\* Error State, or the step is a kl.mgmt on it, which also clears klstart.  So
\* the transfers of an operation go on where they were, on the CC they began with.
NamedLockerKeepsItsCC ==
  [][nl' = nl /\ nl \in Lockers /\ L'[nl] # L[nl] =>
       LET m == L[nl].mdh
           n == L'[nl].mdh
       IN /\ \A k \in Lockers \ {nl} : L'[k] = L[k]
          /\ \/ \E se \in ErrorCodes : n = ErrMDH(m, se)
             \/ ~Inert(m) /\ SameBinding(n, m) /\ Tighter(n, m) /\ (n = m \/ (IsValid(m) /\ IsValid(n)))
             \/ start' = 0 /\ ~Inert(m) /\ SameBinding(n, m) /\ Tighter(n, m)
             \/ start' = 0 /\ (Inert(n) \/ \E md \in Supplied, immed \in {Provisioning, Importing} :
                                              n = OpenedMDH(immed, md))]_vars

(* CSK selection ***********************************************************)

\* The words of a partially written CSK are all for the selected level: when
\* another hart's missing-CSK exception retargets the selection in the middle
\* of an establishment, the words written so far are abandoned.
PartialGroupMatchesSelection == \A i \in DOMAIN csk_partial : csk_partial[i] = csk_sel

(* The abstract lifecycle **************************************************)

Class(m) ==
  CASE IsUnconfigured(m) -> "unconfigured"
    [] Inert(m) /\ ~IsUnconfigured(m) -> "error"
    [] config(m)  -> "config"
    [] OTHER -> "valid"

Lifecycle == INSTANCE CCLifecycle WITH cc <- [k \in Lockers |-> Class(L[k].mdh)], name <- nl

\* The unit implements the lifecycle of cryptographic contexts.
LifecycleSpec == Lifecycle!Spec
-----------------------------------------------------------------------------
(* What Zkl-ISA-unpriv.adoc says of these instructions and mgmt_model.py    *)
(* does not do.                                                            *)

\* An import or export completion into a Valid State authenticates the
\* contents.  _complete compares the tag only in an import, so an import whose
\* export is opened before it completes is completed as an export, unverified.
ValidContentIsVerified == \A k \in Lockers : IsValid(L[k].mdh) => ~L[k].unverified
=============================================================================
