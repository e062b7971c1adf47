--------------------------- MODULE KLEDeriveProps ---------------------------
(***************************************************************************)
(* What makes kl.derive and the long-running operation of KLEDerive right. *)
(***************************************************************************)
EXTENDS KLEDerive

\* A key that a shared secret or a System Key Identifier gave keeps, over any number of derivations,
\* copies and moves, every restriction of all the CCs that the secret went through (Rule GR30:
\* narrow, sc_includes and transparent_leak of common.py, _resolve and derive of mgmt_ext.py).
AsRestricted(m, o) ==
  /\ m.UsagePolicy \subseteq o.UsagePolicy /\ o.SCProtection \subseteq m.SCProtection
  /\ DateTighter(m.ExpirationDate, o.ExpirationDate) /\ LocalityTighter(m.Locality, o.Locality)
  /\ m.Transparent <= o.Transparent
RestrictedKeyStaysRestricted == \A k \in Lockers : \A o \in L[k].origins : AsRestricted(L[k].mdh, o)

\* A shared secret feeds at most as many kl.derive as there were fields that held it, those that
\* still hold it counted: a derivation that served a destination has emptied its field (Rule GR28).
Holding(s) == {k \in Lockers : L[k].mdh.Machine = "M_KEM" /\ L[k].content = s}
SecretServesOnce == \A s \in 1..Secrets : served[s] + Cardinality(Holding(s)) <= fields[s]

\* An instruction that traps changes no locker, and one that ends in Error States has moved and
\* restricted nothing: every other locker is as it was, and a locker is destroyed only by software
\* that may use it, although kl.derive looks at two lockers in turn (Rule GR27).
MayBeUsed(m) == IF debug = "no" THEN mode \in m.UsagePolicy ELSE {4, mode} \cap m.UsagePolicy # {}
RefusalMovesNothing ==
  [][/\ out' \in {"trap", "inert"} => UNCHANGED L
     /\ out' = "error" => \A k \in Lockers : \/ L'[k] = L[k]
                                             \/ L'[k].content = 0 /\ IsErrorState(L'[k].mdh) /\ MayBeUsed(L[k].mdh)]_vars

\* The progress that decides when a long-running operation is done is work done since it began on
\* this CC, and the MachineUse that it reports is that work once it has begun: no kl.setst,
\* kl.clearads or copy leaves old progress behind, and an image with the MachineUse of an operation
\* that was halted reports it until the first kl.exec, which begins anew (usage and lr of
\* mgmt_ext.py, _import_open and _complete of mgmt_model.py).
Reported(l) == IF l.work = 0 THEN l.imported ELSE l.work
ProgressIsWork ==
  \A k \in Lockers : LongRunning(L[k].mdh) => L[k].steps = L[k].work /\ L[k].mdh.MachineUse = Reported(L[k])

\* An operation that software from some point on only reissues, where it may use the CC, ends.
OnlyReissued == <>[][\E k \in Lockers, b \in Budgets : lr(k, b)]_vars
LongRunningEnds ==
  OnlyReissued => \A k \in Lockers : (L[k].steps > 0 /\ usage_gate(L[k].mdh) # "trap") ~> L[k].steps = 0
=============================================================================
