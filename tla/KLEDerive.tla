----------------------------- MODULE KLEDerive -----------------------------
(***************************************************************************)
(* Class KLE2 (mgmt_ext.py), between two lockers and over many calls:      *)
(* kl.derive, the resolution of System Key Identifiers, and long-running   *)
(* operations, whose progress kl.setst, kl.clearads and kl.clone reset.    *)
(*                                                                         *)
(* Operands are resolved.  Lengths count 8 bytes.  A content is a number:  *)
(* 0, a key, a keystream, or one of the shared secrets of the KEM Machine. *)
(***************************************************************************)
EXTENDS Metadata

CONSTANTS N,          \* number of lockers
          Provided,   \* <<MDH, MachineExtension>> that provisioning and import leave
          sks,        \* System Key Identifiers: MDHs with their policies, and the machines
          Lengths,    \* lengths that software gives kl.derive
          Budgets,    \* steps until an interrupt halts a long-running operation
          LR_STEPS,   \* steps of the long-running operation
          Secrets,    \* shared secrets that are encapsulated
          MaxFields,  \* bound: fields that hold or held one secret
          Modes       \* privilege modes

NoClock == -1
ASSUME DeriveAssumption ==
  /\ N \in Nat \ {0} /\ LR_STEPS \in Nat \ {0} /\ Secrets \in Nat
  /\ Lengths \subseteq Nat /\ Budgets \subseteq Nat \ {0} /\ Modes \subseteq 0..3
\* Metadata that validation lets through (Rule of KeyType 1).
ASSUME ProvidedAssumption ==
  /\ Provided \subseteq MDH \X (0..1) /\ \A ent \in sks : ent.mdh \in MDH
  /\ \A p \in Provided : p[1].KeyType = 1 => p[1].Transparent = 0

VARIABLES L,          \* the lockers
          start,      \* klstart
          mode, debug, clock,
          fields,     \* history: in how many fields each secret has been
          served,     \* history: how many destinations it has reached
          out         \* outcome of the last instruction: "ok", "inert", "trap", "error" (an Error State
                      \* was entered) or "refused" (kl.clone destroyed its destination and trapped)

vars == <<L, start, mode, debug, clock, fields, served, out>>

Lockers == 1..N
Key       == Secrets + 1
Keystream == Secrets + 2
CONTENTLEN == [mach \in CONTENT |-> IF mach \in {"M_SIG", "M_KEM", "M_KEY32"} THEN 4 ELSE 2]

\* work, imported and origins are history: the steps done since the operation began, the MachineUse
\* that the CC came with while the operation has not begun, and the Metadata of the CCs whose
\* restricted secrets came into the content, and that they came into.
Free == [mdh |-> ZeroMDH, mx |-> 0, content |-> 0, steps |-> 0, work |-> 0, imported |-> 0, origins |-> {}]
Put(k, l) == L' = [L EXCEPT ![k] = l]
\* What else the MDH of an Error State keeps is in KLEMgmt.
err(se) == [Free EXCEPT !.mdh.StateExtension = se]

Init ==
  /\ L = [k \in Lockers |-> Free] /\ start = 0
  /\ mode \in Modes /\ debug \in {"no", "debug", "authenticated"} /\ clock \in {NoClock, 0}
  /\ fields = [s \in 1..Secrets |-> 0] /\ served = fields /\ out = "ok"

\* Metadata narrowing of dmd by smd; a failure is the empty set.
Later(a, b) == IF a > b THEN a ELSE b
\* Mutant: no date counts as the earliest.
NarrowDateToNone(a, b) == IF a = 0 \/ b < a THEN b ELSE a
NarrowDate(a, b) == IF a = 0 \/ (b # 0 /\ b < a) THEN b ELSE a
narrow(dmd, smd) ==
  LET a == dmd.Locality
      b == smd.Locality
  IN IF a.s4 # 0 /\ b.s4 # 0 /\ a.s4 # b.s4 THEN {}
     ELSE {[dmd EXCEPT !.UsagePolicy = @ \cap smd.UsagePolicy,
                       !.ExpirationDate = NarrowDate(@, smd.ExpirationDate),
                       !.Locality = [s0 |-> Later(a.s0, b.s0), s2 |-> Later(a.s2, b.s2),
                                     s4 |-> IF a.s4 # 0 THEN a.s4 ELSE b.s4, flags |-> a.flags \cup b.flags]]}
sc_includes(v, w) == w \subseteq v
transparent_leak(dmd, smd) == dmd.Transparent = 1 /\ smd.Transparent = 0
gr40(dmd, smd) ==
  IF ~ sc_includes(dmd.SCProtection, smd.SCProtection) \/ transparent_leak(dmd, smd) THEN {} ELSE narrow(dmd, smd)

-----------------------------------------------------------------------------
\* A CC is provisioned or imported; one with KeyType 1 names a System Key Identifier.
_resolve(m, ent) ==
  IF m.Machine \notin ent.machines \/ ~ (m.MachinePolicy \subseteq ent.mdh.MachinePolicy)
    THEN err(SE_INVALID)
  ELSE IF narrow(m, ent.mdh) = {} \/ ~ sc_includes(m.SCProtection, ent.mdh.SCProtection)
    THEN err(SE_PRIV_VIOLATION)
  ELSE [Free EXCEPT !.mdh = CHOOSE nm \in narrow(m, ent.mdh) : TRUE, !.content = Key,
                    !.imported = m.MachineUse, !.origins = {ent.mdh}]

\* The image of a halted operation brings its MachineUse, but none of its steps.
Admit(p, c) == [Free EXCEPT !.mdh = p[1], !.mx = p[2], !.content = c, !.imported = p[1].MachineUse]
Fresh == {s \in 1..Secrets : fields[s] = 0}
Provide(k, p) ==
  /\ Inert(L[k].mdh)
  /\ \/ p[1].KeyType = 1 /\ \E ent \in sks : Put(k, _resolve(p[1], ent)) /\ UNCHANGED fields
     \/ p[1].KeyType # 1 /\ p[1].State # 2
        /\ Put(k, Admit(p, Key)) /\ UNCHANGED fields
     \/ /\ p[1].State = 2
        /\ \E s \in Fresh : Put(k, Admit(p, s)) /\ fields' = [fields EXCEPT ![s] = 1]
  /\ out' = "ok" /\ UNCHANGED <<start, served, mode, debug, clock>>

-----------------------------------------------------------------------------
\* kl.derive.  A verdict says how it ends and which lockers enter which Error State.
\* Mutant: any mode will do.
MayUseSomewhere(m) == m.UsagePolicy # {}
MayUse(m) == mode \in m.UsagePolicy
Dated(m) == zk /\ m.ExpirationDate # 0
Expired(m) == clock # NoClock /\ clock >= m.ExpirationDate
Verdict(o, ks, se) == [out |-> o, errs |-> ks, se |-> se]

keyf(m) == m.State = 1 /\ m.Machine \in {"M_ENC", "M_KEY", "M_KEY32"} /\ m.KeyType # 1
hin(m)  == m.State = 2 /\ m.Machine = "M_HASH"
sealed(l) == l.mdh.Machine = "M_KEM" /\ l.mx = 1
Pair(d, src) == keyf(L[d].mdh) \/ (hin(L[d].mdh) /\ L[src].mdh.Machine = "M_KEM")
SealedIntoSource(d, src) == sealed(L[src]) /\ L[d].mdh.Machine = "M_ENC"
eff(d, len) == IF keyf(L[d].mdh) /\ CONTENTLEN[L[d].mdh.Machine] < len THEN CONTENTLEN[L[d].mdh.Machine] ELSE len
Fits(d, src, len) ==
  IF keyf(L[d].mdh) THEN /\ len >= CONTENTLEN[L[d].mdh.Machine]
                         /\ L[src].mdh.Machine = "M_KEM" => CONTENTLEN["M_KEM"] >= CONTENTLEN[L[d].mdh.Machine]
  ELSE len % 2 = 0 /\ len = CONTENTLEN["M_KEM"]

\* Rules GR27 to GR31.2, in order.
DeriveVerdict(d, src, len) ==
  LET ms == L[src].mdh
      md == L[d].mdh
  IN IF Inert(ms) \/ Inert(md) THEN Verdict("inert", {}, 0)
     ELSE IF config(ms) \/ config(md) \/ ~ MayUse(ms) \/ ~ MayUse(md) THEN Verdict("trap", {}, 0)
     ELSE IF Dated(ms) /\ Expired(ms) THEN Verdict("error", {src}, SE_EXPIRED)
     ELSE IF clock = NoClock /\ (Dated(ms) \/ Dated(md)) THEN Verdict("trap", {}, 0)
     ELSE IF Dated(md) /\ Expired(md) THEN Verdict("error", {d}, SE_EXPIRED)
     ELSE IF start # 0 THEN Verdict("error", {d}, SE_INVALID)
     ELSE IF ~ (ms.State = 2 /\ ms.Machine \in {"M_KEM", "M_ENC"}) THEN Verdict("error", {src}, SE_INVALID)
     ELSE IF ~ (keyf(md) \/ hin(md)) THEN Verdict("error", {d}, SE_INVALID)
     ELSE IF ~ Pair(d, src) \/ SealedIntoSource(d, src) THEN Verdict("error", {d, src}, SE_INVALID)
     ELSE IF ~ Fits(d, src, len) THEN Verdict("error", {d}, SE_INVALID)
     ELSE IF sealed(L[src]) /\ eff(d, len) < 2 THEN Verdict("error", {src}, SE_INVALID)
     ELSE IF ms.Machine = "M_KEM" /\ gr40(md, ms) = {} THEN Verdict("error", {d}, SE_PRIV_VIOLATION)
     ELSE Verdict("ok", {}, 0)

\* The destination takes the secret, restricted (Rule GR30), or a keystream; a shared secret
\* leaves its field (Rule GR28).
Narrowed(d, src) ==
  IF L[src].mdh.Machine = "M_KEM" THEN CHOOSE nm \in gr40(L[d].mdh, L[src].mdh) : TRUE ELSE L[d].mdh
Taken(d, src) ==
  LET nm == Narrowed(d, src) IN
  [L[d] EXCEPT !.mdh = IF sealed(L[src]) /\ hin(nm) THEN [nm EXCEPT !.StateExtension = 2] ELSE nm,
               !.content = IF L[src].mdh.Machine = "M_KEM" THEN L[src].content ELSE Keystream,
               !.origins = IF L[src].mdh.Machine = "M_KEM" THEN @ \cup L[src].origins \cup {L[src].mdh, L[d].mdh} ELSE {}]
\* Mutant: the field keeps the secret.
SpentKeepingSecret(src) == IF L[src].mdh.Machine = "M_KEM" THEN [L[src] EXCEPT !.mdh.State = 1] ELSE L[src]
Spent(src) == IF L[src].mdh.Machine = "M_KEM" THEN [L[src] EXCEPT !.mdh.State = 1, !.content = 0] ELSE L[src]
Serve(l) == IF l.mdh.Machine = "M_KEM" /\ l.content # 0 THEN [served EXCEPT ![l.content] = @ + 1] ELSE served
derive(d, src, len) ==
  LET v == DeriveVerdict(d, src, len) IN
  /\ d # src /\ out' = v.out
  /\ IF v.out = "ok"
       THEN L' = [L EXCEPT ![d] = Taken(d, src), ![src] = Spent(src)] /\ served' = Serve(L[src])
       ELSE L' = [k \in Lockers |-> IF k \in v.errs THEN err(v.se) ELSE L[k]] /\ UNCHANGED served
  /\ UNCHANGED <<start, fields, mode, debug, clock>>

-----------------------------------------------------------------------------
\* The usage instructions: the State class, the gate (Debug mode has a bit of its own and does
\* not look at dates), the Machine.
usage_gate(m) ==
  IF debug # "no" THEN IF 4 \in m.UsagePolicy /\ (debug = "authenticated" \/ 0..mode \subseteq m.UsagePolicy)
                         THEN "pass" ELSE "trap"
  ELSE IF ~ MayUse(m) \/ (Dated(m) /\ clock = NoClock) THEN "trap"
  ELSE IF Dated(m) /\ Expired(m) THEN "expired" ELSE "pass"
\* done is the locker that an admitted instruction leaves, and how it ends.
Gated(k, admitted, done) ==
  LET m == L[k].mdh IN
  /\ CASE Inert(m) -> UNCHANGED L /\ out' = "inert"
       [] config(m) -> UNCHANGED L /\ out' = "trap"
       [] ~ Inert(m) /\ ~ config(m) /\ usage_gate(m) = "trap" -> UNCHANGED L /\ out' = "trap"
       [] ~ Inert(m) /\ ~ config(m) /\ usage_gate(m) = "expired" -> Put(k, err(SE_EXPIRED)) /\ out' = "error"
       [] ~ Inert(m) /\ ~ config(m) /\ usage_gate(m) = "pass" ->
            IF admitted THEN Put(k, done[1]) /\ out' = done[2] ELSE Put(k, err(SE_INVALID)) /\ out' = "error"
  /\ UNCHANGED <<fields, served, mode, debug, clock>>

\* A kl.setst restarts the operation of the signature Machine.
\* Mutant: only the reported progress restarts.
RestartedInName(l) == [l EXCEPT !.work = 0, !.imported = 0, !.mdh.MachineUse = IF l.mdh.Machine = "M_SIG" THEN 0 ELSE @]
Restarted(l) ==
  [l EXCEPT !.steps = 0, !.work = 0, !.imported = 0, !.mdh.MachineUse = IF l.mdh.Machine = "M_SIG" THEN 0 ELSE @]
setst(k, target) ==
  Gated(k, admits_setst(L[k].mdh, target), <<Restarted([L[k] EXCEPT !.mdh.State = target]), "ok">>) /\ UNCHANGED start

LongRunning(m) == m.Machine = "M_SIG" /\ m.State = 3
Reports(l, n) == [l EXCEPT !.steps = n, !.work = n, !.imported = 0, !.mdh.MachineUse = n]
\* Mutant: every reissue starts from the beginning.
ProgressFromScratch(l, budget) == IF budget >= LR_STEPS THEN <<Reports(l, 0), "ok">> ELSE <<Reports(l, budget), "ok">>
Progress(l, budget) ==
  IF l.steps + budget >= LR_STEPS THEN <<Reports(l, 0), "ok">> ELSE <<Reports(l, l.steps + budget), "ok">>
lr(k, budget) ==
  /\ Gated(k, admits_exec(L[k].mdh), IF LongRunning(L[k].mdh) THEN Progress(L[k], budget) ELSE <<L[k], "ok">>)
  /\ start' = IF out' \in {"trap", "error"} THEN start ELSE 0

WithoutADS(l) ==
  LET m == [l.mdh EXCEPT !.AuxDataLen = 0, !.ADSDropped = 0, !.MachineUse = 0, !.AuxInfo = 0] IN
  [l EXCEPT !.mdh = m, !.work = 0, !.imported = 0, !.steps = IF m.Machine = "M_SIG" /\ m.State \in {2, 3} THEN 0 ELSE @]
clearads(k) == Gated(k, TRUE, <<WithoutADS(L[k]), "ok">>) /\ UNCHANGED start

\* The copy restarts the operation; a copy of a field is a field.
Copy(l) ==
  [l EXCEPT !.steps = 0, !.work = 0, !.imported = 0,
            !.mdh.MachineUse = IF l.mdh.Machine = "M_SIG" /\ l.mdh.State \in {2, 3} THEN 0 ELSE @]
_clone(d, src) ==
  LET m == L[src].mdh IN
  /\ d # src
  /\ Put(d, IF Inert(m) THEN [Free EXCEPT !.mdh = m] ELSE IF config(m) THEN Free ELSE Copy(L[src]))
  /\ out' = IF config(m) THEN "refused" ELSE "ok"
  /\ IF L[src].content # 0 /\ m.Machine = "M_KEM"
       THEN fields[L[src].content] < MaxFields /\ fields' = [fields EXCEPT ![L[src].content] = @ + 1]
       ELSE UNCHANGED fields
  /\ UNCHANGED <<start, served, mode, debug, clock>>
rename(d, src) ==
  /\ d # src /\ L' = [L EXCEPT ![d] = L[src], ![src] = Free]
  /\ out' = "ok" /\ UNCHANGED <<start, fields, served, mode, debug, clock>>
clear(k) == Put(k, Free) /\ out' = "ok" /\ UNCHANGED <<start, fields, served, mode, debug, clock>>

setks(v) == start' = v /\ out' = "ok" /\ UNCHANGED <<L, fields, served, mode, debug, clock>>
Tick == clock # NoClock /\ clock < MaxDate /\ clock' = clock + 1
        /\ UNCHANGED <<L, start, fields, served, mode, debug, out>>
Enter(p) == mode' = p /\ p # mode /\ UNCHANGED <<L, start, fields, served, debug, clock, out>>

Next ==
  \/ \E k \in Lockers :
       \/ \E p \in Provided : Provide(k, p)
       \/ \E d \in Lockers, len \in Lengths : derive(d, k, len)
       \/ \E t \in 1..3 : setst(k, t)
       \/ \E b \in Budgets : lr(k, b)
       \/ clearads(k) \/ clear(k)
       \/ \E d \in Lockers : _clone(d, k) \/ rename(d, k)
  \/ \E v \in 0..1 : setks(v)
  \/ Tick
  \/ \E p \in Modes : Enter(p)

\* Software reissues a long-running operation that an interrupt halted.
Spec == Init /\ [][Next]_vars /\ \A k \in Lockers : WF_vars(\E b \in Budgets : lr(k, b))
=============================================================================
