-------------------------- MODULE KLEDerive_proofs --------------------------
(***************************************************************************)
(* Proofs about KLEDerive, for every number of lockers, every set of       *)
(* Metadata that provisioning, import and System Key Identifiers leave,    *)
(* and every length and number of steps.                                   *)
(*                                                                         *)
(* The inductive invariant is Typed, with the three invariants of          *)
(* KLEDeriveProps: each is inductive over typed lockers.  Instructions     *)
(* write one locker or two; what the invariants need of the lockers they   *)
(* write is collected in Sound.                                            *)
(***************************************************************************)
EXTENDS KLEDeriveProps, FiniteSetTheorems, TLAPS

Locker == [mdh : MDH, mx : 0..1, content : 0..Secrets + 2, steps : Nat, work : Nat, imported : Nat,
           origins : SUBSET MDH]

Typed ==
  /\ L \in [Lockers -> Locker]
  /\ fields \in [1..Secrets -> Nat] /\ served \in [1..Secrets -> Nat]

\* A locker whose progress is its work, but for what an image has reported, and whose key is as restricted as its origins.
Sound(l) ==
  /\ l \in Locker
  /\ LongRunning(l.mdh) => l.steps = l.work /\ l.mdh.MachineUse = Reported(l)
  /\ \A o \in l.origins : AsRestricted(l.mdh, o)

AllSound == \A k \in Lockers : Sound(L[k])

-----------------------------------------------------------------------------
(* Metadata.                                                               *)

\* At least as restricted is transitive.
LEMMA AsRestrictedTransitive ==
  ASSUME NEW a \in MDH, NEW b \in MDH, NEW c \in MDH, AsRestricted(a, b), AsRestricted(b, c)
  PROVE  AsRestricted(a, c)
  <1>1. /\ a.ExpirationDate \in Nat /\ b.ExpirationDate \in Nat /\ c.ExpirationDate \in Nat
        /\ a.Transparent \in 0..1 /\ b.Transparent \in 0..1 /\ c.Transparent \in 0..1
        /\ a.Locality \in LocalityType /\ b.Locality \in LocalityType /\ c.Locality \in LocalityType
    BY BoundsAssumption DEF MDH
  <1>2. /\ a.UsagePolicy \subseteq c.UsagePolicy /\ c.SCProtection \subseteq a.SCProtection
        /\ a.Transparent <= c.Transparent
    BY <1>1 DEF AsRestricted
  <1>3. DateTighter(a.ExpirationDate, c.ExpirationDate)
    BY <1>1 DEF AsRestricted, DateTighter
  <1>4. LocalityTighter(a.Locality, c.Locality)
    BY <1>1 DEF AsRestricted, LocalityTighter, SubfieldTighter, LocalityType
  <1> QED
    BY <1>2, <1>3, <1>4 DEF AsRestricted

LEMMA AsRestrictedReflexive ==
  ASSUME NEW a \in MDH
  PROVE  AsRestricted(a, a)
  <1>1. a.ExpirationDate \in Nat /\ a.Transparent \in 0..1 /\ a.Locality \in LocalityType
    BY BoundsAssumption DEF MDH
  <1> QED
    BY <1>1 DEF AsRestricted, DateTighter, LocalityTighter, SubfieldTighter, LocalityType

\* The policies that narrowing descends.
SamePolicies(a, b) ==
  /\ a.UsagePolicy = b.UsagePolicy /\ a.SCProtection = b.SCProtection /\ a.Transparent = b.Transparent
  /\ a.ExpirationDate = b.ExpirationDate /\ a.Locality = b.Locality

LEMMA SamePoliciesRestricted ==
  ASSUME NEW a, NEW b, NEW o, SamePolicies(a, b), AsRestricted(b, o)
  PROVE  AsRestricted(a, o)
  BY DEF SamePolicies, AsRestricted

\* Narrowing d by s leaves d, restricted by both; it keeps every other field.
LEMMA NarrowRestricts ==
  ASSUME NEW d \in MDH, NEW s \in MDH, NEW n \in narrow(d, s)
  PROVE  /\ n \in MDH /\ AsRestricted(n, d)
         /\ s.SCProtection \subseteq d.SCProtection /\ d.Transparent <= s.Transparent => AsRestricted(n, s)
         /\ n.Machine = d.Machine /\ n.State = d.State /\ n.MachineUse = d.MachineUse
  <1> DEFINE a == d.Locality
             b == s.Locality
             loc == [s0 |-> Later(a.s0, b.s0), s2 |-> Later(a.s2, b.s2),
                     s4 |-> IF a.s4 # 0 THEN a.s4 ELSE b.s4, flags |-> a.flags \cup b.flags]
             date == NarrowDate(d.ExpirationDate, s.ExpirationDate)
             use == d.UsagePolicy \cap s.UsagePolicy
  <1>1. /\ ~(a.s4 # 0 /\ b.s4 # 0 /\ a.s4 # b.s4)
        /\ n = [d EXCEPT !.UsagePolicy = use, !.ExpirationDate = date, !.Locality = loc]
    BY DEF narrow
  <1>2. /\ d.ExpirationDate \in 0..MaxDate /\ s.ExpirationDate \in 0..MaxDate
        /\ d.Transparent \in 0..1 /\ s.Transparent \in 0..1
        /\ a \in LocalityType /\ b \in LocalityType
        /\ d.UsagePolicy \in SUBSET (0..4)
    BY DEF MDH
  <1>3. loc \in LocalityType /\ date \in 0..MaxDate /\ use \in SUBSET (0..4)
    BY <1>2, BoundsAssumption DEF LocalityType, Later, NarrowDate
  <1>4. LocalityTighter(loc, a) /\ LocalityTighter(loc, b)
    BY <1>1, <1>2 DEF LocalityTighter, SubfieldTighter, LocalityType, Later
  <1>5. DateTighter(date, d.ExpirationDate) /\ DateTighter(date, s.ExpirationDate)
    BY <1>2, BoundsAssumption DEF DateTighter, NarrowDate
  <1> HIDE DEF loc, date, use, a, b
  <1>6. /\ n \in MDH /\ n.UsagePolicy = use /\ n.ExpirationDate = date /\ n.Locality = loc
        /\ n.SCProtection = d.SCProtection /\ n.Transparent = d.Transparent
        /\ n.Machine = d.Machine /\ n.State = d.State /\ n.MachineUse = d.MachineUse
    BY <1>1, <1>3 DEF MDH
  <1> QED
    BY <1>2, <1>4, <1>5, <1>6 DEF AsRestricted, use, a, b

-----------------------------------------------------------------------------
(* Lockers that instructions leave.                                        *)

LEMMA ZeroMDHType == ZeroMDH \in MDH
  BY BoundsAssumption DEF ZeroMDH, MDH, Unimplemented, NoLocality, LocalityType

LEMMA FreeSound == Sound(Free) /\ Free.content = 0
  <1>1. Free \in Locker
    BY ZeroMDHType, DeriveAssumption DEF Free, Locker
  <1>2. Free.origins = {} /\ ~ LongRunning(Free.mdh) /\ Free.content = 0
    BY DEF Free, LongRunning, ZeroMDH
  <1> QED
    BY <1>1, <1>2 DEF Sound

LEMMA ErrorSound ==
  ASSUME NEW se \in 1..6
  PROVE  Sound(err(se)) /\ err(se).content = 0 /\ IsErrorState(err(se).mdh)
  <1> DEFINE m == [ZeroMDH EXCEPT !.StateExtension = se]
  <1>1. m \in MDH
    BY ZeroMDHType DEF MDH
  <1>2. m.State = 0 /\ m.StateExtension = se
    BY DEF ZeroMDH
  <1>3. err(se) = [Free EXCEPT !.mdh = m]
    BY DEF err, Free
  <1> HIDE DEF m
  <1>4. /\ err(se) \in Locker /\ err(se).mdh = m /\ err(se).origins = {} /\ err(se).content = 0
    BY <1>1, <1>3, FreeSound DEF Free, Locker, Sound
  <1> QED
    BY <1>1, <1>2, <1>4 DEF Sound, LongRunning, IsErrorState, ErrorCodes

\* What provisioning, import and System Key Identifiers put in a locker.
LEMMA ProvidedSound ==
  ASSUME NEW p \in Provided, NEW c \in 0..Secrets + 2
  PROVE  Sound(Admit(p, c)) /\ Admit(p, c).content = c
  <1>1. p[1] \in MDH /\ p[2] \in 0..1 /\ p[1].MachineUse \in Nat
    BY ProvidedAssumption DEF MDH
  <1> DEFINE l == Admit(p, c)
  <1>2. /\ l \in Locker /\ l.mdh = p[1] /\ l.origins = {} /\ l.steps = 0 /\ l.work = 0
        /\ l.imported = p[1].MachineUse /\ l.content = c
    BY <1>1, FreeSound DEF Admit, Free, Locker, Sound
  <1> QED
    BY <1>1, <1>2 DEF Sound, Reported

LEMMA ResolvedSound ==
  ASSUME NEW p \in Provided, p[1].KeyType = 1, NEW ent \in sks
  PROVE  Sound(_resolve(p[1], ent)) /\ _resolve(p[1], ent).content \in {0, Key}
  <1> DEFINE m == p[1]
             n == CHOOSE nm \in narrow(m, ent.mdh) : TRUE
             l == [Free EXCEPT !.mdh = n, !.content = Key, !.imported = m.MachineUse, !.origins = {ent.mdh}]
  <1>1. m \in MDH /\ ent.mdh \in MDH /\ m.Transparent = 0 /\ m.MachineUse \in Nat
    BY ProvidedAssumption DEF MDH
  <1>2. CASE _resolve(m, ent) = l /\ narrow(m, ent.mdh) # {} /\ sc_includes(m.SCProtection, ent.mdh.SCProtection)
    <2>1. n \in narrow(m, ent.mdh)
      BY <1>2
    <2>2. ent.mdh.Transparent \in 0..1
      BY <1>1 DEF MDH
    <2>3. /\ n \in MDH /\ AsRestricted(n, ent.mdh)
          /\ n.Machine = m.Machine /\ n.State = m.State /\ n.MachineUse = m.MachineUse
      BY <1>1, <1>2, <2>1, <2>2, NarrowRestricts DEF sc_includes
    <2> HIDE DEF n
    <2>4. Key \in 0..Secrets + 2 /\ {ent.mdh} \in SUBSET MDH
      BY <1>1, DeriveAssumption DEF Key
    <2>5. /\ l \in Locker /\ l.mdh = n /\ l.origins = {ent.mdh} /\ l.steps = 0 /\ l.work = 0 /\ l.content = Key
          /\ l.imported = m.MachineUse
      BY <1>1, <2>4, <2>3, FreeSound DEF Free, Locker, Sound
    <2> HIDE DEF l
    <2> QED
      BY <1>2, <2>3, <2>5 DEF Sound, Reported
  <1>3. CASE _resolve(m, ent) = err(SE_INVALID) \/ _resolve(m, ent) = err(SE_PRIV_VIOLATION)
    BY <1>3, ErrorSound DEF SE_INVALID, SE_PRIV_VIOLATION
  <1> QED
    BY <1>2, <1>3 DEF _resolve

\* A Metadata change that keeps the policies keeps a locker sound, if its progress is.
LEMMA KeepsSound ==
  ASSUME NEW l, Sound(l), NEW n \in Locker, n.origins = l.origins, SamePolicies(n.mdh, l.mdh),
         LongRunning(n.mdh) => n.steps = n.work /\ n.mdh.MachineUse = Reported(n)
  PROVE  Sound(n)
  BY SamePoliciesRestricted DEF Sound

\* A kl.setst.
LEMMA RestartedSound ==
  ASSUME NEW l, Sound(l), NEW t \in 1..3
  PROVE  LET n == Restarted([l EXCEPT !.mdh.State = t])
         IN Sound(n) /\ n.content = l.content /\ n.mdh.Machine = l.mdh.Machine
  <1> DEFINE m == [l.mdh EXCEPT !.State = t]
             q == [m EXCEPT !.MachineUse = IF m.Machine = "M_SIG" THEN 0 ELSE @]
             n == [l EXCEPT !.mdh = q, !.steps = 0, !.work = 0, !.imported = 0]
  <1>1. l \in Locker /\ l.mdh \in MDH
    BY DEF Sound, Locker
  <1>2. m \in MDH /\ SamePolicies(m, l.mdh) /\ m.Machine = l.mdh.Machine
    BY <1>1 DEF MDH, SamePolicies
  <1>3. Restarted([l EXCEPT !.mdh.State = t]) = n
    <2> DEFINE p == [l EXCEPT !.mdh = m]
    <2>1. [l EXCEPT !.mdh.State = t] = p
      BY <1>1 DEF Locker
    <2>2. p.mdh = m
      BY <1>1 DEF Locker
    <2> HIDE DEF m
    <2>3. Restarted(p) = [p EXCEPT !.steps = 0, !.work = 0, !.imported = 0, !.mdh = q]
      BY <1>1, <2>2 DEF Restarted, Locker
    <2>4. [p EXCEPT !.steps = 0, !.work = 0, !.imported = 0, !.mdh = q] = n
      BY <1>1 DEF Locker
    <2> QED
      BY <2>1, <2>3, <2>4
  <1> HIDE DEF m
  <1>4. q \in MDH /\ SamePolicies(q, l.mdh) /\ q.Machine = l.mdh.Machine /\ (q.Machine = "M_SIG" => q.MachineUse = 0)
    BY <1>2 DEF MDH, SamePolicies
  <1> HIDE DEF q
  <1>5. /\ n \in Locker /\ n.mdh = q /\ n.steps = 0 /\ n.work = 0 /\ n.imported = 0
        /\ n.origins = l.origins /\ n.content = l.content
    BY <1>1, <1>4 DEF Locker
  <1> HIDE DEF n
  <1>6. Sound(n)
    BY <1>4, <1>5, KeepsSound DEF LongRunning, Reported
  <1> QED
    BY <1>3, <1>4, <1>5, <1>6

\* A budget of a long-running operation.
LEMMA ProgressSound ==
  ASSUME NEW l, Sound(l), LongRunning(l.mdh), NEW b \in Nat
  PROVE  LET n == Progress(l, b)[1] IN Sound(n) /\ n.content = l.content /\ n.mdh.Machine = l.mdh.Machine
  <1> DEFINE use == IF l.steps + b >= LR_STEPS THEN 0 ELSE l.steps + b
             q == [l.mdh EXCEPT !.MachineUse = use]
             n == [l EXCEPT !.mdh = q, !.steps = use, !.work = use, !.imported = 0]
  <1>1. /\ l \in Locker /\ l.mdh \in MDH /\ l.steps \in Nat /\ l.work = l.steps
    BY DEF Sound, Locker
  <1>2. use \in Nat
    BY <1>1
  <1>3. Progress(l, b)[1] = n
    <2>1. CASE l.steps + b >= LR_STEPS
      BY <1>1, <2>1 DEF Progress, Reports, Locker
    <2>2. CASE ~ (l.steps + b >= LR_STEPS)
      BY <1>1, <2>2 DEF Progress, Reports, Locker
    <2> QED
      BY <2>1, <2>2
  <1> HIDE DEF use
  <1>4. q \in MDH /\ SamePolicies(q, l.mdh) /\ q.Machine = l.mdh.Machine /\ q.MachineUse = use
    BY <1>1, <1>2 DEF MDH, SamePolicies
  <1> HIDE DEF q
  <1>5. /\ n \in Locker /\ n.mdh = q /\ n.steps = use /\ n.work = use /\ n.imported = 0
        /\ n.origins = l.origins /\ n.content = l.content
    BY <1>1, <1>2, <1>4 DEF Locker
  <1> HIDE DEF n
  <1>6. Sound(n)
    BY <1>4, <1>5, KeepsSound DEF Reported
  <1> QED
    BY <1>3, <1>4, <1>5, <1>6

\* A kl.clearads.
LEMMA WithoutADSSound ==
  ASSUME NEW l, Sound(l)
  PROVE  LET n == WithoutADS(l) IN Sound(n) /\ n.content = l.content /\ n.mdh.Machine = l.mdh.Machine
  <1> DEFINE m == [l.mdh EXCEPT !.AuxDataLen = 0, !.ADSDropped = 0, !.MachineUse = 0, !.AuxInfo = 0]
             e == [l.mdh EXCEPT !.AuxDataLen = 0]
             a == [e EXCEPT !.ADSDropped = 0]
             steps == IF m.Machine = "M_SIG" /\ m.State \in {2, 3} THEN 0 ELSE l.steps
             n == [l EXCEPT !.mdh = m, !.work = 0, !.imported = 0, !.steps = steps]
  <1>1. l \in Locker /\ l.mdh \in MDH /\ l.steps \in Nat
    BY DEF Sound, Locker
  <1>2. m = [a EXCEPT !.MachineUse = 0, !.AuxInfo = 0]
    OBVIOUS
  <1>3. WithoutADS(l) = [l EXCEPT !.mdh = m, !.work = 0, !.imported = 0,
                                  !.steps = IF m.Machine = "M_SIG" /\ m.State \in {2, 3} THEN 0 ELSE @]
    BY DEF WithoutADS
  <1> HIDE DEF m
  <1>4. WithoutADS(l) = n
    BY <1>1, <1>3 DEF Locker
  <1>5. a \in MDH /\ SamePolicies(a, l.mdh) /\ a.Machine = l.mdh.Machine
    <2>1. e \in MDH /\ SamePolicies(e, l.mdh) /\ e.Machine = l.mdh.Machine
      BY <1>1 DEF MDH, SamePolicies
    <2> HIDE DEF e
    <2> QED
      BY <2>1 DEF MDH, SamePolicies
  <1> HIDE DEF a
  <1>6. m \in MDH /\ SamePolicies(m, l.mdh) /\ m.Machine = l.mdh.Machine /\ m.MachineUse = 0
    BY <1>2, <1>5 DEF MDH, SamePolicies
  <1>7. steps \in Nat /\ (LongRunning(m) => steps = 0)
    BY <1>1 DEF LongRunning
  <1> HIDE DEF steps
  <1>8. /\ n \in Locker /\ n.mdh = m /\ n.steps = steps /\ n.work = 0 /\ n.imported = 0
        /\ n.origins = l.origins /\ n.content = l.content
    BY <1>1, <1>6, <1>7 DEF Locker
  <1> HIDE DEF n
  <1>9. Sound(n)
    BY <1>6, <1>7, <1>8, KeepsSound DEF Reported
  <1> QED
    BY <1>4, <1>6, <1>8, <1>9

\* A kl.clone of a locker, and of an inert one.
LEMMA CopySound ==
  ASSUME NEW l, Sound(l)
  PROVE  LET n == Copy(l) IN Sound(n) /\ n.content = l.content /\ n.mdh.Machine = l.mdh.Machine
  <1> DEFINE m == [l.mdh EXCEPT !.MachineUse = IF l.mdh.Machine = "M_SIG" /\ l.mdh.State \in {2, 3} THEN 0 ELSE @]
             n == [l EXCEPT !.mdh = m, !.steps = 0, !.work = 0, !.imported = 0]
  <1>1. l \in Locker /\ l.mdh \in MDH
    BY DEF Sound, Locker
  <1>2. Copy(l) = n
    BY <1>1 DEF Copy, Locker
  <1>3. /\ m \in MDH /\ SamePolicies(m, l.mdh) /\ m.Machine = l.mdh.Machine
        /\ LongRunning(m) => m.MachineUse = 0
    BY <1>1 DEF MDH, SamePolicies, LongRunning
  <1> HIDE DEF m
  <1>4. /\ n \in Locker /\ n.mdh = m /\ n.steps = 0 /\ n.work = 0 /\ n.imported = 0
        /\ n.origins = l.origins /\ n.content = l.content
    BY <1>1, <1>3 DEF Locker
  <1> HIDE DEF n
  <1>5. Sound(n)
    BY <1>3, <1>4, KeepsSound DEF Reported
  <1> QED
    BY <1>2, <1>3, <1>4, <1>5

LEMMA InertCopySound ==
  ASSUME NEW m \in MDH, Inert(m)
  PROVE  LET n == [Free EXCEPT !.mdh = m] IN Sound(n) /\ n.content = 0
  <1> DEFINE n == [Free EXCEPT !.mdh = m]
  <1>1. n \in Locker /\ n.mdh = m /\ n.origins = {} /\ n.content = 0
    BY FreeSound DEF Free, Locker, Sound
  <1>2. ~ LongRunning(m)
    BY DEF LongRunning, Inert
  <1> QED
    BY <1>1, <1>2 DEF Sound

-----------------------------------------------------------------------------
(* kl.derive.                                                              *)

\* What a derivation that is carried out has checked.
LEMMA Admitted ==
  ASSUME NEW d \in Lockers, NEW src \in Lockers, NEW len \in Lengths,
         DeriveVerdict(d, src, len).out = "ok"
  PROVE  /\ L[src].mdh.Machine \in {"M_KEM", "M_ENC"}
         /\ L[d].mdh.Machine \in {"M_ENC", "M_KEY", "M_KEY32", "M_HASH"}
         /\ L[src].mdh.Machine = "M_KEM" => gr40(L[d].mdh, L[src].mdh) # {}
  <1>1. /\ L[src].mdh.State = 2 /\ L[src].mdh.Machine \in {"M_KEM", "M_ENC"}
        /\ keyf(L[d].mdh) \/ hin(L[d].mdh)
        /\ ~ (L[src].mdh.Machine = "M_KEM" /\ gr40(L[d].mdh, L[src].mdh) = {})
    BY DEF DeriveVerdict, Verdict
  <1> QED
    BY <1>1 DEF keyf, hin

\* A derivation that is refused leaves every locker, or puts it in an Error State.
LEMMA RefusedVerdict ==
  ASSUME NEW d \in Lockers, NEW src \in Lockers, NEW len \in Lengths,
         DeriveVerdict(d, src, len).out # "ok"
  PROVE  /\ DeriveVerdict(d, src, len).se \in 1..6 \/ DeriveVerdict(d, src, len).errs = {}
         /\ DeriveVerdict(d, src, len).out \in {"trap", "inert"} => DeriveVerdict(d, src, len).errs = {}
         /\ DeriveVerdict(d, src, len).errs \subseteq {d, src}
         /\ DeriveVerdict(d, src, len).errs # {} => MayUse(L[d].mdh) /\ MayUse(L[src].mdh)
  BY DEF DeriveVerdict, Verdict, SE_EXPIRED, SE_INVALID, SE_PRIV_VIOLATION

\* A locker with new Metadata, content and origins.
LEMMA DerivedSound ==
  ASSUME NEW l \in Locker, NEW n \in MDH, NEW c \in 0..Secrets + 2, NEW os \in SUBSET MDH,
         ~ LongRunning(n), \A o \in os : AsRestricted(n, o)
  PROVE  Sound([l EXCEPT !.mdh = n, !.content = c, !.origins = os])
  <1> DEFINE q == [l EXCEPT !.mdh = n, !.content = c, !.origins = os]
  <1>1. q \in Locker /\ q.mdh = n /\ q.origins = os
    BY DEF Locker
  <1> QED
    BY <1>1 DEF Sound

\* The destination is restricted by the source and by every CC that restricted either before.
LEMMA TakenSound ==
  ASSUME NEW d \in Lockers, NEW src \in Lockers, NEW len \in Lengths, Sound(L[d]), Sound(L[src]),
         DeriveVerdict(d, src, len).out = "ok"
  PROVE  Sound(Taken(d, src)) /\ Taken(d, src).mdh.Machine # "M_KEM"
  <1> DEFINE md == L[d].mdh
             ms == L[src].mdh
             n  == Narrowed(d, src)
             m  == IF sealed(L[src]) /\ hin(n) THEN [n EXCEPT !.StateExtension = 2] ELSE n
             c  == IF ms.Machine = "M_KEM" THEN L[src].content ELSE Keystream
             os == IF ms.Machine = "M_KEM" THEN L[d].origins \cup L[src].origins \cup {ms, md} ELSE {}
  <1>1. /\ L[d] \in Locker /\ L[src] \in Locker /\ md \in MDH /\ ms \in MDH
        /\ L[d].origins \subseteq MDH /\ L[src].origins \subseteq MDH /\ L[src].content \in 0..Secrets + 2
    BY DEF Sound, Locker
  <1>2. md.Machine \in {"M_ENC", "M_KEY", "M_KEY32", "M_HASH"}
    BY Admitted
  <1>3. /\ n \in MDH /\ n.Machine = md.Machine
        /\ ms.Machine = "M_KEM" => AsRestricted(n, md) /\ AsRestricted(n, ms)
    <2>1. CASE ms.Machine = "M_KEM"
      <3>1. gr40(md, ms) # {} /\ n = CHOOSE nm \in gr40(md, ms) : TRUE
        BY <2>1, Admitted DEF Narrowed
      <3>2. n \in narrow(md, ms) /\ ms.SCProtection \subseteq md.SCProtection /\ ~ transparent_leak(md, ms)
        <4>1. n \in gr40(md, ms)
          BY <3>1
        <4> QED
          BY <3>1, <4>1 DEF gr40, sc_includes
      <3>3. md.Transparent <= ms.Transparent
        <4>1. md.Transparent \in 0..1 /\ ms.Transparent \in 0..1
          BY <1>1 DEF MDH
        <4> QED
          BY <3>2, <4>1 DEF transparent_leak
      <3> HIDE DEF n
      <3> QED
        BY <1>1, <3>2, <3>3, NarrowRestricts
    <2>2. CASE ms.Machine # "M_KEM"
      BY <1>1, <2>2 DEF Narrowed
    <2> QED
      BY <2>1, <2>2
  <1> HIDE DEF n
  <1>4. m \in MDH /\ SamePolicies(m, n) /\ m.Machine = md.Machine
    BY <1>3 DEF MDH, SamePolicies
  <1>5. c \in 0..Secrets + 2 /\ os \in SUBSET MDH
    BY <1>1, DeriveAssumption DEF Keystream
  <1>6. \A o \in os : AsRestricted(m, o)
    <2> SUFFICES ASSUME NEW o \in os PROVE AsRestricted(m, o)
      OBVIOUS
    <2>1. ms.Machine = "M_KEM" /\ o \in L[d].origins \cup L[src].origins \cup {ms, md}
      OBVIOUS
    <2>2. o \in MDH
      BY <1>1, <2>1
    <2>3. AsRestricted(n, o)
      <3>1. CASE o \in L[d].origins
        BY <1>1, <1>3, <2>1, <2>2, <3>1, AsRestrictedTransitive DEF Sound
      <3>2. CASE o \in L[src].origins
        BY <1>1, <1>3, <2>1, <2>2, <3>2, AsRestrictedTransitive DEF Sound
      <3> QED
        BY <1>3, <2>1, <3>1, <3>2
    <2> QED
      BY <1>4, <2>3, SamePoliciesRestricted
  <1>7. Taken(d, src) = [L[d] EXCEPT !.mdh = m, !.content = c, !.origins = os]
    BY <1>1 DEF Taken, n, Locker
  <1> HIDE DEF m, c, os
  <1>8. ~ LongRunning(m)
    BY <1>2, <1>4 DEF LongRunning
  <1>9. Sound(Taken(d, src))
    <2>1. L[d] \in Locker /\ m \in MDH
      BY <1>1, <1>4
    <2>2. Sound([L[d] EXCEPT !.mdh = m, !.content = c, !.origins = os])
      BY ONLY <2>1, <1>5, <1>6, <1>8, DerivedSound
    <2> QED
      BY <1>7, <2>2
  <1>10. Taken(d, src).mdh = m
    BY <1>1, <1>7 DEF Locker
  <1> QED
    BY <1>2, <1>4, <1>9, <1>10

\* The source of a secret is left empty; that of a keystream as it was.
LEMMA SpentSound ==
  ASSUME NEW src \in Lockers, Sound(L[src])
  PROVE  /\ Sound(Spent(src))
         /\ L[src].mdh.Machine = "M_KEM" => Spent(src).content = 0
         /\ L[src].mdh.Machine # "M_KEM" => Spent(src) = L[src]
  <1> DEFINE l == L[src]
             m == [l.mdh EXCEPT !.State = 1]
             n == [l EXCEPT !.mdh = m, !.content = 0]
  <1>1. l \in Locker /\ l.mdh \in MDH
    BY DEF Sound, Locker
  <1>2. m \in MDH /\ SamePolicies(m, l.mdh) /\ m.State = 1
    BY <1>1 DEF MDH, SamePolicies
  <1>3. Spent(src) = IF l.mdh.Machine = "M_KEM" THEN n ELSE l
    BY <1>1 DEF Spent, Locker
  <1> HIDE DEF m
  <1>4. n \in Locker /\ n.mdh = m /\ n.content = 0 /\ n.origins = l.origins
    <2>1. 0 \in 0..Secrets + 2
      BY DeriveAssumption
    <2> QED
      BY <1>1, <1>2, <2>1 DEF Locker
  <1> HIDE DEF n
  <1>5. Sound(n)
    BY <1>2, <1>4, KeepsSound DEF LongRunning
  <1> QED
    BY <1>3, <1>4, <1>5

-----------------------------------------------------------------------------
(* Steps.                                                                  *)

\* A usage instruction leaves the store, or writes its locker.
GatedStep(k, n) ==
  /\ UNCHANGED L \/ Put(k, n) \/ Put(k, err(SE_EXPIRED)) \/ Put(k, err(SE_INVALID))
  /\ UNCHANGED <<fields, served>>

LEMMA SetstStep ==
  ASSUME NEW k \in Lockers, NEW t \in 1..3, setst(k, t)
  PROVE  GatedStep(k, Restarted([L[k] EXCEPT !.mdh.State = t]))
  BY DEF setst, Gated, GatedStep, Put, usage_gate

LEMMA ClearadsStep ==
  ASSUME NEW k \in Lockers, clearads(k)
  PROVE  GatedStep(k, WithoutADS(L[k]))
  BY DEF clearads, Gated, GatedStep, Put, usage_gate

LEMMA LrStep ==
  ASSUME NEW k \in Lockers, NEW b \in Budgets, lr(k, b)
  PROVE  GatedStep(k, IF LongRunning(L[k].mdh) THEN Progress(L[k], b)[1] ELSE L[k])
  BY DEF lr, Gated, GatedStep, Put, usage_gate

\* A store in which one locker has been written.
LEMMA PutSound ==
  ASSUME Typed, AllSound, NEW k \in Lockers, NEW n, Sound(n), Put(k, n)
  PROVE  L' \in [Lockers -> Locker] /\ AllSound'
  <1>1. n \in Locker
    BY DEF Sound
  <1>2. L' \in [Lockers -> Locker]
    BY <1>1 DEF Put, Typed
  <1>3. \A j \in Lockers : L'[j] = IF j = k THEN n ELSE L[j]
    BY DEF Put, Typed
  <1> QED
    BY <1>2, <1>3 DEF AllSound, Sound

LEMMA GatedSound ==
  ASSUME Typed, AllSound, NEW k \in Lockers, NEW n, Sound(n), GatedStep(k, n)
  PROVE  L' \in [Lockers -> Locker] /\ AllSound'
  <1>1. Sound(err(SE_EXPIRED)) /\ Sound(err(SE_INVALID))
    BY ErrorSound DEF SE_EXPIRED, SE_INVALID
  <1>2. CASE UNCHANGED L
    BY <1>2 DEF Typed, AllSound, Sound
  <1>3. CASE Put(k, n) \/ Put(k, err(SE_EXPIRED)) \/ Put(k, err(SE_INVALID))
    BY <1>1, <1>3, PutSound
  <1> QED
    BY <1>2, <1>3 DEF GatedStep

LEMMA ProvideStep ==
  ASSUME NEW k \in Lockers, NEW p \in Provided, Provide(k, p)
  PROVE  /\ UNCHANGED served
         /\ \E n : /\ Put(k, n) /\ Sound(n)
                   /\ \/ UNCHANGED fields /\ n.content \in {0, Key}
                      \/ \E s \in Fresh : n.content = s /\ fields' = [fields EXCEPT ![s] = 1]
  <1>1. CASE p[1].KeyType = 1 /\ \E ent \in sks : Put(k, _resolve(p[1], ent)) /\ UNCHANGED fields
    BY <1>1, ResolvedSound DEF Provide
  <1>2. Key \in 0..Secrets + 2 /\ \A s \in Fresh : s \in 0..Secrets + 2
    BY DeriveAssumption DEF Key, Fresh
  <1>3. CASE Put(k, Admit(p, Key)) /\ UNCHANGED fields
    BY <1>2, <1>3, ProvidedSound DEF Provide
  <1>4. CASE \E s \in Fresh : Put(k, Admit(p, s)) /\ fields' = [fields EXCEPT ![s] = 1]
    <2>1. PICK s \in Fresh : Put(k, Admit(p, s)) /\ fields' = [fields EXCEPT ![s] = 1]
      BY <1>4
    <2>2. Sound(Admit(p, s)) /\ Admit(p, s).content = s
      BY <1>2, ProvidedSound
    <2>3. UNCHANGED served
      BY DEF Provide
    <2> QED
      BY <2>1, <2>2, <2>3
  <1> QED
    BY <1>1, <1>3, <1>4 DEF Provide

LEMMA DeriveSound ==
  ASSUME Typed, AllSound, NEW d \in Lockers, NEW src \in Lockers, NEW len \in Lengths, derive(d, src, len)
  PROVE  L' \in [Lockers -> Locker] /\ AllSound'
  <1> DEFINE v == DeriveVerdict(d, src, len)
  <1>1. Sound(L[d]) /\ Sound(L[src]) /\ d # src
    BY DEF AllSound, derive
  <1>2. CASE v.out = "ok"
    <2>1. Sound(Taken(d, src)) /\ Sound(Spent(src))
      BY <1>1, <1>2, TakenSound, SpentSound
    <2>2. L' = [L EXCEPT ![d] = Taken(d, src), ![src] = Spent(src)]
      BY <1>2 DEF derive
    <2>3. Taken(d, src) \in Locker /\ Spent(src) \in Locker
      BY <2>1 DEF Sound
    <2>4. L' \in [Lockers -> Locker]
      BY <2>2, <2>3 DEF Typed
    <2>5. \A j \in Lockers : L'[j] = Taken(d, src) \/ L'[j] = Spent(src) \/ L'[j] = L[j]
      BY <2>2 DEF Typed
    <2> QED
      BY <2>1, <2>4, <2>5 DEF AllSound, Sound
  <1>3. CASE v.out # "ok"
    <2>1. L' = [j \in Lockers |-> IF j \in v.errs THEN err(v.se) ELSE L[j]]
      BY <1>3 DEF derive
    <2>2. v.errs # {} => Sound(err(v.se))
      BY <1>3, RefusedVerdict, ErrorSound
    <2>3. \A j \in Lockers : Sound(L'[j])
      BY <2>1, <2>2 DEF AllSound
    <2> QED
      BY <2>1, <2>3 DEF AllSound, Sound
  <1> QED
    BY <1>2, <1>3

LEMMA CloneStep ==
  ASSUME AllSound, NEW d \in Lockers, NEW src \in Lockers, _clone(d, src)
  PROVE  /\ UNCHANGED served
         /\ \E n : Put(d, n) /\ Sound(n) /\ (n.content = 0 \/ n = Copy(L[src]))
  <1> DEFINE m == L[src].mdh
  <1>1. Sound(L[src]) /\ m \in MDH
    BY DEF AllSound, Sound, Locker
  <1>2. CASE Inert(m) /\ Put(d, [Free EXCEPT !.mdh = m])
    BY <1>1, <1>2, InertCopySound DEF _clone
  <1>3. CASE Put(d, Free)
    BY <1>3, FreeSound DEF _clone
  <1>4. CASE Put(d, Copy(L[src]))
    BY <1>1, <1>4, CopySound DEF _clone
  <1> QED
    BY <1>2, <1>3, <1>4 DEF _clone

LEMMA RenameSound ==
  ASSUME Typed, AllSound, NEW d \in Lockers, NEW src \in Lockers, rename(d, src)
  PROVE  L' \in [Lockers -> Locker] /\ AllSound'
  <1>1. L' = [L EXCEPT ![d] = L[src], ![src] = Free]
    BY DEF rename
  <1>2. \A j \in Lockers : L'[j] = L[src] \/ L'[j] = Free \/ L'[j] = L[j]
    BY <1>1 DEF Typed
  <1>3. \A j \in Lockers : Sound(L'[j])
    BY <1>2, FreeSound DEF AllSound
  <1>4. L' \in [Lockers -> Locker]
    BY <1>1, FreeSound DEF Typed, Sound
  <1> QED
    BY <1>3, <1>4 DEF AllSound, Sound

\* Every step leaves sound lockers.
LEMMA NextSound ==
  ASSUME Typed, AllSound, [Next]_vars
  PROVE  L' \in [Lockers -> Locker] /\ AllSound'
  <1>1. ASSUME NEW k \in Lockers, NEW p \in Provided, Provide(k, p)
        PROVE  L' \in [Lockers -> Locker] /\ AllSound'
    BY <1>1, ProvideStep, PutSound
  <1>2. ASSUME NEW d \in Lockers, NEW k \in Lockers, NEW len \in Lengths, derive(d, k, len)
        PROVE  L' \in [Lockers -> Locker] /\ AllSound'
    BY <1>2, DeriveSound
  <1>3. ASSUME NEW k \in Lockers, NEW t \in 1..3, setst(k, t)
        PROVE  L' \in [Lockers -> Locker] /\ AllSound'
    <2>1. Sound(Restarted([L[k] EXCEPT !.mdh.State = t]))
      BY RestartedSound DEF AllSound
    <2> QED
      BY <1>3, <2>1, SetstStep, GatedSound
  <1>4. ASSUME NEW k \in Lockers, NEW b \in Budgets, lr(k, b)
        PROVE  L' \in [Lockers -> Locker] /\ AllSound'
    <2>1. b \in Nat /\ Sound(L[k])
      BY DeriveAssumption DEF AllSound
    <2>2. Sound(IF LongRunning(L[k].mdh) THEN Progress(L[k], b)[1] ELSE L[k])
      BY <2>1, ProgressSound
    <2> QED
      BY <1>4, <2>2, LrStep, GatedSound
  <1>5. ASSUME NEW k \in Lockers, clearads(k)
        PROVE  L' \in [Lockers -> Locker] /\ AllSound'
    <2>1. Sound(WithoutADS(L[k]))
      BY WithoutADSSound DEF AllSound
    <2> QED
      BY <1>5, <2>1, ClearadsStep, GatedSound
  <1>6. ASSUME NEW k \in Lockers, clear(k)
        PROVE  L' \in [Lockers -> Locker] /\ AllSound'
    BY <1>6, FreeSound, PutSound DEF clear
  <1>7. ASSUME NEW d \in Lockers, NEW k \in Lockers, _clone(d, k)
        PROVE  L' \in [Lockers -> Locker] /\ AllSound'
    BY <1>7, CloneStep, PutSound
  <1>8. ASSUME NEW d \in Lockers, NEW k \in Lockers, rename(d, k)
        PROVE  L' \in [Lockers -> Locker] /\ AllSound'
    BY <1>8, RenameSound
  <1>9. ASSUME UNCHANGED L
        PROVE  L' \in [Lockers -> Locker] /\ AllSound'
    BY <1>9 DEF Typed, AllSound, Sound
  <1>10. CASE \/ \E v \in 0..1 : setks(v)
              \/ Tick
              \/ \E p \in Modes : Enter(p)
              \/ UNCHANGED vars
    BY <1>9, <1>10 DEF setks, Tick, Enter, vars
  <1> QED
    BY <1>1, <1>2, <1>3, <1>4, <1>5, <1>6, <1>7, <1>8, <1>10 DEF Next

-----------------------------------------------------------------------------
(* Secrets.                                                                *)

LEMMA LockersFinite == IsFiniteSet(Lockers)
  BY DeriveAssumption, FS_Interval DEF Lockers

\* Counting a set of lockers that loses or gains one.
LEMMA Counting ==
  ASSUME NEW S \in SUBSET Lockers, NEW T \in SUBSET Lockers, NEW a \in Lockers, NEW b \in Lockers
  PROVE  /\ Cardinality(S) \in Nat
         /\ T \subseteq S => Cardinality(T) <= Cardinality(S)
         /\ T \subseteq S \cup {a} => Cardinality(T) <= Cardinality(S) + 1
         /\ a \in S /\ T \subseteq S \ {a} => Cardinality(T) + 1 <= Cardinality(S)
         /\ a \in S /\ T \subseteq (S \ {a}) \cup {b} => Cardinality(T) <= Cardinality(S)
  <1>1. /\ IsFiniteSet(S) /\ IsFiniteSet(T) /\ IsFiniteSet(S \cup {a}) /\ IsFiniteSet(S \ {a})
        /\ IsFiniteSet((S \ {a}) \cup {b})
    BY LockersFinite, FS_Subset
  <1>2. /\ Cardinality(S) \in Nat /\ Cardinality(T) \in Nat /\ Cardinality(S \cup {a}) \in Nat
        /\ Cardinality(S \ {a}) \in Nat /\ Cardinality((S \ {a}) \cup {b}) \in Nat
    BY <1>1, FS_CardinalityType
  <1>3. Cardinality(S \cup {a}) <= Cardinality(S) + 1
    BY <1>1, <1>2, FS_AddElement
  <1>4. a \in S => Cardinality(S \ {a}) = Cardinality(S) - 1
    BY <1>1, FS_RemoveElement
  <1>5. Cardinality((S \ {a}) \cup {b}) <= Cardinality(S \ {a}) + 1
    BY <1>1, <1>2, FS_AddElement
  <1>6. /\ T \subseteq S => Cardinality(T) <= Cardinality(S)
        /\ T \subseteq S \cup {a} => Cardinality(T) <= Cardinality(S \cup {a})
        /\ T \subseteq S \ {a} => Cardinality(T) <= Cardinality(S \ {a})
        /\ T \subseteq (S \ {a}) \cup {b} => Cardinality(T) <= Cardinality((S \ {a}) \cup {b})
    BY <1>1, FS_Subset
  <1> QED
    BY <1>2, <1>3, <1>4, <1>5, <1>6

HoldingInv == Typed /\ AllSound /\ SecretServesOnce

\* A step after which no locker holds a secret that it did not hold.
LEMMA NoNewHolder ==
  ASSUME HoldingInv, UNCHANGED <<fields, served>>,
         \A s \in 1..Secrets : Holding(s)' \subseteq Holding(s)
  PROVE  SecretServesOnce'
  <1> SUFFICES ASSUME NEW s \in 1..Secrets
               PROVE  served[s] + Cardinality(Holding(s)') <= fields[s]
    BY DEF SecretServesOnce
  <1>1. Holding(s) \in SUBSET Lockers /\ Holding(s)' \in SUBSET Lockers
    BY DEF Holding
  <1>2. 1 \in Lockers
    BY DeriveAssumption DEF Lockers
  <1>3. /\ Cardinality(Holding(s)') <= Cardinality(Holding(s))
        /\ Cardinality(Holding(s)) \in Nat /\ Cardinality(Holding(s)') \in Nat
    BY <1>1, <1>2, Counting
  <1>4. served[s] \in Nat /\ fields[s] \in Nat /\ served[s] + Cardinality(Holding(s)) <= fields[s]
    BY DEF HoldingInv, Typed, SecretServesOnce
  <1> QED
    BY <1>3, <1>4

\* One locker is written, and its secret, if any, is the one it held.
LEMMA PutHoldsLess ==
  ASSUME HoldingInv, UNCHANGED <<fields, served>>, NEW k \in Lockers, NEW n, Put(k, n),
         \/ n.content \in {0, Key}
         \/ n.content = L[k].content /\ n.mdh.Machine = L[k].mdh.Machine
  PROVE  SecretServesOnce'
  <1>1. \A j \in Lockers : L'[j] = IF j = k THEN n ELSE L[j]
    BY DEF Put, HoldingInv, Typed
  <1>2. \A s \in 1..Secrets : s # 0 /\ s # Key
    BY DeriveAssumption DEF Key
  <1>3. \A s \in 1..Secrets : Holding(s)' \subseteq Holding(s)
    BY <1>1, <1>2 DEF Holding
  <1> QED
    BY <1>3, NoNewHolder

LEMMA GatedHoldsLess ==
  ASSUME HoldingInv, NEW k \in Lockers, NEW n, GatedStep(k, n),
         n.content = L[k].content /\ n.mdh.Machine = L[k].mdh.Machine
  PROVE  SecretServesOnce'
  <1>1. err(SE_EXPIRED).content = 0 /\ err(SE_INVALID).content = 0
    BY ErrorSound DEF SE_EXPIRED, SE_INVALID
  <1>2. CASE UNCHANGED L
    BY <1>2, NoNewHolder DEF GatedStep, Holding
  <1>3. CASE Put(k, n) \/ Put(k, err(SE_EXPIRED)) \/ Put(k, err(SE_INVALID))
    BY <1>1, <1>3, PutHoldsLess DEF GatedStep
  <1> QED
    BY <1>2, <1>3 DEF GatedStep

\* A CC with a fresh secret: one more field, one more holder.
LEMMA ProvideServes ==
  ASSUME HoldingInv, NEW k \in Lockers, NEW p \in Provided, Provide(k, p)
  PROVE  SecretServesOnce'
  <1>1. PICK n : /\ Put(k, n) /\ Sound(n)
                 /\ \/ UNCHANGED fields /\ n.content \in {0, Key}
                    \/ \E s \in Fresh : n.content = s /\ fields' = [fields EXCEPT ![s] = 1]
    BY ProvideStep
  <1>2. UNCHANGED served
    BY ProvideStep
  <1>3. CASE UNCHANGED fields /\ n.content \in {0, Key}
    BY <1>1, <1>2, <1>3, PutHoldsLess
  <1>4. CASE \E f \in Fresh : n.content = f /\ fields' = [fields EXCEPT ![f] = 1]
    <2>1. PICK f \in Fresh : n.content = f /\ fields' = [fields EXCEPT ![f] = 1]
      BY <1>4
    <2> SUFFICES ASSUME NEW s \in 1..Secrets
                 PROVE  served[s] + Cardinality(Holding(s)') <= fields'[s]
      BY <1>2 DEF SecretServesOnce
    <2>2. \A j \in Lockers : L'[j] = IF j = k THEN n ELSE L[j]
      BY <1>1 DEF Put, HoldingInv, Typed
    <2>3. Holding(s) \in SUBSET Lockers /\ Holding(s)' \in SUBSET Lockers
      BY DEF Holding
    <2>4. /\ served[s] \in Nat /\ fields[s] \in Nat /\ served[s] + Cardinality(Holding(s)) <= fields[s]
          /\ fields'[s] = IF s = f THEN 1 ELSE fields[s]
      BY <2>1 DEF HoldingInv, Typed, SecretServesOnce
    <2>5. IF s = f THEN Holding(s)' \subseteq Holding(s) \cup {k} ELSE Holding(s)' \subseteq Holding(s)
      BY <2>1, <2>2 DEF Holding
    <2>6. s = f => fields[s] = 0
      BY <2>1 DEF Fresh
    <2>7. /\ Cardinality(Holding(s)) \in Nat /\ Cardinality(Holding(s)') \in Nat
          /\ Holding(s)' \subseteq Holding(s) => Cardinality(Holding(s)') <= Cardinality(Holding(s))
          /\ Holding(s)' \subseteq Holding(s) \cup {k} => Cardinality(Holding(s)') <= Cardinality(Holding(s)) + 1
      BY <2>3, Counting
    <2> QED
      BY <2>4, <2>5, <2>6, <2>7
  <1> QED
    BY <1>1, <1>3, <1>4

\* A derivation empties the field that it serves from.
LEMMA DeriveServes ==
  ASSUME HoldingInv, NEW d \in Lockers, NEW src \in Lockers, NEW len \in Lengths, derive(d, src, len)
  PROVE  SecretServesOnce'
  <1> DEFINE v == DeriveVerdict(d, src, len)
             l == L[src]
  <1>1. Sound(L[d]) /\ Sound(l) /\ d # src /\ UNCHANGED fields
    BY DEF AllSound, derive, HoldingInv
  <1>2. CASE v.out = "ok"
    <2>1. Taken(d, src).mdh.Machine # "M_KEM"
      BY <1>1, <1>2, TakenSound
    <2>2. /\ l.mdh.Machine = "M_KEM" => Spent(src).content = 0
          /\ l.mdh.Machine # "M_KEM" => Spent(src) = l
      BY <1>1, SpentSound
    <2>3. L' = [L EXCEPT ![d] = Taken(d, src), ![src] = Spent(src)] /\ served' = Serve(l)
      BY <1>2 DEF derive
    <2>4. \A j \in Lockers : L'[j] = IF j = src THEN Spent(src) ELSE IF j = d THEN Taken(d, src) ELSE L[j]
      BY <2>3 DEF HoldingInv, Typed
    <2> HIDE DEF l, v
    <2> SUFFICES ASSUME NEW s \in 1..Secrets
                 PROVE  served'[s] + Cardinality(Holding(s)') <= fields[s]
      BY <1>1 DEF SecretServesOnce
    <2>5. Holding(s) \in SUBSET Lockers /\ Holding(s)' \in SUBSET Lockers
      BY DEF Holding
    <2>6. /\ served[s] \in Nat /\ fields[s] \in Nat /\ served[s] + Cardinality(Holding(s)) <= fields[s]
      BY DEF HoldingInv, Typed, SecretServesOnce
    <2>7. CASE l.mdh.Machine = "M_KEM" /\ l.content = s
      <3>1. src \in Holding(s)
        BY <2>7 DEF Holding, l
      <3>2. Holding(s)' \subseteq Holding(s) \ {src}
        BY <2>1, <2>2, <2>4, <2>7, DeriveAssumption DEF Holding
      <3>3. served'[s] = served[s] + 1
        <4>1. l.content # 0
          BY <2>7, DeriveAssumption
        <4>2. served' = [served EXCEPT ![s] = @ + 1]
          BY <2>3, <2>7, <4>1 DEF Serve
        <4> QED
          BY <4>2 DEF HoldingInv, Typed
      <3>4. /\ Cardinality(Holding(s)) \in Nat /\ Cardinality(Holding(s)') \in Nat
            /\ Cardinality(Holding(s)') + 1 <= Cardinality(Holding(s))
        BY <2>5, <3>1, <3>2, Counting
      <3> QED
        BY <2>6, <3>3, <3>4
    <2>8. CASE ~ (l.mdh.Machine = "M_KEM" /\ l.content = s)
      <3>1. Holding(s)' \subseteq Holding(s)
        BY <2>1, <2>2, <2>4, <2>8, DeriveAssumption DEF Holding, l
      <3>2. served'[s] = served[s]
        BY <2>3, <2>8 DEF Serve, HoldingInv, Typed
      <3>3. /\ Cardinality(Holding(s)) \in Nat /\ Cardinality(Holding(s)') \in Nat
            /\ Cardinality(Holding(s)') <= Cardinality(Holding(s))
        BY <2>5, <3>1, Counting
      <3> QED
        BY <2>6, <3>2, <3>3
    <2> QED
      BY <2>7, <2>8
  <1>3. CASE v.out # "ok"
    <2>1. L' = [j \in Lockers |-> IF j \in v.errs THEN err(v.se) ELSE L[j]] /\ UNCHANGED served
      BY <1>3 DEF derive
    <2>2. v.errs # {} => err(v.se).content = 0
      BY <1>3, RefusedVerdict, ErrorSound
    <2> HIDE DEF v
    <2>3. \A s \in 1..Secrets : s # 0
      BY DeriveAssumption
    <2>4. \A j \in Lockers : L'[j] = L[j] \/ L'[j].content = 0
      BY <2>1, <2>2
    <2>5. \A s \in 1..Secrets : Holding(s)' \subseteq Holding(s)
      BY <2>3, <2>4 DEF Holding
    <2> QED
      BY <1>1, <2>1, <2>5, NoNewHolder
  <1> QED
    BY <1>2, <1>3

\* A copy of a field is one more field.
LEMMA CloneServes ==
  ASSUME HoldingInv, NEW d \in Lockers, NEW src \in Lockers, _clone(d, src)
  PROVE  SecretServesOnce' /\ (fields \in [1..Secrets -> Nat])'
  <1> DEFINE l == L[src]
  <1>1. PICK n : Put(d, n) /\ Sound(n) /\ (n.content = 0 \/ n = Copy(l))
    BY CloneStep DEF HoldingInv
  <1>2. UNCHANGED served /\ fields \in [1..Secrets -> Nat] /\ served \in [1..Secrets -> Nat]
    BY CloneStep DEF HoldingInv, Typed
  <1>3. n.content = 0 \/ (n.content = l.content /\ n.mdh.Machine = l.mdh.Machine)
    BY <1>1, CopySound DEF HoldingInv, AllSound
  <1>4. \A j \in Lockers : L'[j] = IF j = d THEN n ELSE L[j]
    BY <1>1 DEF Put, HoldingInv, Typed
  <1>5. fields' = IF l.content # 0 /\ l.mdh.Machine = "M_KEM" THEN [fields EXCEPT ![l.content] = @ + 1] ELSE fields
    BY DEF _clone
  <1> HIDE DEF l
  <1>6. \A s \in 1..Secrets : fields'[s] = IF l.content = s /\ l.mdh.Machine = "M_KEM" THEN fields[s] + 1 ELSE fields[s]
    <2>1. CASE l.content # 0 /\ l.mdh.Machine = "M_KEM"
      <3>1. fields' = [fields EXCEPT ![l.content] = @ + 1]
        BY <1>5, <2>1
      <3> QED
        BY <1>2, <2>1, <3>1
    <2>2. CASE ~ (l.content # 0 /\ l.mdh.Machine = "M_KEM")
      <3>1. fields' = fields
        BY <1>5, <2>2
      <3>2. 0 \notin 1..Secrets
        BY DeriveAssumption
      <3> QED
        BY <2>2, <3>1, <3>2
    <2> QED
      BY <2>1, <2>2
  <1>7. fields' \in [1..Secrets -> Nat]
    <2>1. DOMAIN fields' = 1..Secrets /\ fields' = [s \in 1..Secrets |-> fields'[s]]
      BY <1>2, <1>5
    <2>2. \A s \in 1..Secrets : fields'[s] \in Nat
      BY <1>2, <1>6
    <2> QED
      BY <2>1, <2>2
  <1>8. ASSUME NEW s \in 1..Secrets
        PROVE  served[s] + Cardinality(Holding(s)') <= fields'[s]
    <2>1. Holding(s) \in SUBSET Lockers /\ Holding(s)' \in SUBSET Lockers
      BY DEF Holding
    <2>2. served[s] \in Nat /\ fields[s] \in Nat /\ served[s] + Cardinality(Holding(s)) <= fields[s]
      BY DEF HoldingInv, Typed, SecretServesOnce
    <2>3. IF l.content = s /\ l.mdh.Machine = "M_KEM"
            THEN Holding(s)' \subseteq Holding(s) \cup {d} ELSE Holding(s)' \subseteq Holding(s)
      BY <1>3, <1>4, DeriveAssumption DEF Holding
    <2>4. /\ Cardinality(Holding(s)) \in Nat /\ Cardinality(Holding(s)') \in Nat
          /\ Holding(s)' \subseteq Holding(s) => Cardinality(Holding(s)') <= Cardinality(Holding(s))
          /\ Holding(s)' \subseteq Holding(s) \cup {d} => Cardinality(Holding(s)') <= Cardinality(Holding(s)) + 1
      BY <2>1, Counting
    <2> QED
      BY <1>6, <2>2, <2>3, <2>4
  <1> QED
    BY <1>2, <1>7, <1>8 DEF SecretServesOnce

\* A moved field is the same field.
LEMMA RenameServes ==
  ASSUME HoldingInv, NEW d \in Lockers, NEW src \in Lockers, rename(d, src)
  PROVE  SecretServesOnce'
  <1>1. d # src /\ L' = [L EXCEPT ![d] = L[src], ![src] = Free] /\ UNCHANGED <<fields, served>>
    BY DEF rename
  <1>2. \A j \in Lockers : L'[j] = IF j = src THEN Free ELSE IF j = d THEN L[src] ELSE L[j]
    BY <1>1 DEF HoldingInv, Typed
  <1> SUFFICES ASSUME NEW s \in 1..Secrets
               PROVE  served[s] + Cardinality(Holding(s)') <= fields[s]
    BY <1>1 DEF SecretServesOnce
  <1>3. Holding(s) \in SUBSET Lockers /\ Holding(s)' \in SUBSET Lockers
    BY DEF Holding
  <1>4. served[s] \in Nat /\ fields[s] \in Nat /\ served[s] + Cardinality(Holding(s)) <= fields[s]
    BY DEF HoldingInv, Typed, SecretServesOnce
  <1>5. IF src \in Holding(s)
          THEN Holding(s)' \subseteq (Holding(s) \ {src}) \cup {d} ELSE Holding(s)' \subseteq Holding(s)
    BY <1>2, FreeSound, DeriveAssumption DEF Holding
  <1>6. /\ Cardinality(Holding(s)) \in Nat /\ Cardinality(Holding(s)') \in Nat
        /\ Holding(s)' \subseteq Holding(s) => Cardinality(Holding(s)') <= Cardinality(Holding(s))
        /\ src \in Holding(s) /\ Holding(s)' \subseteq (Holding(s) \ {src}) \cup {d}
             => Cardinality(Holding(s)') <= Cardinality(Holding(s))
    BY <1>3, Counting
  <1> QED
    BY <1>4, <1>5, <1>6

LEMMA NextServes ==
  ASSUME HoldingInv, [Next]_vars
  PROVE  SecretServesOnce'
  <1> USE DEF HoldingInv
  <1>1. ASSUME NEW k \in Lockers, NEW t \in 1..3, setst(k, t)
        PROVE  SecretServesOnce'
    <2> DEFINE n == Restarted([L[k] EXCEPT !.mdh.State = t])
    <2>1. GatedStep(k, n)
      BY <1>1, SetstStep
    <2>2. Sound(L[k])
      BY DEF AllSound
    <2>3. n.content = L[k].content /\ n.mdh.Machine = L[k].mdh.Machine
      BY <2>2, RestartedSound
    <2> HIDE DEF n
    <2> QED
      BY <2>1, <2>3, GatedHoldsLess
  <1>2. ASSUME NEW k \in Lockers, NEW b \in Budgets, lr(k, b)
        PROVE  SecretServesOnce'
    <2> DEFINE n == IF LongRunning(L[k].mdh) THEN Progress(L[k], b)[1] ELSE L[k]
    <2>1. b \in Nat /\ Sound(L[k])
      BY DeriveAssumption DEF AllSound
    <2>2. n.content = L[k].content /\ n.mdh.Machine = L[k].mdh.Machine
      BY <2>1, ProgressSound
    <2>3. GatedStep(k, n)
      BY <1>2, LrStep
    <2> HIDE DEF n
    <2> QED
      BY <2>2, <2>3, GatedHoldsLess
  <1>3. ASSUME NEW k \in Lockers, clearads(k)
        PROVE  SecretServesOnce'
    BY <1>3, ClearadsStep, WithoutADSSound, GatedHoldsLess DEF AllSound
  <1>4. ASSUME NEW k \in Lockers, clear(k)
        PROVE  SecretServesOnce'
    BY <1>4, FreeSound, PutHoldsLess DEF clear
  <1>5. CASE \/ \E v \in 0..1 : setks(v)
             \/ Tick
             \/ \E p \in Modes : Enter(p)
             \/ UNCHANGED vars
    <2>1. UNCHANGED <<L, fields, served>>
      BY <1>5 DEF setks, Tick, Enter, vars
    <2> QED
      BY <2>1, NoNewHolder DEF Holding
  <1> QED
    BY <1>1, <1>2, <1>3, <1>4, <1>5, ProvideServes, DeriveServes, CloneServes, RenameServes DEF Next

\* The histories are typed.
LEMMA HistoriesTyped ==
  ASSUME HoldingInv, [Next]_vars
  PROVE  (fields \in [1..Secrets -> Nat] /\ served \in [1..Secrets -> Nat])'
  <1> USE DEF HoldingInv, Typed
  <1>1. ASSUME NEW k \in Lockers, NEW p \in Provided, Provide(k, p)
        PROVE  fields' \in [1..Secrets -> Nat] /\ UNCHANGED served
    BY <1>1, ProvideStep
  <1>2. ASSUME NEW d \in Lockers, NEW k \in Lockers, NEW len \in Lengths, derive(d, k, len)
        PROVE  UNCHANGED fields /\ served' \in [1..Secrets -> Nat]
    BY <1>2 DEF derive, Serve
  <1>3. ASSUME NEW k \in Lockers
        PROVE  /\ \A t \in 1..3 : setst(k, t) => UNCHANGED <<fields, served>>
               /\ \A b \in Budgets : lr(k, b) => UNCHANGED <<fields, served>>
               /\ clearads(k) => UNCHANGED <<fields, served>>
    BY SetstStep, LrStep, ClearadsStep DEF GatedStep
  <1>4. ASSUME NEW k \in Lockers, NEW d \in Lockers
        PROVE  /\ clear(k) => UNCHANGED <<fields, served>>
               /\ rename(d, k) => UNCHANGED <<fields, served>>
               /\ _clone(d, k) => fields' \in [1..Secrets -> Nat] /\ UNCHANGED served
    BY CloneServes, CloneStep DEF clear, rename
  <1>5. CASE \/ \E v \in 0..1 : setks(v)
             \/ Tick
             \/ \E p \in Modes : Enter(p)
             \/ UNCHANGED vars
    BY <1>5 DEF setks, Tick, Enter, vars
  <1> QED
    BY <1>1, <1>2, <1>3, <1>4, <1>5 DEF Next

-----------------------------------------------------------------------------
(* Theorems.                                                               *)

LEMMA InitHolds == ASSUME Init PROVE HoldingInv
  <1>1. L \in [Lockers -> Locker] /\ AllSound
    BY FreeSound DEF Init, AllSound, Sound
  <1>2. fields \in [1..Secrets -> Nat] /\ served \in [1..Secrets -> Nat]
        /\ \A s \in 1..Secrets : fields[s] = 0 /\ served[s] = 0
    BY DEF Init
  <1>3. \A s \in 1..Secrets : Holding(s) = {}
    BY FreeSound, DeriveAssumption DEF Init, Holding
  <1>4. SecretServesOnce
    <2>1. \A s \in 1..Secrets : Cardinality(Holding(s)) = 0
      BY <1>3, FS_EmptySet
    <2> QED
      BY <1>2, <2>1 DEF SecretServesOnce
  <1> QED
    BY <1>1, <1>2, <1>4 DEF HoldingInv, Typed

\* The lockers and histories are typed, every locker is sound, and secrets are accounted for.
THEOREM Invariance == Spec => []HoldingInv
  <1>1. Init => HoldingInv
    BY InitHolds
  <1>2. HoldingInv /\ [Next]_vars => HoldingInv'
    BY NextSound, NextServes, HistoriesTyped DEF HoldingInv, Typed
  <1> QED
    BY <1>1, <1>2, PTL DEF Spec

\* No chain of derivations, copies and moves loosens a restricted key (Rule GR30 of derive).
THEOREM RestrictionsHold == Spec => []RestrictedKeyStaysRestricted
  <1>1. HoldingInv => RestrictedKeyStaysRestricted
    BY DEF HoldingInv, AllSound, Sound, RestrictedKeyStaysRestricted
  <1> QED
    BY <1>1, Invariance, PTL

\* A field gives its secret to one kl.derive (Rule GR28 of derive).
THEOREM SecretsServeOnce == Spec => []SecretServesOnce
  <1>1. HoldingInv => SecretServesOnce
    BY DEF HoldingInv
  <1> QED
    BY <1>1, Invariance, PTL

\* Progress of a long-running operation is work on this CC, whatever an image reported before (usage,
\* lr, clearads and _clone).
THEOREM ProgressIsGenuine == Spec => []ProgressIsWork
  <1>1. HoldingInv => ProgressIsWork
    BY DEF HoldingInv, AllSound, Sound, ProgressIsWork
  <1> QED
    BY <1>1, Invariance, PTL

-----------------------------------------------------------------------------
(* What a refused instruction leaves alone.                                *)

Moved(k) == \/ L'[k] = L[k]
            \/ L'[k].content = 0 /\ IsErrorState(L'[k].mdh) /\ MayBeUsed(L[k].mdh)
RefusalStep == /\ out' \in {"trap", "inert"} => UNCHANGED L
               /\ out' = "error" => \A k \in Lockers : Moved(k)

\* A usage instruction that ends in an Error State was issued by software that may use the CC.
UsageRefused(k) ==
  /\ out' \in {"trap", "inert"} => UNCHANGED L
  /\ out' = "error" => /\ MayBeUsed(L[k].mdh)
                       /\ Put(k, err(SE_EXPIRED)) \/ Put(k, err(SE_INVALID))

LEMMA SetstRefused ==
  ASSUME NEW k \in Lockers, NEW t \in 1..3, setst(k, t)
  PROVE  UsageRefused(k)
  BY DEF setst, Gated, UsageRefused, usage_gate, MayBeUsed, MayUse

LEMMA ClearadsRefused ==
  ASSUME NEW k \in Lockers, clearads(k)
  PROVE  UsageRefused(k)
  BY DEF clearads, Gated, UsageRefused, usage_gate, MayBeUsed, MayUse

LEMMA LrRefused ==
  ASSUME NEW k \in Lockers, NEW b \in Budgets, lr(k, b)
  PROVE  UsageRefused(k)
  BY DEF lr, Gated, UsageRefused, Progress, usage_gate, MayBeUsed, MayUse

LEMMA UsageRefusal ==
  ASSUME Typed, NEW k \in Lockers, UsageRefused(k)
  PROVE  RefusalStep
  <1>1. /\ err(SE_EXPIRED).content = 0 /\ IsErrorState(err(SE_EXPIRED).mdh)
        /\ err(SE_INVALID).content = 0 /\ IsErrorState(err(SE_INVALID).mdh)
    BY ErrorSound DEF SE_EXPIRED, SE_INVALID
  <1>2. ASSUME out' = "error", NEW j \in Lockers
        PROVE  Moved(j)
    BY <1>1, <1>2 DEF UsageRefused, Put, Typed, Moved
  <1> QED
    BY <1>2 DEF UsageRefused, RefusalStep

LEMMA DeriveRefusal ==
  ASSUME Typed, NEW d \in Lockers, NEW src \in Lockers, NEW len \in Lengths, derive(d, src, len)
  PROVE  RefusalStep
  <1> DEFINE v == DeriveVerdict(d, src, len)
  <1>1. CASE v.out = "ok"
    BY <1>1 DEF derive, RefusalStep
  <1>2. CASE v.out # "ok"
    <2>1. L' = [j \in Lockers |-> IF j \in v.errs THEN err(v.se) ELSE L[j]] /\ out' = v.out
      BY <1>2 DEF derive
    <2>2. v.out \in {"trap", "inert"} => v.errs = {}
      BY <1>2, RefusedVerdict
    <2>3. v.errs # {} => /\ err(v.se).content = 0 /\ IsErrorState(err(v.se).mdh)
                         /\ MayBeUsed(L[d].mdh) /\ MayBeUsed(L[src].mdh)
      BY <1>2, RefusedVerdict, ErrorSound DEF MayUse, MayBeUsed
    <2>4. v.errs \subseteq {d, src}
      BY <1>2, RefusedVerdict
    <2> HIDE DEF v
    <2>5. v.errs = {} => UNCHANGED L
      BY <2>1 DEF Typed
    <2>6. ASSUME NEW j \in Lockers
          PROVE  Moved(j)
      BY <2>1, <2>3, <2>4 DEF Moved
    <2> QED
      BY <2>1, <2>2, <2>5, <2>6 DEF RefusalStep
  <1> QED
    BY <1>1, <1>2

\* An instruction that traps changes no locker; one that ends in Error States has moved and restricted
\* nothing, and destroys only what software may use (Gated of usage, derive: Rule GR27).
THEOREM RefusalsMoveNothing == Spec => RefusalMovesNothing
  <1>1. ASSUME Typed, [Next]_vars
        PROVE  [RefusalStep]_vars
    <2>1. ASSUME NEW k \in Lockers
          PROVE  /\ \A t \in 1..3 : setst(k, t) => RefusalStep
                 /\ \A b \in Budgets : lr(k, b) => RefusalStep
                 /\ clearads(k) => RefusalStep
      BY <1>1, SetstRefused, LrRefused, ClearadsRefused, UsageRefusal
    <2>2. ASSUME NEW k \in Lockers, NEW d \in Lockers
          PROVE  /\ \A p \in Provided : Provide(k, p) => RefusalStep
                 /\ \A len \in Lengths : derive(d, k, len) => RefusalStep
                 /\ clear(k) => RefusalStep
                 /\ _clone(d, k) => RefusalStep
                 /\ rename(d, k) => RefusalStep
      <3>1. \A len \in Lengths : derive(d, k, len) => RefusalStep
        BY <1>1, DeriveRefusal
      <3>2. /\ \A p \in Provided : Provide(k, p) => out' = "ok"
            /\ clear(k) => out' = "ok"
            /\ _clone(d, k) => out' \in {"ok", "refused"}
            /\ rename(d, k) => out' = "ok"
        BY DEF Provide, clear, _clone, rename
      <3>3. out' \in {"ok", "refused"} => RefusalStep
        BY DEF RefusalStep
      <3> QED
        BY <3>1, <3>2, <3>3
    <2>3. ASSUME UNCHANGED L
          PROVE  RefusalStep
      BY <2>3 DEF RefusalStep, Moved
    <2>4. /\ \A v \in 0..1 : setks(v) => UNCHANGED L
          /\ Tick => UNCHANGED L
          /\ \A p \in Modes : Enter(p) => UNCHANGED L
      BY DEF setks, Tick, Enter
    <2> QED
      BY <1>1, <2>1, <2>2, <2>3, <2>4 DEF Next
  <1>2. HoldingInv => Typed
    BY DEF HoldingInv
  <1>3. [][RefusalStep]_vars => RefusalMovesNothing
    BY PTL DEF RefusalMovesNothing, RefusalStep, Moved
  <1> QED
    BY <1>1, <1>2, <1>3, Invariance, PTL DEF Spec
=============================================================================
