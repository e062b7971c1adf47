------------------------------- MODULE AEAD -------------------------------
(***************************************************************************)
(* The AEAD and MAC Machines of aead_model.py: a locker m with one CC, and *)
(* software that issues kl.setst and kl.exec in any order, interrupts a    *)
(* kl.exec at every point, and moves the CC by export and import.          *)
(*                                                                         *)
(* Lengths and klstart count units, B to a block.  Key, nonce and text are *)
(* left out: of a hash the model keeps how many blocks it absorbed, of a   *)
(* keystream which counters it took.                                       *)
(***************************************************************************)
EXTENDS Integers, FiniteSets

CONSTANTS AEADs,      \* the Machines of the instance
          B,          \* units of a block
          CM,         \* values of the 32-bit counter
          MAX_BLOCKS, \* the greatest index of OCB
          MaxWindow,  \* bound: units of a window of kl.exec
          MaxFed      \* bound: blocks fed in a session

VARIABLE m            \* the locker

NotHalted == [n |-> 0, pos |-> 0]
FullTag == B
FullIV  == B - 1      \* an IV that is a counter block without its counter (96 bits)

Family == [GCM |-> "GCM", GCM_IV |-> "GCM", GCMSIV |-> "GCMSIV", OCB |-> "OCB", OCB_NONCE |-> "OCB", CMAC |-> "CMAC"]
DEC_ONLY == {"GCM_IV", "OCB_NONCE"}

\* ctr is the counter of GCM and GCM-SIV and the index of OCB; len is the length of an IV or nonce.
\* halted, fed, given, used, twice and out are history: the window that a halt left and where, the
\* blocks (in SAV: the units) that software has fed, whether it gave a nonce, the counters taken,
\* whether one was taken twice, and what the last kl.exec gave out.
Invalid(k) ==
  [machine |-> k, policy |-> {}, st |-> "Invalid", ctr |-> 0, start |-> 0, lbl |-> 0, len |-> 0, base |-> 0, cumul |-> 0,
   tag |-> 0, hasN |-> FALSE, any |-> FALSE, all |-> FALSE, halted |-> NotHalted, fed |-> 0, given |-> FALSE,
   used |-> {}, twice |-> FALSE, out |-> "nothing"]

\* Entering Ready leaves the counter block of GCM and, but for CMAC, the length of a final block.
Ready(r) ==
  LET f == Family[r.machine] IN
  [Invalid(r.machine) EXCEPT !.policy = r.policy, !.st = "Ready", !.twice = r.twice,
     !.lbl = IF f = "CMAC" THEN 0 ELSE r.lbl, !.len = IF r.machine = "OCB_NONCE" THEN r.len ELSE 0,
     !.start = IF r.machine = "GCM_IV" THEN 1 ELSE r.start,
     !.ctr = CASE r.machine = "GCM_IV" -> 1 [] r.machine = "GCM" -> r.ctr [] f \in {"GCMSIV", "OCB", "CMAC"} -> 0]

Init == \E k \in AEADs, p \in SUBSET {0, 1} :
          /\ p # {} /\ (k \in DEC_ONLY => p = {1})
          /\ m = Ready([Invalid(k) EXCEPT !.policy = p, !.len = 1])

-----------------------------------------------------------------------------
GcmTRANS == {<<"Absorb", "Enc">>, <<"Absorb", "Dec">>, <<"Enc", "ELB">>, <<"Enc", "ETF">>, <<"ELB", "ETF">>,
             <<"Dec", "DLB">>, <<"Dec", "DTF">>, <<"DLB", "DTF">>, <<"DTF", "Verify">>}
OcbTRANS == {<<"Absorb", "Last">>, <<"Last", "Enc">>, <<"Last", "Dec">>, <<"Enc", "ELB">>, <<"ELB", "ETF">>,
             <<"Dec", "DLB">>, <<"DLB", "Verify">>}
SivTRANS == {<<"Ready", "SAV">>, <<"SAV", "SAV2">>, <<"SAV", "Absorb">>, <<"SAV2", "Absorb">>, <<"Absorb", "ETF">>,
             <<"Absorb", "Dec">>, <<"Enc", "ELB">>, <<"Dec", "DLB">>, <<"Dec", "DTF">>, <<"DLB", "DTF">>}
CmacTRANS == {<<"Ready", "Absorb">>, <<"Absorb", "Last">>, <<"Last", "Output">>, <<"Last", "Verify">>}
\* The Machines that hold their IV or nonce have no SAV before Absorb.
WithSAV == {<<"Ready", "SAV">>, <<"SAV", "Absorb">>, <<"SAV", "SAV">>}
TRANS ==
  [GCM |-> GcmTRANS \cup WithSAV, GCM_IV |-> GcmTRANS \cup {<<"Ready", "Absorb">>, <<"SAV", "SAV">>}, GCMSIV |-> SivTRANS,
   OCB |-> OcbTRANS \cup WithSAV, OCB_NONCE |-> OcbTRANS \cup {<<"Ready", "Absorb">>}, CMAC |-> CmacTRANS]
SETF ==
  [GCM |-> [B |-> {"SAV", "ELB", "DLB", "Verify"}, C |-> {"ETF", "DTF"}], GCMSIV |-> [B |-> {"ELB", "DLB"}, C |-> {"SAV", "SAV2"}],
   OCB |-> [B |-> {"SAV", "Absorb", "Last", "ELB", "DLB"}, C |-> {}], CMAC |-> [B |-> {"Last", "Verify"}, C |-> {}]]
SetForm(r, st) == IF st \in SETF[Family[r.machine]].B THEN "B" ELSE IF st \in SETF[Family[r.machine]].C THEN "C" ELSE "A"
_formok(exp, form) == form = exp \/ form = "A" \/ (form = "D" /\ exp = "C")
EXF(r) ==
  LET f == Family[r.machine] IN
  CASE r.st \in {"Enc", "Dec"} -> "A"
    [] r.st \in {"ELB", "DLB"} -> IF f = "OCB" /\ r.lbl = 0 THEN "D" ELSE "A"
    [] r.st \in {"Absorb", "Last", "Verify"} \/ (r.st = "SAV" /\ f # "GCMSIV") \/ (r.st = "DTF" /\ f = "GCMSIV") -> "B"
    [] r.st = "ETF" -> IF f = "GCMSIV" THEN "A" ELSE "C"
    [] r.st = "Output" -> "C"
    [] OTHER -> "none"
GATE(st) == IF st \in {"Enc", "ELB", "ETF", "Output"} THEN {0} ELSE IF st \in {"Dec", "DLB", "DTF", "Verify"} THEN {1} ELSE {}
\* Mutant: kl.exec looks at no policy.
NoPolicy(r) == TRUE
MayRun(r) == GATE(r.st) \subseteq r.policy

-----------------------------------------------------------------------------
\* Counters: those of the next d blocks, and how many are left before one would come again.
Final == {"Last", "ELB", "DLB"}
Keyed(r) == r.st \in {"Enc", "Dec", "ELB", "DLB"} \/ (r.st \in {"Absorb", "Last"} /\ Family[r.machine] = "OCB")
Room(r) ==
  CASE Family[r.machine] = "GCM" -> (r.start - 2 - r.ctr) % CM
    [] Family[r.machine] = "GCMSIV" -> CM - r.ctr
    [] OTHER -> MAX_BLOCKS - r.ctr + 1
RunsOut(r, d) == Keyed(r) /\ d > Room(r)
Counters(r, d) == IF Family[r.machine] = "GCM" THEN {(r.ctr + i) % CM : i \in 1..d} ELSE {(r.ctr + i) % CM : i \in 0..d - 1}
Use(r, cs) == [r EXCEPT !.twice = @ \/ r.used \cap cs # {}, !.used = @ \cup cs]
\* The index of OCB counts the full blocks: a final block looks at it and leaves it.
Take(r, d) ==
  IF ~ Keyed(r) \/ (Family[r.machine] = "OCB" /\ r.st \in Final) THEN r
  ELSE IF Family[r.machine] = "OCB" THEN [r EXCEPT !.ctr = @ + d]
  ELSE [Use(r, Counters(r, d)) EXCEPT !.ctr = IF Family[r.machine] = "GCM" THEN (@ + d) % CM ELSE @ + d]
\* The hash takes text on encryption in GCM and OCB, and on decryption in all.
Absorbs(r) == ~ (Family[r.machine] = "GCMSIV" /\ r.st \in {"Enc", "ELB"})
Absorbed(r, d) == IF Absorbs(r) THEN [r EXCEPT !.tag = @ + d, !.any = @ \/ d > 0] ELSE r
Fed(r, d) == IF Absorbs(r) THEN [r EXCEPT !.fed = @ + d] ELSE r
Halt(r, n, stop) == [r EXCEPT !.halted = IF stop < n THEN [n |-> n, pos |-> stop] ELSE NotHalted]

\* A window of whole blocks, from klstart to its end or to the point h where an interrupt halts it.
\* One that runs out of counters gives out its first blocks and clears the locker.
_multi(r, n, ks, h) ==
  LET stop == IF h % B = 0 /\ ks < h /\ h < n THEN h ELSE n
      d == (stop - ks) \div B
      o == IF GATE(r.st) = {} THEN "nothing" ELSE "text"
  IN IF n % B # 0 \/ ks % B # 0 \/ RunsOut(r, d) THEN Invalid(r.machine)
     ELSE Halt([Fed(Absorbed(Take(r, d), d), d) EXCEPT !.out = o], n, stop)

\* The IV of GCM has any length: the hash may be in the middle of a block when kl.exec begins, and
\* is interrupted only where both the window and the hash are at the end of one.
\* Mutant: an interrupt looks at neither.
HaltsAnywhere(r, n, ks) == {i \in ks + 1..n - 1 : r.cumul + i - ks < r.len}
Halts(r, n, ks) == {i \in ks + 1..n - 1 : i % B = 0 /\ (r.base + i - ks) % B = 0 /\ r.cumul + i - ks < r.len}
Resumable(r, ks) == ks = 0 \/ (r.base = 0 /\ ks % B = 0)
_vli(r, n, ks, h, s) ==
  LET stop == IF h \in Halts(r, n, ks) THEN h ELSE n
      amt  == IF stop - ks < r.len - r.cumul THEN stop - ks ELSE r.len - r.cumul
  IN IF r.cumul >= r.len \/ (n % B # 0 /\ r.cumul + n < r.len) \/ ~ Resumable(r, ks) THEN Invalid(r.machine)
     ELSE IF r.cumul + amt = r.len
       THEN [r EXCEPT !.st = "Absorb", !.start = s, !.ctr = s, !.len = 0, !.base = 0, !.cumul = 0, !.fed = 0, !.halted = NotHalted]
     ELSE Halt([r EXCEPT !.base = (@ + amt) % B, !.cumul = @ + amt, !.fed = @ + stop - ks], n, stop)
\* The counter of the first block, which is 1 for a full IV and that of a hash for the others.
_finalize(r) == IF r.len = FullIV THEN {1} ELSE 0..CM - 1

\* A final block of lbl units, which software has announced.
FinalBlock(r, n) ==
  IF n < r.lbl \/ r.lbl = 0 \/ RunsOut(r, 1) THEN Invalid(r.machine)
  ELSE LET t == [Absorbed(Take(r, 1), 1) EXCEPT !.out = IF GATE(r.st) = {} THEN "nothing" ELSE "text"] IN
       CASE Family[r.machine] = "OCB" /\ r.st = "ELB" -> [t EXCEPT !.st = "ETF"]
         [] Family[r.machine] = "OCB" /\ r.st = "DLB" -> [t EXCEPT !.st = "Verify"]
         [] Family[r.machine] = "CMAC" -> [t EXCEPT !.all = TRUE]
         [] Family[r.machine] = "GCMSIV" /\ r.st = "DLB" -> [t EXCEPT !.lbl = 0, !.st = "DTF"]
         [] OTHER -> [t EXCEPT !.lbl = 0]
GiveTag(r, n, next) == IF n < FullTag THEN Invalid(r.machine) ELSE [r EXCEPT !.st = next, !.out = "tag"]
Compare(r, n, ok) ==
  IF n < FullTag THEN Invalid(r.machine) ELSE [r EXCEPT !.st = IF ok THEN "Success" ELSE "Failure", !.out = "verdict"]

NoExec(r) ==
  CASE r.st \in {"ELB", "DLB"} -> r.lbl = 0
    [] r.st = "Last" -> r.lbl = 0 \/ r.all
    [] OTHER -> FALSE
_exec_gcm(r, n, ks, h, s, ok) ==
  CASE r.st = "SAV" -> _vli(r, n, ks, h, s)
    [] r.st \in {"Absorb", "Enc", "Dec"} -> _multi(r, n, ks, h)
    [] r.st \in {"ELB", "DLB"} -> FinalBlock(r, n)
    [] r.st = "ETF" -> GiveTag(r, n, "Success")
    [] r.st = "Verify" -> Compare(r, n, ok)
_exec_gcmsiv(r, n, ks, h, ok) ==
  CASE r.st \in {"Absorb", "Enc", "Dec"} -> _multi(r, n, ks, h)
    [] r.st = "ETF" -> GiveTag(r, n, "Enc")
    [] r.st \in {"ELB", "DLB"} -> FinalBlock(r, n)
    [] r.st = "DTF" -> Compare(r, n, ok)
_exec_ocb(r, n, ks, h, ok) ==
  CASE r.st = "SAV" -> IF n < r.len THEN Invalid(r.machine) ELSE [r EXCEPT !.hasN = TRUE, !.given = TRUE]
    [] r.st \in {"Absorb", "Enc", "Dec"} -> _multi(r, n, ks, h)
    [] r.st \in {"ELB", "DLB"} /\ r.lbl = 0 -> [r EXCEPT !.st = IF r.st = "ELB" THEN "ETF" ELSE "Verify"]
    [] r.st = "Last" \/ (r.st \in {"ELB", "DLB"} /\ r.lbl # 0) -> FinalBlock(r, n)
    [] r.st = "ETF" -> GiveTag(r, n, "Success")
    [] r.st = "Verify" -> Compare(r, n, ok)
_exec_cmac(r, n, ks, h, ok) ==
  CASE r.st = "Absorb" -> _multi(r, n, ks, h)
    [] r.st = "Last" -> IF r.all THEN Invalid(r.machine) ELSE FinalBlock(r, n)
    [] r.st = "Output" -> GiveTag(r, n, "Success")
    [] r.st = "Verify" -> Compare(r, n, ok)
\* s is the counter that the IV gives, when it ends in this window.
_exec(r, n, ks, h, s, ok) ==
  CASE Family[r.machine] = "GCM" -> _exec_gcm(r, n, ks, h, s, ok)
    [] Family[r.machine] = "GCMSIV" -> _exec_gcmsiv(r, n, ks, h, ok)
    [] Family[r.machine] = "OCB" -> _exec_ocb(r, n, ks, h, ok)
    [] Family[r.machine] = "CMAC" -> _exec_cmac(r, n, ks, h, ok)
exec(form, n, ks, h, ok) ==
  LET r == [m EXCEPT !.out = "nothing", !.halted = NotHalted] IN
  /\ IF m.st = "Invalid" THEN m' = m
     ELSE IF ~ MayRun(m) \/ form # EXF(m) THEN m' = Invalid(m.machine)
     ELSE IF form # "D" /\ ks >= n /\ ~ NoExec(m) THEN m' = r
     ELSE \E s \in _finalize(m) : m' = _exec(r, n, ks, h, s, ok)
  /\ m'.fed <= MaxFed

-----------------------------------------------------------------------------
\* kl.setst.  Software that announces a final block has fed it.
Announce(r, x) == [r EXCEPT !.lbl = x, !.fed = @ + (IF x > 0 /\ Absorbs(r) THEN 1 ELSE 0)]
_enter_gcm(r, to, x) ==
  CASE to = "SAV" -> x > 0 [] to \in {"ELB", "DLB"} -> 0 < x /\ x < B [] to = "Verify" -> x = FullTag [] OTHER -> TRUE
_enter_gcmsiv(to, x) == to \in {"ELB", "DLB"} => 0 < x /\ x < B
_enter_ocb(r, to, x) ==
  CASE to = "SAV" -> 0 < x /\ x < B
    [] to = "Absorb" -> (r.hasN \/ r.machine = "OCB_NONCE") /\ x = FullTag
    [] to \in {"ETF", "Verify"} -> r.lbl = 0 /\ r.ctr <= MAX_BLOCKS
    [] to \in Final -> x < B
    [] OTHER -> TRUE
_enter_cmac(r, to, x) ==
  CASE to = "Last" -> x <= B /\ (x # 0 \/ ~ r.any) [] to = "Output" -> r.all [] to = "Verify" -> r.all /\ x = FullTag [] OTHER -> TRUE
_enter_ok(r, to, x) ==
  CASE Family[r.machine] = "GCM" -> _enter_gcm(r, to, x) [] Family[r.machine] = "GCMSIV" -> _enter_gcmsiv(to, x)
    [] Family[r.machine] = "OCB" -> _enter_ocb(r, to, x) [] Family[r.machine] = "CMAC" -> _enter_cmac(r, to, x)
_enter(r, to, x) ==
  LET t == [r EXCEPT !.st = to, !.halted = NotHalted, !.out = "nothing"] IN
  CASE to = "SAV" -> [t EXCEPT !.len = x, !.base = 0, !.cumul = 0, !.fed = 0, !.hasN = FALSE, !.given = FALSE]
    [] to \in Final -> [Announce(t, x) EXCEPT !.all = Family[r.machine] = "CMAC" /\ x = 0]
    [] Family[r.machine] = "OCB" /\ to \in {"Absorb", "Enc", "Dec"} -> [t EXCEPT !.ctr = 1]
    [] Family[r.machine] = "GCM" /\ to \in {"ETF", "DTF"} -> Use(t, {r.start})
    [] OTHER -> t
\* Mutant: a final block that was announced may be left out.
LeaveAnyhow(r, to) == TRUE
_leave(r, to) ==
  \/ r.st = to
  \/ /\ ~ (r.st = "SAV" /\ Family[r.machine] = "GCM")
     /\ r.st \in {"ELB", "DLB"} /\ Family[r.machine] \in {"GCM", "GCMSIV"} => r.lbl = 0
     /\ r.st = "Last" /\ Family[r.machine] = "OCB" => r.lbl = 0
setst(to, form, x) ==
  m' = IF m.st = "Invalid" THEN m
       ELSE IF to = "Ready" THEN (IF form = "A" THEN Ready(m) ELSE Invalid(m.machine))
       ELSE IF /\ <<m.st, to>> \in TRANS[m.machine] /\ _formok(SetForm(m, to), form)
               /\ GATE(to) \subseteq m.policy /\ _leave(m, to) /\ _enter_ok(m, to, x)
         THEN _enter(m, to, x) ELSE Invalid(m.machine)

rstr(mask) ==
  m' = IF m.st = "Invalid" THEN m ELSE IF m.policy \cap mask = {} THEN Invalid(m.machine)
       ELSE [m EXCEPT !.policy = @ \cap mask, !.out = "nothing"]
derive_dest ==
  m' = IF m.st = "Invalid" THEN m ELSE IF m.machine \notin DEC_ONLY /\ m.st = "Ready" THEN Ready(m) ELSE Invalid(m.machine)
\* kl.derive from CMAC leaves the source in its State.
derive_src ==
  m' = IF m.st = "Invalid" \/ (m.machine = "CMAC" /\ m.st = "Output" /\ m.all) THEN [m EXCEPT !.out = "nothing"] ELSE Invalid(m.machine)

\* export and from_sc: the Serialized Content has no field for what only SAV uses, none for whether
\* the nonce was given, and 32 bits and one more for the counter of GCM-SIV.
\* Mutant: the counter is 32 bits.
SerializedCounterCut(r) == r.ctr % CM
SerializedCounter(r) == LET top == r.ctr \div CM IN (r.ctr % CM) + (CM * top)
ImportedGCM(r) == IF r.st = "SAV" THEN [r EXCEPT !.ctr = 0] ELSE [r EXCEPT !.len = 0, !.base = 0, !.cumul = 0]
ImportedOCB(r) == [r EXCEPT !.hasN = r.len # 0]
Imported(r) ==
  CASE Family[r.machine] = "GCM" -> ImportedGCM(r)
    [] Family[r.machine] = "GCMSIV" -> [r EXCEPT !.ctr = SerializedCounter(r)]
    [] Family[r.machine] = "OCB" -> ImportedOCB(r)
    [] OTHER -> r
Move == m.st # "Invalid" /\ m' = [Imported(m) EXCEPT !.out = "nothing"]

States == {"Ready", "SAV", "SAV2", "Absorb", "Last", "Enc", "Dec", "ELB", "DLB", "ETF", "DTF", "Output", "Verify", "Success"}
Next ==
  \/ \E to \in States, form \in {"A", "B", "C", "D"}, x \in 0..B + 1 : (form # "B" => x = 0) /\ setst(to, form, x)
  \/ \E form \in {"A", "B", "C", "D"}, n \in 0..MaxWindow, ks \in 0..B, h \in 0..MaxWindow - 1, ok \in BOOLEAN :
       exec(form, n, ks, h, ok)
  \/ \E mask \in SUBSET {0, 1} : rstr(mask)
  \/ derive_dest \/ derive_src \/ Move
Spec == Init /\ [][Next]_m

-----------------------------------------------------------------------------
(* Properties of this component; Machines.tla composes them. *)

\* No counter block of GCM or GCM-SIV comes twice in a session, nor the one that masks the tag: not
\* when the counter is at its end, and not after a move.
CounterOnce == ~ m.twice

\* The tag is that of all and only the blocks that software has fed, however they were cut.
Pending(r) == IF r.st \in Final /\ r.lbl # 0 /\ ~ r.all THEN 1 ELSE 0
FeedIsAbsorbed ==
  /\ m.st = "SAV" => m.cumul = m.fed \/ Family[m.machine] # "GCM"
  /\ m.st \in {"ETF", "DTF", "Output", "Verify", "Success"} => m.tag = m.fed

\* A halted kl.exec is resumed by issuing it again: the rest of its window is Invalid only when the
\* counters are used up.
HaltIsResumable ==
  m.halted.pos # 0 => LET d == (m.halted.n - m.halted.pos) \div B IN
    ~ RunsOut(m, d) => _exec(m, m.halted.n, m.halted.pos, m.halted.n, 0, TRUE).st # "Invalid"

\* Text, tags and verdicts come only from a State that the policy of now permits.
GatedStep == m'.out # "nothing" => GATE(m.st) # {} /\ GATE(m.st) \subseteq m.policy
=============================================================================
