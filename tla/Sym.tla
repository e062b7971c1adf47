-------------------------------- MODULE Sym --------------------------------
(***************************************************************************)
(* The symmetric-cipher Machines of sym_model.py: a locker m in ECB, CBC,  *)
(* CFB, OFB, CTR, XCTR or XEX mode.  Windows and klstart count bytes and   *)
(* the segment u of CFB counts bits; BYTE and BLOCK make both short.  A    *)
(* chaining value is how many segments it is the result of, the mask of    *)
(* XEX the exponent of its power of two.                                   *)
(***************************************************************************)
EXTENDS Integers, FiniteSets

CONSTANTS Modes,      \* the modes of the instance
          BYTE,       \* bits of a byte
          BLOCK,      \* bytes of a block
          CM,         \* values of a counter
          MaxWindow,  \* bound: bytes of a window of kl.exec
          MaxFed      \* bound: segments fed after a State was set

VARIABLE m            \* the locker

\* halted, start, fed, used, twice and out are history: the window that a halt left and where, the
\* counter that software set, the segments it knows to be done since, the masks that data blocks
\* took, whether one was taken twice, and what the last kl.exec or kl.derive gave out.
NotHalted == [n |-> 0, pos |-> 0]
Inert(k, e) ==
  [machine |-> k, policy |-> {}, u |-> 1, st |-> e, iv |-> 0, ctr |-> 0, mask |-> 0, steal |-> 0,
   halted |-> NotHalted, start |-> 0, fed |-> 0, used |-> {}, twice |-> FALSE, out |-> "nothing"]
invalid == Inert(m.machine, "Invalid")
inert == m.st \in {"Invalid", "Unconfigured"}
Counting == {"CTR", "XCTR"}
enter_ready(r) == LET c == IF r.machine = "XCTR" THEN 1 ELSE 0 IN
  [Inert(r.machine, "Ready") EXCEPT !.policy = r.policy, !.u = r.u, !.ctr = c, !.start = c]

Init == \E k \in Modes, p \in SUBSET {"Encrypt", "Decrypt"} \ {{}}, u \in 1..BYTE * BLOCK :
          /\ k # "CFB" => u = BYTE * BLOCK
          /\ m = enter_ready([Inert(k, "Ready") EXCEPT !.policy = p, !.u = u])

-----------------------------------------------------------------------------
Needs(st) == IF st = "Operate" THEN {"Encrypt", "Decrypt"} ELSE {st}
Operations(k) == IF k \in Counting \cup {"OFB"} THEN {"Operate"} ELSE {"Encrypt", "Decrypt"}
\* Mutant: kl.exec looks at no policy.
NoPolicy(r) == TRUE
Permitted(r) == Needs(r.st) \cap r.policy # {}

setst(s, form, x) ==
  LET steal == /\ m.machine = "XEX" /\ m.st = "Decrypt" /\ form = "A" /\ m.steal = 0 /\ "Decrypt" \in m.policy
      ok == /\ m.st \in Operations(m.machine) \cup {"Ready"}
            /\ \/ s \in Operations(m.machine) /\ Needs(s) \cap m.policy # {}
               \/ s = "AUX" /\ m.machine \in Counting
            /\ form \in CASE s = "AUX" -> {"A", "B"} [] m.machine = "ECB" -> {"A"}
                          [] m.machine \in Counting \cup {"XEX"} -> {"A", "B", "C"} [] OTHER -> {"A", "C"}
  IN m' = IF inert THEN m
          ELSE CASE s = "Unconfigured" -> Inert(m.machine, s)
                 [] s = "Steal" -> IF steal THEN [m EXCEPT !.mask = @ + 1, !.steal = 1, !.halted = NotHalted, !.out = "nothing"] ELSE invalid
                 [] s = "Ready" -> IF form = "A" THEN enter_ready(m) ELSE invalid
                 [] s = "AUX" /\ ok -> [m EXCEPT !.ctr = x, !.start = x, !.fed = 0, !.halted = NotHalted, !.out = "nothing"]
                 [] s # "AUX" /\ ok -> [enter_ready(m) EXCEPT !.st = s, !.ctr = m.ctr, !.start = m.ctr]
                 [] OTHER -> invalid

-----------------------------------------------------------------------------
\* A block of XEX takes the mask; ciphertext stealing takes the next mask first, then goes back.
\* Mutant: it does not go back.
ForwardOnly(r) == [r EXCEPT !.steal = 2, !.mask = @ + 1]
StealBack(r) == [r EXCEPT !.steal = 2, !.mask = @ - 1]
\* d blocks, which are one block when it is stolen from.
Masked(r, d) ==
  LET taken == r.mask..r.mask + d - 1
      t == [r EXCEPT !.twice = @ \/ r.used \cap taken # {}, !.used = @ \cup taken] IN
  CASE r.st = "Encrypt" \/ r.steal = 0 -> [t EXCEPT !.mask = @ + d]
    [] r.st # "Encrypt" /\ r.steal = 1 -> StealBack(t)
    [] OTHER -> [t EXCEPT !.st = "Success", !.steal = 0]
Take(r, d) ==
  CASE r.machine = "XEX" -> Masked(r, d)
    [] r.machine \in Counting -> [r EXCEPT !.ctr = (@ + d) % CM]
    [] r.machine = "ECB" -> r
    [] OTHER -> [r EXCEPT !.iv = @ + d]

Single(r) == r.machine = "XEX" /\ r.steal # 0
GCD(a, b) == CHOOSE d \in 1..b : /\ a % d = 0 /\ b % d = 0
                                 /\ \A e \in 1..b : a % e = 0 /\ b % e = 0 => e <= d
ip(r, n) == IF Single(r) THEN n ELSE r.u \div GCD(BYTE, r.u)
\* The segments at which an interrupt halts: those that begin a byte, after the one of klstart.
\* Mutant: any segment.
AnyPoint(r, n, ks) == {j \in 0..(n * BYTE) \div r.u - 1 : j * r.u > ks * BYTE}
Points(r, n, ks) ==
  IF Single(r) THEN {} ELSE {j \in 0..(n * BYTE) \div r.u - 1 : j * r.u > ks * BYTE /\ (j * r.u) % BYTE = 0}
\* Software knows the bytes before the new klstart to be done, and all of a window that ended.
_exec(r, n, ks, h) ==
  LET nblk == IF Single(r) THEN 1 ELSE (n * BYTE) \div r.u
      j == IF h \in Points(r, n, ks) THEN h ELSE nblk
      pos == (j * r.u) \div BYTE
      known == IF j < nblk THEN (pos * BYTE) \div r.u ELSE nblk
      first == (ks * BYTE) \div r.u
  IN IF (r.machine # "CFB" /\ n % BLOCK # 0) \/ ks % ip(r, n) # 0 THEN Inert(r.machine, "Invalid")
     ELSE [Take(r, j - first) EXCEPT !.fed = @ + known - first, !.out = "text",
             !.halted = IF j < nblk THEN [n |-> n, pos |-> pos] ELSE NotHalted]
exec(n, ks, h) ==
  /\ m' = IF inert THEN m
          ELSE IF m.st \notin Operations(m.machine) \/ ~ Permitted(m) THEN invalid
          ELSE IF ks >= n THEN [m EXCEPT !.halted = NotHalted, !.out = "nothing"]
          ELSE _exec(m, n, ks, h)
  /\ m'.fed <= MaxFed

\* kl.derive takes whole blocks of the keystream.
derive_out(d) ==
  /\ m' = IF inert THEN m
          ELSE IF m.st # "Operate" THEN invalid
          ELSE [Take(m, d) EXCEPT !.fed = @ + d, !.halted = NotHalted, !.out = "nothing"]
  /\ m'.fed <= MaxFed
\* equal: the two keys of XEX are the same.
load_key(enough, equal) ==
  m' = IF inert THEN m ELSE IF m.st # "Ready" \/ ~ enough \/ (m.machine = "XEX" /\ equal) THEN invalid ELSE enter_ready(m)
rstrl(mask) ==
  m' = IF inert THEN m ELSE IF m.policy \cap mask = {} THEN invalid ELSE [m EXCEPT !.policy = @ \cap mask, !.out = "nothing"]
\* export and import_: each mode has a field for its own value, and the StateExtension holds steal.
\* Mutant: the counter is left out.
ContentWithoutCounter(r) == [enter_ready(r) EXCEPT !.st = r.st, !.iv = r.iv, !.mask = r.mask, !.steal = r.steal]
Content(r) == [enter_ready(r) EXCEPT !.st = r.st, !.steal = r.steal,
                 !.iv = IF r.machine \in {"CBC", "OFB", "CFB"} THEN r.iv ELSE 0,
                 !.ctr = IF r.machine \in Counting THEN r.ctr ELSE @,
                 !.mask = IF r.machine = "XEX" THEN r.mask ELSE 0]
Move ==
  /\ ~ inert
  /\ m' = [Content(m) EXCEPT !.halted = m.halted, !.start = m.start, !.fed = m.fed, !.used = m.used, !.twice = m.twice]

Next ==
  \/ \E s \in {"Unconfigured", "Ready", "Operate", "Encrypt", "Decrypt", "AUX", "Success", "Steal"}, form \in {"A", "B", "C"},
        x \in 0..CM - 1 : (form # "B" => x = 0) /\ setst(s, form, x)
  \/ \E n \in 0..MaxWindow, ks \in 0..MaxWindow - 1, h \in 1..MaxWindow * BYTE : exec(n, ks, h)
  \/ \E d \in 1..2 : derive_out(d)
  \/ \E enough, equal \in BOOLEAN : load_key(enough, equal)
  \/ \E mask \in SUBSET {"Encrypt", "Decrypt"} : rstrl(mask)
  \/ Move
Spec == Init /\ [][Next]_m

-----------------------------------------------------------------------------
(* Properties of this component; Machines.tla composes them. *)

\* Each block of a data unit has a mask of its own, also under ciphertext stealing, which uses the
\* last two in the opposite order; at Success no mask was left out.
MaskOnce == ~ m.twice /\ (m.st = "Success" => m.used = 0..m.mask + 1)

\* The chaining value and the counter are those of the segments that software knows to be done, however
\* the windows were cut, halted and resumed.
FeedIsAbsorbed ==
  /\ m.machine \in {"CBC", "CFB", "OFB"} => m.iv = m.fed
  /\ m.machine \in Counting => m.ctr = (m.start + m.fed) % CM

\* A halted kl.exec is resumed by issuing it again: the rest of its window is not Invalid.
HaltIsResumable == m.halted.pos # 0 => _exec(m, m.halted.n, m.halted.pos, 0).st # "Invalid"

\* A kl.exec gives text only in a State that the policy of now permits.
GatedStep == m'.out # "nothing" => Needs(m.st) \cap m.policy # {}
=============================================================================
