------------------------------- MODULE Sponge -------------------------------
(***************************************************************************)
(* The sponge Machines of sponge_model.py: XOF (SHAKE and Ascon-XOF128),   *)
(* CXOF (Ascon-CXOF128, with its customization string), KMAC, KMACXOF and  *)
(* Ascon-AEAD128 (AEAD, and AEAD_NONCE and AEAD_MASK with what their       *)
(* locker holds beside the key).  Lengths count bits, as in Hash.tla.      *)
(***************************************************************************)
EXTENDS Integers, FiniteSets

CONSTANTS Sponges,    \* the Machines of the instance
          BYTE, B,    \* bits of a byte and of a block
          SEALABLE,   \* bytes of the shortest secret that is sealed
          MaxWindow,  \* bound: bytes of a window
          MaxFed      \* bound: bits of a message, and of an output

VARIABLE m            \* the locker

aead(r) == r.machine \in {"AEAD", "AEAD_NONCE", "AEAD_MASK"}
xof(r) == r.machine \in {"XOF", "CXOF", "KMACXOF"}
SMIN(S) == CHOOSE x \in S : \A y \in S : x <= y

\* whole: tag_len_p is 128 and the key is not of the SKS, so that a key may be derived into the locker.
\* halted, fed, got, mseal and out are history, as in Hash.tla; so is cut, that a message followed a
\* customization string given in part.
NotHalted == [n |-> 0, pos |-> 0]
Inert(k, e) ==
  [machine |-> k, policy |-> {}, whole |-> TRUE, st |-> e, bb |-> 0, lbl |-> 0, ol |-> 0, cum |-> 0, zlen |-> 0, S |-> 0,
   sealed |-> FALSE, halted |-> NotHalted, fed |-> 0, got |-> 0, cut |-> FALSE, mseal |-> FALSE, out |-> "nothing"]
invalid(r) == Inert(r.machine, "Invalid")
inert(r) == r.st \in {"Invalid", "PrivViolation", "Unsupported", "Inert"}
_ready(r) == [Inert(r.machine, "Ready") EXCEPT !.policy = r.policy, !.whole = r.whole]
Init == \E k \in Sponges, p \in SUBSET {0, 1}, whole \in BOOLEAN :
          /\ aead([machine |-> k]) \/ whole
          /\ m = CASE k \in {"XOF", "CXOF", "KMACXOF"} /\ p # {} -> Inert(k, "Unsupported")
                   [] k = "AEAD_NONCE" /\ 0 \in p -> Inert(k, "Invalid")
                   [] OTHER -> [Inert(k, "Ready") EXCEPT !.policy = IF k = "AEAD_NONCE" THEN {1} ELSE p, !.whole = whole]

-----------------------------------------------------------------------------
GATE(r) ==
  IF ~ aead(r) /\ r.machine # "KMAC" THEN {}
  ELSE IF r.st = "Output" \/ (aead(r) /\ r.st \in {"Enc", "EncLast"}) THEN {0}
  ELSE IF r.st = "Verify" \/ (aead(r) /\ r.st \in {"Dec", "DecLast"}) THEN {1} ELSE {}
Permits(r, p) == p \subseteq IF r.policy = {} THEN {0, 1} ELSE r.policy
\* Mutant: kl.exec looks at no policy.
NoPolicy(r) == TRUE
_gate_ok(r) == Permits(r, GATE(r))

_to_output(r, x, next) == [r EXCEPT !.bb = 0, !.lbl = 0, !.S = 0, !.ol = x, !.st = next]
\* Mutant: the customization string may be left in part.
AbsorbAnyhow(r) == [r EXCEPT !.st = "Absorb", !.lbl = B, !.bb = 0, !.zlen = 0, !.cum = 0, !.S = 0, !.fed = 0, !.got = 0,
                              !.cut = r.st = "Aux" /\ r.fed # r.zlen]
Absorbing(r) ==
  IF r.st = "Aux" /\ r.cum # r.zlen THEN invalid(r)
  ELSE [r EXCEPT !.cut = r.st = "Aux" /\ r.fed # r.zlen, !.st = "Absorb", !.lbl = B, !.bb = 0, !.zlen = 0, !.cum = 0, !.S = 0, !.fed = 0, !.got = 0]
SetHash(r, imm, form, x) ==
  LET ends == r.st = "Absorb" \/ (r.st = "Last" /\ r.lbl = 0) IN
  CASE imm = "absorb" /\ form = "A" /\ (r.st = "Ready" \/ (r.st = "Aux" /\ r.machine = "CXOF")) -> Absorbing(r)
    [] imm = "last" /\ r.st = "Absorb" /\ form \in {"A", "B"} /\ x <= B -> [r EXCEPT !.st = "Last", !.lbl = x]
    [] imm = "output" /\ ends /\ form \in {"A", "B"} /\ xof(r) /\ x % BYTE = 0 -> _to_output(r, x, "Output")
    [] imm = "output" /\ ends /\ form = "B" /\ r.machine = "KMAC" /\ x >= BYTE /\ Permits(r, {0}) -> _to_output(r, x, "Output")
    [] imm = "verify" /\ ends /\ form = "B" /\ r.machine = "KMAC" /\ x \in {i \in BYTE..B : i % BYTE = 0} /\ Permits(r, {1}) ->
         _to_output(r, x, "Verify")
    [] imm = "aux" /\ r.machine = "CXOF" /\ r.st \in {"Ready", "Aux"} /\ form = "B" ->
         [r EXCEPT !.st = "Aux", !.zlen = x, !.bb = 0, !.cum = 0, !.S = 0, !.fed = 0]
    [] OTHER -> invalid(r)
SetAEAD(r, imm, form, x) ==
  LET to == CASE imm = "enclast" /\ x = 0 -> "Output" [] imm = "declast" /\ x = 0 -> "Verify"
              [] imm = "enclast" /\ x # 0 -> "EncLast" [] imm = "declast" /\ x # 0 -> "DecLast"
              [] imm = "enc" -> "Enc" [] imm = "dec" -> "Dec" [] imm = "output" -> "Output" [] imm = "verify" -> "Verify"
              [] OTHER -> "none"
      from == IF imm \in {"enc", "dec"} THEN "Absorb" ELSE IF imm \in {"enclast", "output"} THEN "Enc" ELSE "Dec"
  IN CASE imm = "aux" /\ r.st = "Ready" /\ form = "B" /\ x = B -> r
       [] imm = "absorb" /\ r.st = "Ready" /\ form = (IF r.machine = "AEAD_NONCE" THEN "A" ELSE "C") -> [r EXCEPT !.st = "Absorb"]
       [] to # "none" /\ r.st = from /\ form = (IF imm \in {"enclast", "declast"} THEN "B" ELSE "A") /\ x < B
          /\ Permits(r, GATE([r EXCEPT !.st = to])) -> [r EXCEPT !.st = to, !.lbl = x]
       [] OTHER -> invalid(r)
_setst(r, imm, form, x) ==
  LET q == IF r.st \in {"Absorb", "Last"} THEN SetHash(r, "output", "A", 0) ELSE r IN
  CASE imm = "ready" -> IF form = "A" THEN _ready(r) ELSE invalid(r)
    [] imm # "ready" /\ r.st \in {"Success", "Failure"} -> invalid(r)
    [] imm = "bits" /\ ~ r.sealed /\ ~ aead(r) /\ q.st \in {"Output", "Bits"} /\ form = "B" /\ x > 0 -> [q EXCEPT !.st = "Bits", !.lbl = x]
    [] imm \notin {"ready", "bits"} /\ ~ aead(r) /\ ~ (imm = "verify" /\ r.sealed) -> SetHash(r, imm, form, x)
    [] imm \notin {"ready", "bits"} /\ aead(r) -> SetAEAD(r, imm, form, x)
    [] OTHER -> invalid(r)
setst(imm, form, x) ==
  m' = IF inert(m) THEN m ELSE _setst([m EXCEPT !.out = "nothing", !.halted = NotHalted], imm, form, x)

-----------------------------------------------------------------------------
\* a bits of the rate, from bb on.
_emit(r, a) == [r EXCEPT !.S = @ + (r.bb + a) \div B, !.bb = (@ + a) % B]
Halt(r, n, pos) == [r EXCEPT !.halted = IF pos < n THEN [n |-> n, pos |-> pos] ELSE NotHalted]
\* What is left of a window of n bytes: up to its end, or to the first end of a block that is at byte h
\* or after it, when an interrupt came at h.
BlockEnds(r, n, ks, h) == {a \in 1..(n - ks) * BYTE - 1 : (r.bb + a) % B = 0 /\ ks * BYTE + a >= h * BYTE}
Stop(r, n, ks, h) == SMIN({(n - ks) * BYTE} \cup BlockEnds(r, n, ks, h))
_exec_in(r, n, ks, h) ==
  LET a == IF r.st = "Aux" THEN SMIN({Stop(r, n, ks, h), r.zlen - r.cum}) ELSE Stop(r, n, ks, h)
      t == [_emit(r, a) EXCEPT !.fed = @ + a]
  IN CASE r.st = "Last" -> IF r.lbl = 0 THEN invalid(r) ELSE IF ks >= n THEN r
                           ELSE IF n * BYTE < r.lbl \/ ks # 0 THEN invalid(r) ELSE [_emit(r, r.lbl) EXCEPT !.lbl = 0]
       [] r.st = "Aux" /\ r.zlen = 0 -> invalid(r)
       [] r.st # "Last" /\ ~ (r.st = "Aux" /\ r.zlen = 0) ->
            IF ks >= n THEN r
            ELSE IF (ks # 0 /\ r.bb # 0) \/ (r.st = "Aux" /\ r.cum >= r.zlen) THEN invalid(r)
            ELSE IF r.st = "Aux" THEN (IF r.cum + a = r.zlen THEN [t EXCEPT !.cum = @ + a]
                                       ELSE [Halt(t, n, ks + a \div BYTE) EXCEPT !.cum = @ + a])
            ELSE Halt(t, n, ks + a \div BYTE)
_exec_out(r, n, ks, h, b) ==
  LET left == (n - ks) * BYTE
      byte == SMIN({left} \cup {a \in 1..left : a % BYTE = 0 /\ ks * BYTE + a >= h * BYTE})
      a == SMIN({left} \cup (IF r.ol = 0 THEN {} ELSE {r.ol}) \cup (IF b THEN {r.lbl, byte} ELSE {Stop(r, n, ks, h)}))
      t == [_emit(r, a) EXCEPT !.got = @ + a, !.out = "text", !.lbl = IF b THEN @ - a ELSE @, !.ol = IF @ = 0 THEN 0 ELSE @ - a]
  IN IF ks >= n THEN r
     ELSE IF ks # 0 /\ r.bb # 0 /\ ~ b THEN invalid(r)
     ELSE IF r.ol = a THEN [t EXCEPT !.st = "Success"]
     ELSE IF b /\ r.lbl = a THEN t
     ELSE Halt(t, n, ks + a \div BYTE)
_exec_aead(r, form, n, ok) ==
  CASE r.st = "Absorb" /\ form = "B" -> IF (n * BYTE) % B # 0 THEN invalid(r) ELSE r
    [] r.st \in {"Enc", "Dec"} /\ form = "A" -> [r EXCEPT !.out = "text"]
    [] r.st \in {"EncLast", "DecLast"} /\ form = "A" ->
         IF n = 0 THEN r ELSE IF n * BYTE < r.lbl THEN invalid(r)
         ELSE [r EXCEPT !.st = IF r.st = "EncLast" THEN "Output" ELSE "Verify", !.out = "text"]
    [] r.st = "Output" /\ form = "C" -> IF n = 0 THEN r ELSE IF n * BYTE < B THEN invalid(r) ELSE [r EXCEPT !.st = "Success", !.out = "tag"]
    [] r.st = "Verify" /\ form = "B" -> IF n = 0 THEN r ELSE IF n * BYTE < B THEN invalid(r)
                                        ELSE [r EXCEPT !.st = IF ok THEN "Success" ELSE "Failure", !.out = "verdict"]
    [] OTHER -> invalid(r)
_exec_hash(r, form, n, ks, h, ok) ==
  CASE r.st \in {"Absorb", "Last", "Aux"} /\ form = "B" -> _exec_in(r, n, ks, h)
    [] r.st = "Output" /\ form = "C" /\ ~ r.sealed -> _exec_out(r, n, ks, h, FALSE)
    [] r.st = "Bits" /\ form = "C" /\ r.lbl # 0 -> _exec_out(r, n, ks, h, TRUE)
    [] r.st = "Verify" /\ form = "B" -> IF ks >= n THEN r ELSE IF n * BYTE < r.ol THEN invalid(r)
                                        ELSE [r EXCEPT !.st = IF ok THEN "Success" ELSE "Failure", !.out = "verdict"]
    [] OTHER -> invalid(r)
\* Form D stands for the native Form of the State.
Native(r) == IF r.st \in {"Absorb", "Last", "Aux", "Verify"} THEN "B" ELSE IF r.st \in {"Output", "Bits"} THEN "C" ELSE "A"
exec(given, n, ks, h, ok) ==
  LET r == [m EXCEPT !.out = "nothing", !.halted = NotHalted]
      form == IF given = "D" THEN Native(m) ELSE given
  IN /\ aead(m) => ks = 0
     /\ m' = IF inert(m) THEN m
             ELSE IF m.st \in {"Ready", "Success", "Failure"} THEN invalid(m)
             ELSE IF ~ aead(m) THEN _exec_hash(r, form, n, ks, h, ok)
             ELSE IF ~ _gate_ok(m) THEN invalid(m) ELSE _exec_aead(r, form, n, ok)
     /\ m'.fed <= MaxFed /\ m'.got <= MaxFed

-----------------------------------------------------------------------------
\* kl.derive into the locker and out of it, as in Hash.tla.
\* Mutant: a sealed message that takes an open secret is open.
SealAsLast(flag, sealed) == sealed
Seal(flag, sealed) == flag \/ sealed
derive(n, shared, restricted, sealed, fits) ==
  /\ m' =
       LET r == [m EXCEPT !.out = "nothing", !.halted = NotHalted] IN
       IF inert(m) THEN m
       ELSE IF ~ (IF aead(m) THEN m.machine # "AEAD_NONCE" /\ m.st = "Ready" /\ m.whole ELSE m.st = "Absorb") THEN invalid(m)
       ELSE IF (~ aead(m) /\ ~ shared) \/ (m.machine = "AEAD_MASK" /\ restricted) \/ (aead(m) /\ n < SEALABLE) THEN invalid(m)
       ELSE IF sealed /\ n < SEALABLE THEN r
       ELSE IF ~ fits THEN Inert(m.machine, "PrivViolation")
       ELSE IF aead(m) THEN r
       ELSE [_emit(r, n * BYTE) EXCEPT !.fed = @ + n * BYTE, !.sealed = Seal(@, sealed), !.mseal = @ \/ sealed]
  /\ m'.fed <= MaxFed
derive_out(n, answer) ==
  /\ m' = IF inert(m) THEN m
          ELSE IF aead(m) \/ m.st \notin {"Output", "Bits"} \/ answer = "srcinv" THEN invalid(m)
          ELSE IF answer = "refused" THEN [m EXCEPT !.out = "nothing", !.halted = NotHalted]
          ELSE [_exec_out(m, n, 0, n, FALSE) EXCEPT !.out = "nothing", !.halted = NotHalted]
  /\ m'.got <= MaxFed
rstrl(mask) ==
  m' = IF inert(m) \/ (~ aead(m) /\ m.machine # "KMAC") THEN [m EXCEPT !.out = "nothing"]
       ELSE LET p == (IF m.policy = {} THEN {0, 1} ELSE m.policy) \cap mask IN
            IF p = {} THEN invalid(m) ELSE [m EXCEPT !.policy = p, !.out = "nothing"]
\* export and import_: what Positions hold in the State, and Sealed in the StateExtension.
import_ ==
  m' = IF m.sealed /\ (aead(m) \/ m.st \notin {"Absorb", "Last", "Output", "Success"}) THEN invalid(m)
       ELSE [m EXCEPT !.out = "nothing", !.zlen = IF m.st = "Aux" THEN @ ELSE 0, !.cum = IF m.st = "Aux" THEN @ ELSE 0,
                      !.ol = IF m.st = "Aux" THEN 0 ELSE @]

Next ==
  \/ \E imm \in {"ready", "aux", "absorb", "last", "output", "bits", "verify", "enc", "dec", "enclast", "declast"},
        form \in {"A", "B", "C"}, x \in 0..B + 1 : (form # "B" => x = 0) /\ setst(imm, form, x)
  \/ \E given \in {"A", "B", "C", "D"}, n \in 0..MaxWindow, ks \in 0..MaxWindow - 1, h \in 1..MaxWindow, ok \in BOOLEAN :
       exec(given, n, ks, h, ok)
  \/ \E n \in 1..MaxWindow, shared, restricted, sealed, fits \in BOOLEAN :
       (sealed => restricted) /\ (fits \/ restricted) /\ derive(n, shared, restricted, sealed, fits)
  \/ \E n \in 1..MaxWindow, answer \in {"ok", "refused", "srcinv"} : derive_out(n, answer)
  \/ \E mask \in SUBSET {0, 1} : rstrl(mask)
  \/ import_
Spec == Init /\ [][Next]_m

-----------------------------------------------------------------------------
(* Properties of this component; Machines.tla composes them. *)

\* As in Hash.tla; and a message follows only a customization string that was given whole.
FeedIsAbsorbed ==
  /\ m.st \in {"Absorb", "Aux"} /\ ~ aead(m) => m.S * B + m.bb = m.fed
  /\ m.st = "Aux" => m.cum = m.fed
  /\ ~ m.cut
  /\ m.st \in {"Output", "Bits"} /\ ~ aead(m) => m.S * B + m.bb = m.got

\* A halted kl.exec is resumed by issuing it again: the rest of its window is not Invalid.
HaltIsResumable ==
  m.halted.pos # 0 => \A h \in 1..m.halted.n : _exec_hash(m, Native(m), m.halted.n, m.halted.pos, h, TRUE).st # "Invalid"

\* A message that a sealed secret entered is marked until it is gone, and gives no text.
SealedNeverRead ==
  m.mseal => m.sealed /\ m.out = "nothing" /\ m.st \in {"Absorb", "Last", "Output", "Success"}

\* Text, a tag and a verdict come only from a State that the policy of now permits.
GatedStep == m'.out # "nothing" => Permits(m, GATE(m))
=============================================================================
