-------------------------------- MODULE Hash --------------------------------
(***************************************************************************)
(* The hash and HMAC Machines of hash_model.py: a locker m, and software   *)
(* that issues kl.setst, kl.exec and kl.derive in any order, interrupts a  *)
(* kl.exec and moves the CC.  Lengths count bits, BYTE to a byte, B to a   *)
(* block and to a piece of output; klstart counts bytes.  Of the state of  *)
(* the hash the model keeps how often it was compressed (or permuted).     *)
(***************************************************************************)
EXTENDS Integers, FiniteSets

CONSTANTS Hashes,     \* the Machines of the instance
          BYTE, B,    \* bits of a byte and of a block
          SEALABLE,   \* bytes of the shortest secret that is sealed
          MaxWindow,  \* bound: bytes of a window
          MaxFed      \* bound: bits of a message, and of an output

VARIABLE m            \* the locker

\* SHA2 stands for SHA-2, SM3 and SHA-3, which differ in padding only; SHAKE has no bound of output;
\* BLAKE2 holds a full block back, and BLAKE2_KEY begins with a block that is the system's key.
hold(r) == r.machine \in {"BLAKE2", "BLAKE2_KEY"}
hmac(r) == r.machine \in {"HMAC_NIK", "HMAC_KIP"}
xof(r) == r.machine = "SHAKE"
HMAX(a, b) == IF a < b THEN b ELSE a
HMIN(a, b) == IF a < b THEN a ELSE b

\* halted, fed, got, mseal, kseal, kset and out are history: the window that a halt left and where,
\* the bits that software knows to be absorbed, and read; whether a sealed secret is in the message,
\* and in the key; the bits of the key set since SetKey; what the last kl.exec gave out.
NotHalted == [n |-> 0, pos |-> 0]
Inert(k, e) ==
  [machine |-> k, policy |-> {}, full |-> TRUE, st |-> e, lbl |-> 0, bb |-> 0, cum |-> 0, outl |-> 0, S |-> 0, kk |-> 0,
   sealed |-> FALSE, ksealed |-> FALSE, haskey |-> FALSE, halted |-> NotHalted, fed |-> 0, got |-> 0,
   mseal |-> FALSE, kseal |-> FALSE, kset |-> 0, out |-> "nothing"]
inv(r) == Inert(r.machine, "Invalid")
inert(r) == r.st \in {"Invalid", "Inert"}
ready(r) == [Inert(r.machine, "Ready") EXCEPT !.policy = r.policy, !.full = r.full, !.kk = r.kk, !.ksealed = r.ksealed,
               !.haskey = r.haskey \/ r.machine = "HMAC_KIP", !.kseal = r.kseal, !.kset = r.kset]
Init == \E k \in Hashes, p \in SUBSET {0, 1}, full \in BOOLEAN :
          /\ IF k \in {"HMAC_NIK", "HMAC_KIP"} THEN p # {} ELSE full /\ p = IF k = "BLAKE2_KEY" THEN {0} ELSE {}
          /\ m = ready([Inert(k, "Ready") EXCEPT !.policy = p, !.full = full, !.kset = IF k = "HMAC_KIP" THEN B ELSE 0])

-----------------------------------------------------------------------------
\* Absorbing a bits: compressions and the offset in the block, which BLAKE2 leaves full.
_vli(r, a) ==
  LET k == r.machine = "BLAKE2_KEY" /\ r.cum = 0 /\ a > 0
      p == r.bb + a
  IN [r EXCEPT !.cum = @ + a + (IF k THEN B ELSE 0),
        !.S = @ + (IF k THEN 1 ELSE 0) + (IF hold(r) THEN HMAX(p - 1, 0) ELSE p) \div B,
        !.bb = IF hold(r) /\ p > 0 THEN ((p - 1) % B) + 1 ELSE p % B]
\* An interrupt halts at the end of a block.
\* Mutant: it halts after a byte.
HaltAfterByte(r, left) == HMIN(left, BYTE)
UpToHalt(r, left) == HMIN(left, B - (IF r.bb = B THEN 0 ELSE r.bb))

\* Mutant: the key that was set before is still taken for one.
EnterKeepsKey(r) == [r EXCEPT !.st = "SetKey", !.bb = 0, !.cum = 0, !.kset = 0, !.kseal = FALSE]
enter_setkey(r) == [r EXCEPT !.st = "SetKey", !.haskey = FALSE, !.ksealed = FALSE, !.bb = 0, !.cum = 0, !.kset = 0, !.kseal = FALSE]
leave_setkey(r) == IF r.cum # B THEN [r EXCEPT !.haskey = FALSE, !.kset = 0] ELSE r

output(r, next, form, x) ==
  IF \/ r.st \notin {"Absorb", "Last"} \/ (r.st = "Last" /\ r.lbl # 0) \/ form \notin {"A", "B"}
     \/ (0 \notin r.policy /\ (hmac(r) \/ r.machine = "BLAKE2_KEY"))
     \/ x % BYTE # 0 \/ (~ xof(r) /\ x > B)
     \/ (r.machine = "BLAKE2" /\ r.bb = 0 /\ r.kk > 0)
  THEN inv(r)
  ELSE [r EXCEPT !.st = "Output", !.bb = 0, !.lbl = 0, !.S = 0, !.cum = 0,
          !.outl = IF x # 0 THEN x ELSE IF xof(r) THEN 0 ELSE B]
verify(r, form, x) ==
  IF \/ r.st \notin {"Absorb", "Last"} \/ (r.st = "Last" /\ r.lbl # 0)
     \/ ~ hmac(r) \/ form # "B" \/ 1 \notin r.policy \/ x % BYTE # 0 \/ HMIN(x, B) # (IF r.full THEN B ELSE B - BYTE)
  THEN inv(r) ELSE [r EXCEPT !.st = "Verify", !.bb = 0, !.lbl = 0, !.S = 0, !.cum = 0]
bits(r, form, x) ==
  LET q == IF r.st \in {"Absorb", "Last"} THEN output(r, "Output", "A", 0) ELSE r IN
  IF q.st \notin {"Output", "Bits"} \/ form # "B" \/ x = 0 THEN inv(r) ELSE [q EXCEPT !.st = "Bits", !.lbl = x]
absorb(r, form) ==
  IF form # "A" \/ r.st \notin {"Ready", "SetKey"} \/ (r.machine = "HMAC_NIK" /\ ~ r.haskey) THEN inv(r)
  ELSE [r EXCEPT !.st = "Absorb", !.lbl = B, !.cum = 0, !.bb = 0, !.S = IF hmac(r) THEN 1 ELSE 0, !.fed = 0, !.got = 0]
_setst(r, imm, form, x) ==
  CASE imm = "ready" -> IF form = "A" THEN ready(r) ELSE inv(r)
    [] imm # "ready" /\ (r.st \in {"Success", "Failure"} \/ imm = "finalize") -> inv(r)
    [] r.st = "SetKey" /\ imm = "setkey" /\ form = "A" -> enter_setkey(r)
    [] r.st = "SetKey" /\ imm = "absorb" -> absorb(leave_setkey(r), form)
    [] r.st # "SetKey" /\ imm = "absorb" -> absorb(r, form)
    [] r.st \notin {"SetKey", "Success", "Failure"} /\ imm \in {"bits", "verify"} /\ ~ r.sealed /\ ~ r.ksealed ->
         IF imm = "bits" THEN bits(r, form, x) ELSE verify(r, form, x)
    [] r.st = "Ready" /\ imm = "aux" /\ hold(r) /\ form = "B" ->
         IF x > 1 \/ (r.machine = "BLAKE2_KEY" /\ x > 0) THEN inv(r) ELSE [r EXCEPT !.kk = x]
    [] r.st = "Ready" /\ imm = "setkey" /\ r.machine = "HMAC_NIK" /\ form = "A" -> enter_setkey(r)
    [] r.st = "Absorb" /\ imm = "last" /\ form \in {"A", "B"} ->
         IF x > B \/ (x % BYTE # 0 /\ hold(r)) THEN inv(r) ELSE [r EXCEPT !.st = "Last", !.lbl = x]
    [] r.st \in {"Absorb", "Last"} /\ imm = "output" -> output(r, "Output", form, x)
    [] OTHER -> inv(r)
setst(imm, form, x) ==
  m' = IF inert(m) THEN m ELSE _setst([m EXCEPT !.out = "nothing", !.halted = NotHalted], imm, form, x)

-----------------------------------------------------------------------------
GATE(r) == IF ~ hmac(r) THEN {} ELSE IF r.st = "Verify" THEN {1} ELSE IF r.st \in {"Output", "Bits"} THEN {0} ELSE {}
\* Mutant: kl.exec looks at no policy.
NoPolicy(r) == TRUE
MayRun(r) == GATE(r) \subseteq r.policy

\* A window of n bytes from klstart on: a bits of it are done, and software knows those before pos.
Halt(r, n, ks, a) ==
  LET pos == (ks * BYTE + a) \div BYTE IN [r EXCEPT !.halted = IF pos < n THEN [n |-> n, pos |-> pos] ELSE NotHalted]
_absorb(r, n, ks, halt) ==
  LET left == (n - ks) * BYTE
      a == IF halt THEN UpToHalt(r, left) ELSE left
      t == Halt(_vli(r, a), n, ks, a)
  IN IF ks # 0 /\ ~ (r.bb = 0 \/ (hold(r) /\ r.bb = B)) THEN inv(r)
     ELSE [t EXCEPT !.fed = @ + (IF t.halted.pos > 0 THEN (t.halted.pos - ks) * BYTE ELSE left)]
_setkey(r, n, ks) ==
  LET a == HMIN((n - ks) * BYTE, B - r.cum) IN
  IF (ks # 0 /\ r.bb # 0) \/ r.cum >= B THEN inv(r)
  ELSE [r EXCEPT !.bb = (@ + a) % B, !.cum = @ + a, !.kset = @ + a, !.haskey = r.cum + a = B]
\* A final piece that ends within a byte is padded in it, and counts its own bits.
_last(r, n, ks) ==
  LET a == IF hold(r) \/ xof(r) THEN r.lbl ELSE ((r.lbl + BYTE - 1) \div BYTE) * BYTE IN
  IF n * BYTE < r.lbl \/ ks # 0 THEN inv(r)
  ELSE [_vli(r, a) EXCEPT !.lbl = 0, !.fed = @ + r.lbl, !.cum = @ + r.lbl - a]
\* Reading stops at the end of the piece (Output) or of a byte (Bits) when an interrupt halts it, and
\* with read_len or out_len.
_exec_out(r, left, ks, halt, b) ==
  LET stop == IF ~ halt THEN left ELSE IF b THEN BYTE ELSE B - r.bb
      rest == IF r.outl # 0 THEN HMIN(left, r.outl) ELSE left
      a == HMIN(stop, IF b THEN HMIN(rest, r.lbl) ELSE rest)
      t == [r EXCEPT !.S = @ + (r.bb + a) \div B, !.bb = (@ + a) % B, !.lbl = IF b THEN @ - a ELSE @, !.got = @ + a, !.out = "text"]
  IN IF ks # 0 /\ r.bb # 0 /\ ~ b THEN inv(r)
     ELSE IF r.outl # 0 /\ a = r.outl THEN [t EXCEPT !.outl = 0, !.st = "Success"]
     ELSE IF b /\ a = r.lbl THEN [t EXCEPT !.outl = IF @ = 0 THEN 0 ELSE @ - a]
     ELSE [Halt(t, ks + left \div BYTE, ks, a) EXCEPT !.outl = IF @ = 0 THEN 0 ELSE @ - a]
NoSecret(r) == ~ r.sealed /\ ~ r.ksealed
_exec(r, form, n, ks, halt, ok) ==
  CASE r.st \in {"Output", "Bits"} /\ form = "C" /\ NoSecret(r) /\ ~ (r.st = "Bits" /\ r.lbl = 0) ->
         IF ks >= n THEN r ELSE _exec_out(r, (n - ks) * BYTE, ks, halt, r.st = "Bits")
    [] form = "B" /\ (r.st \in {"Absorb", "SetKey", "Verify"} \/ (r.st = "Last" /\ r.lbl # 0)) ->
         IF ks >= n THEN r
         ELSE (CASE r.st = "Absorb" -> _absorb(r, n, ks, halt)
                [] r.st = "SetKey" -> _setkey(r, n, ks)
                [] r.st = "Last" -> _last(r, n, ks)
                [] r.st = "Verify" -> IF n * BYTE < (IF r.full THEN B ELSE B - BYTE) THEN inv(r)
                                      ELSE [r EXCEPT !.st = IF ok THEN "Success" ELSE "Failure", !.out = "verdict"])
    [] OTHER -> inv(r)
exec(form, n, ks, halt, ok) ==
  /\ m' = IF inert(m) THEN m
          ELSE IF ~ MayRun(m) THEN inv(m)
          ELSE _exec([m EXCEPT !.out = "nothing", !.halted = NotHalted], form, n, ks, halt, ok)
  /\ m'.fed <= MaxFed /\ m'.got <= MaxFed

-----------------------------------------------------------------------------
\* kl.derive into the locker: n bytes that are a shared secret or another output (secret), of a stream
\* without end, sealed, and with Metadata that the rules of a restricted transfer admit (fits).
\* Mutant: a sealed message that takes an open secret is open.
SealAsLast(flag, sealed) == sealed
Seal(flag, sealed) == flag \/ sealed
derive(n, secret, stream, sealed, fits) ==
  /\ m' =
       LET r == [m EXCEPT !.out = "nothing", !.halted = NotHalted]
           refused == CASE m.st = "SetKey" -> stream \/ n * BYTE > B [] m.st = "Absorb" -> ~ secret [] OTHER -> TRUE
       IN IF inert(m) THEN m
          ELSE IF (hmac(m) /\ ~ m.full) \/ refused THEN inv(m)
          ELSE IF sealed /\ n < SEALABLE THEN r
          ELSE IF ~ fits THEN [r EXCEPT !.st = "PrivViolation"]
          ELSE IF m.st = "SetKey"
            THEN [r EXCEPT !.bb = 0, !.cum = B, !.haskey = TRUE, !.kset = B, !.ksealed = Seal(@, sealed), !.kseal = sealed]
          ELSE [_vli(r, n * BYTE) EXCEPT !.fed = @ + n * BYTE, !.sealed = Seal(@, sealed), !.mseal = @ \/ sealed]
  /\ m'.fed <= MaxFed
\* kl.derive out of the locker, with what the destination answers.
derive_out(n, answer) ==
  /\ m' = IF inert(m) THEN m
          ELSE IF m.st \notin {"Output", "Bits"} \/ answer = "srcinv" THEN inv(m)
          ELSE IF answer = "refused" THEN [m EXCEPT !.out = "nothing", !.halted = NotHalted]
          ELSE [_exec_out(m, n * BYTE, 0, FALSE, FALSE) EXCEPT !.out = "nothing", !.halted = NotHalted]
  /\ m'.got <= MaxFed
rstrl(mask) ==
  m' = IF inert(m) THEN m
       ELSE IF hmac(m) /\ m.policy \cap mask = {} THEN inv(m) ELSE [m EXCEPT !.policy = @ \cap mask, !.out = "nothing"]
meta_ok(r) ==
  /\ r.sealed => r.st \in {"Absorb", "Last", "Output", "Success"}
  /\ r.ksealed => r.machine = "HMAC_NIK" /\ r.haskey /\ r.st \notin {"Bits", "Verify", "Failure"}
import_ == m' = IF meta_ok(m) THEN [m EXCEPT !.out = "nothing"] ELSE inv(m)

Next ==
  \/ \E imm \in {"ready", "setkey", "absorb", "last", "output", "bits", "verify", "aux", "finalize"}, form \in {"A", "B", "C"},
        x \in 0..B + 1 : (form # "B" => x = 0) /\ setst(imm, form, x)
  \/ \E form \in {"A", "B", "C"}, n \in 0..MaxWindow, ks \in 0..MaxWindow - 1, halt, ok \in BOOLEAN : exec(form, n, ks, halt, ok)
  \/ \E n \in 1..MaxWindow, secret, stream, sealed, fits \in BOOLEAN : (fits \/ sealed) /\ derive(n, secret, stream, sealed, fits)
  \/ \E n \in 1..MaxWindow, answer \in {"ok", "refused", "srcinv"} : derive_out(n, answer)
  \/ \E mask \in SUBSET {0, 1} : rstrl(mask)
  \/ import_
Spec == Init /\ [][Next]_m

-----------------------------------------------------------------------------
(* Properties of this component; Machines.tla composes them. *)

\* What software knows to be absorbed is what the hash has compressed or holds; what it has read is
\* the output from its beginning on, without a gap, however the windows were cut, halted and resumed.
Before(r) == IF hmac(r) \/ (r.machine = "BLAKE2_KEY" /\ r.fed > 0) THEN B ELSE 0
FeedIsAbsorbed ==
  /\ m.st = "Absorb" => m.S * B + m.bb = Before(m) + m.fed /\ (m.bb = B => hold(m))
  /\ m.st \in {"Output", "Bits"} => m.S * B + m.bb = m.got

\* A halted kl.exec is resumed by issuing it again: the rest of its window is not Invalid.
HaltIsResumable ==
  m.halted.pos # 0 => \A halt \in BOOLEAN :
    _exec(m, IF m.st = "Absorb" THEN "B" ELSE "C", m.halted.n, m.halted.pos, halt, TRUE).st # "Invalid"

\* A message or a key that a sealed secret entered is marked until it is gone, gives neither text nor
\* a verdict, and is in a State that an import accepts.
SealedNeverRead ==
  /\ m.mseal => m.sealed
  /\ m.kseal => m.ksealed
  /\ m.mseal \/ m.kseal => m.out = "nothing" /\ m.st \notin {"Bits", "Verify"}
  /\ m.st \notin {"Invalid", "Inert", "PrivViolation"} => meta_ok(m)

\* An HMAC whose key software sets takes only a key that it has set whole.
NoPartialKey == m.machine = "HMAC_NIK" /\ m.st \notin {"Invalid", "PrivViolation", "Ready", "SetKey"} => m.kset = B

\* A tag and a verdict of HMAC come only from a State that the policy of now permits; the other
\* Machines have no GATE here, keyed BLAKE2 included.
GatedStep == m'.out # "nothing" => GATE(m) \subseteq m.policy
=============================================================================
