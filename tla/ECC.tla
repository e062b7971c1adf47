-------------------------------- MODULE ECC --------------------------------
(***************************************************************************)
(* The Elliptic Curve Machines of ecc_machine.py: ECDSA and SM2 (wei),     *)
(* EdDSA (ed) and X25519/X448 (mont).  A field holds nothing but zeros, a  *)
(* part of what software loads, the whole of it (a point: valid, or not)   *)
(* or the default generator; a private key is loaded (d1) or random (d2),  *)
(* a message is its number of pieces, and r and kp of EdDSA are what they  *)
(* are the hashes of.                                                      *)
(***************************************************************************)
EXTENDS Integers, FiniteSets

CONSTANTS Curves,     \* the kind and the MachineExtension (0, 1: public points, 2: sealed) of each Machine
          SIZE,       \* units of a field
          MaxPieces   \* bound: pieces of a message

VARIABLE m            \* the locker

\* FieldOf a Set State, and the flag that says the field is loaded.
SETS == {"Set_Generator", "Set_Scalar", "Set_Hash", "Set_Second", "Set_Signature", "Set_Ctx"}
FieldOf == [Set_Generator |-> "gen", Set_Scalar |-> "scalar", Set_Hash |-> "hash", Set_Second |-> "second",
            Set_Signature |-> "sig", Set_Ctx |-> "ctx"]
FLAGS == {"second", "sig", "hash"}
NoHash == <<>>

\* Of a nonce in rnd the model keeps whether it is fresh, or has signed or may do so in another locker
\* (spent); reused is history: whether a signature took one that was not fresh.
Blank(k, e, st) ==
  [machine |-> k, ext |-> e, policy |-> {}, st |-> st, flags |-> {}, progress |-> 0, outtype |-> 0, base |-> 0,
   complete |-> TRUE, gen |-> "default", scalar |-> "zero", second |-> "zero", hash |-> "zero", sig |-> "zero", ctx |-> "zero",
   ctxlen |-> 0, rnd |-> "none", msg_pass |-> 0, pass_id |-> 0, msg |-> 0, r |-> NoHash, kp |-> NoHash, reused |-> FALSE]
_inv(r) == [Blank(r.machine, r.ext, "Invalid") EXCEPT !.reused = r.reused]
inert == m.st = "Invalid"
Init == \E c \in Curves, p \in SUBSET {0, 1} :
          /\ (c[1] = "mont" => p = {}) /\ (c[1] = "ed" => p # {} /\ c[2] # 2)
          /\ m = [Blank(c[1], c[2], "Ready") EXCEPT !.policy = p]

-----------------------------------------------------------------------------
_gate_ok(r, t) ==
  LET hashed(p) == IF r.machine = "ed" THEN r.msg_pass = p \/ (r.msg_pass = 0 /\ "hash" \in r.flags) ELSE "hash" \in r.flags IN
  CASE t = "Point_Mul" -> r.scalar # "zero"
    [] t = "Sign"   -> r.machine # "mont" /\ 0 \in r.policy /\ r.scalar # "zero" /\ hashed(2)
    [] t = "Verify" -> r.machine # "mont" /\ 1 \in r.policy /\ {"second", "sig"} \subseteq r.flags /\ hashed(3)

\* MR14: leaving or restarting a Set State before its field is complete zeroes the field.
\* Mutant: the part that was loaded stays.
LeavePart(r) == [r EXCEPT !.complete = TRUE]
_abandon_load(r) ==
  IF r.st \in SETS /\ ~ r.complete
    THEN [r EXCEPT ![FieldOf[r.st]] = "zero", !.complete = TRUE, !.ctxlen = IF r.st = "Set_Ctx" THEN 0 ELSE @]
  ELSE [r EXCEPT !.complete = TRUE]
\* Mutant: the nonce stays.
ProgressOnly(r) == [r EXCEPT !.progress = 0]
_discard_progress(r) == [r EXCEPT !.progress = 0, !.rnd = IF r.machine # "ed" THEN "none" ELSE @]

\* Ready with Form B: the bits of xs.
_to_ready(r, form, bits) ==
  LET had == "second" \in r.flags
      drop == {f \in FLAGS : f = "second" /\ 1 \in bits} \cup
              {f \in FLAGS : r.policy # {} /\ ((f = "hash" /\ 3 \in bits) \/ (f = "sig" /\ 6 \in bits))}
      t == [r EXCEPT !.second = IF "second" \in drop THEN "zero" ELSE IF 4 \in bits THEN r.gen ELSE @,
                     !.gen = IF 0 \in bits THEN "default" ELSE IF 5 \in bits /\ had THEN r.second ELSE @,
                     !.scalar = IF 2 \in bits THEN "zero" ELSE @,
                     !.hash = IF "hash" \in drop THEN "zero" ELSE @, !.sig = IF "sig" \in drop THEN "zero" ELSE @,
                     !.flags = (@ \cup (IF 4 \in bits THEN {"second"} ELSE {})) \ drop]
  IN IF 5 \in bits /\ had /\ r.ext # 0 THEN _inv(r)
     ELSE [(IF form = "B" THEN t ELSE r) EXCEPT !.st = "Ready", !.msg_pass = 0, !.r = NoHash, !.kp = NoHash,
             !.ctx = IF r.machine = "ed" THEN "zero" ELSE @, !.ctxlen = IF r.machine = "ed" THEN 0 ELSE @, !.msg = 0]

\* EdDSA: the message goes through twice to sign (xs 0, then 1), and once to verify (xs 2).
Hash(r) == <<r.ctx, r.scalar, r.msg>>
_enter_pass(r, x, aux) ==
  LET t == [r EXCEPT !.st = "Msg_Absorb", !.pass_id = x, !.msg = 0] IN
  CASE aux /\ x = 0 /\ 0 \in r.policy /\ r.scalar # "zero" -> [t EXCEPT !.msg_pass = 0, !.kp = NoHash]
    [] aux /\ x = 1 /\ r.msg_pass = 1 -> t
    [] aux /\ x = 2 /\ 1 \in r.policy /\ {"sig", "second"} \subseteq r.flags -> [t EXCEPT !.msg_pass = 3, !.kp = NoHash]
    [] OTHER -> _inv(r)
\* Mutant: the second pass is not compared with the first.
NotCompared(r) ==
  CASE r.pass_id = 0 -> [r EXCEPT !.r = Hash(r), !.sig = "R", !.flags = @ \ {"sig"}, !.msg_pass = 1, !.msg = 0]
    [] r.pass_id = 1 -> [r EXCEPT !.kp = Hash(r), !.msg_pass = 2, !.msg = 0]
    [] OTHER -> [r EXCEPT !.kp = Hash(r), !.msg = 0]
_finalize_pass(r) ==
  CASE r.pass_id = 0 -> [r EXCEPT !.r = Hash(r), !.sig = "R", !.flags = @ \ {"sig"}, !.msg_pass = 1, !.msg = 0]
    [] r.pass_id = 1 -> IF Hash(r) # r.r THEN _inv(r) ELSE [r EXCEPT !.kp = Hash(r), !.msg_pass = 2, !.msg = 0]
    [] OTHER -> [r EXCEPT !.kp = Hash(r), !.msg = 0]

States(r) ==
  {"Ready", "Set_Generator", "Set_Scalar", "Point_Mul", "Set_Second"}
  \cup (IF r.machine = "mont" THEN {} ELSE {"Sign", "Verify", "Set_Hash", "Set_Signature"})
  \cup (IF r.machine = "ed" THEN {"Msg_Absorb", "Set_Ctx"} ELSE {})
\* The State is entered: x is the operand of Form B, and k the private key that is drawn.
Enter(r, to, form, x, aux, k) ==
  LET q == [r EXCEPT !.st = to] IN
  CASE to = "Set_Generator" -> IF r.ext # 0 /\ form = "B" /\ x # 0 THEN _inv(r)
                               ELSE IF x = 0 THEN [q EXCEPT !.gen = "default", !.base = SIZE]
                               ELSE [q EXCEPT !.gen = "zero", !.complete = FALSE]
    [] to = "Set_Scalar" -> IF x = 0 THEN [q EXCEPT !.scalar = "zero", !.complete = FALSE]
                            ELSE IF k = "none" THEN _inv(r) ELSE [q EXCEPT !.scalar = k, !.base = SIZE]
    [] to \in {"Set_Hash", "Set_Second", "Set_Signature"} ->
         [q EXCEPT ![FieldOf[to]] = "zero", !.flags = @ \ {FieldOf[to]}, !.complete = FALSE]
    [] to = "Set_Ctx" -> IF x > SIZE THEN _inv(r) ELSE [q EXCEPT !.ctx = "zero", !.ctxlen = x, !.complete = x = 0]
    [] to = "Msg_Absorb" -> _enter_pass(r, x, aux)
    [] OTHER -> q
setst(to, form, x, bits, aux, k) ==
  LET forms == IF to \in {"Ready", "Set_Generator", "Set_Scalar"} THEN {"A", "B"} ELSE IF to \in {"Set_Ctx", "Msg_Absorb"} THEN {"B"} ELSE {"A"}
      from == \/ to = "Ready" \/ m.st = "Ready" \/ m.st \in SETS
              \/ m.st = "Msg_Absorb" /\ to \in {"Msg_Absorb", "Sign", "Verify"}
      p == IF m.st = "Msg_Absorb" /\ to # "Ready" THEN _finalize_pass(m) ELSE m
      q == [_discard_progress(_abandon_load(p)) EXCEPT !.base = 0]
      ok == CASE to \in {"Point_Mul", "Sign", "Verify"} -> _gate_ok(q, to) [] to = "Set_Hash" -> q.policy # {}
              [] to = "Set_Signature" -> 1 \in q.policy [] OTHER -> TRUE
  IN m' = IF inert THEN m
          ELSE IF to \notin States(m) \/ form \notin forms \/ ~ from \/ (to = "Set_Ctx" /\ x = 0) THEN _inv(m)
          ELSE IF p.st = "Invalid" \/ ~ ok THEN _inv(m)
          ELSE IF to = "Ready" THEN _to_ready(q, form, bits) ELSE Enter(q, to, form, x, aux, k)

-----------------------------------------------------------------------------
\* kl.exec of Form B loads n units, the last of which complete the field, with a point that is on the
\* curve (v) or not; fits: they represent a value of the field, as those of a field that was loaded do.
exec_in(n, v, fits) ==
  /\ m' = IF inert THEN m
          ELSE IF m.st = "Msg_Absorb" THEN [m EXCEPT !.msg = @ + n]
          ELSE IF m.st \notin SETS \/ m.complete THEN _inv(m)
          ELSE LET f == FieldOf[m.st]
                   size == IF m.st = "Set_Ctx" THEN m.ctxlen ELSE SIZE
                   base == IF m.base + n < size THEN m.base + n ELSE size
                   q == [m EXCEPT !.base = base, ![f] = IF base = 0 THEN @ ELSE "part"]
               IN IF m.st # "Set_Ctx" /\ ~ fits THEN _inv(m)
                  ELSE IF base < size THEN q
                  ELSE [q EXCEPT !.complete = TRUE, ![f] = IF f = "scalar" THEN "d1" ELSE IF f \in {"gen", "second"} THEN v ELSE "whole",
                                 !.flags = @ \cup ({f} \cap FLAGS)]
  /\ m'.msg <= MaxPieces

_out(r, ot) == [r EXCEPT !.outtype = ot, !.st = "Output", !.base = 0, !.progress = 0]
_fail(r) == [r EXCEPT !.st = "Failure"]
\* A point multiplication: of SecondPt if there is one, into SecondPt; good: the point and the result are.
Multiply(r, halt, good) ==
  LET ss == "second" \in r.flags IN
  IF r.ext = 1 /\ ss THEN _inv(r)
  ELSE IF r.machine # "mont" /\ ~ good THEN _fail(r)
  ELSE IF halt THEN [r EXCEPT !.progress = 1]
  ELSE IF ~ good THEN _fail(r)
  ELSE _out([r EXCEPT !.second = "valid", !.flags = @ \cup {"second"}], IF ss THEN 2 ELSE 0)
\* The nonce is drawn when the signature begins, kept while it is halted, and drawn again when the
\* signature it gives is none.
Draw(r) == [r EXCEPT !.rnd = "fresh"]
Spend(r) == [r EXCEPT !.reused = @ \/ r.rnd # "fresh", !.rnd = "spent"]
_wsign(r, halt, good, rbg, again) ==
  LET t == IF r.progress = 0 THEN Draw(r) ELSE r
      u == Spend(IF again THEN Draw(t) ELSE t)
  IN IF ~ good THEN _fail(r)
     ELSE IF r.progress = 0 /\ ~ rbg THEN _inv(r)
     ELSE IF halt THEN [t EXCEPT !.progress = 1]
     ELSE IF again /\ ~ rbg THEN _inv(r)
     ELSE _out([u EXCEPT !.sig = "whole", !.flags = @ \cup {"sig"}, !.rnd = "none"], 1)
_esign(r, halt) ==
  IF halt THEN [r EXCEPT !.progress = 1]
  ELSE _out([r EXCEPT !.sig = "whole", !.flags = @ \cup {"sig"}, !.r = NoHash, !.kp = NoHash, !.msg_pass = 0, !.msg = 0], 1)
_ver(r, halt, good, ok) ==
  IF r.machine = "wei" /\ ~ good THEN _fail(r)
  ELSE IF halt THEN [r EXCEPT !.progress = 1]
  ELSE [r EXCEPT !.st = IF ok THEN "Success" ELSE "Failure", !.progress = 0, !.kp = NoHash]
exec_D(halt, ok, rbg, again) ==
  LET base == IF m.st = "Point_Mul" /\ "second" \in m.flags THEN m.second ELSE m.gen
      good == base \in {"default", "valid"} /\ (m.st = "Verify" => m.second \in {"default", "valid"})
  IN m' = CASE inert -> m
            [] m.st = "Point_Mul" -> Multiply(m, halt, good)
            [] m.st = "Sign" -> IF m.machine = "ed" THEN _esign(m, halt) ELSE _wsign(m, halt, good, rbg, again)
            [] m.st = "Verify" -> _ver(m, halt, good, ok)
            [] OTHER -> _inv(m)
exec_out(n) ==
  m' = IF inert THEN m
       ELSE IF m.st # "Output" \/ (m.ext = 2 /\ m.outtype = 2) \/ m.base + n > SIZE THEN _inv(m)
       ELSE [m EXCEPT !.base = @ + n, !.st = IF m.base + n = SIZE THEN "Success" ELSE @]
derive == m' = IF inert THEN m ELSE IF m.st = "Output" /\ m.outtype = 2 /\ m.base = 0 THEN [m EXCEPT !.st = "Success"] ELSE _inv(m)

rstrl(pol) ==
  m' = IF inert THEN m
       ELSE IF ~ (pol \subseteq m.policy) \/ (m.machine = "ed" /\ pol = {}) THEN _inv(m)
       ELSE LET t == IF pol = {} THEN [m EXCEPT !.sig = "zero", !.hash = "zero", !.flags = @ \ {"sig", "hash"}] ELSE m IN
            [t EXCEPT !.policy = pol, !.rnd = IF 0 \in pol \/ m.machine = "mont" THEN @ ELSE "none",
                      !.progress = IF 0 \in pol \/ m.machine = "mont" THEN @ ELSE 0]
clearads == m' = IF inert THEN m ELSE _discard_progress(m)
\* kl.clone: the model goes on with the copy; the original may sign with the nonce it holds.
\* Mutant: the copy has the nonce too.
CopyAll(r) == r
Copy(r) == [r EXCEPT !.progress = 0, !.rnd = "none"]
clone == m' = LET c == Copy(m) IN [c EXCEPT !.rnd = IF c.rnd = "none" THEN @ ELSE "spent"]

AllStates == SETS \cup {"Ready", "Point_Mul", "Sign", "Verify", "Msg_Absorb", "Output"}
Next ==
  \/ \E to \in AllStates, form \in {"A", "B", "C"}, x \in 0..SIZE + 1, bits \in {{4, 5}} \cup {{i} : i \in 0..6} \cup {{}},
        aux \in BOOLEAN, k \in {"none", "d2"} :
       /\ (form # "B" => x = 0) /\ (to # "Ready" \/ form # "B" => bits = {})
       /\ (to # "Msg_Absorb" => aux) /\ (to # "Set_Scalar" => k = "none")
       /\ setst(to, form, x, bits, aux, k)
  \/ \E n \in 0..SIZE, v \in {"valid", "invalid"}, fits \in BOOLEAN : exec_in(n, v, fits)
  \/ \E halt, ok, rbg, again \in BOOLEAN : exec_D(halt, ok, rbg, again)
  \/ \E n \in 1..SIZE : exec_out(n)
  \/ \E pol \in SUBSET {0, 1} : rstrl(pol)
  \/ derive \/ clearads \/ clone
Spec == Init /\ [][Next]_m

-----------------------------------------------------------------------------
(* Properties of this component; Machines.tla composes them. *)

\* No operation takes a field that was loaded in part.
NoPartialKey ==
  m.st \in {"Point_Mul", "Sign", "Verify"} =>
    /\ "part" \notin {m.gen, m.scalar, m.second, m.hash, m.sig, m.ctx}
    /\ {f \in FLAGS : m[f] = "zero"} \cap m.flags \subseteq {"second"}

\* A nonce signs once, also when the signature is halted, its progress dropped or the locker copied,
\* and is held by a signature that is halted and by nothing else.
NonceSignsOnce == ~ m.reused /\ (m.rnd # "none" => m.st = "Sign" /\ m.progress = 1)

\* EdDSA signs the message of the second pass with the nonce of the first: the two are of one
\* message, key and context.
PassesAgree == m.st = "Sign" /\ m.msg_pass = 2 => m.r = m.kp /\ m.r[2] = m.scalar
=============================================================================
