--------------------------- MODULE Machines_proofs ---------------------------
(***************************************************************************)
(* Proofs about Machines, for every set of Machines, every size of a block *)
(* of the AEADs, every counter and every field.                            *)
(*                                                                         *)
(* A step keeps the Machine of the locker, so that the invariant, IInv at  *)
(* the end, is one of each family: EOK of the elliptic curves, HOK of the  *)
(* hashes, POK of the sponges, SOK of the symmetric ciphers, AOK of the    *)
(* AEADs. Each has a lemma that a step keeps it, one that an initial state *)
(* has it, and one that the properties follow from it.                     *)
(***************************************************************************)
EXTENDS Machines, TLAPS, WellFoundedInduction

-----------------------------------------------------------------------------
(* The elliptic curves.                                                    *)

EFields == {"machine", "ext", "policy", "st", "flags", "progress", "outtype", "base",
   "complete", "gen", "scalar", "second", "hash", "sig", "ctx",
   "ctxlen", "rnd", "msg_pass", "pass_id", "msg", "r", "kp", "reused"}

\* A nonce is held by a halted signature, which has not used it, and by nothing else.
NonceOK(r) ==
  /\ ~ r.reused /\ r.progress \in {0, 1}
  /\ r.rnd # "none" => r.st = "Sign" /\ r.progress = 1 /\ r.rnd = "fresh" /\ r.machine # "ed" /\ r.gen \in {"default", "valid"}
  /\ r.st = "Sign" /\ r.progress = 1 /\ r.machine # "ed" => r.rnd = "fresh"
\* Both passes are over in Sign only.
PassOK(r) ==
  /\ r.msg_pass = 2 => r.st = "Sign" /\ r.r = r.kp /\ r.r[2] = r.scalar
  /\ r.msg_pass # 0 \/ r.st = "Msg_Absorb" => r.machine = "ed"
\* A part of a field is in the State that loads the field, before it is complete.
PartOK(r) ==
  /\ r.complete \in BOOLEAN /\ (r.st \notin E!SETS => r.complete)
  /\ r.gen = "part" => r.st = "Set_Generator" /\ ~ r.complete
  /\ r.scalar = "part" => r.st = "Set_Scalar" /\ ~ r.complete
  /\ r.second = "part" => r.st = "Set_Second" /\ ~ r.complete
  /\ r.hash = "part" => r.st = "Set_Hash" /\ ~ r.complete
  /\ r.sig = "part" => r.st = "Set_Signature" /\ ~ r.complete
  /\ r.ctx = "part" => r.st = "Set_Ctx" /\ ~ r.complete
  /\ "hash" \in r.flags => r.hash # "zero" /\ (r.st = "Set_Hash" => r.complete)
  /\ "sig" \in r.flags => r.sig # "zero" /\ (r.st = "Set_Signature" => r.complete)
EOK(r) == DOMAIN r = EFields /\ NonceOK(r) /\ PassOK(r) /\ PartOK(r)
Kept(r, s) == EOK(s) /\ s.machine = r.machine

LEMMA EInvalid == ASSUME NEW r, EOK(r) PROVE Kept(r, E!_inv(r))
  BY DEF Kept, EOK, NonceOK, PassOK, PartOK, E!_inv, E!Blank, EFields, E!SETS

LEMMA ELoad ==
  ASSUME EOK(m), NEW n \in 0..SIZE, NEW v \in {"valid", "invalid"}, NEW fits \in BOOLEAN, E!exec_in(n, v, fits)
  PROVE  Kept(m, m')
  <1>1. CASE E!inert
    BY <1>1 DEF Kept, E!exec_in
  <1>2. CASE m.st = "Msg_Absorb" /\ ~ E!inert
    BY <1>2 DEF Kept, EOK, NonceOK, PassOK, PartOK, E!exec_in, EFields, E!SETS
  <1>3. CASE ~ E!inert /\ m.st # "Msg_Absorb" /\ (m.st \notin E!SETS \/ m.complete \/ (m.st # "Set_Ctx" /\ ~ fits))
    BY <1>3, EInvalid DEF E!exec_in
  <1>4. CASE ~ E!inert /\ m.st \in E!SETS /\ ~ m.complete /\ (m.st = "Set_Ctx" \/ fits)
    <2> DEFINE f == E!FieldOf[m.st]
               size == IF m.st = "Set_Ctx" THEN m.ctxlen ELSE SIZE
               base == IF m.base + n < size THEN m.base + n ELSE size
               q == [m EXCEPT !.base = base, ![f] = IF base = 0 THEN @ ELSE "part"]
               w == [q EXCEPT !.complete = TRUE,
                              ![f] = IF f = "scalar" THEN "d1" ELSE IF f \in {"gen", "second"} THEN v ELSE "whole",
                              !.flags = @ \cup ({f} \cap E!FLAGS)]
    <2>1. m' = q \/ m' = w
      BY <1>4 DEF E!exec_in, E!SETS
    <2>2. /\ m.st = "Set_Generator" => f = "gen"
          /\ m.st = "Set_Scalar" => f = "scalar"
          /\ m.st = "Set_Hash" => f = "hash"
          /\ m.st = "Set_Second" => f = "second"
          /\ m.st = "Set_Signature" => f = "sig"
          /\ m.st = "Set_Ctx" => f = "ctx"
      BY DEF E!FieldOf
    <2> HIDE DEF f, base
    <2>3. Kept(m, q)
      BY <1>4, <2>2 DEF Kept, EOK, NonceOK, PassOK, PartOK, EFields, E!SETS
    <2>4. Kept(m, w)
      <3>1. DOMAIN w = EFields /\ NonceOK(w)
        BY <1>4, <2>2 DEF EOK, NonceOK, EFields, E!SETS
      <3>2. PassOK(w) /\ w.machine = m.machine
        BY <1>4, <2>2 DEF EOK, PassOK, EFields, E!SETS
      <3>3. PartOK(w)
        BY <1>4, <2>2 DEF EOK, PartOK, EFields, E!SETS, E!FLAGS
      <3> QED
        BY <3>1, <3>2, <3>3 DEF Kept, EOK
    <2> QED
      BY <2>1, <2>3, <2>4
  <1> QED
    BY <1>1, <1>2, <1>3, <1>4 DEF E!SETS

LEMMA EMultiply ==
  ASSUME NEW r, EOK(r), r.st = "Point_Mul", NEW halt \in BOOLEAN, NEW good \in BOOLEAN
  PROVE  Kept(r, E!Multiply(r, halt, good))
  BY EInvalid DEF Kept, EOK, NonceOK, PassOK, PartOK, E!Multiply, E!_fail, E!_out, EFields, E!SETS

LEMMA ESign ==
  ASSUME NEW r, EOK(r), r.st = "Sign", NEW halt \in BOOLEAN, NEW good \in BOOLEAN, NEW rbg \in BOOLEAN, NEW again \in BOOLEAN,
         good <=> r.gen \in {"default", "valid"}
  PROVE  /\ r.machine # "ed" => Kept(r, E!_wsign(r, halt, good, rbg, again))
         /\ r.machine = "ed" => Kept(r, E!_esign(r, halt))
  <1>1. ASSUME r.machine # "ed" PROVE Kept(r, E!_wsign(r, halt, good, rbg, again))
    BY <1>1, EInvalid DEF Kept, EOK, NonceOK, PassOK, PartOK, E!_wsign, E!Draw, E!Spend, E!_fail, E!_out, EFields, E!SETS
  <1>2. ASSUME r.machine = "ed" PROVE Kept(r, E!_esign(r, halt))
    BY <1>2 DEF Kept, EOK, NonceOK, PassOK, PartOK, E!_esign, E!_out, EFields, E!SETS
  <1> QED
    BY <1>1, <1>2

LEMMA EVerify ==
  ASSUME NEW r, EOK(r), r.st = "Verify", NEW halt \in BOOLEAN, NEW good \in BOOLEAN, NEW ok \in BOOLEAN
  PROVE  Kept(r, E!_ver(r, halt, good, ok))
  BY DEF Kept, EOK, NonceOK, PassOK, PartOK, E!_ver, E!_fail, EFields, E!SETS

LEMMA EExec ==
  ASSUME EOK(m), NEW halt \in BOOLEAN, NEW ok \in BOOLEAN, NEW rbg \in BOOLEAN, NEW again \in BOOLEAN, E!exec_D(halt, ok, rbg, again)
  PROVE  Kept(m, m')
  <1> DEFINE base == IF m.st = "Point_Mul" /\ "second" \in m.flags THEN m.second ELSE m.gen
             good == base \in {"default", "valid"} /\ (m.st = "Verify" => m.second \in {"default", "valid"})
  <1>1. good \in BOOLEAN /\ (m.st = "Sign" => (good <=> m.gen \in {"default", "valid"}))
    OBVIOUS
  <1>2. m' = CASE E!inert -> m
               [] m.st = "Point_Mul" -> E!Multiply(m, halt, good)
               [] m.st = "Sign" -> IF m.machine = "ed" THEN E!_esign(m, halt) ELSE E!_wsign(m, halt, good, rbg, again)
               [] m.st = "Verify" -> E!_ver(m, halt, good, ok)
               [] OTHER -> E!_inv(m)
    BY DEF E!exec_D
  <1> HIDE DEF good
  <1>3. CASE E!inert
    BY <1>2, <1>3 DEF Kept, E!inert
  <1>4. CASE m.st = "Point_Mul"
    BY <1>1, <1>2, <1>4, EMultiply DEF E!inert
  <1>5. CASE m.st = "Sign"
    BY <1>1, <1>2, <1>5, ESign DEF E!inert
  <1>6. CASE m.st = "Verify"
    BY <1>1, <1>2, <1>6, EVerify DEF E!inert
  <1>7. CASE ~ E!inert /\ m.st \notin {"Point_Mul", "Sign", "Verify"}
    BY <1>2, <1>7, EInvalid DEF E!inert
  <1> QED
    BY <1>3, <1>4, <1>5, <1>6, <1>7

LEMMA EOthers ==
  ASSUME EOK(m), \/ \E n \in 1..SIZE : E!exec_out(n)
                 \/ \E pol \in SUBSET {0, 1} : E!rstrl(pol)
                 \/ E!derive \/ E!clearads \/ E!clone
  PROVE  Kept(m, m')
  <1>1. ASSUME NEW n \in 1..SIZE, E!exec_out(n) PROVE Kept(m, m')
    <2>1. m' \in {m, E!_inv(m)} \/ (m.st = "Output" /\ \E st \in {"Output", "Success"} : m' = [m EXCEPT !.base = @ + n, !.st = st])
      BY <1>1 DEF E!exec_out
    <2>2. ASSUME m.st = "Output", NEW st \in {"Output", "Success"} PROVE Kept(m, [m EXCEPT !.base = @ + n, !.st = st])
      BY <2>2 DEF Kept, EOK, NonceOK, PassOK, PartOK, EFields, E!SETS
    <2> QED
      BY <2>1, <2>2, EInvalid DEF Kept
  <1>2. ASSUME NEW pol \in SUBSET {0, 1}, E!rstrl(pol) PROVE Kept(m, m')
    <2> DEFINE t == IF pol = {} THEN [m EXCEPT !.sig = "zero", !.hash = "zero", !.flags = @ \ {"sig", "hash"}] ELSE m
               u == [t EXCEPT !.policy = pol, !.rnd = IF 0 \in pol \/ m.machine = "mont" THEN @ ELSE "none",
                              !.progress = IF 0 \in pol \/ m.machine = "mont" THEN @ ELSE 0]
    <2>1. m' \in {m, E!_inv(m)} \/ (m' = u /\ pol \subseteq m.policy)
      BY <1>2 DEF E!rstrl
    <2>2. Kept(m, u)
      BY DEF Kept, EOK, NonceOK, PassOK, PartOK, EFields, E!SETS
    <2> QED
      BY <2>1, <2>2, EInvalid DEF Kept
  <1>3. CASE E!derive
    BY <1>3, EInvalid DEF Kept, EOK, NonceOK, PassOK, PartOK, E!derive, E!inert, EFields, E!SETS
  <1>4. CASE E!clearads
    BY <1>4, EInvalid DEF Kept, EOK, NonceOK, PassOK, PartOK, E!clearads, E!_discard_progress, E!inert, EFields, E!SETS
  <1>5. CASE E!clone
    BY <1>5 DEF Kept, EOK, NonceOK, PassOK, PartOK, E!clone, E!Copy, EFields, E!SETS
  <1> QED
    BY <1>1, <1>2, <1>3, <1>4, <1>5

\* What holds of a locker that has left its State: no progress, no nonce and no part of a field.
Left(r) ==
  /\ DOMAIN r = EFields /\ ~ r.reused /\ r.progress = 0 /\ r.rnd = "none" /\ r.complete /\ r.complete \in BOOLEAN
  /\ "part" \notin {r.gen, r.scalar, r.second, r.hash, r.sig, r.ctx}
  /\ "hash" \in r.flags => r.hash # "zero"
  /\ "sig" \in r.flags => r.sig # "zero"
  /\ r.msg_pass = 2 => r.r = r.kp /\ r.r[2] = r.scalar
  /\ r.msg_pass # 0 => r.machine = "ed"
  /\ r.msg_pass = 2 => r.st \in {"Msg_Absorb", "Sign"}

\* Msg_Absorb is left: the pass is closed, or the CC is invalid because the two passes differ.
LEMMA EFinalize ==
  ASSUME NEW r, EOK(r), r.st = "Msg_Absorb"
  PROVE  LET p == E!_finalize_pass(r) IN
         \/ p = E!_inv(r)
         \/ /\ DOMAIN p = EFields /\ NonceOK(p) /\ PartOK(p) /\ p.machine = r.machine /\ p.st = "Msg_Absorb"
            /\ p.msg_pass = 2 => p.r = p.kp /\ p.r[2] = p.scalar
  <1>1. CASE r.pass_id = 0
    <2> DEFINE p == [r EXCEPT !.r = E!Hash(r), !.sig = "R", !.flags = @ \ {"sig"}, !.msg_pass = 1, !.msg = 0]
    <2>1. DOMAIN p = EFields /\ NonceOK(p) /\ PartOK(p) /\ p.machine = r.machine /\ p.st = "Msg_Absorb" /\ p.msg_pass = 1
      BY DEF EOK, NonceOK, PassOK, PartOK, EFields, E!SETS
    <2>2. p = E!_finalize_pass(r)
      BY <1>1 DEF E!_finalize_pass
    <2> HIDE DEF p
    <2> QED
      BY <2>1, <2>2
  <1>2. CASE r.pass_id = 1 /\ E!Hash(r) = r.r
    BY <1>2 DEF EOK, NonceOK, PassOK, PartOK, E!_finalize_pass, E!Hash, EFields, E!SETS
  <1>3. CASE r.pass_id = 1 /\ E!Hash(r) # r.r
    BY <1>3 DEF E!_finalize_pass
  <1>4. CASE r.pass_id \notin {0, 1}
    BY <1>4 DEF EOK, NonceOK, PassOK, PartOK, E!_finalize_pass, EFields, E!SETS
  <1> QED
    BY <1>1, <1>2, <1>3, <1>4

LEMMA EAbandon ==
  ASSUME NEW r, DOMAIN r = EFields, NonceOK(r), PartOK(r), r.msg_pass # 0 => r.machine = "ed",
         r.msg_pass = 2 => r.r = r.kp /\ r.r[2] = r.scalar /\ r.st \in {"Msg_Absorb", "Sign"}
  PROVE  LET q == [E!_discard_progress(E!_abandon_load(r)) EXCEPT !.base = 0] IN
         Left(q) /\ q.machine = r.machine /\ q.st = r.st
  <1> DEFINE w == E!_abandon_load(r)
  <1>1. /\ w.machine = r.machine /\ w.st = r.st /\ DOMAIN w = EFields /\ w.complete /\ w.complete \in BOOLEAN /\ w.flags = r.flags
        /\ w.r = r.r /\ w.kp = r.kp /\ w.msg_pass = r.msg_pass /\ w.reused = r.reused /\ w.rnd = r.rnd /\ w.progress = r.progress
        /\ r.msg_pass = 2 => w.scalar = r.scalar
        /\ "part" \notin {w.gen, w.scalar, w.second, w.hash, w.sig, w.ctx}
        /\ "hash" \in w.flags => w.hash # "zero"
        /\ "sig" \in w.flags => w.sig # "zero"
    <2>1. CASE r.st \in E!SETS /\ ~ r.complete
      BY <2>1 DEF E!_abandon_load, EFields, PartOK, E!SETS, E!FieldOf
    <2>2. CASE ~ (r.st \in E!SETS /\ ~ r.complete)
      BY <2>2 DEF E!_abandon_load, EFields, PartOK, E!SETS
    <2> QED
      BY <2>1, <2>2
  <1> HIDE DEF w
  <1>2. LET q == [E!_discard_progress(w) EXCEPT !.base = 0] IN Left(q) /\ q.machine = r.machine /\ q.st = r.st
    BY <1>1 DEF Left, E!_discard_progress, EFields, NonceOK
  <1> QED
    BY <1>2 DEF w

LEMMA ELeftInvalid == ASSUME NEW r, Left(r) PROVE Kept(r, E!_inv(r))
  BY DEF Left, Kept, EOK, NonceOK, PassOK, PartOK, E!_inv, E!Blank, EFields, E!SETS

LEMMA EToReady ==
  ASSUME NEW r, Left(r), NEW form, NEW bits
  PROVE  Kept(r, E!_to_ready(r, form, bits))
  <1>1. CASE 5 \in bits /\ "second" \in r.flags /\ r.ext # 0
    BY <1>1, ELeftInvalid DEF E!_to_ready
  <1>2. CASE ~ (5 \in bits /\ "second" \in r.flags /\ r.ext # 0)
    <2> DEFINE had == "second" \in r.flags
               drop == {f \in E!FLAGS : f = "second" /\ 1 \in bits} \cup
                       {f \in E!FLAGS : r.policy # {} /\ ((f = "hash" /\ 3 \in bits) \/ (f = "sig" /\ 6 \in bits))}
               t == [r EXCEPT !.second = IF "second" \in drop THEN "zero" ELSE IF 4 \in bits THEN r.gen ELSE @,
                              !.gen = IF 0 \in bits THEN "default" ELSE IF 5 \in bits /\ had THEN r.second ELSE @,
                              !.scalar = IF 2 \in bits THEN "zero" ELSE @,
                              !.hash = IF "hash" \in drop THEN "zero" ELSE @, !.sig = IF "sig" \in drop THEN "zero" ELSE @,
                              !.flags = (@ \cup (IF 4 \in bits THEN {"second"} ELSE {})) \ drop]
               q == IF form = "B" THEN t ELSE r
               w == [q EXCEPT !.st = "Ready", !.msg_pass = 0, !.r = E!NoHash, !.kp = E!NoHash,
                              !.ctx = IF q.machine = "ed" THEN "zero" ELSE @, !.ctxlen = IF q.machine = "ed" THEN 0 ELSE @, !.msg = 0]
    <2>1. /\ DOMAIN t = EFields /\ ~ t.reused /\ t.progress = 0 /\ t.rnd = "none" /\ t.complete /\ t.complete \in BOOLEAN
          /\ "part" \notin {t.gen, t.scalar, t.second, t.hash, t.sig, t.ctx}
          /\ "hash" \in t.flags => t.hash # "zero"
          /\ "sig" \in t.flags => t.sig # "zero"
          /\ t.machine = r.machine
      <3> HIDE DEF drop
      <3>1. DOMAIN t = EFields /\ t.machine = r.machine /\ t.complete /\ t.complete \in BOOLEAN
        BY DEF Left, EFields
      <3>2. ~ t.reused /\ t.progress = 0 /\ t.rnd = "none"
        BY DEF Left, EFields
      <3>3. "part" \notin {t.gen, t.scalar, t.second, t.hash, t.sig, t.ctx}
        BY DEF Left, EFields
      <3>4. ("hash" \in t.flags => t.hash # "zero") /\ ("sig" \in t.flags => t.sig # "zero")
        BY DEF Left, EFields
      <3> QED
        BY <3>1, <3>2, <3>3, <3>4
    <2>2. E!_to_ready(r, form, bits) = w
      BY <1>2, <2>1 DEF E!_to_ready
    <2> HIDE DEF t
    <2>3. /\ DOMAIN q = EFields /\ ~ q.reused /\ q.progress = 0 /\ q.rnd = "none" /\ q.complete /\ q.complete \in BOOLEAN
          /\ "part" \notin {q.gen, q.scalar, q.second, q.hash, q.sig, q.ctx}
          /\ "hash" \in q.flags => q.hash # "zero"
          /\ "sig" \in q.flags => q.sig # "zero"
          /\ q.machine = r.machine
      BY <2>1 DEF Left
    <2> HIDE DEF q
    <2>4. Kept(r, w)
      <3>1. DOMAIN w = EFields /\ w.machine = r.machine
        BY <2>3 DEF EFields
      <3>2. NonceOK(w)
        BY <2>3 DEF EFields, NonceOK
      <3>3. PassOK(w)
        BY <2>3 DEF EFields, PassOK
      <3>4. PartOK(w)
        BY <2>3 DEF EFields, PartOK, E!SETS
      <3> QED
        BY <3>1, <3>2, <3>3, <3>4 DEF Kept, EOK
    <2> QED
      BY <2>2, <2>4
  <1> QED
    BY <1>1, <1>2

LEMMA EEnterPass ==
  ASSUME NEW r, Left(r), r.machine = "ed", NEW x, NEW aux \in BOOLEAN
  PROVE  Kept(r, E!_enter_pass(r, x, aux))
  <1> DEFINE first == aux /\ x = 0 /\ 0 \in r.policy /\ r.scalar # "zero"
             second == aux /\ x = 1 /\ r.msg_pass = 1
             verify == aux /\ x = 2 /\ 1 \in r.policy /\ {"sig", "second"} \subseteq r.flags
  <1> DEFINE t == [r EXCEPT !.st = "Msg_Absorb", !.pass_id = x, !.msg = 0]
             u == [t EXCEPT !.msg_pass = 0, !.kp = E!NoHash]
             w == [t EXCEPT !.msg_pass = 3, !.kp = E!NoHash]
  <1>1. Kept(r, u)
    <2>1. DOMAIN u = EFields /\ u.machine = r.machine
      BY DEF Left, EFields
    <2>2. NonceOK(u)
      BY DEF Left, EFields, NonceOK
    <2>3. PassOK(u)
      BY DEF Left, EFields, PassOK
    <2>4. PartOK(u)
      BY DEF Left, EFields, PartOK, E!SETS
    <2> QED
      BY <2>1, <2>2, <2>3, <2>4 DEF Kept, EOK
  <1>2. Kept(r, w)
    <2>1. DOMAIN w = EFields /\ w.machine = r.machine
      BY DEF Left, EFields
    <2>2. NonceOK(w)
      BY DEF Left, EFields, NonceOK
    <2>3. PassOK(w)
      BY DEF Left, EFields, PassOK
    <2>4. PartOK(w)
      BY DEF Left, EFields, PartOK, E!SETS
    <2> QED
      BY <2>1, <2>2, <2>3, <2>4 DEF Kept, EOK
  <1>3. ASSUME r.msg_pass = 1 PROVE Kept(r, t)
    <2>1. DOMAIN t = EFields /\ t.machine = r.machine
      BY <1>3 DEF Left, EFields
    <2>2. NonceOK(t)
      BY <1>3 DEF Left, EFields, NonceOK
    <2>3. PassOK(t)
      BY <1>3 DEF Left, EFields, PassOK
    <2>4. PartOK(t)
      BY <1>3 DEF Left, EFields, PartOK, E!SETS
    <2> QED
      BY <2>1, <2>2, <2>3, <2>4 DEF Kept, EOK
  <1>4. E!_enter_pass(r, x, aux) = CASE first -> u [] second -> t [] verify -> w [] OTHER -> E!_inv(r)
    BY DEF E!_enter_pass
  <1> HIDE DEF t, u, w
  <1> QED
    BY <1>1, <1>2, <1>3, <1>4, ELeftInvalid

LEMMA EEnter ==
  ASSUME NEW r, Left(r), NEW to \in E!States(r) \ {"Ready"}, NEW form, NEW x \in Nat, NEW aux \in BOOLEAN, NEW k \in {"none", "d2"},
         to \in {"Point_Mul", "Sign", "Verify"} => E!_gate_ok(r, to),
         to \in {"Point_Mul", "Set_Generator", "Set_Scalar", "Set_Second", "Set_Hash", "Set_Signature", "Set_Ctx"} =>
           r.st # "Msg_Absorb" /\ r.msg_pass # 2
  PROVE  Kept(r, E!Enter(r, to, form, x, aux, k))
  <1>0. Kept(r, E!_inv(r))
    BY ELeftInvalid
  <1> DEFINE q == [r EXCEPT !.st = to]
  <1>1. CASE to = "Set_Generator"
    <2>1. E!Enter(r, to, form, x, aux, k) \in {E!_inv(r), [q EXCEPT !.gen = "default", !.base = SIZE], [q EXCEPT !.gen = "zero", !.complete = FALSE]}
      BY <1>1 DEF E!Enter
    <2>2. Kept(r, [q EXCEPT !.gen = "default", !.base = SIZE]) /\ Kept(r, [q EXCEPT !.gen = "zero", !.complete = FALSE])
      BY <1>1 DEF Left, Kept, EOK, NonceOK, PassOK, PartOK, EFields, E!SETS
    <2> QED
      BY <1>0, <2>1, <2>2
  <1>2. CASE to = "Set_Scalar"
    <2>1. E!Enter(r, to, form, x, aux, k) \in {E!_inv(r), [q EXCEPT !.scalar = "zero", !.complete = FALSE], [q EXCEPT !.scalar = "d2", !.base = SIZE]}
      BY <1>2 DEF E!Enter
    <2>2. Kept(r, [q EXCEPT !.scalar = "zero", !.complete = FALSE]) /\ Kept(r, [q EXCEPT !.scalar = "d2", !.base = SIZE])
      BY <1>2 DEF Left, Kept, EOK, NonceOK, PassOK, PartOK, EFields, E!SETS
    <2> QED
      BY <1>0, <2>1, <2>2
  <1>3. CASE to \in {"Set_Hash", "Set_Second", "Set_Signature"}
    <2> DEFINE f == E!FieldOf[to]
               w == [q EXCEPT ![f] = "zero", !.flags = @ \ {f}, !.complete = FALSE]
    <2>1. (to = "Set_Hash" => f = "hash") /\ (to = "Set_Second" => f = "second") /\ (to = "Set_Signature" => f = "sig")
      BY DEF E!FieldOf
    <2>2. E!Enter(r, to, form, x, aux, k) = w
      BY <1>3 DEF E!Enter
    <2> HIDE DEF f
    <2>3. Kept(r, w)
      BY <1>3, <2>1 DEF Left, Kept, EOK, NonceOK, PassOK, PartOK, EFields, E!SETS
    <2> QED
      BY <2>2, <2>3
  <1>4. CASE to = "Set_Ctx"
    <2> DEFINE b == x = 0
               w == [q EXCEPT !.ctx = "zero", !.ctxlen = x, !.complete = b]
    <2>1. E!Enter(r, to, form, x, aux, k) \in {E!_inv(r), w}
      BY <1>4 DEF E!Enter
    <2>2. b \in BOOLEAN
      OBVIOUS
    <2> HIDE DEF b
    <2>3. Kept(r, w)
      BY <1>4, <2>2 DEF Left, Kept, EOK, NonceOK, PassOK, PartOK, EFields, E!SETS
    <2> QED
      BY <1>0, <2>1, <2>3
  <1>5. CASE to = "Msg_Absorb"
    BY <1>5, EEnterPass DEF E!Enter, E!States
  <1>6. CASE to \in {"Point_Mul", "Sign", "Verify"}
    <2>1. E!Enter(r, to, form, x, aux, k) = q
      BY <1>6 DEF E!Enter
    <2>2. r.msg_pass = 2 => to = "Sign"
      <3>1. to = "Verify" => E!_gate_ok(r, "Verify")
        BY <1>6
      <3>2. E!_gate_ok(r, "Verify") => r.msg_pass # 2
        BY DEF E!_gate_ok, Left
      <3> QED
        BY <1>6, <3>1, <3>2
    <2>3. Kept(r, q)
      <3>1. DOMAIN q = EFields /\ q.machine = r.machine
        BY <1>6, <2>2 DEF Left, EFields
      <3>2. NonceOK(q)
        BY <1>6, <2>2 DEF Left, EFields, NonceOK
      <3>3. PassOK(q)
        BY <1>6, <2>2 DEF Left, EFields, PassOK
      <3>4. PartOK(q)
        BY <1>6, <2>2 DEF Left, EFields, PartOK, E!SETS
      <3> QED
        BY <3>1, <3>2, <3>3, <3>4 DEF Kept, EOK
    <2> QED
      BY <2>1, <2>3
  <1> QED
    BY <1>1, <1>2, <1>3, <1>4, <1>5, <1>6 DEF E!States

LEMMA ESetst ==
  ASSUME MachinesAssumption, EOK(m), NEW to, NEW form, NEW x \in 0..SIZE + 1, NEW bits, NEW aux \in BOOLEAN,
         NEW k \in {"none", "d2"}, E!setst(to, form, x, bits, aux, k)
  PROVE  Kept(m, m')
  <1> DEFINE p == IF m.st = "Msg_Absorb" /\ to # "Ready" THEN E!_finalize_pass(m) ELSE m
             q == [E!_discard_progress(E!_abandon_load(p)) EXCEPT !.base = 0]
             from == \/ to = "Ready" \/ m.st = "Ready" \/ m.st \in E!SETS
                     \/ m.st = "Msg_Absorb" /\ to \in {"Msg_Absorb", "Sign", "Verify"}
  <1>1. \/ m' \in {m, E!_inv(m)}
        \/ /\ to \in E!States(m) /\ from /\ p.st # "Invalid"
           /\ to \in {"Point_Mul", "Sign", "Verify"} => E!_gate_ok(q, to)
           /\ m' = IF to = "Ready" THEN E!_to_ready(q, form, bits) ELSE E!Enter(q, to, form, x, aux, k)
    BY DEF E!setst
  <1>2. ASSUME to \in E!States(m), from, p.st # "Invalid"
        PROVE  /\ DOMAIN p = EFields /\ NonceOK(p) /\ PartOK(p) /\ p.machine = m.machine /\ p.st = m.st
               /\ p.msg_pass # 0 => p.machine = "ed"
               /\ p.msg_pass = 2 => p.r = p.kp /\ p.r[2] = p.scalar /\ p.st \in {"Msg_Absorb", "Sign"}
    <2>1. CASE m.st = "Msg_Absorb" /\ to # "Ready"
      <3>1. m.machine = "ed"
        BY <2>1 DEF EOK, PassOK
      <3>2. E!_inv(m).st = "Invalid"
        BY DEF E!_inv, E!Blank
      <3> QED
        BY <1>2, <2>1, <3>1, <3>2, EFinalize
    <2>2. CASE ~ (m.st = "Msg_Absorb" /\ to # "Ready")
      BY <2>2 DEF EOK, PassOK
    <2> QED
      BY <2>1, <2>2
  <1>3. ASSUME to \in E!States(m), from, p.st # "Invalid"
        PROVE  Left(q) /\ q.machine = m.machine /\ q.st = m.st /\ (q.msg_pass = 2 => m.st \in {"Msg_Absorb", "Sign"})
    <2> HIDE DEF p
    <2> QED
      BY <1>2, <1>3, EAbandon DEF Left
  <1>4. SIZE \in Nat
    BY DEF MachinesAssumption
  <1> HIDE DEF p, q
  <1>5. ASSUME to \in E!States(m), from, p.st # "Invalid", to # "Ready", to \in {"Point_Mul", "Sign", "Verify"} => E!_gate_ok(q, to)
        PROVE  Kept(q, E!Enter(q, to, form, x, aux, k))
    <2>1. to \in E!States(q) \ {"Ready"}
      BY <1>3, <1>5 DEF E!States
    <2>2. to \in {"Point_Mul", "Set_Generator", "Set_Scalar", "Set_Second", "Set_Hash", "Set_Signature", "Set_Ctx"} =>
            q.st # "Msg_Absorb" /\ q.msg_pass # 2
      BY <1>3, <1>5 DEF E!SETS
    <2>3. Left(q) /\ x \in Nat
      BY <1>3, <1>4, <1>5
    <2> QED
      BY <1>5, <2>1, <2>2, <2>3, EEnter
  <1>6. ASSUME to \in E!States(m), from, p.st # "Invalid" PROVE Kept(q, E!_to_ready(q, form, bits))
    BY <1>3, <1>6, EToReady
  <1>7. Kept(m, m) /\ Kept(m, E!_inv(m))
    BY EInvalid DEF Kept
  <1> QED
    BY <1>1, <1>3, <1>5, <1>6, <1>7 DEF Kept

LEMMA EStep == ASSUME MachinesAssumption, EOK(m), E!Next PROVE Kept(m, m')
  BY ESetst, ELoad, EExec, EOthers DEF E!Next

LEMMA EStart == ASSUME E!Init PROVE EOK(m) /\ m.machine \in {c[1] : c \in Curves}
  <1>1. PICK c \in Curves, p \in SUBSET {0, 1} : m = [E!Blank(c[1], c[2], "Ready") EXCEPT !.policy = p]
    BY DEF E!Init
  <1> QED
    BY <1>1 DEF EOK, NonceOK, PassOK, PartOK, E!Blank, EFields, E!SETS, E!NoHash

LEMMA ESafe ==
  ASSUME EOK(m)
  PROVE  E!NonceSignsOnce /\ E!PassesAgree /\ E!NoPartialKey
  <1>1. E!NonceSignsOnce
    BY DEF EOK, NonceOK, E!NonceSignsOnce
  <1>2. E!PassesAgree
    BY DEF EOK, PassOK, E!PassesAgree
  <1>3. E!NoPartialKey
    BY DEF EOK, PartOK, E!NoPartialKey, E!SETS, E!FLAGS
  <1> QED
    BY <1>1, <1>2, <1>3

-----------------------------------------------------------------------------
(* The hashes: a block is BYTE * BYTES bits.                               *)

HFields == {"machine", "policy", "full", "st", "lbl", "bb", "cum", "outl", "S", "kk", "sealed", "ksealed", "haskey",
            "halted", "fed", "got", "mseal", "kseal", "kset", "out"}
HTypes(r) ==
  /\ DOMAIN r = HFields /\ r.st # "Inert"
  /\ r.lbl \in Nat /\ r.bb \in 0..4 /\ r.cum \in Nat /\ r.outl \in Nat /\ r.S \in Nat /\ r.fed \in Nat /\ r.got \in Nat
  /\ r.kset \in Nat
  /\ r.sealed \in BOOLEAN /\ r.ksealed \in BOOLEAN /\ r.haskey \in BOOLEAN /\ r.mseal \in BOOLEAN /\ r.kseal \in BOOLEAN
\* A sealed secret is in the States that give neither text nor a verdict.
HSealOK(r) ==
  /\ r.mseal => r.sealed
  /\ r.kseal => r.ksealed
  /\ r.sealed \/ r.ksealed => r.out = "nothing"
  /\ r.st = "Invalid" => r.out = "nothing"
  /\ r.sealed => r.st \in {"Absorb", "Last", "Output", "Success", "PrivViolation"}
  /\ r.ksealed => r.machine = "HMAC_NIK" /\ r.haskey /\ r.st \notin {"Bits", "Verify", "Failure"}
\* What SetKey has taken is counted, and is a key when it is all of one.
HKeyOK(r) ==
  /\ r.st = "SetKey" => r.machine = "HMAC_NIK" /\ r.kset = r.cum /\ r.cum <= 4
  /\ r.st = "SetKey" /\ r.haskey => r.cum = 4
  /\ r.machine = "HMAC_NIK" /\ r.haskey => r.kset = 4
  /\ r.machine = "HMAC_NIK" /\ r.st \notin {"Invalid", "PrivViolation", "Ready", "SetKey"} => r.kset = 4
HFeedOK(r) ==
  /\ r.st = "Absorb" => /\ 4 * r.S + r.bb = (IF H!hmac(r) \/ (r.machine = "BLAKE2_KEY" /\ r.fed > 0) THEN 4 ELSE 0) + r.fed
                        /\ r.bb \in {0, 2, 4} /\ (r.bb = 4 => H!hold(r)) /\ (r.cum = 0 <=> r.fed = 0)
  /\ r.st \in {"Absorb", "Last"} => r.got = 0
  /\ r.st \in {"Output", "Bits"} => 4 * r.S + r.bb = r.got /\ r.bb < 4
  /\ r.st = "Output" => r.bb % 2 = 0 /\ r.outl % 2 = 0
\* A kl.exec was halted at the end of a block, or in the Bits that are left.
HHaltOK(r) ==
  /\ r.halted.pos \in Nat
  /\ r.halted.pos # 0 =>
       /\ r.halted.n \in Nat /\ r.halted.pos < r.halted.n
       /\ \/ r.st = "Absorb" /\ (r.bb = 0 \/ (H!hold(r) /\ r.bb = 4))
          \/ ~ r.sealed /\ ~ r.ksealed /\ ((r.st = "Output" /\ r.bb = 0) \/ (r.st = "Bits" /\ r.lbl # 0))
HOK(r) == HTypes(r) /\ HSealOK(r) /\ HKeyOK(r) /\ HFeedOK(r) /\ HHaltOK(r)
HKept(r, s) == HOK(s) /\ s.machine = r.machine
\* Between two operations: nothing is given out, nothing is halted.
HQuiet(r) == HOK(r) /\ r.out = "nothing" /\ r.halted.pos = 0

LEMMA HInvalid == ASSUME NEW r PROVE HQuiet(H!inv(r)) /\ H!inv(r).machine = r.machine
  BY DEF HQuiet, HOK, HTypes, HSealOK, HKeyOK, HFeedOK, HHaltOK, HFields, H!inv, H!Inert, H!NotHalted

LEMMA HClear ==
  ASSUME NEW r, HOK(r)
  PROVE  LET q == [r EXCEPT !.out = "nothing", !.halted = H!NotHalted] IN
         HQuiet(q) /\ q.machine = r.machine /\ q.st = r.st /\ q.sealed = r.sealed /\ q.ksealed = r.ksealed
  <1> DEFINE q == [r EXCEPT !.out = "nothing", !.halted = H!NotHalted]
  <1>1. HTypes(q) /\ q.out = "nothing" /\ q.halted.pos = 0 /\ q.machine = r.machine /\ q.st = r.st /\ q.sealed = r.sealed /\ q.ksealed = r.ksealed
    BY DEF HOK, HTypes, HFields, H!NotHalted
  <1>2. HSealOK(q)
    BY DEF HOK, HTypes, HSealOK, HFields
  <1>3. HKeyOK(q)
    BY DEF HOK, HTypes, HKeyOK, HFields
  <1>4. HFeedOK(q)
    BY DEF HOK, HTypes, HFeedOK, HFields, H!hmac, H!hold
  <1> QED
    BY <1>1, <1>2, <1>3, <1>4 DEF HQuiet, HOK, HHaltOK

LEMMA HReady == ASSUME NEW r, HOK(r), r.st # "Invalid" PROVE HQuiet(H!ready(r)) /\ H!ready(r).machine = r.machine
  <1> DEFINE b == r.haskey \/ r.machine = "HMAC_KIP"
             q == [H!Inert(r.machine, "Ready") EXCEPT !.policy = r.policy, !.full = r.full, !.kk = r.kk, !.ksealed = r.ksealed,
                     !.haskey = b, !.kseal = r.kseal, !.kset = r.kset]
  <1>1. H!ready(r) = q
    BY DEF H!ready
  <1>2. b \in BOOLEAN /\ (b <=> r.haskey \/ r.machine = "HMAC_KIP")
    BY DEF HOK, HTypes
  <1> HIDE DEF b
  <1>3. HTypes(q) /\ q.out = "nothing" /\ q.halted.pos = 0 /\ q.machine = r.machine
    <2>1. DOMAIN q = HFields /\ q.st = "Ready" /\ q.out = "nothing" /\ q.halted.pos = 0 /\ q.machine = r.machine
      BY DEF HFields, H!NotHalted, H!Inert
    <2>2. /\ q.lbl = 0 /\ q.bb = 0 /\ q.cum = 0 /\ q.outl = 0 /\ q.S = 0 /\ q.fed = 0 /\ q.got = 0 /\ q.kset = r.kset
          /\ q.ksealed = r.ksealed /\ q.haskey = b /\ q.kseal = r.kseal
      BY DEF H!Inert
    <2>3. q.sealed \in BOOLEAN /\ q.mseal \in BOOLEAN
      BY DEF H!Inert
    <2> HIDE DEF q
    <2> QED
      BY <1>2, <2>1, <2>2, <2>3 DEF HOK, HTypes
  <1>4. HSealOK(q)
    BY <1>2 DEF HOK, HTypes, HSealOK, HFields, H!Inert
  <1>5. HKeyOK(q)
    BY <1>2 DEF HOK, HTypes, HKeyOK, HFields, H!Inert
  <1>6. HFeedOK(q)
    BY DEF HOK, HTypes, HFeedOK, HFields, H!Inert
  <1> QED
    BY <1>1, <1>3, <1>4, <1>5, <1>6 DEF HQuiet, HOK, HHaltOK

LEMMA Sums ==
  ASSUME NEW s \in Nat, NEW more \in {0, 1}, NEW d \in Nat, NEW e \in 0..3, NEW sq, NEW b, NEW n \in Nat, NEW one \in {0, 1},
         sq = s + more + d, b = e + one, n = 4 * d + e + one
  PROVE  sq \in Nat /\ b \in 0..4 /\ 4 * sq + b = 4 * s + n + 4 * more
  OBVIOUS

LEMMA DivMod == ASSUME NEW p \in Nat PROVE p \div 4 \in Nat /\ p % 4 \in 0..3 /\ p = 4 * (p \div 4) + (p % 4) /\ (p % 2 = 0 => (p % 4) % 2 = 0)
  OBVIOUS

\* Absorbing adds to what the hash has compressed or holds.
\* t is r that has absorbed a bits, after the block of the key of BLAKE2 if they are the first.
HTook(r, t, a) ==
  \E sq, cum \in Nat, bb \in 0..4 :
     /\ t = [r EXCEPT !.cum = cum, !.S = sq, !.bb = bb]
     /\ 4 * sq + bb = 4 * r.S + r.bb + a + (IF r.machine = "BLAKE2_KEY" /\ r.cum = 0 /\ a > 0 THEN 4 ELSE 0)
     /\ cum >= r.cum + a
     /\ bb = 4 => H!hold(r)
     /\ a = 4 - r.bb => bb = IF H!hold(r) THEN 4 ELSE 0
     /\ a % 2 = 0 /\ r.bb % 2 = 0 => bb % 2 = 0

LEMMA HVli ==
  ASSUME NEW r, HTypes(r), NEW a \in Nat
  PROVE  HTook(r, H!_vli(r, a), a)
  <1> DEFINE k == r.machine = "BLAKE2_KEY" /\ r.cum = 0 /\ a > 0
             more == IF k THEN 1 ELSE 0
             p == r.bb + a
             cum == r.cum + a + (IF k THEN 4 ELSE 0)
             sq == r.S + more + (IF H!hold(r) THEN H!HMAX(p - 1, 0) ELSE p) \div 4
             bb == IF H!hold(r) /\ p > 0 THEN ((p - 1) % 4) + 1 ELSE p % 4
  <1>1. H!_vli(r, a) = [r EXCEPT !.cum = cum, !.S = sq, !.bb = bb]
    BY DEF H!_vli, BYTE, BYTES
  <1>2. r.bb \in 0..4 /\ r.S \in Nat /\ r.cum \in Nat
    BY DEF HTypes
  <1> USE <1>2
  <1>3. more \in {0, 1} /\ (IF k THEN 4 ELSE 0) = 4 * more
    OBVIOUS
  <1> HIDE DEF more, k
  <1>4. cum \in Nat /\ cum >= r.cum + a
    BY <1>3
  <1>5. /\ sq \in Nat /\ bb \in 0..4
        /\ 4 * sq + bb = 4 * r.S + r.bb + a + 4 * more
        /\ bb = 4 => H!hold(r)
        /\ a = 4 - r.bb => bb = IF H!hold(r) THEN 4 ELSE 0
        /\ a % 2 = 0 /\ r.bb % 2 = 0 => bb % 2 = 0
    <2>1. CASE H!hold(r) /\ p > 0
      <3>1. H!HMAX(p - 1, 0) = p - 1
        BY <2>1 DEF H!HMAX
      <3>2. sq = r.S + more + (p - 1) \div 4 /\ bb = ((p - 1) % 4) + 1
        BY <2>1, <3>1
      <3> HIDE DEF sq, bb
      <3> QED
        <4> DEFINE q == p - 1
        <4>1. q \in Nat /\ q = r.bb + a - 1
          BY <2>1
        <4>2. sq = r.S + more + q \div 4 /\ bb = (q % 4) + 1
          BY <3>2
        <4> HIDE DEF q
        <4>3. q \div 4 \in Nat /\ q % 4 \in 0..3 /\ q = 4 * (q \div 4) + (q % 4)
          BY <4>1, DivMod
        <4>4. sq \in Nat /\ bb \in 0..4 /\ 4 * sq + bb = 4 * r.S + r.bb + a + 4 * more
          <5>1. r.bb + a \in Nat /\ r.bb + a = 4 * (q \div 4) + (q % 4) + 1
            <6>1. r.bb + a = q + 1
              BY <4>1
            <6> DEFINE d == q \div 4
                       e == q % 4
            <6>2. d \in Nat /\ e \in 0..3 /\ q = 4 * d + e
              BY <4>3
            <6> HIDE DEF d, e
            <6>3. r.bb + a = 4 * d + e + 1 /\ r.bb + a \in Nat
              BY <4>1, <6>1, <6>2
            <6> QED
              BY <6>3 DEF d, e
          <5>2. sq \in Nat /\ bb \in 0..4 /\ 4 * sq + bb = 4 * r.S + (r.bb + a) + 4 * more
            BY <1>3, <4>2, <4>3, <5>1, Sums
          <5> QED
            BY <1>3, <5>2
        <4>5. a = 4 - r.bb => bb = 4
          BY <4>1, <4>2
        <4>6. a % 2 = 0 /\ r.bb % 2 = 0 => bb % 2 = 0
          BY <4>1, <4>2
        <4> QED
          BY <2>1, <4>4, <4>5, <4>6
    <2>2. CASE ~ H!hold(r)
      <3>1. sq = r.S + more + p \div 4 /\ bb = p % 4
        BY <2>2
      <3> HIDE DEF sq, bb
      <3> QED
        <4>1. p \in Nat
          OBVIOUS
        <4>2. sq = r.S + more + p \div 4 /\ bb = (p % 4) + 0
          BY <3>1, <4>1
        <4>3. p \div 4 \in Nat /\ p % 4 \in 0..3 /\ p = 4 * (p \div 4) + (p % 4) + 0
          BY <4>1, DivMod
        <4>4. sq \in Nat /\ bb \in 0..4 /\ 4 * sq + bb = 4 * r.S + r.bb + a + 4 * more
          <5>1. sq \in Nat /\ bb \in 0..4 /\ 4 * sq + bb = 4 * r.S + (r.bb + a) + 4 * more
            <6> HIDE DEF p
            <6>1. sq \in Nat /\ bb \in 0..4 /\ 4 * sq + bb = 4 * r.S + p + 4 * more
              BY <1>3, <4>1, <4>2, <4>3, Sums
            <6> QED
              BY <6>1 DEF p
          <5> QED
            BY <1>3, <5>1
        <4>5. a = 4 - r.bb => bb = 0
          BY <3>1
        <4>6. a % 2 = 0 /\ r.bb % 2 = 0 => bb % 2 = 0
          BY <3>1, DivMod
        <4>7. bb \in 0..3
          BY <3>1, <4>3
        <4> QED
          BY <2>2, <4>4, <4>5, <4>6, <4>7
    <2>3. CASE H!hold(r) /\ p = 0
      <3>1. H!HMAX(p - 1, 0) = 0 /\ a = 0 /\ r.bb = 0
        BY <2>3 DEF H!HMAX
      <3>2. sq = r.S + more /\ bb = 0
        BY <2>3, <3>1, <1>3
      <3> HIDE DEF sq, bb
      <3> QED
        BY <3>1, <3>2, <1>3
    <2> QED
      BY <2>1, <2>2, <2>3
  <1> HIDE DEF sq, bb, cum
  <1>6. (IF r.machine = "BLAKE2_KEY" /\ r.cum = 0 /\ a > 0 THEN 4 ELSE 0) = 4 * more
    BY <1>3 DEF k
  <1> QED
    BY <1>1, <1>4, <1>5, <1>6 DEF HTook

\* What a kl.setst leaves behind it.
HTo(r, s) == HQuiet(s) /\ s.machine = r.machine

LEMMA HEnterSetKey ==
  ASSUME NEW r, HQuiet(r), r.machine = "HMAC_NIK", ~ r.sealed
  PROVE  HTo(r, H!enter_setkey(r))
  <1> DEFINE q == [r EXCEPT !.st = "SetKey", !.haskey = FALSE, !.ksealed = FALSE, !.bb = 0, !.cum = 0, !.kset = 0, !.kseal = FALSE]
  <1>0. H!enter_setkey(r) = q
    BY DEF H!enter_setkey
  <1>5. HTo(r, q)
    <2>1. HTypes(q) /\ q.out = "nothing" /\ q.halted.pos = 0 /\ q.machine = r.machine
      BY DEF HQuiet, HOK, HTypes, HFields
    <2>2. HSealOK(q)
      BY DEF HQuiet, HOK, HTypes, HSealOK, HFields
    <2>3. HKeyOK(q)
      BY DEF HQuiet, HOK, HTypes, HKeyOK, HFields
    <2>4. HFeedOK(q)
      BY DEF HQuiet, HOK, HTypes, HFeedOK, HFields, H!hmac, H!hold
    <2> QED
      BY <2>1, <2>2, <2>3, <2>4 DEF HTo, HQuiet, HOK, HHaltOK
  <1> QED
    BY <1>0, <1>5

LEMMA HAbsorb ==
  ASSUME NEW r, HQuiet(r), r.st # "Invalid", NEW form
  PROVE  HTo(r, H!absorb(r, form))
  <1>1. CASE form # "A" \/ r.st \notin {"Ready", "SetKey"} \/ (r.machine = "HMAC_NIK" /\ ~ r.haskey)
    BY <1>1, HInvalid DEF H!absorb, HTo
  <1>2. CASE form = "A" /\ r.st \in {"Ready", "SetKey"} /\ (r.machine = "HMAC_NIK" => r.haskey)
    <2> DEFINE sq == IF H!hmac(r) THEN 1 ELSE 0
               q == [r EXCEPT !.st = "Absorb", !.lbl = BYTE * BYTES, !.cum = 0, !.bb = 0, !.S = sq, !.fed = 0, !.got = 0]
    <2>5. H!absorb(r, form) = q
      BY <1>2 DEF H!absorb
    <2>6. sq \in Nat /\ sq = (IF H!hmac(r) THEN 1 ELSE 0) /\ BYTE * BYTES = 4
      BY DEF BYTE, BYTES
    <2> HIDE DEF sq
    <2>7. HTo(r, q)
      <3>1. HTypes(q) /\ q.out = "nothing" /\ q.halted.pos = 0 /\ q.machine = r.machine
        BY <1>2, <2>6 DEF HQuiet, HOK, HTypes, HFields
      <3>2. HSealOK(q)
        BY <1>2, <2>6 DEF HQuiet, HOK, HTypes, HSealOK, HFields
      <3>3. HKeyOK(q)
        BY <1>2, <2>6 DEF HQuiet, HOK, HTypes, HKeyOK, HFields
      <3>4. HFeedOK(q)
        BY <1>2, <2>6 DEF HQuiet, HOK, HTypes, HFeedOK, HFields, H!hmac, H!hold
      <3> QED
        BY <3>1, <3>2, <3>3, <3>4 DEF HTo, HQuiet, HOK, HHaltOK
    <2> QED
      BY <2>5, <2>7
  <1> QED
    BY <1>1, <1>2

LEMMA HLeaveSetKey ==
  ASSUME NEW r, HQuiet(r), r.st = "SetKey", NEW form
  PROVE  H!absorb(H!leave_setkey(r), form) \in {H!absorb(r, form), H!inv(r)}
  <1> DEFINE q == [r EXCEPT !.haskey = FALSE, !.kset = 0]
  <1>1. CASE r.cum = 4
    BY <1>1 DEF H!leave_setkey, BYTE, BYTES
  <1>2. CASE r.cum # 4
    <2>1. H!leave_setkey(r) = q
      BY <1>2 DEF H!leave_setkey, BYTE, BYTES
    <2>2. q.machine = "HMAC_NIK" /\ q.machine = r.machine /\ ~ q.haskey
      BY DEF HQuiet, HOK, HTypes, HFields, HKeyOK
    <2> HIDE DEF q
    <2>3. H!absorb(q, form) = H!inv(q)
      BY <2>2 DEF H!absorb
    <2> QED
      BY <2>1, <2>2, <2>3 DEF H!inv
  <1> QED
    BY <1>1, <1>2

LEMMA HOutput ==
  ASSUME NEW r, HQuiet(r), NEW next, NEW form, NEW x \in Nat
  PROVE  /\ HTo(r, H!output(r, next, form, x)) /\ H!output(r, next, form, x).st \in {"Invalid", "Output"}
         /\ ~ r.sealed /\ ~ r.ksealed => ~ H!output(r, next, form, x).sealed /\ ~ H!output(r, next, form, x).ksealed
  <1> DEFINE bad == \/ r.st \notin {"Absorb", "Last"} \/ (r.st = "Last" /\ r.lbl # 0) \/ form \notin {"A", "B"}
                    \/ (0 \notin r.policy /\ (H!hmac(r) \/ r.machine = "BLAKE2_KEY"))
                    \/ x % BYTE # 0 \/ (~ H!xof(r) /\ x > BYTE * BYTES)
                    \/ (r.machine = "BLAKE2" /\ r.bb = 0 /\ r.kk > 0)
             ol == IF x # 0 THEN x ELSE IF H!xof(r) THEN 0 ELSE BYTE * BYTES
             q == [r EXCEPT !.st = "Output", !.bb = 0, !.lbl = 0, !.S = 0, !.cum = 0, !.outl = ol]
  <1>1. H!output(r, next, form, x) = IF bad THEN H!inv(r) ELSE q
    BY DEF H!output
  <1>2. ~ bad => r.st \in {"Absorb", "Last"} /\ ol \in Nat /\ ol % 2 = 0
    BY DEF BYTE, BYTES
  <1>3. H!inv(r).st = "Invalid" /\ ~ H!inv(r).sealed /\ ~ H!inv(r).ksealed
    BY DEF H!inv, H!Inert
  <1> HIDE DEF bad, ol
  <1>4. ASSUME ~ bad PROVE HTo(r, q) /\ q.st = "Output" /\ q.sealed = r.sealed /\ q.ksealed = r.ksealed
    <2>1. HTypes(q) /\ q.out = "nothing" /\ q.halted.pos = 0 /\ q.machine = r.machine
      BY <1>2, <1>4 DEF HQuiet, HOK, HTypes, HFields
    <2>2. HSealOK(q)
      BY <1>2, <1>4 DEF HQuiet, HOK, HTypes, HSealOK, HFields
    <2>3. HKeyOK(q)
      BY <1>2, <1>4 DEF HQuiet, HOK, HTypes, HKeyOK, HFields
    <2>4. HFeedOK(q)
      BY <1>2, <1>4 DEF HQuiet, HOK, HTypes, HFeedOK, HFields, H!hmac, H!hold
    <2> QED
      BY <2>1, <2>2, <2>3, <2>4 DEF HTo, HQuiet, HOK, HHaltOK, HTypes, HFields
  <1> QED
    BY <1>1, <1>3, <1>4, HInvalid DEF HTo

LEMMA HVerify ==
  ASSUME NEW r, HQuiet(r), ~ r.sealed, ~ r.ksealed, NEW form, NEW x \in Nat
  PROVE  HTo(r, H!verify(r, form, x))
  <1> DEFINE q == [r EXCEPT !.st = "Verify", !.bb = 0, !.lbl = 0, !.S = 0, !.cum = 0]
  <1>1. H!verify(r, form, x) = H!inv(r) \/ (H!verify(r, form, x) = q /\ r.st \in {"Absorb", "Last"})
    BY DEF H!verify
  <1>2. ASSUME r.st \in {"Absorb", "Last"} PROVE HTo(r, q)
    <2>1. HTypes(q) /\ q.out = "nothing" /\ q.halted.pos = 0 /\ q.machine = r.machine
      BY <1>2 DEF HQuiet, HOK, HTypes, HFields
    <2>2. HSealOK(q)
      BY <1>2 DEF HQuiet, HOK, HTypes, HSealOK, HFields
    <2>3. HKeyOK(q)
      BY <1>2 DEF HQuiet, HOK, HTypes, HKeyOK, HFields
    <2>4. HFeedOK(q)
      BY <1>2 DEF HQuiet, HOK, HTypes, HFeedOK, HFields, H!hmac, H!hold
    <2> QED
      BY <2>1, <2>2, <2>3, <2>4 DEF HTo, HQuiet, HOK, HHaltOK
  <1> QED
    BY <1>1, <1>2, HInvalid DEF HTo

LEMMA HBits ==
  ASSUME NEW r, HQuiet(r), ~ r.sealed, ~ r.ksealed, NEW form, NEW x \in Nat
  PROVE  HTo(r, H!bits(r, form, x))
  <1> DEFINE q == IF r.st \in {"Absorb", "Last"} THEN H!output(r, "Output", "A", 0) ELSE r
  <1>1. HTo(r, q) /\ ~ q.sealed /\ ~ q.ksealed
    BY HOutput DEF HTo
  <1>2. H!bits(r, form, x) = H!inv(r) \/ (H!bits(r, form, x) = [q EXCEPT !.st = "Bits", !.lbl = x] /\ q.st \in {"Output", "Bits"})
    BY DEF H!bits
  <1> HIDE DEF q
  <1> DEFINE w == [q EXCEPT !.st = "Bits", !.lbl = x]
  <1>3. ASSUME q.st \in {"Output", "Bits"} PROVE HTo(r, w)
    <2>1. HTypes(w) /\ w.out = "nothing" /\ w.halted.pos = 0 /\ w.machine = r.machine
      BY <1>1, <1>3 DEF HTo, HQuiet, HOK, HTypes, HFields
    <2>2. HSealOK(w)
      BY <1>1, <1>3 DEF HTo, HQuiet, HOK, HTypes, HSealOK, HFields
    <2>3. HKeyOK(w)
      BY <1>1, <1>3 DEF HTo, HQuiet, HOK, HTypes, HKeyOK, HFields
    <2>4. HFeedOK(w)
      BY <1>1, <1>3 DEF HTo, HQuiet, HOK, HTypes, HFeedOK, HFields, H!hmac, H!hold
    <2> QED
      BY <2>1, <2>2, <2>3, <2>4 DEF HTo, HQuiet, HOK, HHaltOK
  <1> QED
    BY <1>2, <1>3, HInvalid DEF HTo

LEMMA HSet ==
  ASSUME NEW r, HQuiet(r), r.st # "Invalid", NEW imm, NEW form, NEW x \in Nat
  PROVE  HTo(r, H!_setst(r, imm, form, x))
  <1> DEFINE more == [r EXCEPT !.kk = x]
             last == [r EXCEPT !.st = "Last", !.lbl = x]
  <1>1. /\ HTo(r, H!inv(r)) /\ HTo(r, H!ready(r)) /\ HTo(r, H!absorb(r, form)) /\ HTo(r, H!output(r, "Output", form, x))
        /\ r.st = "SetKey" => HTo(r, H!enter_setkey(r)) /\ HTo(r, H!absorb(H!leave_setkey(r), form))
        /\ r.st = "Ready" /\ r.machine = "HMAC_NIK" => HTo(r, H!enter_setkey(r))
        /\ ~ r.sealed /\ ~ r.ksealed => HTo(r, H!bits(r, form, x)) /\ HTo(r, H!verify(r, form, x))
    <2>1. HTo(r, H!inv(r)) /\ HTo(r, H!ready(r)) /\ HTo(r, H!absorb(r, form)) /\ HTo(r, H!output(r, "Output", form, x))
      BY HInvalid, HReady, HAbsorb, HOutput DEF HTo, HQuiet
    <2>2. ASSUME r.st = "SetKey" PROVE HTo(r, H!enter_setkey(r)) /\ HTo(r, H!absorb(H!leave_setkey(r), form))
      <3>1. r.machine = "HMAC_NIK" /\ ~ r.sealed
        BY <2>2 DEF HQuiet, HOK, HKeyOK, HSealOK
      <3>2. H!absorb(H!leave_setkey(r), form) \in {H!absorb(r, form), H!inv(r)}
        BY <2>2, HLeaveSetKey
      <3> QED
        BY <2>1, <3>1, <3>2, HEnterSetKey
    <2>3. ASSUME r.st = "Ready", r.machine = "HMAC_NIK" PROVE HTo(r, H!enter_setkey(r))
      <3>1. ~ r.sealed
        BY <2>3 DEF HQuiet, HOK, HSealOK
      <3> QED
        BY <2>3, <3>1, HEnterSetKey
    <2>4. ASSUME ~ r.sealed, ~ r.ksealed PROVE HTo(r, H!bits(r, form, x)) /\ HTo(r, H!verify(r, form, x))
      BY <2>4, HBits, HVerify
    <2> QED
      BY <2>1, <2>2, <2>3, <2>4
  <1>2. ASSUME r.st = "Ready" PROVE HTo(r, more)
    <2>1. HTypes(more) /\ more.out = "nothing" /\ more.halted.pos = 0 /\ more.machine = r.machine
      BY <1>2 DEF HQuiet, HOK, HTypes, HFields
    <2>2. HSealOK(more)
      BY <1>2 DEF HQuiet, HOK, HTypes, HSealOK, HFields
    <2>3. HKeyOK(more)
      BY <1>2 DEF HQuiet, HOK, HTypes, HKeyOK, HFields
    <2>4. HFeedOK(more)
      BY <1>2 DEF HQuiet, HOK, HTypes, HFeedOK, HFields, H!hmac, H!hold
    <2> QED
      BY <2>1, <2>2, <2>3, <2>4 DEF HTo, HQuiet, HOK, HHaltOK
  <1>3. ASSUME r.st = "Absorb" PROVE HTo(r, last)
    <2>1. HTypes(last) /\ last.out = "nothing" /\ last.halted.pos = 0 /\ last.machine = r.machine
      BY <1>3 DEF HQuiet, HOK, HTypes, HFields
    <2>2. HSealOK(last)
      BY <1>3 DEF HQuiet, HOK, HTypes, HSealOK, HFields
    <2>3. HKeyOK(last)
      BY <1>3 DEF HQuiet, HOK, HTypes, HKeyOK, HFields
    <2>4. HFeedOK(last)
      BY <1>3 DEF HQuiet, HOK, HTypes, HFeedOK, HFields, H!hmac, H!hold
    <2> QED
      BY <2>1, <2>2, <2>3, <2>4 DEF HTo, HQuiet, HOK, HHaltOK
  <1> HIDE DEF more, last
  <1> DEFINE v == H!_setst(r, imm, form, x)
  <1>4. imm \in {"ready", "finalize"} \/ (imm # "ready" /\ r.st \in {"Success", "Failure"}) => v \in {H!inv(r), H!ready(r), H!absorb(r, form)}
    <2>1. CASE imm = "ready"
      BY <2>1 DEF H!_setst
    <2>2. CASE imm = "finalize"
      BY <2>2 DEF H!_setst
    <2>3. CASE imm # "ready" /\ r.st = "Success"
      BY <2>3 DEF H!_setst
    <2>4. CASE imm # "ready" /\ r.st = "Failure"
      BY <2>4 DEF H!_setst
    <2> QED
      BY <2>1, <2>2, <2>3, <2>4
  <1> DEFINE live == r.st \notin {"Success", "Failure"}
  <1>5. imm = "setkey" /\ live => \/ v = H!inv(r)
                                  \/ (r.st = "SetKey" \/ (r.st = "Ready" /\ r.machine = "HMAC_NIK")) /\ v = H!enter_setkey(r)
    BY DEF H!_setst
  <1>6. imm = "absorb" /\ live => v = IF r.st = "SetKey" THEN H!absorb(H!leave_setkey(r), form) ELSE H!absorb(r, form)
    BY DEF H!_setst
  <1>7. imm \in {"bits", "verify"} /\ live =>
          \/ v = H!inv(r)
          \/ ~ r.sealed /\ ~ r.ksealed /\ v \in {H!bits(r, form, x), H!verify(r, form, x)}
    BY DEF H!_setst
  <1>8. imm = "aux" /\ live => v = H!inv(r) \/ (r.st = "Ready" /\ v = more)
    BY DEF H!_setst, more
  <1>9. imm = "last" /\ live => v = H!inv(r) \/ (r.st = "Absorb" /\ v = last)
    BY DEF H!_setst, last
  <1>10. imm = "output" /\ live => v \in {H!inv(r), H!output(r, "Output", form, x)}
    BY DEF H!_setst
  <1>11. imm \notin {"ready", "finalize", "setkey", "absorb", "bits", "verify", "aux", "last", "output"} /\ live => v = H!inv(r)
    BY DEF H!_setst
  <1> HIDE DEF v
  <1> QED
    <2>1. CASE live
      BY <1>1, <1>2, <1>3, <1>4, <1>5, <1>6, <1>7, <1>8, <1>9, <1>10, <1>11, <2>1 DEF v
    <2>2. CASE ~ live
      BY <1>1, <1>4, <2>2 DEF v
    <2> QED
      BY <2>1, <2>2

LEMMA HSetst ==
  ASSUME HOK(m), NEW imm, NEW form, NEW x \in 0..BYTE * BYTES + 1, H!setst(imm, form, x)
  PROVE  HKept(m, m') /\ (m'.out # "nothing" => m' = m)
  <1> DEFINE q == [m EXCEPT !.out = "nothing", !.halted = H!NotHalted]
  <1>1. x \in Nat
    BY DEF BYTE, BYTES
  <1>2. HQuiet(q) /\ q.machine = m.machine /\ q.st = m.st
    BY HClear
  <1> HIDE DEF q
  <1>3. m' = m \/ (m.st # "Invalid" /\ m' = H!_setst(q, imm, form, x))
    BY DEF H!setst, H!inert, q
  <1>4. m.st # "Invalid" => HTo(q, H!_setst(q, imm, form, x))
    BY <1>1, <1>2, HSet
  <1> QED
    BY <1>2, <1>3, <1>4 DEF HKept, HTo, HQuiet

\* A kl.exec or a kl.derive that reads: the output goes on without a gap, and a halt is at the end of a
\* block, or in the Bits that are left.
HRead(r, v) ==
  /\ HTypes(v) /\ HFeedOK(v)
  /\ \/ v.halted = r.halted
     \/ /\ v.halted.pos \in Nat
        /\ v.halted.pos # 0 => /\ v.halted.n \in Nat /\ v.halted.pos < v.halted.n
                               /\ (v.st = "Output" /\ v.bb = 0) \/ (v.st = "Bits" /\ v.lbl # 0)
  /\ v.machine = r.machine /\ v.sealed = r.sealed /\ v.ksealed = r.ksealed /\ v.mseal = r.mseal /\ v.kseal = r.kseal
  /\ v.haskey = r.haskey /\ v.kset = r.kset /\ v.cum = r.cum /\ v.st \in {r.st, "Success"}

LEMMA HHalts ==
  ASSUME NEW r, DOMAIN r = HFields, NEW n \in Nat, NEW ks \in Nat, NEW a \in Nat, ks < n
  PROVE  LET v == H!Halt(r, n, ks, a) IN
         /\ DOMAIN v = HFields
         /\ \A f \in HFields \ {"halted"} : v[f] = r[f]
         /\ v.halted.pos \in Nat /\ v.halted.n \in Nat
         /\ v.halted.pos # 0 => v.halted.n = n /\ v.halted.pos < n /\ v.halted.pos = (ks * 2 + a) \div 2
         /\ v.halted.pos = 0 => (ks * 2 + a) \div 2 \in {0} \/ (ks * 2 + a) \div 2 >= n
  <1> DEFINE pos == (ks * BYTE + a) \div BYTE
             h == IF pos < n THEN [n |-> n, pos |-> pos] ELSE H!NotHalted
  <1>1. H!Halt(r, n, ks, a) = [r EXCEPT !.halted = h]
    BY DEF H!Halt
  <1>2. pos \in Nat /\ pos = (ks * 2 + a) \div 2
    BY DEF BYTE
  <1>3. CASE pos < n
    <2>1. h.n = n /\ h.pos = pos
      BY <1>3
    <2> HIDE DEF h, pos
    <2> QED
      BY <1>1, <1>2, <1>3, <2>1 DEF HFields
  <1>4. CASE ~ (pos < n)
    <2>1. h.n = 0 /\ h.pos = 0
      BY <1>4 DEF H!NotHalted
    <2> HIDE DEF h, pos
    <2> QED
      BY <1>1, <1>2, <1>4, <2>1 DEF HFields
  <1> QED
    BY <1>3, <1>4

LEMMA HExecOut ==
  ASSUME NEW r, HOK(r), r.st \in {"Output", "Bits"}, NEW n \in Nat, NEW ks \in Nat, ks < n, NEW halt \in BOOLEAN, NEW b \in BOOLEAN,
         b => r.st = "Bits" /\ r.lbl # 0, r.st = "Bits" /\ ~ b => ~ halt
  PROVE  LET v == H!_exec_out(r, (n - ks) * BYTE, ks, halt, b) IN v = H!inv(r) \/ HRead(r, v)
  <1> DEFINE left == (n - ks) * BYTE
             stop == IF ~ halt THEN left ELSE IF b THEN BYTE ELSE BYTE * BYTES - r.bb
             rest == IF r.outl # 0 THEN H!HMIN(left, r.outl) ELSE left
             a == H!HMIN(stop, IF b THEN H!HMIN(rest, r.lbl) ELSE rest)
             t == [r EXCEPT !.S = @ + (r.bb + a) \div (BYTE * BYTES), !.bb = (@ + a) % (BYTE * BYTES), !.lbl = IF b THEN @ - a ELSE @,
                            !.got = @ + a, !.out = "text"]
             w == H!Halt(t, ks + left \div BYTE, ks, a)
             v == H!_exec_out(r, left, ks, halt, b)
  <1>1. \/ v = H!inv(r)
        \/ r.outl # 0 /\ a = r.outl /\ v = [t EXCEPT !.outl = 0, !.st = "Success"]
        \/ /\ ~ (r.outl # 0 /\ a = r.outl) /\ ~ (ks # 0 /\ r.bb # 0 /\ ~ b)
           /\ v = IF b /\ a = r.lbl THEN [t EXCEPT !.outl = IF @ = 0 THEN 0 ELSE @ - a] ELSE [w EXCEPT !.outl = IF @ = 0 THEN 0 ELSE @ - a]
    BY DEF H!_exec_out
  <1>2. /\ left \in Nat /\ left = 2 * (n - ks) /\ left > 0 /\ ks + left \div BYTE = n
        /\ r.bb \in 0..3 /\ r.outl \in Nat /\ r.lbl \in Nat
        /\ r.st = "Output" => r.bb % 2 = 0 /\ r.outl % 2 = 0
    BY DEF BYTE, HOK, HTypes, HFeedOK
  <1>3. /\ stop \in Nat /\ (~ halt => stop = left) /\ (halt /\ b => stop = 2) /\ (halt /\ ~ b => stop = 4 - r.bb)
        /\ rest \in Nat /\ rest <= left /\ (r.outl # 0 => rest <= r.outl /\ rest \in {left, r.outl}) /\ (r.outl = 0 => rest = left)
    <2> HIDE DEF left
    <2> QED
      BY <1>2 DEF BYTE, BYTES, H!HMIN
  <1> HIDE DEF left, stop, rest
  <1>4. /\ a \in Nat /\ a <= stop /\ a <= rest /\ (b => a <= r.lbl /\ a \in {stop, rest, r.lbl}) /\ (~ b => a \in {stop, rest})
    BY <1>2, <1>3 DEF H!HMIN
  <1> HIDE DEF a
  <1>5. r.st = "Output" => a % 2 = 0
    BY <1>2, <1>3, <1>4
  <1> DEFINE sq == r.S + (r.bb + a) \div 4
             bb == (r.bb + a) % 4
             l == IF b THEN r.lbl - a ELSE r.lbl
  <1>6. sq \in Nat /\ bb \in 0..3 /\ l \in Nat /\ 4 * sq + bb = 4 * r.S + r.bb + a /\ (a = 4 - r.bb => bb = 0)
        /\ (a % 2 = 0 /\ r.bb % 2 = 0 => bb % 2 = 0)
    <2> DEFINE q == r.bb + a
    <2>1. q \in Nat
      BY <1>2, <1>4
    <2>2. (q % 2 = 0 => (q % 4) % 2 = 0) /\ (q = 4 => q % 4 = 0)
      BY <2>1, DivMod
    <2>3. q \div 4 \in Nat /\ q % 4 \in 0..3 /\ q = 4 * (q \div 4) + (q % 4)
      BY <2>1, DivMod
    <2>4. a % 2 = 0 /\ r.bb % 2 = 0 => q % 2 = 0
      BY <1>2, <1>4
    <2>5. r.S \in Nat
      BY DEF HOK, HTypes
    <2>6. sq \in Nat /\ 4 * sq = 4 * r.S + 4 * (q \div 4)
      BY <2>3, <2>5
    <2>7. l \in Nat
      BY <1>2, <1>4
    <2> HIDE DEF sq, l
    <2> QED
      <3>1. a = 4 - r.bb => q = 4
        BY <1>2, <1>4
      <3>2. bb = q % 4
        OBVIOUS
      <3>3. r.bb + a = q
        OBVIOUS
      <3> HIDE DEF q, bb
      <3>4. 4 * sq + bb = 4 * r.S + q
        BY <2>3, <2>5, <2>6, <3>2
      <3>5. 4 * sq + bb = 4 * r.S + r.bb + a
        BY <1>2, <1>4, <2>5, <3>3, <3>4
      <3> QED
        BY <2>2, <2>3, <2>4, <2>6, <2>7, <3>1, <3>2, <3>5
  <1>7. /\ DOMAIN t = HFields /\ t.S = sq /\ t.bb = bb /\ t.lbl = l /\ t.got = r.got + a /\ t.out = "text"
        /\ \A f \in HFields \ {"S", "bb", "lbl", "got", "out"} : t[f] = r[f]
    <2>1. DOMAIN t = HFields /\ \A f \in HFields \ {"S", "bb", "lbl", "got", "out"} : t[f] = r[f]
      BY DEF HOK, HTypes, HFields
    <2>2. t.lbl = l /\ t.got = r.got + a /\ t.out = "text"
      BY DEF HOK, HTypes, HFields
    <2>3. BYTE * BYTES = 4
      BY DEF BYTE, BYTES
    <2>4. t.S = sq /\ t.bb = bb
      BY <2>3 DEF HOK, HTypes, HFields
    <2> QED
      BY <2>1, <2>2, <2>4
  <1> HIDE DEF t, sq, bb, l
  <1>8. /\ DOMAIN w = HFields /\ \A f \in HFields \ {"halted"} : w[f] = t[f]
        /\ w.halted.pos \in Nat /\ w.halted.n \in Nat
        /\ w.halted.pos # 0 => w.halted.n = n /\ w.halted.pos < n /\ w.halted.pos = (ks * 2 + a) \div 2
    BY <1>2, <1>4, <1>7, HHalts
  <1> HIDE DEF w, v
  <1> DEFINE Same(q) == /\ DOMAIN q = HFields /\ q.S = sq /\ q.bb = bb /\ q.lbl = l /\ q.got = r.got + a /\ q.out = "text"
                        /\ q.machine = r.machine /\ q.sealed = r.sealed /\ q.ksealed = r.ksealed /\ q.mseal = r.mseal
                        /\ q.kseal = r.kseal /\ q.haskey = r.haskey /\ q.kset = r.kset /\ q.cum = r.cum /\ q.fed = r.fed
  <1>9. ASSUME NEW q, Same(q), q.st \in {r.st, "Success"}, q.outl \in Nat, q.st = "Output" => q.outl % 2 = 0,
               \/ q.halted = r.halted
               \/ /\ q.halted.pos \in Nat
                  /\ q.halted.pos # 0 => /\ q.halted.n \in Nat /\ q.halted.pos < q.halted.n
                                         /\ (q.st = "Output" /\ q.bb = 0) \/ (q.st = "Bits" /\ q.lbl # 0)
        PROVE  HRead(r, q)
    <2>1. HTypes(q)
      BY <1>4, <1>6, <1>9 DEF HTypes, HOK
    <2>2. HFeedOK(q)
      <3>1. q.st \notin {"Absorb", "Last"}
        BY <1>9
      <3>2. 4 * q.S + q.bb = q.got /\ q.bb < 4
        BY <1>2, <1>4, <1>6, <1>9 DEF HTypes, HOK, HFeedOK
      <3>3. q.st = "Output" => r.st = "Output"
        BY <1>9
      <3>4. q.st = "Output" => q.bb % 2 = 0
        BY <1>2, <1>5, <1>6, <1>9, <3>3
      <3> QED
        BY <1>9, <3>1, <3>2, <3>4 DEF HFeedOK
    <2> QED
      BY <1>9, <2>1, <2>2 DEF HRead
  <1>10. ASSUME r.outl # 0, a = r.outl, v = [t EXCEPT !.outl = 0, !.st = "Success"] PROVE HRead(r, v)
    <2>1. Same(v) /\ v.st = "Success" /\ v.outl = 0 /\ v.halted = r.halted
      BY <1>7, <1>10 DEF HFields
    <2> HIDE DEF Same
    <2> QED
      BY <1>9, <2>1
  <1>11. ASSUME ~ (r.outl # 0 /\ a = r.outl), ~ (ks # 0 /\ r.bb # 0 /\ ~ b), b, a = r.lbl, v = [t EXCEPT !.outl = IF @ = 0 THEN 0 ELSE @ - a]
         PROVE  HRead(r, v)
    <2>1. Same(v) /\ v.st = r.st /\ v.outl = (IF r.outl = 0 THEN 0 ELSE r.outl - a) /\ v.halted = r.halted
      BY <1>7, <1>11 DEF HFields
    <2>2. v.outl \in Nat
      BY <2>1, <1>2, <1>3, <1>4
    <2>3. r.st = "Bits"
      BY <1>11
    <2> HIDE DEF Same
    <2> QED
      BY <1>9, <2>1, <2>2, <2>3
  <1>12. ASSUME ~ (r.outl # 0 /\ a = r.outl), ~ (b /\ a = r.lbl), v = [w EXCEPT !.outl = IF @ = 0 THEN 0 ELSE @ - a]
         PROVE  HRead(r, v)
    <2>1. Same(v) /\ v.st = r.st /\ v.outl = (IF r.outl = 0 THEN 0 ELSE r.outl - a) /\ v.halted = w.halted
      BY <1>7, <1>8, <1>12 DEF HFields
    <2>2. v.outl \in Nat /\ (r.st = "Output" => v.outl % 2 = 0)
      BY <2>1, <1>2, <1>3, <1>4, <1>5
    <2>3. a = left => (ks * 2 + a) \div 2 = n
      BY <1>2
    <2>4. ASSUME w.halted.pos # 0 PROVE (v.st = "Output" /\ v.bb = 0) \/ (v.st = "Bits" /\ v.lbl # 0)
      <3>1. a # left
        BY <1>8, <2>3, <2>4
      <3>2. CASE b
        BY <1>2, <1>4, <1>12, <2>1, <3>2 DEF l
      <3>3. CASE ~ b
        <4>1. halt /\ a = stop
          BY <1>2, <1>3, <1>4, <1>12, <3>1, <3>3
        <4> QED
          <5>1. r.st = "Output" /\ a = 4 - r.bb
            BY <1>3, <3>3, <4>1
          <5>2. bb = 0
            BY <1>6, <5>1
          <5>3. v.bb = 0 /\ v.st = "Output"
            BY <2>1, <5>1, <5>2
          <5> QED
            BY <5>3
      <3> QED
        BY <3>2, <3>3
    <2> HIDE DEF Same
    <2> QED
      BY <1>8, <1>9, <2>1, <2>2, <2>4
  <1> QED
    <2>1. CASE v = H!inv(r)
      BY <2>1 DEF v, left
    <2>2. CASE r.outl # 0 /\ a = r.outl /\ v = [t EXCEPT !.outl = 0, !.st = "Success"]
      <3>1. HRead(r, v)
        BY <1>10, <2>2
      <3> QED
        BY <3>1 DEF v, left
    <2>3. CASE ~ (r.outl # 0 /\ a = r.outl) /\ ~ (ks # 0 /\ r.bb # 0 /\ ~ b) /\ (b /\ a = r.lbl)
               /\ v = [t EXCEPT !.outl = IF @ = 0 THEN 0 ELSE @ - a]
      <3>1. HRead(r, v)
        BY <1>11, <2>3
      <3> QED
        BY <3>1 DEF v, left
    <2>4. CASE ~ (r.outl # 0 /\ a = r.outl) /\ ~ (b /\ a = r.lbl) /\ v = [w EXCEPT !.outl = IF @ = 0 THEN 0 ELSE @ - a]
      <3>1. HRead(r, v)
        BY <1>12, <2>4
      <3> QED
        BY <3>1 DEF v, left
    <2> QED
      BY <1>1, <2>1, <2>2, <2>3, <2>4

\* What follows the absorbing of a bits, in whole bytes unless it is the last piece.
LEMMA HTake ==
  ASSUME NEW r, HQuiet(r), NEW a \in Nat, a > 0, a % 2 = 0, r.st = "Absorb"
  PROVE  LET t == H!_vli(r, a) IN
         /\ HTypes(t) /\ HFeedOK([t EXCEPT !.fed = r.fed + a])
         /\ \A f \in HFields \ {"cum", "S", "bb"} : t[f] = r[f]
         /\ a = 4 - (IF r.bb = 4 THEN 0 ELSE r.bb) => t.bb = 0 \/ (H!hold(r) /\ t.bb = 4)
  <1> DEFINE t == H!_vli(r, a)
  <1>1. HTypes(r) /\ r.fed \in Nat /\ r.cum \in Nat /\ r.S \in Nat /\ r.bb \in {0, 2, 4} /\ (r.bb = 4 => H!hold(r))
    <2>1. HTypes(r) /\ HFeedOK(r)
      BY DEF HQuiet, HOK
    <2>2. r.fed \in Nat /\ r.cum \in Nat /\ r.S \in Nat
      BY <2>1 DEF HTypes
    <2>3. r.bb \in {0, 2, 4} /\ (r.bb = 4 => H!hold(r))
      BY <2>1 DEF HFeedOK
    <2> QED
      BY <2>1, <2>2, <2>3
  <1>2. PICK c \in Nat, d \in Nat, e \in 0..4 :
          /\ t = [r EXCEPT !.cum = d, !.S = c, !.bb = e]
          /\ 4 * c + e = 4 * r.S + r.bb + a + (IF r.machine = "BLAKE2_KEY" /\ r.cum = 0 /\ a > 0 THEN 4 ELSE 0)
          /\ d >= r.cum + a
          /\ e = 4 => H!hold(r)
          /\ a = 4 - r.bb => e = IF H!hold(r) THEN 4 ELSE 0
          /\ a % 2 = 0 /\ r.bb % 2 = 0 => e % 2 = 0
    <2>1. HTook(r, t, a)
      BY <1>1, HVli
    <2> HIDE DEF t
    <2> QED
      BY <2>1 DEF HTook
  <1>3. /\ DOMAIN t = HFields /\ t.cum = d /\ t.S = c /\ t.bb = e
        /\ \A f \in HFields \ {"cum", "S", "bb"} : t[f] = r[f]
    <2> HIDE DEF t
    <2> QED
      BY <1>1, <1>2 DEF HTypes, HFields
  <1> HIDE DEF t
  <1>4. HTypes(t)
    BY <1>1, <1>2, <1>3 DEF HTypes, HFields
  <1>5. e \in {0, 2, 4} /\ d # 0
    <2>1. e % 2 = 0
      BY <1>1, <1>2
    <2> QED
      BY <1>1, <1>2, <2>1
  <1>6. HFeedOK([t EXCEPT !.fed = r.fed + a])
    <2> DEFINE w == [t EXCEPT !.fed = r.fed + a]
    <2>1. w.st = "Absorb" /\ w.S = c /\ w.bb = e /\ w.cum = d /\ w.fed = r.fed + a /\ w.got = r.got /\ w.machine = r.machine
      BY <1>3 DEF HFields
    <2>2. r.got = 0 /\ (r.cum = 0 <=> r.fed = 0)
          /\ 4 * r.S + r.bb = (IF H!hmac(r) \/ (r.machine = "BLAKE2_KEY" /\ r.fed > 0) THEN 4 ELSE 0) + r.fed
      BY DEF HQuiet, HOK, HFeedOK
    <2> HIDE DEF w
    <2>3. H!hmac(w) = H!hmac(r) /\ H!hold(w) = H!hold(r) /\ (H!hmac(r) => r.machine # "BLAKE2_KEY")
      BY <2>1 DEF H!hmac, H!hold
    <2>4. w.fed > 0 /\ w.fed \in Nat
      BY <1>1, <2>1
    <2>5. 4 * c + e = (IF H!hmac(w) \/ (w.machine = "BLAKE2_KEY" /\ w.fed > 0) THEN 4 ELSE 0) + w.fed
      <3>1. CASE H!hmac(r)
        BY <1>1, <1>2, <2>1, <2>2, <2>3, <3>1
      <3>2. CASE ~ H!hmac(r) /\ r.machine = "BLAKE2_KEY" /\ r.fed = 0
        BY <1>1, <1>2, <2>1, <2>2, <2>3, <2>4, <3>2
      <3>3. CASE ~ H!hmac(r) /\ r.machine = "BLAKE2_KEY" /\ r.fed # 0
        BY <1>1, <1>2, <2>1, <2>2, <2>3, <2>4, <3>3
      <3>4. CASE ~ H!hmac(r) /\ r.machine # "BLAKE2_KEY"
        <4>1. 4 * c + e = 4 * r.S + r.bb + a /\ 4 * r.S + r.bb = r.fed
          BY <1>1, <1>2, <2>2, <3>4
        <4>2. 4 * c + e = r.fed + a
          BY <1>1, <1>2, <4>1
        <4> QED
          BY <1>1, <2>1, <2>3, <3>4, <4>2
      <3> QED
        BY <3>1, <3>2, <3>3, <3>4
    <2>6. e = 4 => H!hold(w)
      BY <1>2, <2>3
    <2> QED
      BY <1>5, <2>1, <2>2, <2>4, <2>5, <2>6 DEF HFeedOK, w
  <1>7. a = 4 - (IF r.bb = 4 THEN 0 ELSE r.bb) => t.bb = 0 \/ (H!hold(r) /\ t.bb = 4)
    <2>1. CASE r.bb = 4
      <3>1. H!hold(r)
        BY <1>1, <2>1
      <3>2. CASE a = 4
        <4>1. e \in {0, 4}
          BY <1>1, <1>2, <1>5, <2>1, <3>2
        <4> QED
          BY <1>3, <3>1, <4>1
      <3> QED
        BY <2>1, <3>2
    <2>2. CASE r.bb # 4
      BY <1>2, <1>3, <2>2
    <2> QED
      BY <2>1, <2>2
  <1> QED
    BY <1>3, <1>4, <1>6, <1>7 DEF t

\* The marks and the key are as before, in the same State.
HSame(r, v) ==
  /\ v.machine = r.machine /\ v.st = r.st /\ v.out = r.out /\ v.sealed = r.sealed /\ v.ksealed = r.ksealed
  /\ v.mseal = r.mseal /\ v.kseal = r.kseal /\ v.haskey = r.haskey /\ v.kset = r.kset

LEMMA HSameOK == ASSUME NEW r, NEW v, HOK(r), HSame(r, v), r.st # "SetKey" PROVE HSealOK(v) /\ HKeyOK(v)
  BY DEF HOK, HSame, HSealOK, HKeyOK

LEMMA HAbsorbing ==
  ASSUME NEW r, HQuiet(r), r.st = "Absorb", NEW n \in Nat, NEW ks \in Nat, ks < n, NEW halt \in BOOLEAN
  PROVE  HKept(r, H!_absorb(r, n, ks, halt)) /\ H!_absorb(r, n, ks, halt).out = "nothing"
  <1> DEFINE left == (n - ks) * BYTE
             a == IF halt THEN H!UpToHalt(r, left) ELSE left
             u == H!_vli(r, a)
             t == H!Halt(u, n, ks, a)
             x == IF t.halted.pos > 0 THEN (t.halted.pos - ks) * BYTE ELSE left
             v == [t EXCEPT !.fed = @ + x]
  <1>1. H!_absorb(r, n, ks, halt) \in {H!inv(r), v}
    BY DEF H!_absorb
  <1>2. left = 2 * (n - ks) /\ left \in Nat /\ left > 0 /\ left % 2 = 0
    BY DEF BYTE
  <1>3. r.bb \in {0, 2, 4} /\ DOMAIN r = HFields
    BY DEF HQuiet, HOK, HTypes, HFeedOK
  <1> HIDE DEF left
  <1>4. a \in Nat /\ a > 0 /\ a % 2 = 0 /\ a <= left /\ (a # left => a = 4 - (IF r.bb = 4 THEN 0 ELSE r.bb))
    BY <1>2, <1>3 DEF H!UpToHalt, H!HMIN, BYTE, BYTES
  <1> HIDE DEF a
  <1>5. /\ HTypes(u) /\ HFeedOK([u EXCEPT !.fed = r.fed + a])
        /\ \A f \in HFields \ {"cum", "S", "bb"} : u[f] = r[f]
        /\ a = 4 - (IF r.bb = 4 THEN 0 ELSE r.bb) => u.bb = 0 \/ (H!hold(r) /\ u.bb = 4)
    BY <1>4, HTake
  <1> HIDE DEF u
  <1>6. /\ DOMAIN t = HFields
        /\ \A f \in HFields \ {"halted"} : t[f] = u[f]
        /\ t.halted.pos \in Nat /\ t.halted.n \in Nat
        /\ t.halted.pos # 0 => t.halted.n = n /\ t.halted.pos < n /\ t.halted.pos = (ks * 2 + a) \div 2
        /\ t.halted.pos = 0 => (ks * 2 + a) \div 2 \in {0} \/ (ks * 2 + a) \div 2 >= n
    BY <1>4, <1>5, HHalts DEF HTypes
  <1> HIDE DEF t
  <1>7. x = a /\ (t.halted.pos # 0 => a # left)
    <2> DEFINE pos == (ks * 2 + a) \div 2
    <2>1. pos \in Nat /\ 2 * pos = ks * 2 + a
      BY <1>4
    <2> HIDE DEF pos
    <2>2. CASE t.halted.pos # 0
      <3>1. t.halted.pos = pos /\ pos < n
        BY <1>6, <2>2 DEF pos
      <3>2. x = (pos - ks) * 2
        BY <1>6, <2>2, <3>1 DEF BYTE
      <3> QED
        BY <1>2, <1>4, <2>1, <3>1, <3>2
    <2>3. CASE t.halted.pos = 0
      <3>1. pos = 0 \/ pos >= n
        BY <1>6, <2>3 DEF pos
      <3>2. x = left
        BY <2>3
      <3> QED
        BY <1>2, <1>4, <2>1, <2>3, <3>1, <3>2
    <2> QED
      BY <2>2, <2>3
  <1> HIDE DEF x
  <1>8. /\ DOMAIN v = HFields /\ v.fed = r.fed + a /\ v.halted = t.halted
        /\ v.cum = u.cum /\ v.S = u.S /\ v.bb = u.bb /\ v.lbl = r.lbl /\ v.got = r.got /\ v.outl = r.outl
        /\ HSame(r, v)
    BY <1>5, <1>6, <1>7 DEF HFields, HSame
  <1>9. HTypes(v)
    <2>1. r.fed \in Nat /\ r.sealed \in BOOLEAN /\ r.ksealed \in BOOLEAN /\ r.haskey \in BOOLEAN /\ r.mseal \in BOOLEAN /\ r.kseal \in BOOLEAN
      BY DEF HQuiet, HOK, HTypes
    <2> HIDE DEF v
    <2> QED
      BY <1>4, <1>5, <1>8, <2>1 DEF HTypes, HSame, HQuiet, HOK
  <1>10. HFeedOK(v)
    <2> DEFINE w == [u EXCEPT !.fed = r.fed + a]
    <2>1. w.st = "Absorb" /\ w.S = u.S /\ w.bb = u.bb /\ w.cum = u.cum /\ w.fed = r.fed + a /\ w.got = r.got /\ w.machine = r.machine
      BY <1>5 DEF HFields, HTypes
    <2>2. HFeedOK(w)
      BY <1>5
    <2> HIDE DEF v, w
    <2>3. v.st = "Absorb" /\ v.machine = r.machine /\ v.S = w.S /\ v.bb = w.bb /\ v.cum = w.cum /\ v.fed = w.fed /\ v.got = w.got
      BY <1>8, <2>1 DEF HSame
    <2> QED
      BY <2>1, <2>2, <2>3 DEF HFeedOK, H!hmac, H!hold
  <1> HIDE DEF v
  <1>11. HHaltOK(v)
    BY <1>4, <1>5, <1>6, <1>7, <1>8 DEF HHaltOK, HSame, H!hold
  <1>12. HSealOK(v) /\ HKeyOK(v)
    BY <1>8, HSameOK DEF HQuiet
  <1>13. HKept(r, v) /\ v.out = "nothing"
    BY <1>8, <1>9, <1>10, <1>11, <1>12 DEF HKept, HOK, HSame, HQuiet
  <1> QED
    BY <1>1, <1>13, HInvalid DEF HKept, HQuiet

LEMMA HSetKey ==
  ASSUME NEW r, HQuiet(r), r.st = "SetKey", NEW n \in Nat, NEW ks \in Nat, ks < n
  PROVE  HTo(r, H!_setkey(r, n, ks))
  <1> DEFINE a == H!HMIN((n - ks) * BYTE, BYTE * BYTES - r.cum)
             hk == r.cum + a = BYTE * BYTES
             v == [r EXCEPT !.bb = (@ + a) % (BYTE * BYTES), !.cum = @ + a, !.kset = @ + a, !.haskey = hk]
  <1>1. H!_setkey(r, n, ks) = H!inv(r) \/ (H!_setkey(r, n, ks) = v /\ r.cum < 4)
    <2>1. BYTE * BYTES = 4 /\ r.cum \in Nat
      BY DEF BYTE, BYTES, HQuiet, HOK, HTypes
    <2> QED
      BY <2>1 DEF H!_setkey
  <1>2. ASSUME r.cum < 4 PROVE HTo(r, v)
    <2>1. r.cum \in 0..3 /\ r.bb \in 0..4 /\ r.kset = r.cum /\ DOMAIN r = HFields
      BY <1>2 DEF HQuiet, HOK, HTypes, HKeyOK
    <2>2. a \in Nat /\ r.cum + a <= 4
      BY <2>1 DEF BYTE, BYTES, H!HMIN
    <2>3. hk \in BOOLEAN /\ (hk <=> r.cum + a = 4) /\ BYTE * BYTES = 4
      BY DEF BYTE, BYTES
    <2>4. (r.bb + a) % 4 \in 0..3
      BY <2>1, <2>2
    <2> HIDE DEF a, hk
    <2>5. /\ DOMAIN v = HFields /\ v.bb = (r.bb + a) % 4 /\ v.cum = r.cum + a /\ v.kset = r.cum + a /\ v.haskey = hk
          /\ \A f \in HFields \ {"bb", "cum", "kset", "haskey"} : v[f] = r[f]
      BY <2>1, <2>3 DEF HFields
    <2> HIDE DEF v
    <2>6. HTypes(v)
      BY <2>1, <2>2, <2>3, <2>4, <2>5 DEF HTypes, HQuiet, HOK, HFields
    <2>7. HSealOK(v)
      BY <1>2, <2>1, <2>5 DEF HSealOK, HKeyOK, HQuiet, HOK, HFields
    <2>8. HKeyOK(v)
      BY <2>1, <2>2, <2>3, <2>5 DEF HKeyOK, HQuiet, HOK, HFields
    <2>9. HFeedOK(v) /\ v.out = "nothing" /\ v.halted.pos = 0 /\ v.machine = r.machine
      BY <2>5 DEF HFeedOK, HQuiet, HOK, HFields
    <2> QED
      BY <2>6, <2>7, <2>8, <2>9 DEF HTo, HQuiet, HOK, HHaltOK
  <1> QED
    BY <1>1, <1>2, HInvalid DEF HTo

LEMMA HLast ==
  ASSUME NEW r, HQuiet(r), r.st = "Last", NEW n \in Nat, NEW ks \in Nat
  PROVE  HTo(r, H!_last(r, n, ks))
  <1> DEFINE a == IF H!hold(r) \/ H!xof(r) THEN r.lbl ELSE ((r.lbl + BYTE - 1) \div BYTE) * BYTE
             u == H!_vli(r, a)
             v == [u EXCEPT !.lbl = 0, !.fed = @ + r.lbl, !.cum = @ + r.lbl - a]
  <1>1. H!_last(r, n, ks) \in {H!inv(r), v}
    BY DEF H!_last
  <1>2. HTypes(r) /\ r.lbl \in Nat /\ r.fed \in Nat /\ r.cum \in Nat
    BY DEF HQuiet, HOK, HTypes
  <1>3. a \in Nat
    <2>1. (r.lbl + BYTE - 1) \div BYTE \in Nat
      BY <1>2 DEF BYTE
    <2> QED
      BY <1>2, <2>1 DEF BYTE
  <1> HIDE DEF a
  <1>4. PICK c \in Nat, d \in Nat, e \in 0..4 : u = [r EXCEPT !.cum = d, !.S = c, !.bb = e] /\ d >= r.cum + a
    <2>1. HTook(r, u, a)
      BY <1>2, <1>3, HVli
    <2> HIDE DEF u
    <2> QED
      BY <2>1 DEF HTook
  <1> HIDE DEF u
  <1>5. /\ DOMAIN v = HFields /\ v.lbl = 0 /\ v.fed = r.fed + r.lbl /\ v.cum = d + r.lbl - a /\ v.S = c /\ v.bb = e
        /\ \A f \in HFields \ {"lbl", "fed", "cum", "S", "bb"} : v[f] = r[f]
    BY <1>2, <1>4 DEF HTypes, HFields
  <1>6. v.cum \in Nat
    BY <1>2, <1>3, <1>4, <1>5
  <1> HIDE DEF v
  <1>7. HTypes(v)
    BY <1>2, <1>4, <1>5, <1>6 DEF HTypes, HFields
  <1>8. HSealOK(v) /\ HKeyOK(v)
    BY <1>5, HSameOK DEF HSame, HQuiet, HFields
  <1>9. HFeedOK(v) /\ v.out = "nothing" /\ v.halted.pos = 0 /\ v.machine = r.machine
    BY <1>5 DEF HFeedOK, HQuiet, HOK, HFields
  <1>10. HTo(r, v)
    BY <1>7, <1>8, <1>9 DEF HTo, HQuiet, HOK, HHaltOK
  <1> QED
    BY <1>1, <1>10, HInvalid DEF HTo

\* A kl.exec: what it gives out comes from Output, Bits or Verify, and of no secret.
LEMMA HExecState ==
  ASSUME NEW r, HQuiet(r), NEW form, NEW n \in Nat, NEW ks \in Nat, NEW halt \in BOOLEAN, NEW ok \in BOOLEAN
  PROVE  HKept(r, H!_exec(r, form, n, ks, halt, ok))
  <1> DEFINE v == H!_exec(r, form, n, ks, halt, ok)
             b == r.st = "Bits"
             o == H!_exec_out(r, (n - ks) * BYTE, ks, halt, b)
             s == IF ok THEN "Success" ELSE "Failure"
             w == [r EXCEPT !.st = s, !.out = "verdict"]
  <1>1. \/ v \in {r, H!inv(r)}
        \/ r.st \in {"Output", "Bits"} /\ H!NoSecret(r) /\ (r.st = "Bits" => r.lbl # 0) /\ ks < n /\ v = o
        \/ r.st = "Absorb" /\ ks < n /\ v = H!_absorb(r, n, ks, halt)
        \/ r.st = "SetKey" /\ ks < n /\ v = H!_setkey(r, n, ks)
        \/ r.st = "Last" /\ v = H!_last(r, n, ks)
        \/ r.st = "Verify" /\ v = w
    <2>1. CASE r.st \in {"Output", "Bits"}
      BY <2>1 DEF H!_exec
    <2>2. CASE r.st = "Absorb"
      BY <2>2 DEF H!_exec
    <2>3. CASE r.st = "SetKey"
      BY <2>3 DEF H!_exec
    <2>4. CASE r.st = "Last"
      BY <2>4 DEF H!_exec
    <2>5. CASE r.st = "Verify"
      BY <2>5 DEF H!_exec
    <2>6. CASE r.st \notin {"Output", "Bits", "Absorb", "SetKey", "Last", "Verify"}
      BY <2>6 DEF H!_exec
    <2> QED
      BY <2>1, <2>2, <2>3, <2>4, <2>5, <2>6
  <1>2. HKept(r, r) /\ HKept(r, H!inv(r))
    BY HInvalid DEF HKept, HQuiet
  <1>3. ASSUME r.st \in {"Output", "Bits"}, H!NoSecret(r), r.st = "Bits" => r.lbl # 0, ks < n PROVE HKept(r, o)
    <2>1. b \in BOOLEAN /\ (b <=> r.st = "Bits")
      OBVIOUS
    <2> HIDE DEF b
    <2>2. o = H!inv(r) \/ HRead(r, o)
      BY <1>3, <2>1, HExecOut DEF HQuiet
    <2> HIDE DEF o
    <2>3. ASSUME HRead(r, o) PROVE HKept(r, o)
      <3>1. ~ o.sealed /\ ~ o.ksealed
        BY <1>3, <2>3 DEF H!NoSecret, HRead
      <3>2. HSealOK(o)
        BY <1>3, <2>3, <3>1 DEF HRead, HSealOK, HQuiet, HOK, H!NoSecret
      <3>3. HKeyOK(o)
        BY <1>3, <2>3 DEF HRead, HKeyOK, HQuiet, HOK
      <3>4. HHaltOK(o)
        BY <2>3, <3>1 DEF HRead, HHaltOK, HQuiet
      <3> QED
        BY <2>3, <3>2, <3>3, <3>4 DEF HRead, HKept, HOK
    <2> QED
      BY <1>2, <2>2, <2>3
  <1>4. ASSUME r.st = "Verify" PROVE HKept(r, w)
    <2>1. s \in {"Success", "Failure"} /\ ~ r.sealed /\ ~ r.ksealed
      BY <1>4 DEF HQuiet, HOK, HSealOK
    <2> HIDE DEF s
    <2>2. HTypes(w) /\ w.machine = r.machine
      BY <1>4, <2>1 DEF HQuiet, HOK, HTypes, HFields
    <2>3. HSealOK(w)
      BY <1>4, <2>1 DEF HQuiet, HOK, HTypes, HSealOK, HFields
    <2>4. HKeyOK(w)
      BY <1>4, <2>1 DEF HQuiet, HOK, HTypes, HKeyOK, HFields
    <2>5. HFeedOK(w) /\ HHaltOK(w)
      BY <1>4, <2>1 DEF HQuiet, HOK, HTypes, HFeedOK, HHaltOK, HFields
    <2> QED
      BY <2>2, <2>3, <2>4, <2>5 DEF HKept, HOK
  <1> HIDE DEF v, o, w
  <1>5. r.st = "SetKey" /\ ks < n => HKept(r, H!_setkey(r, n, ks))
    BY HSetKey DEF HTo, HKept, HQuiet
  <1>6. r.st = "Last" => HKept(r, H!_last(r, n, ks))
    BY HLast DEF HTo, HKept, HQuiet
  <1>7. r.st = "Absorb" /\ ks < n => HKept(r, H!_absorb(r, n, ks, halt))
    BY HAbsorbing
  <1>8. HKept(r, v)
    BY <1>1, <1>2, <1>3, <1>4, <1>5, <1>6, <1>7
  <1> QED
    BY <1>8 DEF v

LEMMA HExec ==
  ASSUME HOK(m), NEW form, NEW n \in 0..HashWindow, NEW ks \in 0..HashWindow - 1, NEW halt \in BOOLEAN, NEW ok \in BOOLEAN,
         MachinesAssumption, H!exec(form, n, ks, halt, ok)
  PROVE  /\ HKept(m, m')
         /\ m'.out # "nothing" => m' = m \/ H!GATE(m) \subseteq m.policy
  <1> DEFINE q == [m EXCEPT !.out = "nothing", !.halted = H!NotHalted]
  <1>1. n \in Nat /\ ks \in Nat
    BY DEF MachinesAssumption
  <1>2. HQuiet(q) /\ q.machine = m.machine /\ q.st = m.st
    BY HClear
  <1> HIDE DEF q
  <1>3. \/ m' = m
        \/ m' = H!inv(m)
        \/ H!MayRun(m) /\ m' = H!_exec(q, form, n, ks, halt, ok)
    BY DEF H!exec, q
  <1>4. HKept(q, H!_exec(q, form, n, ks, halt, ok))
    BY <1>1, <1>2, HExecState
  <1>5. H!inv(m).out = "nothing" /\ HKept(m, H!inv(m)) /\ HKept(m, m)
    BY HInvalid DEF HKept, HQuiet
  <1> QED
    BY <1>2, <1>3, <1>4, <1>5 DEF HKept, H!MayRun

\* The locker takes a secret: the Metadata may be refused, a key is taken whole, and a sealed message
\* stays sealed.
LEMMA HPrivViolation ==
  ASSUME NEW r, HQuiet(r), r.st \in {"SetKey", "Absorb"}
  PROVE  HTo(r, [r EXCEPT !.st = "PrivViolation"])
  <1> DEFINE q == [r EXCEPT !.st = "PrivViolation"]
  <1>1. HTypes(q) /\ q.out = "nothing" /\ q.halted.pos = 0 /\ q.machine = r.machine
    BY DEF HQuiet, HOK, HTypes, HFields
  <1>2. HSealOK(q)
    BY DEF HQuiet, HOK, HTypes, HSealOK, HFields
  <1>3. HKeyOK(q)
    BY DEF HQuiet, HOK, HTypes, HKeyOK, HFields
  <1>4. HFeedOK(q)
    BY DEF HQuiet, HOK, HTypes, HFeedOK, HFields, H!hmac, H!hold
  <1> QED
    BY <1>1, <1>2, <1>3, <1>4 DEF HTo, HQuiet, HOK, HHaltOK

LEMMA HDeriveKey ==
  ASSUME NEW r, HQuiet(r), r.st = "SetKey", NEW sealed \in BOOLEAN
  PROVE  HTo(r, [r EXCEPT !.bb = 0, !.cum = BYTE * BYTES, !.haskey = TRUE, !.kset = BYTE * BYTES,
                          !.ksealed = H!Seal(@, sealed), !.kseal = sealed])
  <1> DEFINE b == H!Seal(r.ksealed, sealed)
             y == TRUE
             f == BYTE * BYTES
             q == [r EXCEPT !.bb = 0, !.cum = f, !.haskey = y, !.kset = f, !.ksealed = b, !.kseal = sealed]
  <1>0. y \in BOOLEAN /\ y /\ b \in BOOLEAN /\ (b <=> r.ksealed \/ sealed) /\ f = 4 /\ DOMAIN r = HFields
        /\ r.machine = "HMAC_NIK" /\ ~ r.sealed
    BY DEF HQuiet, HOK, HTypes, HSealOK, HKeyOK, H!Seal, BYTE, BYTES
  <1>1. q = [r EXCEPT !.bb = 0, !.cum = BYTE * BYTES, !.haskey = TRUE, !.kset = BYTE * BYTES,
                      !.ksealed = H!Seal(@, sealed), !.kseal = sealed]
    BY <1>0 DEF HFields
  <1> HIDE DEF b, y, f
  <1>2. HTo(r, q)
    <2>1. HTypes(q) /\ q.out = "nothing" /\ q.halted.pos = 0 /\ q.machine = r.machine
      BY <1>0 DEF HQuiet, HOK, HTypes, HFields
    <2>2. HSealOK(q)
      BY <1>0 DEF HQuiet, HOK, HTypes, HSealOK, HFields
    <2>3. HKeyOK(q)
      BY <1>0 DEF HQuiet, HOK, HTypes, HKeyOK, HFields
    <2>4. HFeedOK(q)
      BY <1>0 DEF HQuiet, HOK, HTypes, HFeedOK, HFields, H!hmac, H!hold
    <2> QED
      BY <2>1, <2>2, <2>3, <2>4 DEF HTo, HQuiet, HOK, HHaltOK
  <1> QED
    BY <1>1, <1>2

LEMMA HDeriveMessage ==
  ASSUME NEW r, HQuiet(r), r.st = "Absorb", NEW n \in Nat, n > 0, NEW sealed \in BOOLEAN
  PROVE  HTo(r, [H!_vli(r, n * BYTE) EXCEPT !.fed = @ + n * BYTE, !.sealed = H!Seal(@, sealed), !.mseal = @ \/ sealed])
  <1> DEFINE a == n * BYTE
             u == H!_vli(r, a)
             b == H!Seal(u.sealed, sealed)
             c == u.mseal \/ sealed
             v == [u EXCEPT !.fed = @ + a, !.sealed = b, !.mseal = c]
             w == [u EXCEPT !.fed = r.fed + a]
  <1>1. a \in Nat /\ a > 0 /\ a % 2 = 0
    BY DEF BYTE
  <1> HIDE DEF a
  <1>2. HTypes(u) /\ HFeedOK(w) /\ \A f \in HFields \ {"cum", "S", "bb"} : u[f] = r[f]
    BY <1>1, HTake
  <1>3. /\ DOMAIN u = HFields /\ r.sealed \in BOOLEAN /\ r.ksealed \in BOOLEAN /\ r.haskey \in BOOLEAN /\ r.mseal \in BOOLEAN
        /\ r.kseal \in BOOLEAN /\ r.fed \in Nat
    BY <1>2 DEF HTypes, HQuiet, HOK
  <1>4. b \in BOOLEAN /\ (b <=> r.sealed \/ sealed) /\ c \in BOOLEAN /\ (c <=> r.mseal \/ sealed)
    BY <1>2, <1>3 DEF H!Seal, HFields
  <1>5. v = [H!_vli(r, n * BYTE) EXCEPT !.fed = @ + n * BYTE, !.sealed = H!Seal(@, sealed), !.mseal = @ \/ sealed]
    BY DEF a
  <1> HIDE DEF u, b, c
  <1>6. /\ DOMAIN v = HFields /\ v.fed = r.fed + a /\ v.sealed = b /\ v.mseal = c /\ v.cum = u.cum /\ v.S = u.S /\ v.bb = u.bb
        /\ \A f \in HFields \ {"cum", "S", "bb", "fed", "sealed", "mseal"} : v[f] = r[f]
    BY <1>2, <1>3 DEF HFields
  <1>7. w.st = "Absorb" /\ w.S = u.S /\ w.bb = u.bb /\ w.cum = u.cum /\ w.fed = r.fed + a /\ w.got = r.got /\ w.machine = r.machine
    BY <1>2, <1>3 DEF HFields
  <1> HIDE DEF w
  <1>8. HFeedOK(v)
    <2> HIDE DEF v
    <2>0. v.st = r.st /\ v.machine = r.machine /\ v.got = r.got
      BY <1>6 DEF HFields
    <2>1. v.st = "Absorb" /\ v.machine = r.machine /\ v.S = w.S /\ v.bb = w.bb /\ v.cum = w.cum /\ v.fed = w.fed /\ v.got = w.got
      BY <1>6, <1>7, <2>0
    <2> HIDE DEF v
    <2> QED
      BY <1>2, <1>7, <2>1 DEF HFeedOK, H!hmac, H!hold
  <1> HIDE DEF v
  <1>9. HTypes(v)
    BY <1>1, <1>2, <1>3, <1>4, <1>6 DEF HTypes, HFields
  <1>10. HSealOK(v)
    BY <1>3, <1>4, <1>6 DEF HSealOK, HQuiet, HOK, HFields
  <1>11. HKeyOK(v)
    BY <1>6 DEF HKeyOK, HQuiet, HOK, HFields
  <1>12. v.out = "nothing" /\ v.halted.pos = 0 /\ v.machine = r.machine
    BY <1>6 DEF HQuiet, HFields
  <1>13. HTo(r, v)
    BY <1>8, <1>9, <1>10, <1>11, <1>12 DEF HTo, HQuiet, HOK, HHaltOK
  <1> QED
    BY <1>5, <1>13

LEMMA HDerive ==
  ASSUME HOK(m), NEW n \in 1..HashWindow, NEW secret \in BOOLEAN, NEW stream \in BOOLEAN, NEW sealed \in BOOLEAN, NEW fits \in BOOLEAN,
         MachinesAssumption, H!derive(n, secret, stream, sealed, fits)
  PROVE  HKept(m, m') /\ (m'.out # "nothing" => m' = m)
  <1> DEFINE q == [m EXCEPT !.out = "nothing", !.halted = H!NotHalted]
             refused == CASE m.st = "SetKey" -> stream \/ n * BYTE > BYTE * BYTES [] m.st = "Absorb" -> ~ secret [] OTHER -> TRUE
             p == [q EXCEPT !.st = "PrivViolation"]
             k == [q EXCEPT !.bb = 0, !.cum = BYTE * BYTES, !.haskey = TRUE, !.kset = BYTE * BYTES, !.ksealed = H!Seal(@, sealed), !.kseal = sealed]
             t == [H!_vli(q, n * BYTE) EXCEPT !.fed = @ + n * BYTE, !.sealed = H!Seal(@, sealed), !.mseal = @ \/ sealed]
  <1>1. n \in Nat /\ n > 0
    BY DEF MachinesAssumption
  <1>2. HQuiet(q) /\ q.machine = m.machine /\ q.st = m.st
    BY HClear
  <1> HIDE DEF q
  <1>3. \/ m' \in {m, q}
        \/ m' = H!inv(m)
        \/ m.st \in {"SetKey", "Absorb"} /\ m' = p
        \/ m.st = "SetKey" /\ m' = k
        \/ m.st = "Absorb" /\ m' = t
    <2>1. \/ m' \in {m, q, H!inv(m)}
          \/ ~ refused /\ m' \in {p, IF m.st = "SetKey" THEN k ELSE t}
      BY DEF H!derive, q
    <2>2. ~ refused => m.st \in {"SetKey", "Absorb"}
      OBVIOUS
    <2> QED
      BY <2>1, <2>2
  <1>4. m.st \in {"SetKey", "Absorb"} => HTo(q, p)
    BY <1>2, HPrivViolation
  <1>5. m.st = "SetKey" => HTo(q, k)
    BY <1>2, HDeriveKey
  <1>6. m.st = "Absorb" => HTo(q, t)
    BY <1>1, <1>2, HDeriveMessage
  <1>7. H!inv(m).out = "nothing" /\ HKept(m, H!inv(m)) /\ HKept(m, m) /\ q.out = "nothing" /\ HKept(m, q)
    BY <1>2, HInvalid DEF HKept, HQuiet
  <1> HIDE DEF p, k, t
  <1>8. \A v : HTo(q, v) => HKept(m, v) /\ v.out = "nothing"
    BY <1>2 DEF HTo, HKept, HQuiet
  <1> QED
    BY <1>3, <1>4, <1>5, <1>6, <1>7, <1>8

LEMMA HDeriveOut ==
  ASSUME HOK(m), NEW n \in 1..HashWindow, NEW answer, MachinesAssumption, H!derive_out(n, answer)
  PROVE  HKept(m, m') /\ (m'.out # "nothing" => m' = m)
  <1> DEFINE o == H!_exec_out(m, n * BYTE, 0, FALSE, FALSE)
             w == [o EXCEPT !.out = "nothing", !.halted = H!NotHalted]
             q == [m EXCEPT !.out = "nothing", !.halted = H!NotHalted]
  <1>1. n \in Nat /\ n > 0
    BY DEF MachinesAssumption
  <1>2. \/ m' \in {m, H!inv(m), q}
        \/ m.st \in {"Output", "Bits"} /\ m' = w
    BY DEF H!derive_out
  <1>3. HQuiet(q) /\ q.machine = m.machine
    BY HClear
  <1>4. HQuiet(H!inv(m)) /\ H!inv(m).machine = m.machine /\ HOK(m)
    BY HInvalid
  <1>5. ASSUME m.st \in {"Output", "Bits"} PROVE HQuiet(w) /\ w.machine = m.machine
    <2>1. o = H!inv(m) \/ HRead(m, o)
      <3>1. (n - 0) * BYTE = n * BYTE
        BY <1>1
      <3> HIDE DEF o
      <3>2. LET v == H!_exec_out(m, (n - 0) * BYTE, 0, FALSE, FALSE) IN v = H!inv(m) \/ HRead(m, v)
        BY <1>1, <1>5, HExecOut
      <3> QED
        BY <3>1, <3>2 DEF o
    <2> HIDE DEF o
    <2>2. CASE o = H!inv(m)
      <3>1. HOK(o) /\ o.machine = m.machine
        BY <1>4, <2>2 DEF HQuiet
      <3> QED
        BY <3>1, HClear
    <2>3. CASE HRead(m, o)
      <3>1. DOMAIN o = HFields
        BY <2>3 DEF HRead, HTypes
      <3>2. w.out = "nothing" /\ w.halted.pos = 0 /\ DOMAIN w = HFields /\ \A f \in HFields \ {"out", "halted"} : w[f] = o[f]
        BY <3>1 DEF HFields, H!NotHalted
      <3> HIDE DEF w
      <3>3. HTypes(w) /\ w.machine = m.machine
        BY <2>3, <3>2 DEF HRead, HTypes, HFields
      <3>4. HSealOK(w)
        BY <1>5, <2>3, <3>2 DEF HRead, HSealOK, HOK, HFields
      <3>5. HKeyOK(w)
        BY <1>5, <2>3, <3>2 DEF HRead, HKeyOK, HOK, HFields
      <3>6. HFeedOK(w)
        BY <1>5, <2>3, <3>2 DEF HRead, HFeedOK, HFields
      <3> QED
        BY <3>2, <3>3, <3>4, <3>5, <3>6 DEF HQuiet, HOK, HHaltOK
    <2> QED
      BY <2>1, <2>2, <2>3
  <1> HIDE DEF w, q
  <1> QED
    BY <1>2, <1>3, <1>4, <1>5 DEF HKept, HQuiet

\* A restriction keeps what the locker has read of a message, and so does an export and import.
LEMMA HRestrict ==
  ASSUME HOK(m), NEW mask, H!rstrl(mask)
  PROVE  HKept(m, m') /\ (m'.out # "nothing" => m' = m)
  <1> DEFINE pol == m.policy \cap mask
             q == [m EXCEPT !.policy = pol, !.out = "nothing"]
  <1>1. m' \in {m, H!inv(m), q}
    BY DEF H!rstrl
  <1> HIDE DEF pol
  <1>2. HTypes(q) /\ q.out = "nothing" /\ q.machine = m.machine
    BY DEF HOK, HTypes, HFields
  <1>3. HSealOK(q)
    BY DEF HOK, HTypes, HSealOK, HFields
  <1>4. HKeyOK(q)
    BY DEF HOK, HTypes, HKeyOK, HFields
  <1>5. HFeedOK(q)
    BY DEF HOK, HTypes, HFeedOK, HFields, H!hmac, H!hold
  <1>6. HHaltOK(q)
    BY DEF HOK, HTypes, HHaltOK, HFields, H!hold
  <1> HIDE DEF q
  <1> QED
    BY <1>1, <1>2, <1>3, <1>4, <1>5, <1>6, HInvalid DEF HKept, HQuiet, HOK

LEMMA HImport ==
  ASSUME HOK(m), H!import_
  PROVE  HKept(m, m') /\ (m'.out # "nothing" => m' = m)
  <1> DEFINE q == [m EXCEPT !.out = "nothing"]
  <1>1. m' \in {H!inv(m), q}
    BY DEF H!import_
  <1>2. HTypes(q) /\ q.out = "nothing" /\ q.machine = m.machine
    BY DEF HOK, HTypes, HFields
  <1>3. HSealOK(q)
    BY DEF HOK, HTypes, HSealOK, HFields
  <1>4. HKeyOK(q)
    BY DEF HOK, HTypes, HKeyOK, HFields
  <1>5. HFeedOK(q)
    BY DEF HOK, HTypes, HFeedOK, HFields, H!hmac, H!hold
  <1>6. HHaltOK(q)
    BY DEF HOK, HTypes, HHaltOK, HFields, H!hold
  <1> HIDE DEF q
  <1> QED
    BY <1>1, <1>2, <1>3, <1>4, <1>5, <1>6, HInvalid DEF HKept, HQuiet, HOK

LEMMA HStep ==
  ASSUME MachinesAssumption, HOK(m), H!Next
  PROVE  HKept(m, m') /\ (m' # m => H!GatedStep)
  <1>1. CASE \E imm \in {"ready", "setkey", "absorb", "last", "output", "bits", "verify", "aux", "finalize"}, form \in {"A", "B", "C"},
               x \in 0..BYTE * BYTES + 1 : (form # "B" => x = 0) /\ H!setst(imm, form, x)
    BY <1>1, HSetst DEF H!GatedStep
  <1>2. CASE \E form \in {"A", "B", "C"}, n \in 0..HashWindow, ks \in 0..HashWindow - 1, halt, ok \in BOOLEAN : H!exec(form, n, ks, halt, ok)
    BY <1>2, HExec DEF H!GatedStep
  <1>3. CASE \E n \in 1..HashWindow, secret, stream, sealed, fits \in BOOLEAN : (fits \/ sealed) /\ H!derive(n, secret, stream, sealed, fits)
    BY <1>3, HDerive DEF H!GatedStep
  <1>4. CASE \E n \in 1..HashWindow, answer \in {"ok", "refused", "srcinv"} : H!derive_out(n, answer)
    BY <1>4, HDeriveOut DEF H!GatedStep
  <1>5. CASE \E mask \in SUBSET {0, 1} : H!rstrl(mask)
    BY <1>5, HRestrict DEF H!GatedStep
  <1>6. CASE H!import_
    BY <1>6, HImport DEF H!GatedStep
  <1> QED
    BY <1>1, <1>2, <1>3, <1>4, <1>5, <1>6 DEF H!Next

LEMMA HStart == ASSUME MachinesAssumption, H!Init PROVE HOK(m) /\ m.machine \in Hashes
  <1>1. PICK k \in Hashes, p \in SUBSET {0, 1}, full \in BOOLEAN :
          m = H!ready([H!Inert(k, "Ready") EXCEPT !.policy = p, !.full = full, !.kset = IF k = "HMAC_KIP" THEN BYTE * BYTES ELSE 0])
    BY DEF H!Init
  <1> DEFINE ks == IF k = "HMAC_KIP" THEN BYTE * BYTES ELSE 0
             q == [H!Inert(k, "Ready") EXCEPT !.policy = p, !.full = full, !.kset = ks]
  <1>2. ks \in Nat /\ k \notin {"Invalid"}
    BY DEF BYTE, BYTES, MachinesAssumption
  <1>3. m = H!ready(q)
    BY <1>1
  <1> HIDE DEF ks
  <1>4. HTypes(q) /\ q.out = "nothing" /\ q.halted.pos = 0 /\ q.machine = k /\ q.st = "Ready"
    <2>1. /\ DOMAIN q = HFields /\ q.st = "Ready" /\ q.out = "nothing" /\ q.halted.pos = 0 /\ q.machine = k /\ q.kset = ks
          /\ q.lbl = 0 /\ q.bb = 0 /\ q.cum = 0 /\ q.outl = 0 /\ q.S = 0 /\ q.fed = 0 /\ q.got = 0
      BY DEF HFields, H!NotHalted, H!Inert
    <2>2. /\ q.sealed \in BOOLEAN /\ q.mseal \in BOOLEAN /\ q.ksealed \in BOOLEAN /\ q.haskey \in BOOLEAN /\ q.kseal \in BOOLEAN
      BY DEF H!Inert
    <2> HIDE DEF q
    <2> QED
      BY <1>2, <2>1, <2>2 DEF HTypes
  <1>5. HSealOK(q)
    BY DEF HSealOK, HFields, H!Inert
  <1>6. HKeyOK(q)
    BY DEF HKeyOK, HFields, H!Inert
  <1>7. HFeedOK(q)
    BY DEF HFeedOK, HFields, H!Inert
  <1> HIDE DEF q
  <1>8. HOK(q)
    BY <1>4, <1>5, <1>6, <1>7 DEF HOK, HHaltOK
  <1> QED
    BY <1>3, <1>4, <1>8, HReady DEF HQuiet

\* A halted kl.exec is issued again with what it left.
LEMMA HResumes ==
  ASSUME HOK(m)
  PROVE  H!HaltIsResumable
  <1> SUFFICES ASSUME m.halted.pos # 0, NEW halt \in BOOLEAN
               PROVE  H!_exec(m, IF m.st = "Absorb" THEN "B" ELSE "C", m.halted.n, m.halted.pos, halt, TRUE).st # "Invalid"
    BY DEF H!HaltIsResumable
  <1> DEFINE n == m.halted.n
             ks == m.halted.pos
  <1>1. n \in Nat /\ ks \in Nat /\ ks < n
    BY DEF HOK, HHaltOK
  <1> HIDE DEF n, ks
  <1>2. CASE m.st = "Absorb"
    <2> DEFINE left == (n - ks) * BYTE
               a == IF halt THEN H!UpToHalt(m, left) ELSE left
               u == H!_vli(m, a)
               t == H!Halt(u, n, ks, a)
               v == [t EXCEPT !.fed = @ + IF t.halted.pos > 0 THEN (t.halted.pos - ks) * BYTE ELSE left]
    <2>1. m.bb = 0 \/ (H!hold(m) /\ m.bb = BYTE * BYTES)
      BY <1>2 DEF HOK, HHaltOK, BYTE, BYTES
    <2>2. H!_exec(m, "B", n, ks, halt, TRUE) = H!_absorb(m, n, ks, halt)
      BY <1>1, <1>2 DEF H!_exec
    <2>3. H!_absorb(m, n, ks, halt) = v
      BY <2>1 DEF H!_absorb
    <2>4. v.st = "Absorb"
      <3>1. \E x, y, z : u = [m EXCEPT !.cum = x, !.S = y, !.bb = z]
        BY DEF H!_vli
      <3>2. DOMAIN m = HFields
        BY DEF HOK, HTypes
      <3> HIDE DEF u
      <3>3. u.st = "Absorb" /\ DOMAIN u = HFields
        BY <1>2, <3>1, <3>2 DEF HFields
      <3>4. \E x : t = [u EXCEPT !.halted = x]
        BY DEF H!Halt
      <3> HIDE DEF t
      <3>5. t.st = "Absorb" /\ DOMAIN t = HFields
        BY <3>3, <3>4 DEF HFields
      <3> QED
        BY <3>5 DEF HFields
    <2> HIDE DEF v
    <2> QED
      BY <1>2, <2>2, <2>3, <2>4 DEF n, ks
  <1>3. CASE m.st # "Absorb"
    <2>1. /\ ~ m.sealed /\ ~ m.ksealed
          /\ (m.st = "Output" /\ m.bb = 0) \/ (m.st = "Bits" /\ m.lbl # 0)
      BY <1>3 DEF HOK, HHaltOK
    <2> DEFINE b == m.st = "Bits"
               v == H!_exec_out(m, (n - ks) * BYTE, ks, halt, b)
    <2>2. H!_exec(m, "C", n, ks, halt, TRUE) = v
      BY <1>1, <2>1 DEF H!_exec, H!NoSecret
    <2>3. b \in BOOLEAN /\ (b <=> m.st = "Bits") /\ ~ (ks # 0 /\ m.bb # 0 /\ ~ b)
      BY <2>1
    <2> HIDE DEF b
    <2>4. v.st \in {m.st, "Success"}
      <3> DEFINE left == (n - ks) * BYTE
                 stop == IF ~ halt THEN left ELSE IF b THEN BYTE ELSE BYTE * BYTES - m.bb
                 rest == IF m.outl # 0 THEN H!HMIN(left, m.outl) ELSE left
                 a == H!HMIN(stop, IF b THEN H!HMIN(rest, m.lbl) ELSE rest)
                 t == [m EXCEPT !.S = @ + (m.bb + a) \div (BYTE * BYTES), !.bb = (@ + a) % (BYTE * BYTES), !.lbl = IF b THEN @ - a ELSE @,
                                !.got = @ + a, !.out = "text"]
                 w == H!Halt(t, ks + left \div BYTE, ks, a)
      <3>1. \/ v = [t EXCEPT !.outl = 0, !.st = "Success"]
            \/ v = [t EXCEPT !.outl = IF @ = 0 THEN 0 ELSE @ - a]
            \/ v = [w EXCEPT !.outl = IF @ = 0 THEN 0 ELSE @ - a]
        BY <2>3 DEF H!_exec_out
      <3>2. DOMAIN m = HFields
        BY DEF HOK, HTypes
      <3> HIDE DEF v, left, a
      <3>3. t.st = m.st /\ DOMAIN t = HFields
        BY <3>2 DEF HFields
      <3>4. \E x : w = [t EXCEPT !.halted = x]
        BY DEF H!Halt
      <3> HIDE DEF t, w
      <3>5. w.st = m.st /\ DOMAIN w = HFields
        BY <3>3, <3>4 DEF HFields
      <3> QED
        BY <3>1, <3>3, <3>5 DEF HFields
    <2> HIDE DEF v
    <2> QED
      BY <1>3, <2>1, <2>2, <2>4 DEF n, ks
  <1> QED
    BY <1>2, <1>3

LEMMA HSafe ==
  ASSUME HOK(m)
  PROVE  H!SealedNeverRead /\ H!NoPartialKey /\ H!FeedIsAbsorbed /\ H!HaltIsResumable
  <1>1. H!SealedNeverRead
    BY DEF HOK, HTypes, HSealOK, H!SealedNeverRead, H!meta_ok
  <1>2. H!NoPartialKey
    BY DEF HOK, HKeyOK, H!NoPartialKey, BYTE, BYTES
  <1>3. H!FeedIsAbsorbed
    <2>1. BYTE * BYTES = 4 /\ m.S \in Nat /\ m.bb \in 0..4
      BY DEF HOK, HTypes, BYTE, BYTES
    <2>2. m.S * 4 = 4 * m.S
      BY <2>1
    <2> QED
      BY <2>1, <2>2 DEF HOK, HFeedOK, H!FeedIsAbsorbed, H!Before
  <1> QED
    BY <1>1, <1>2, <1>3, HResumes

-----------------------------------------------------------------------------
(* The sponges: a block is BYTE * BYTES bits, as of the hashes.            *)

PFields == {"machine", "policy", "whole", "st", "bb", "lbl", "ol", "cum", "zlen", "S",
            "sealed", "halted", "fed", "got", "cut", "mseal", "out"}
PTypes(r) ==
  /\ DOMAIN r = PFields /\ r.bb \in 0..3 /\ r.lbl \in Nat /\ r.ol \in Nat /\ r.cum \in Nat /\ r.zlen \in Nat
  /\ r.S \in Nat /\ r.fed \in Nat /\ r.got \in Nat /\ r.sealed \in BOOLEAN /\ r.mseal \in BOOLEAN
\* A sealed message is in the States that give neither text nor a verdict.
PSealOK(r) ==
  /\ r.mseal => r.sealed
  /\ r.sealed => r.out = "nothing" /\ r.st \in {"Absorb", "Last", "Output", "Success"} /\ ~ P!aead(r)
PFeedOK(r) ==
  /\ ~ r.cut
  /\ r.st = "Aux" => ~ P!aead(r) /\ r.cum = r.fed /\ (r.cum < r.zlen => r.bb % 2 = 0)
  /\ ~ P!aead(r) => /\ r.st \in {"Absorb", "Aux"} => 4 * r.S + r.bb = r.fed
                    /\ r.st \in {"Absorb", "Output"} => r.bb % 2 = 0
                    /\ r.st \in {"Absorb", "Last"} => r.got = 0
                    /\ r.st \in {"Output", "Bits"} => 4 * r.S + r.bb = r.got
\* A kl.exec was halted at the end of a block, or in the Bits that are left.
PHaltOK(r) ==
  /\ r.halted.pos \in Nat
  /\ r.halted.pos # 0 =>
       /\ r.halted.n \in Nat /\ r.halted.pos < r.halted.n /\ ~ P!aead(r)
       /\ \/ r.st \in {"Absorb", "Output", "Aux"} /\ r.bb = 0 /\ (r.st = "Aux" => r.cum < r.zlen) /\ (r.st = "Output" => ~ r.sealed)
          \/ r.st = "Bits" /\ r.lbl # 0
POK(r) == PTypes(r) /\ PSealOK(r) /\ PFeedOK(r) /\ PHaltOK(r)
PKept(r, s) == POK(s) /\ s.machine = r.machine
PQuiet(r) == POK(r) /\ r.out = "nothing" /\ r.halted.pos = 0
PTo(r, s) == PQuiet(s) /\ s.machine = r.machine

LEMMA PInert == ASSUME NEW k, NEW e, e # "Aux" PROVE PQuiet(P!Inert(k, e)) /\ P!Inert(k, e).machine = k /\ P!Inert(k, e).st = e
  BY DEF PQuiet, POK, PTypes, PSealOK, PFeedOK, PHaltOK, PFields, P!Inert, P!NotHalted

LEMMA PInvalid == ASSUME NEW r PROVE PTo(r, P!invalid(r)) /\ P!invalid(r).st = "Invalid" /\ P!invalid(r).out = "nothing" /\ ~ P!invalid(r).sealed
  BY PInert DEF P!invalid, PTo, PQuiet, POK, PSealOK

LEMMA PClear ==
  ASSUME NEW r, POK(r)
  PROVE  LET q == [r EXCEPT !.out = "nothing", !.halted = P!NotHalted] IN
         PTo(r, q) /\ q.st = r.st /\ q.sealed = r.sealed /\ q.policy = r.policy
  <1> DEFINE q == [r EXCEPT !.out = "nothing", !.halted = P!NotHalted]
  <1>1. PTypes(q) /\ q.out = "nothing" /\ q.halted.pos = 0 /\ q.machine = r.machine /\ q.st = r.st /\ q.sealed = r.sealed /\ q.policy = r.policy
    BY DEF POK, PTypes, PFields, P!NotHalted
  <1>2. PSealOK(q)
    BY DEF POK, PTypes, PSealOK, PFields, P!aead
  <1>3. PFeedOK(q)
    BY DEF POK, PTypes, PFeedOK, PFields, P!aead
  <1> QED
    BY <1>1, <1>2, <1>3 DEF PTo, PQuiet, POK, PHaltOK

LEMMA PReady == ASSUME NEW r PROVE PTo(r, P!_ready(r))
  <1> DEFINE q == [P!Inert(r.machine, "Ready") EXCEPT !.policy = r.policy, !.whole = r.whole]
  <1>1. PTypes(q) /\ q.out = "nothing" /\ q.halted.pos = 0 /\ q.machine = r.machine
    BY DEF PTypes, PFields, P!Inert, P!NotHalted
  <1>2. PSealOK(q)
    BY DEF PSealOK, PFields, P!Inert
  <1>3. PFeedOK(q)
    BY DEF PFeedOK, PFields, P!Inert
  <1> QED
    BY <1>1, <1>2, <1>3 DEF PTo, PQuiet, POK, PHaltOK, P!_ready

\* A kl.setst of a hash, from a locker that is not halted.
LEMMA PAbsorbing ==
  ASSUME NEW r, PQuiet(r), r.st \in {"Ready", "Aux"}
  PROVE  PTo(r, P!Absorbing(r)) /\ ~ P!Absorbing(r).sealed
  <1> DEFINE c == r.st = "Aux" /\ r.fed # r.zlen
             q == [r EXCEPT !.cut = c, !.st = "Absorb", !.lbl = BYTE * BYTES, !.bb = 0, !.zlen = 0, !.cum = 0, !.S = 0, !.fed = 0, !.got = 0]
  <1>1. P!Absorbing(r) = IF r.st = "Aux" /\ r.cum # r.zlen THEN P!invalid(r) ELSE q
    BY DEF P!Absorbing
  <1>2. CASE r.st = "Aux" /\ r.cum # r.zlen
    BY <1>1, <1>2, PInvalid
  <1>3. CASE ~ (r.st = "Aux" /\ r.cum # r.zlen)
    <2>1. c = FALSE /\ BYTE * BYTES = 4 /\ DOMAIN r = PFields /\ ~ r.sealed
      BY <1>3 DEF PQuiet, POK, PTypes, PFeedOK, PSealOK, BYTE, BYTES
    <2> HIDE DEF c
    <2>2. PTypes(q) /\ q.out = "nothing" /\ q.halted.pos = 0 /\ q.machine = r.machine /\ ~ q.sealed
      <3>1. DOMAIN q = PFields /\ q.out = "nothing" /\ q.halted.pos = 0 /\ q.machine = r.machine /\ ~ q.sealed
        BY <2>1 DEF PQuiet, PFields
      <3>2. q.sealed \in BOOLEAN /\ q.mseal \in BOOLEAN
        BY <2>1 DEF PQuiet, POK, PTypes, PFields
      <3>3. q.bb \in 0..3 /\ q.lbl \in Nat /\ q.ol \in Nat /\ q.cum \in Nat /\ q.zlen \in Nat /\ q.S \in Nat /\ q.fed \in Nat /\ q.got \in Nat
        BY <2>1 DEF PQuiet, POK, PTypes, PFields
      <3> QED
        BY <3>1, <3>2, <3>3 DEF PTypes
    <2>3. PSealOK(q)
      BY <2>1 DEF PQuiet, POK, PTypes, PSealOK, PFields, P!aead
    <2>4. PFeedOK(q)
      BY <2>1 DEF PFeedOK, PFields, P!aead
    <2> QED
      BY <1>1, <1>3, <2>2, <2>3, <2>4 DEF PTo, PQuiet, POK, PHaltOK
  <1> QED
    BY <1>2, <1>3

LEMMA PToOutput ==
  ASSUME NEW r, PQuiet(r), ~ P!aead(r), r.st \in {"Absorb", "Last"}, NEW x \in Nat, NEW next \in {"Output", "Verify"}, next = "Verify" => ~ r.sealed
  PROVE  PTo(r, P!_to_output(r, x, next)) /\ P!_to_output(r, x, next).sealed = r.sealed
  <1> DEFINE q == [r EXCEPT !.bb = 0, !.lbl = 0, !.S = 0, !.ol = x, !.st = next]
  <1>1. PTypes(q) /\ q.out = "nothing" /\ q.halted.pos = 0 /\ q.machine = r.machine /\ q.sealed = r.sealed
    BY DEF PQuiet, POK, PTypes, PFields
  <1>2. PSealOK(q)
    BY DEF PQuiet, POK, PTypes, PSealOK, PFields, P!aead
  <1>3. PFeedOK(q)
    BY DEF PQuiet, POK, PTypes, PFeedOK, PFields, P!aead
  <1> QED
    BY <1>1, <1>2, <1>3 DEF PTo, PQuiet, POK, PHaltOK, P!_to_output

LEMMA PSetHash ==
  ASSUME NEW r, PQuiet(r), ~ P!aead(r), NEW imm, NEW form, NEW x \in Nat, ~ (imm = "verify" /\ r.sealed)
  PROVE  PTo(r, P!SetHash(r, imm, form, x)) /\ (~ r.sealed => ~ P!SetHash(r, imm, form, x).sealed)
  <1> DEFINE v == P!SetHash(r, imm, form, x)
             last == [r EXCEPT !.st = "Last", !.lbl = x]
             aux == [r EXCEPT !.st = "Aux", !.zlen = x, !.bb = 0, !.cum = 0, !.S = 0, !.fed = 0]
  <1>1. \/ v = P!invalid(r)
        \/ r.st \in {"Ready", "Aux"} /\ v \in {P!Absorbing(r), aux}
        \/ r.st = "Absorb" /\ v = last
        \/ r.st \in {"Absorb", "Last"} /\ v = P!_to_output(r, x, "Output")
        \/ r.st \in {"Absorb", "Last"} /\ imm = "verify" /\ v = P!_to_output(r, x, "Verify")
    <2>1. CASE imm = "absorb"
      BY <2>1 DEF P!SetHash
    <2>2. CASE imm = "last"
      BY <2>2 DEF P!SetHash
    <2>3. CASE imm = "output"
      BY <2>3 DEF P!SetHash
    <2>4. CASE imm = "verify"
      BY <2>4 DEF P!SetHash
    <2>5. CASE imm = "aux"
      BY <2>5 DEF P!SetHash
    <2>6. CASE imm \notin {"absorb", "last", "output", "verify", "aux"}
      BY <2>6 DEF P!SetHash
    <2> QED
      BY <2>1, <2>2, <2>3, <2>4, <2>5, <2>6
  <1>2. ASSUME r.st = "Absorb" PROVE PTo(r, last) /\ last.sealed = r.sealed
    <2>1. PTypes(last) /\ last.out = "nothing" /\ last.halted.pos = 0 /\ last.machine = r.machine /\ last.sealed = r.sealed
      BY <1>2 DEF PQuiet, POK, PTypes, PFields
    <2>2. PSealOK(last)
      BY <1>2 DEF PQuiet, POK, PTypes, PSealOK, PFields, P!aead
    <2>3. PFeedOK(last)
      BY <1>2 DEF PQuiet, POK, PTypes, PFeedOK, PFields, P!aead
    <2> QED
      BY <2>1, <2>2, <2>3 DEF PTo, PQuiet, POK, PHaltOK
  <1>3. ASSUME r.st \in {"Ready", "Aux"} PROVE PTo(r, aux) /\ aux.sealed = r.sealed
    <2>1. PTypes(aux) /\ aux.out = "nothing" /\ aux.halted.pos = 0 /\ aux.machine = r.machine /\ aux.sealed = r.sealed
      BY <1>3 DEF PQuiet, POK, PTypes, PFields
    <2>2. PSealOK(aux)
      BY <1>3 DEF PQuiet, POK, PTypes, PSealOK, PFields, P!aead
    <2>3. PFeedOK(aux)
      BY <1>3 DEF PQuiet, POK, PTypes, PFeedOK, PFields, P!aead
    <2> QED
      BY <2>1, <2>2, <2>3 DEF PTo, PQuiet, POK, PHaltOK
  <1> HIDE DEF v, last, aux
  <1>4. PTo(r, v) /\ (~ r.sealed => ~ v.sealed)
    BY <1>1, <1>2, <1>3, PInvalid, PAbsorbing, PToOutput
  <1> QED
    BY <1>4 DEF v

LEMMA PSetAEAD ==
  ASSUME NEW r, PQuiet(r), P!aead(r), NEW imm, NEW form, NEW x \in Nat
  PROVE  PTo(r, P!SetAEAD(r, imm, form, x))
  <1>1. P!SetAEAD(r, imm, form, x) \in {P!invalid(r), r, [r EXCEPT !.st = "Absorb"]}
        \/ \E to \in {"Output", "Verify", "EncLast", "DecLast", "Enc", "Dec"} : P!SetAEAD(r, imm, form, x) = [r EXCEPT !.st = to, !.lbl = x]
    BY DEF P!SetAEAD
  <1> DEFINE q == [r EXCEPT !.st = "Absorb"]
  <1>2. PTo(r, q)
    <2>1. PTypes(q) /\ q.out = "nothing" /\ q.halted.pos = 0 /\ q.machine = r.machine
      BY DEF PQuiet, POK, PTypes, PFields
    <2>2. PSealOK(q)
      BY DEF PQuiet, POK, PTypes, PSealOK, PFields, P!aead
    <2>3. PFeedOK(q)
      BY DEF PQuiet, POK, PTypes, PFeedOK, PFields, P!aead
    <2> QED
      BY <2>1, <2>2, <2>3 DEF PTo, PQuiet, POK, PHaltOK
  <1>3. ASSUME NEW to \in {"Output", "Verify", "EncLast", "DecLast", "Enc", "Dec"} PROVE PTo(r, [r EXCEPT !.st = to, !.lbl = x])
    <2> DEFINE w == [r EXCEPT !.st = to, !.lbl = x]
    <2>1. PTypes(w) /\ w.out = "nothing" /\ w.halted.pos = 0 /\ w.machine = r.machine
      BY DEF PQuiet, POK, PTypes, PFields
    <2>2. PSealOK(w)
      BY DEF PQuiet, POK, PTypes, PSealOK, PFields, P!aead
    <2>3. PFeedOK(w)
      BY DEF PQuiet, POK, PTypes, PFeedOK, PFields, P!aead
    <2> QED
      BY <2>1, <2>2, <2>3 DEF PTo, PQuiet, POK, PHaltOK
  <1> QED
    BY <1>1, <1>2, <1>3, PInvalid DEF PTo

LEMMA PSet ==
  ASSUME NEW r, PQuiet(r), NEW imm, NEW form, NEW x \in Nat
  PROVE  PTo(r, P!_setst(r, imm, form, x))
  <1> DEFINE q == IF r.st \in {"Absorb", "Last"} THEN P!SetHash(r, "output", "A", 0) ELSE r
             w == [q EXCEPT !.st = "Bits", !.lbl = x]
             v == P!_setst(r, imm, form, x)
  <1>1. \/ v \in {P!_ready(r), P!invalid(r)}
        \/ ~ r.sealed /\ ~ P!aead(r) /\ q.st \in {"Output", "Bits"} /\ v = w
        \/ ~ P!aead(r) /\ ~ (imm = "verify" /\ r.sealed) /\ v = P!SetHash(r, imm, form, x)
        \/ P!aead(r) /\ v = P!SetAEAD(r, imm, form, x)
    <2>1. CASE imm = "ready"
      BY <2>1 DEF P!_setst
    <2>2. CASE imm = "bits"
      BY <2>2 DEF P!_setst
    <2>3. CASE imm = "verify"
      BY <2>3 DEF P!_setst
    <2>4. CASE imm \notin {"ready", "bits", "verify"}
      BY <2>4 DEF P!_setst
    <2> QED
      BY <2>1, <2>2, <2>3, <2>4
  <1>2. ~ r.sealed /\ ~ P!aead(r) => PTo(r, q) /\ ~ q.sealed
    BY PSetHash DEF PTo
  <1> HIDE DEF q
  <1>3. ASSUME ~ r.sealed, ~ P!aead(r), q.st \in {"Output", "Bits"} PROVE PTo(r, w)
    <2>1. PTypes(w) /\ w.out = "nothing" /\ w.halted.pos = 0 /\ w.machine = r.machine
      BY <1>2, <1>3 DEF PTo, PQuiet, POK, PTypes, PFields
    <2>2. PSealOK(w)
      BY <1>2, <1>3 DEF PTo, PQuiet, POK, PTypes, PSealOK, PFields, P!aead
    <2>3. PFeedOK(w)
      BY <1>2, <1>3 DEF PTo, PQuiet, POK, PTypes, PFeedOK, PFields, P!aead
    <2> QED
      BY <2>1, <2>2, <2>3 DEF PTo, PQuiet, POK, PHaltOK
  <1> HIDE DEF w, v
  <1>4. PTo(r, v)
    BY <1>1, <1>3, PReady, PInvalid, PSetHash, PSetAEAD
  <1> QED
    BY <1>4 DEF v

LEMMA PSetst ==
  ASSUME POK(m), NEW imm, NEW form, NEW x \in 0..BYTE * BYTES + 1, P!setst(imm, form, x)
  PROVE  PKept(m, m') /\ (m'.out # "nothing" => m' = m)
  <1> DEFINE q == [m EXCEPT !.out = "nothing", !.halted = P!NotHalted]
  <1>1. x \in Nat
    BY DEF BYTE, BYTES
  <1>2. PTo(m, q)
    BY PClear
  <1> HIDE DEF q
  <1>3. m' = m \/ m' = P!_setst(q, imm, form, x)
    BY DEF P!setst, q
  <1>4. PTo(q, P!_setst(q, imm, form, x))
    BY <1>1, <1>2, PSet DEF PTo
  <1> QED
    BY <1>2, <1>3, <1>4 DEF PKept, PTo, PQuiet

\* What a kl.exec takes: the least of where it may stop.
LEMMA Least ==
  ASSUME NEW T, T \subseteq Nat, T # {}
  PROVE  P!SMIN(T) \in T /\ \A y \in T : P!SMIN(T) <= y
  <1> DEFINE R == OpToRel(<, Nat)
  <1>1. IsWellFoundedOn(R, Nat)
    BY NatLessThanWellFounded
  <1>2. \A x, y \in Nat : <<y, x>> \in R <=> y < x
    BY DEF OpToRel
  <1> HIDE DEF R
  <1>3. PICK x \in T : \A y \in T : ~ (<<y, x>> \in R)
    BY <1>1, WFMin
  <1>4. \A y \in T : x <= y
    <2> TAKE y \in T
    <2>1. x \in Nat /\ y \in Nat
      OBVIOUS
    <2>2. ~ (y < x)
      BY <1>2, <1>3, <2>1
    <2> QED
      BY <2>1, <2>2
  <1> QED
    BY <1>4 DEF P!SMIN

LEMMA PEmit ==
  ASSUME NEW r, DOMAIN r = PFields, r.bb \in 0..3, r.S \in Nat, NEW a \in Nat
  PROVE  LET v == P!_emit(r, a) IN
         /\ DOMAIN v = PFields /\ \A f \in PFields \ {"S", "bb"} : v[f] = r[f]
         /\ v.bb \in 0..3 /\ v.S \in Nat /\ 4 * v.S + v.bb = 4 * r.S + r.bb + a
         /\ (r.bb + a) % 4 = 0 => v.bb = 0
         /\ r.bb % 2 = 0 /\ a % 2 = 0 => v.bb % 2 = 0
  <1> DEFINE p == r.bb + a
             sq == r.S + p \div 4
             b == p % 4
             w == [r EXCEPT !.S = sq, !.bb = b]
  <1>1. P!_emit(r, a) = w
    BY DEF P!_emit, BYTE, BYTES
  <1>2. p \in Nat /\ (r.bb % 2 = 0 /\ a % 2 = 0 => p % 2 = 0)
    OBVIOUS
  <1>3. p \div 4 \in Nat /\ b \in 0..3 /\ p = 4 * (p \div 4) + b /\ (p % 2 = 0 => b % 2 = 0)
    BY <1>2, DivMod
  <1>4. sq \in Nat /\ 4 * sq = 4 * r.S + 4 * (p \div 4)
    BY <1>3
  <1>5. p = r.bb + a
    OBVIOUS
  <1>6. (r.bb + a) % 4 = b
    OBVIOUS
  <1> HIDE DEF p, b
  <1>7. 4 * sq + b = 4 * r.S + p
    BY <1>2, <1>3, <1>4
  <1>8. 4 * sq + b = 4 * r.S + r.bb + a
    BY <1>3, <1>4, <1>5, <1>7
  <1> HIDE DEF sq
  <1>9. DOMAIN w = PFields /\ w.S = sq /\ w.bb = b /\ \A f \in PFields \ {"S", "bb"} : w[f] = r[f]
    BY DEF PFields
  <1> HIDE DEF w
  <1> QED
    BY <1>1, <1>2, <1>3, <1>4, <1>6, <1>8, <1>9

LEMMA PStop ==
  ASSUME NEW r, r.bb \in 0..3, NEW n \in Nat, NEW ks \in Nat, ks < n, NEW h \in Nat
  PROVE  LET s == P!Stop(r, n, ks, h) IN
         /\ s \in 1..(n - ks) * 2
         /\ s # (n - ks) * 2 => (r.bb + s) % 4 = 0
         /\ r.bb % 2 = 0 => s % 2 = 0
  <1> DEFINE left == (n - ks) * 2
             e == {a \in 1..left - 1 : (r.bb + a) % 4 = 0 /\ ks * 2 + a >= h * 2}
             T == {left} \cup e
             s == P!SMIN(T)
  <1>1. P!Stop(r, n, ks, h) = s
    BY DEF P!Stop, P!BlockEnds, BYTE, BYTES
  <1>2. left \in Nat /\ left > 0 /\ left % 2 = 0
    OBVIOUS
  <1> HIDE DEF left
  <1>3. T \subseteq Nat /\ T # {}
    BY <1>2
  <1>4. s \in T
    BY <1>3, Least
  <1> HIDE DEF s
  <1>5. s \in 1..left /\ (s # left => (r.bb + s) % 4 = 0)
    BY <1>2, <1>4
  <1>6. r.bb % 2 = 0 => s % 2 = 0
    <2>1. CASE s = left
      BY <1>2, <2>1
    <2>2. CASE s # left /\ r.bb = 0
      BY <1>5, <2>2
    <2>3. CASE s # left /\ r.bb = 2
      BY <1>5, <2>3
    <2> QED
      BY <2>1, <2>2, <2>3
  <1> QED
    BY <1>1, <1>5, <1>6 DEF left

\* z is r, halted within its window, or not halted; only before all the bits of the window are taken.
PStopped(r, z, n, ks, a) ==
  /\ DOMAIN z = PFields /\ \A f \in PFields \ {"halted"} : z[f] = r[f]
  /\ z.halted.pos \in Nat /\ z.halted.n \in Nat
  /\ z.halted.pos # 0 => z.halted.pos < z.halted.n /\ a # (n - ks) * 2

LEMMA PHalt ==
  ASSUME NEW r, DOMAIN r = PFields, NEW n \in Nat, NEW ks \in Nat, NEW a \in Nat, ks < n, a <= (n - ks) * 2
  PROVE  PStopped(r, P!Halt(r, n, ks + a \div BYTE), n, ks, a)
  <1> DEFINE pos == ks + a \div BYTE
             h == IF pos < n THEN [n |-> n, pos |-> pos] ELSE P!NotHalted
  <1>1. P!Halt(r, n, pos) = [r EXCEPT !.halted = h]
    BY DEF P!Halt
  <1>2. pos \in Nat /\ (a = (n - ks) * 2 => pos = n)
    BY DEF BYTE
  <1> HIDE DEF pos
  <1>3. h.pos \in Nat /\ h.n \in Nat /\ (h.pos # 0 => h.pos < h.n /\ a # (n - ks) * 2)
    <2>1. CASE pos < n
      BY <1>2, <2>1
    <2>2. CASE ~ (pos < n)
      BY <1>2, <2>2 DEF P!NotHalted
    <2> QED
      BY <2>1, <2>2
  <1> HIDE DEF h
  <1> DEFINE v == [r EXCEPT !.halted = h]
  <1>4. DOMAIN v = PFields /\ v.halted = h /\ \A f \in PFields \ {"halted"} : v[f] = r[f]
    BY DEF PFields
  <1> HIDE DEF v
  <1>5. PStopped(r, v, n, ks, a)
    BY <1>3, <1>4 DEF PStopped
  <1> QED
    BY <1>1, <1>5 DEF pos, v

\* A kl.exec that absorbs.
PSame(r, v) ==
  /\ DOMAIN v = PFields /\ v.machine = r.machine /\ v.st = r.st /\ v.sealed = r.sealed /\ v.mseal = r.mseal /\ v.out = r.out
  /\ v.cut = r.cut /\ v.got = r.got /\ v.zlen = r.zlen /\ v.ol = r.ol

LEMMA PExecIn ==
  ASSUME NEW r, PQuiet(r), ~ P!aead(r), r.st \in {"Absorb", "Last", "Aux"}, NEW n \in Nat, NEW ks \in Nat, NEW h \in Nat
  PROVE  PKept(r, P!_exec_in(r, n, ks, h)) /\ P!_exec_in(r, n, ks, h).out = "nothing"
  <1> DEFINE s == P!Stop(r, n, ks, h)
             a == IF r.st = "Aux" THEN P!SMIN({s, r.zlen - r.cum}) ELSE s
             u == P!_emit(r, a)
             t == [u EXCEPT !.fed = @ + a]
             w == P!Halt(t, n, ks + a \div BYTE)
             x == [t EXCEPT !.cum = @ + a]
             y == [w EXCEPT !.cum = @ + a]
             d == P!_emit(r, r.lbl)
             l == [d EXCEPT !.lbl = 0]
             v == P!_exec_in(r, n, ks, h)
  <1>1. \/ v \in {P!invalid(r), r}
        \/ r.st = "Last" /\ v = l
        \/ r.st = "Absorb" /\ ks < n /\ v = w
        \/ r.st = "Aux" /\ ks < n /\ r.cum < r.zlen /\ v = (IF r.cum + a = r.zlen THEN x ELSE y)
    <2>0. n \in Nat /\ ks \in Nat /\ r.cum \in Nat /\ r.zlen \in Nat
      BY DEF PQuiet, POK, PTypes
    <2>1. CASE r.st = "Last"
      BY <2>1 DEF P!_exec_in
    <2>2. CASE r.st = "Absorb"
      BY <2>0, <2>2 DEF P!_exec_in
    <2>3. CASE r.st = "Aux"
      BY <2>0, <2>3 DEF P!_exec_in
    <2> QED
      BY <2>1, <2>2, <2>3
  <1>2. /\ DOMAIN r = PFields /\ r.bb \in 0..3 /\ r.S \in Nat /\ r.lbl \in Nat /\ r.cum \in Nat /\ r.zlen \in Nat /\ r.fed \in Nat
        /\ r.got \in Nat /\ r.ol \in Nat /\ r.sealed \in BOOLEAN /\ r.mseal \in BOOLEAN
        /\ r.out = "nothing" /\ r.halted.pos = 0
    BY DEF PQuiet, POK, PTypes
  <1>3. PKept(r, r) /\ PKept(r, P!invalid(r)) /\ P!invalid(r).out = "nothing"
    BY PInvalid DEF PKept, PTo, PQuiet
  <1> HIDE DEF v
  <1>4. ASSUME NEW q, PSame(r, q), r.st # "Aux" => q.cum \in Nat, q.lbl \in Nat, q.bb \in 0..3, q.S \in Nat, q.fed \in Nat, q.cum \in Nat,
               r.st \in {"Absorb", "Aux"} => 4 * q.S + q.bb = q.fed,
               r.st = "Absorb" => q.bb % 2 = 0,
               r.st = "Aux" => q.cum = q.fed /\ (q.cum < q.zlen => q.bb % 2 = 0),
               PHaltOK(q)
        PROVE  PKept(r, q) /\ q.out = "nothing"
    <2>1. PTypes(q)
      BY <1>2, <1>4 DEF PTypes, PSame
    <2>2. PSealOK(q)
      BY <1>4 DEF PSealOK, PSame, PQuiet, POK, P!aead
    <2>3. PFeedOK(q)
      BY <1>4 DEF PFeedOK, PSame, PQuiet, POK, P!aead
    <2> QED
      BY <1>2, <1>4, <2>1, <2>2, <2>3 DEF PKept, POK, PSame
  <1>5. ASSUME r.st = "Last" PROVE PKept(r, l) /\ l.out = "nothing"
    <2>1. DOMAIN d = PFields /\ (\A f \in PFields \ {"S", "bb"} : d[f] = r[f]) /\ d.bb \in 0..3 /\ d.S \in Nat
      BY <1>2, PEmit, ZenonT(40)
    <2> HIDE DEF d
    <2>2. PSame(r, l) /\ l.cum = r.cum /\ l.lbl = 0 /\ l.bb = d.bb /\ l.S = d.S /\ l.fed = r.fed /\ l.halted = r.halted
      BY <2>1 DEF PSame, PFields
    <2> HIDE DEF l
    <2>3. PHaltOK(l)
      BY <1>2, <2>2 DEF PHaltOK
    <2> QED
      BY <1>2, <1>4, <1>5, <2>1, <2>2, <2>3
  <1>6. ASSUME r.st \in {"Absorb", "Aux"}, ks < n, r.st = "Aux" => r.cum < r.zlen
        PROVE  /\ a \in 1..(n - ks) * 2 /\ (r.st = "Aux" => r.cum + a <= r.zlen)
               /\ (r.st = "Absorb" \/ r.cum + a # r.zlen => (a # (n - ks) * 2 => (r.bb + a) % 4 = 0) /\ a % 2 = 0)
               /\ r.bb % 2 = 0
    <2>1. r.bb % 2 = 0
      BY <1>6 DEF PQuiet, POK, PFeedOK
    <2>2. s \in 1..(n - ks) * 2 /\ (s # (n - ks) * 2 => (r.bb + s) % 4 = 0) /\ s % 2 = 0
      <3>1. ks < n /\ r.bb \in 0..3
        BY <1>2, <1>6
      <3>2. LET z == P!Stop(r, n, ks, h) IN
            z \in 1..(n - ks) * 2 /\ (z # (n - ks) * 2 => (r.bb + z) % 4 = 0) /\ (r.bb % 2 = 0 => z % 2 = 0)
        BY <3>1, PStop
      <3> QED
        BY <2>1, <3>2
    <2> HIDE DEF s
    <2>3. CASE r.st = "Absorb"
      BY <2>1, <2>2, <2>3
    <2>4. CASE r.st = "Aux"
      <3> DEFINE T == {s, r.zlen - r.cum}
      <3>1. T \subseteq Nat /\ T # {} /\ r.zlen - r.cum > 0 /\ r.zlen - r.cum \in Nat
        BY <1>2, <1>6, <2>2, <2>4
      <3>2. P!SMIN(T) \in T /\ \A e \in T : P!SMIN(T) <= e
        BY <3>1, Least
      <3>3. a = P!SMIN(T)
        BY <2>4
      <3> HIDE DEF a
      <3>4. a \in {s, r.zlen - r.cum} /\ a <= s /\ a <= r.zlen - r.cum
        BY <3>2, <3>3
      <3>5. a \in 1..(n - ks) * 2 /\ r.cum + a <= r.zlen
        BY <1>2, <2>2, <3>1, <3>4
      <3>6. r.cum + a # r.zlen => a = s
        BY <1>2, <3>1, <3>4
      <3> QED
        BY <2>1, <2>2, <2>4, <3>5, <3>6
    <2> QED
      BY <1>6, <2>3, <2>4
  <1> HIDE DEF s, a
  <1>7. ASSUME r.st \in {"Absorb", "Aux"}, ks < n, r.st = "Aux" => r.cum < r.zlen
        PROVE  /\ DOMAIN t = PFields /\ t.fed = r.fed + a /\ (\A f \in PFields \ {"S", "bb", "fed"} : t[f] = r[f])
               /\ t.bb \in 0..3 /\ t.S \in Nat /\ 4 * t.S + t.bb = t.fed
               /\ (r.bb + a) % 4 = 0 => t.bb = 0
               /\ a % 2 = 0 => t.bb % 2 = 0
    <2>1. a \in Nat /\ r.bb % 2 = 0 /\ 4 * r.S + r.bb = r.fed
      BY <1>6, <1>7 DEF PQuiet, POK, PFeedOK
    <2>2. /\ DOMAIN u = PFields /\ \A f \in PFields \ {"S", "bb"} : u[f] = r[f]
          /\ u.bb \in 0..3 /\ u.S \in Nat /\ 4 * u.S + u.bb = 4 * r.S + r.bb + a
          /\ (r.bb + a) % 4 = 0 => u.bb = 0
          /\ r.bb % 2 = 0 /\ a % 2 = 0 => u.bb % 2 = 0
      BY <1>2, <2>1, PEmit
    <2> HIDE DEF u
    <2>3. DOMAIN t = PFields /\ t.fed = r.fed + a /\ t.bb = u.bb /\ t.S = u.S /\ \A f \in PFields \ {"S", "bb", "fed"} : t[f] = r[f]
      BY <2>2 DEF PFields
    <2> HIDE DEF t
    <2>4. 4 * t.S + t.bb = t.fed
      BY <1>2, <2>1, <2>2, <2>3
    <2> QED
      BY <2>1, <2>2, <2>3, <2>4
  <1> HIDE DEF u, t
  <1>8. ASSUME r.st \in {"Absorb", "Aux"}, ks < n, r.st = "Aux" => r.cum < r.zlen
        PROVE  /\ DOMAIN w = PFields /\ \A f \in PFields \ {"halted"} : w[f] = t[f]
               /\ w.halted.pos \in Nat /\ w.halted.n \in Nat
               /\ w.halted.pos # 0 => w.halted.pos < w.halted.n /\ a # (n - ks) * 2
    <2>1. ks < n /\ a \in Nat /\ a <= (n - ks) * 2 /\ DOMAIN t = PFields
      BY <1>6, <1>7, <1>8
    <2>2. PStopped(t, w, n, ks, a)
      BY <2>1, PHalt
    <2> HIDE DEF w
    <2> QED
      BY <2>2 DEF PStopped
  <1> HIDE DEF w
  <1>9. ASSUME r.st = "Absorb", ks < n PROVE PKept(r, w) /\ w.out = "nothing"
    <2>1. /\ PSame(r, w) /\ w.cum = r.cum /\ w.lbl = r.lbl /\ w.bb = t.bb /\ w.S = t.S /\ w.fed = r.fed + a /\ w.st = "Absorb"
          /\ t.fed = r.fed + a /\ a \in Nat /\ t.bb % 2 = 0
      BY <1>6, <1>7, <1>8, <1>9 DEF PSame, PFields
    <2>2. PHaltOK(w)
      BY <1>6, <1>7, <1>8, <1>9, <2>1 DEF PHaltOK, PSame, P!aead
    <2> QED
      BY <1>2, <1>4, <1>7, <1>9, <2>1, <2>2
  <1>10. ASSUME r.st = "Aux", ks < n, r.cum < r.zlen, r.cum + a = r.zlen PROVE PKept(r, x) /\ x.out = "nothing"
    <2>1. /\ PSame(r, x) /\ x.cum = r.cum + a /\ x.lbl = r.lbl /\ x.bb = t.bb /\ x.S = t.S /\ x.fed = r.fed + a /\ x.halted = r.halted
          /\ x.zlen = r.zlen /\ t.fed = r.fed + a /\ a \in Nat
      BY <1>6, <1>7, <1>10 DEF PSame, PFields
    <2> HIDE DEF x
    <2>2. PHaltOK(x)
      BY <1>2, <2>1 DEF PHaltOK
    <2>3. x.cum = x.fed /\ ~ (x.cum < x.zlen) /\ x.cum \in Nat
      BY <1>2, <1>10, <2>1 DEF PQuiet, POK, PFeedOK
    <2> QED
      BY <1>2, <1>4, <1>7, <1>10, <2>1, <2>2, <2>3
  <1>11. ASSUME r.st = "Aux", ks < n, r.cum < r.zlen, r.cum + a # r.zlen PROVE PKept(r, y) /\ y.out = "nothing"
    <2>1. /\ PSame(r, y) /\ y.cum = r.cum + a /\ y.lbl = r.lbl /\ y.bb = t.bb /\ y.S = t.S /\ y.fed = r.fed + a /\ y.halted = w.halted
          /\ y.zlen = r.zlen /\ t.fed = r.fed + a /\ a \in Nat /\ y.st = "Aux"
      BY <1>6, <1>7, <1>8, <1>11 DEF PSame, PFields
    <2> HIDE DEF y
    <2>2. y.cum < y.zlen
      BY <1>2, <1>6, <1>11, <2>1
    <2>3. PHaltOK(y)
      BY <1>6, <1>7, <1>8, <1>11, <2>1, <2>2 DEF PHaltOK, PSame, P!aead
    <2>4. y.cum = y.fed /\ y.bb % 2 = 0 /\ y.cum \in Nat
      <3>1. r.cum = r.fed
        BY <1>11 DEF PQuiet, POK, PFeedOK
      <3>2. t.bb % 2 = 0
        BY <1>6, <1>7, <1>11
      <3> QED
        BY <1>2, <2>1, <3>1, <3>2
    <2> QED
      BY <1>2, <1>4, <1>7, <1>11, <2>1, <2>3, <2>4
  <1> HIDE DEF x, y, l
  <1>12. PKept(r, v) /\ v.out = "nothing"
    BY <1>1, <1>2, <1>3, <1>5, <1>9, <1>10, <1>11
  <1> QED
    BY <1>12 DEF v

\* A kl.exec or a kl.derive that reads: the output goes on without a gap, and a kl.exec halts as above.
PRead(r, v, b) ==
  /\ PTypes(v) /\ PFeedOK(v)
  /\ v.machine = r.machine /\ v.sealed = r.sealed /\ v.mseal = r.mseal /\ v.st \in {r.st, "Success"}
  /\ (b <=> r.st = "Bits") =>
       \/ v.halted = r.halted
       \/ /\ v.halted.pos \in Nat
          /\ v.halted.pos # 0 => /\ v.halted.n \in Nat /\ v.halted.pos < v.halted.n
                                 /\ (v.st = "Output" /\ v.bb = 0) \/ (v.st = "Bits" /\ v.lbl # 0)

LEMMA PExecOut ==
  ASSUME NEW r, POK(r), ~ P!aead(r), r.st \in {"Output", "Bits"}, NEW n \in Nat, NEW ks \in Nat, ks < n, NEW h \in Nat,
         NEW b \in BOOLEAN, b => r.st = "Bits" /\ r.lbl # 0
  PROVE  LET v == P!_exec_out(r, n, ks, h, b) IN (v = P!invalid(r) /\ ks # 0 /\ r.bb # 0 /\ ~ b) \/ PRead(r, v, b)
  <1> DEFINE left == (n - ks) * BYTE
             byte == P!SMIN({left} \cup {a \in 1..left : a % BYTE = 0 /\ ks * BYTE + a >= h * BYTE})
             T == {left} \cup (IF r.ol = 0 THEN {} ELSE {r.ol}) \cup (IF b THEN {r.lbl, byte} ELSE {P!Stop(r, n, ks, h)})
             a == P!SMIN(T)
             u == P!_emit(r, a)
             t == [u EXCEPT !.got = @ + a, !.out = "text", !.lbl = IF b THEN @ - a ELSE @, !.ol = IF @ = 0 THEN 0 ELSE @ - a]
             w == P!Halt(t, n, ks + a \div BYTE)
             v == P!_exec_out(r, n, ks, h, b)
  <1>1. v = IF ks # 0 /\ r.bb # 0 /\ ~ b THEN P!invalid(r)
            ELSE IF r.ol = a THEN [t EXCEPT !.st = "Success"]
            ELSE IF b /\ r.lbl = a THEN t ELSE w
    BY SMTT(30) DEF P!_exec_out
  <1>2. /\ DOMAIN r = PFields /\ r.bb \in 0..3 /\ r.S \in Nat /\ r.lbl \in Nat /\ r.cum \in Nat /\ r.zlen \in Nat /\ r.fed \in Nat
        /\ r.got \in Nat /\ r.ol \in Nat /\ r.sealed \in BOOLEAN /\ r.mseal \in BOOLEAN /\ ~ r.cut
        /\ 4 * r.S + r.bb = r.got /\ (r.st = "Output" => r.bb % 2 = 0)
    BY DEF POK, PTypes, PFeedOK
  <1>3. left \in Nat /\ left > 0 /\ left = (n - ks) * 2 /\ left % 2 = 0
    BY DEF BYTE
  <1>4. LET z == P!Stop(r, n, ks, h) IN
        z \in 1..(n - ks) * 2 /\ (z # (n - ks) * 2 => (r.bb + z) % 4 = 0) /\ (r.bb % 2 = 0 => z % 2 = 0)
    <2>1. r.bb \in 0..3
      BY <1>2
    <2> QED
      BY <2>1, PStop
  <1>5. byte \in 1..left
    <2> DEFINE U == {left} \cup {i \in 1..left : i % BYTE = 0 /\ ks * BYTE + i >= h * BYTE}
    <2> HIDE DEF left
    <2>1. U \subseteq 1..left /\ U # {}
      BY <1>3
    <2>2. P!SMIN(U) \in U
      <3>1. U \subseteq Nat
        BY <1>3, <2>1
      <3> QED
        BY <2>1, <3>1, Least
    <2> QED
      BY <2>1, <2>2
  <1> DEFINE stop == P!Stop(r, n, ks, h)
  <1>6. stop \in 1..left /\ (stop # left => (r.bb + stop) % 4 = 0) /\ (r.bb % 2 = 0 => stop % 2 = 0)
    BY <1>3, <1>4
  <1>7. T = {left} \cup (IF r.ol = 0 THEN {} ELSE {r.ol}) \cup (IF b THEN {r.lbl, byte} ELSE {stop})
    OBVIOUS
  <1>71. a = P!SMIN(T)
    OBVIOUS
  <1> HIDE DEF left, byte, stop, a, T
  <1>8. T \subseteq Nat /\ T # {} /\ 0 \notin T
    <2>1. r.ol \in Nat /\ r.lbl \in Nat /\ (b => r.lbl # 0) /\ left \in Nat /\ left # 0
      BY <1>2, <1>3
    <2>2. byte \in Nat /\ byte # 0 /\ stop \in Nat /\ stop # 0
      BY <1>5, <1>6
    <2>3. CASE b
      BY <1>7, <2>1, <2>2, <2>3
    <2>4. CASE ~ b
      BY <1>7, <2>1, <2>2, <2>4
    <2> QED
      BY <2>3, <2>4
  <1>9. a \in T /\ \A y \in T : a <= y
    BY <1>8, <1>71, Least
  <1>10. /\ a \in Nat /\ a > 0 /\ a <= left /\ (r.ol # 0 => a <= r.ol) /\ (b => a <= r.lbl)
         /\ ~ b /\ a # r.ol => a \in {left, stop}
    <2>1. left \in T /\ (r.ol # 0 => r.ol \in T) /\ (b => r.lbl \in T)
      BY <1>7
    <2>2. ~ b => T \subseteq {left, r.ol, stop}
      BY <1>7
    <2>3. a \in Nat /\ a # 0
      BY <1>8, <1>9
    <2>4. a <= left /\ (r.ol # 0 => a <= r.ol) /\ (b => a <= r.lbl)
      BY <1>9, <2>1
    <2>5. ~ b /\ a # r.ol => a \in {left, stop}
      BY <1>9, <2>2
    <2>6. a > 0
      BY <2>3
    <2> QED
      BY <2>3, <2>4, <2>5, <2>6
  <1>11. /\ DOMAIN u = PFields /\ \A f \in PFields \ {"S", "bb"} : u[f] = r[f]
         /\ u.bb \in 0..3 /\ u.S \in Nat /\ 4 * u.S + u.bb = 4 * r.S + r.bb + a
         /\ (r.bb + a) % 4 = 0 => u.bb = 0
         /\ r.bb % 2 = 0 /\ a % 2 = 0 => u.bb % 2 = 0
    BY <1>2, <1>10, PEmit
  <1> HIDE DEF u
  <1> DEFINE ol == IF r.ol = 0 THEN 0 ELSE r.ol - a
             lbl == IF b THEN r.lbl - a ELSE r.lbl
  <1>12. ol \in Nat /\ lbl \in Nat /\ (b /\ r.lbl # a => lbl # 0)
    <2>1. r.ol \in Nat /\ r.lbl \in Nat /\ a \in Nat /\ (r.ol # 0 => a <= r.ol) /\ (b => a <= r.lbl)
      BY <1>2, <1>10
    <2> QED
      BY <2>1
  <1>13. /\ DOMAIN t = PFields /\ t.S = u.S /\ t.bb = u.bb /\ t.got = r.got + a /\ t.out = "text" /\ t.lbl = lbl /\ t.ol = ol
         /\ \A f \in PFields \ {"S", "bb", "got", "out", "lbl", "ol"} : t[f] = r[f]
    <2>1. u.got = r.got /\ u.lbl = r.lbl /\ u.ol = r.ol
      BY <1>11 DEF PFields
    <2>2. DOMAIN t = PFields /\ t.S = u.S /\ t.bb = u.bb /\ \A f \in PFields \ {"S", "bb", "got", "out", "lbl", "ol"} : t[f] = u[f]
      BY <1>11 DEF PFields
    <2>3. t.got = r.got + a /\ t.out = "text" /\ t.lbl = lbl /\ t.ol = ol
      BY <1>11, <2>1 DEF PFields
    <2> HIDE DEF t
    <2> QED
      BY <1>11, <2>2, <2>3
  <1> HIDE DEF t, ol, lbl
  <1>14. PStopped(t, P!Halt(t, n, ks + a \div BYTE), n, ks, a)
    <2>1. a <= (n - ks) * 2
      BY <1>3, <1>10
    <2> QED
      BY <1>10, <1>13, <2>1, PHalt
  <1>15. /\ DOMAIN w = PFields /\ \A f \in PFields \ {"halted"} : w[f] = t[f]
         /\ w.halted.pos \in Nat /\ w.halted.n \in Nat
         /\ w.halted.pos # 0 => w.halted.pos < w.halted.n /\ a # left
    BY <1>3, <1>14 DEF PStopped
  <1> HIDE DEF w, v
  <1>16. 4 * u.S + u.bb = r.got + a
    BY <1>2, <1>10, <1>11
  <1> DEFINE Same(q) == /\ DOMAIN q = PFields /\ q.S = u.S /\ q.bb = u.bb /\ q.got = r.got + a /\ q.lbl = lbl /\ q.ol = ol
                        /\ q.machine = r.machine /\ q.sealed = r.sealed /\ q.mseal = r.mseal /\ q.cut = r.cut
                        /\ q.cum = r.cum /\ q.zlen = r.zlen /\ q.fed = r.fed
  <1>17. ASSUME NEW q, Same(q), q.st \in {r.st, "Success"}, q.st = "Output" => u.bb % 2 = 0,
                (b <=> r.st = "Bits") =>
                  \/ q.halted = r.halted
                  \/ /\ q.halted.pos \in Nat
                     /\ q.halted.pos # 0 => /\ q.halted.n \in Nat /\ q.halted.pos < q.halted.n
                                            /\ (q.st = "Output" /\ q.bb = 0) \/ (q.st = "Bits" /\ q.lbl # 0)
         PROVE  PRead(r, q, b)
    <2>1. PTypes(q)
      BY <1>2, <1>10, <1>11, <1>12, <1>17 DEF PTypes
    <2>2. PFeedOK(q)
      BY <1>2, <1>16, <1>17 DEF PFeedOK, P!aead
    <2> QED
      BY <1>17, <2>1, <2>2 DEF PRead
  <1>18. ASSUME v = [t EXCEPT !.st = "Success"] PROVE PRead(r, v, b)
    <2>1. Same(v) /\ v.st = "Success" /\ v.halted = r.halted
      BY <1>13, <1>18 DEF PFields
    <2> HIDE DEF Same
    <2> QED
      BY <1>17, <2>1
  <1>19. ASSUME b, v = t PROVE PRead(r, v, b)
    <2>1. Same(v) /\ v.st = "Bits" /\ v.st = r.st /\ v.halted = r.halted
      BY <1>13, <1>19 DEF PFields
    <2> HIDE DEF Same
    <2> QED
      BY <1>17, <2>1
  <1>20. ASSUME r.ol # a, ~ (b /\ r.lbl = a), v = w PROVE PRead(r, v, b)
    <2>1. Same(v) /\ v.st = r.st /\ v.halted = w.halted /\ v.bb = u.bb /\ v.lbl = lbl
      BY <1>13, <1>15, <1>20 DEF PFields
    <2>2. v.st = "Output" => u.bb % 2 = 0
      <3>1. r.st = "Output" => ~ b
        OBVIOUS
      <3>2. r.st = "Output" => r.bb % 2 = 0 /\ a % 2 = 0
        BY <1>2, <1>3, <1>6, <1>10, <1>20, <3>1
      <3> QED
        BY <1>11, <2>1, <3>2
    <2>3. ASSUME w.halted.pos # 0, b <=> r.st = "Bits" PROVE (v.st = "Output" /\ v.bb = 0) \/ (v.st = "Bits" /\ v.lbl # 0)
      <3>1. CASE b
        BY <1>12, <1>20, <2>1, <2>3, <3>1
      <3>2. CASE ~ b
        <4>1. a = stop /\ a # left
          BY <1>10, <1>15, <1>20, <2>3, <3>2
        <4>2. u.bb = 0
          BY <1>6, <1>11, <4>1
        <4> QED
          BY <2>1, <2>3, <3>2, <4>2
      <3> QED
        BY <3>1, <3>2
    <2> HIDE DEF Same
    <2> QED
      BY <1>15, <1>17, <2>1, <2>2, <2>3
  <1> QED
    BY <1>1, <1>18, <1>19, <1>20 DEF v

\* A kl.exec.
LEMMA PExecHash ==
  ASSUME NEW r, PQuiet(r), ~ P!aead(r), NEW form, NEW n \in Nat, NEW ks \in Nat, NEW h \in Nat, NEW ok \in BOOLEAN
  PROVE  PKept(r, P!_exec_hash(r, form, n, ks, h, ok))
  <1> DEFINE v == P!_exec_hash(r, form, n, ks, h, ok)
             b == r.st = "Bits"
             o == P!_exec_out(r, n, ks, h, b)
             s == IF ok THEN "Success" ELSE "Failure"
             w == [r EXCEPT !.st = s, !.out = "verdict"]
  <1>1. \/ v \in {r, P!invalid(r)}
        \/ r.st \in {"Absorb", "Last", "Aux"} /\ v = P!_exec_in(r, n, ks, h)
        \/ r.st \in {"Output", "Bits"} /\ ~ r.sealed /\ (r.st = "Bits" => r.lbl # 0) /\ v = o
        \/ r.st = "Verify" /\ v = w
    <2>0. ~ r.sealed \/ r.st \notin {"Bits"}
      BY DEF PQuiet, POK, PSealOK
    <2>1. CASE r.st = "Output"
      BY <2>1 DEF P!_exec_hash
    <2>2. CASE r.st = "Bits"
      BY <2>0, <2>2 DEF P!_exec_hash
    <2>3. CASE r.st = "Verify"
      BY <2>3 DEF P!_exec_hash
    <2>4. CASE r.st \in {"Absorb", "Last", "Aux"}
      BY <2>4 DEF P!_exec_hash
    <2>5. CASE r.st \notin {"Output", "Bits", "Verify", "Absorb", "Last", "Aux"}
      BY <2>5 DEF P!_exec_hash
    <2> QED
      BY <2>1, <2>2, <2>3, <2>4, <2>5
  <1>2. PKept(r, r) /\ PKept(r, P!invalid(r))
    BY PInvalid DEF PKept, PTo, PQuiet
  <1>3. ASSUME r.st \in {"Output", "Bits"}, ~ r.sealed, r.st = "Bits" => r.lbl # 0 PROVE PKept(r, o)
    <2>1. b \in BOOLEAN /\ (b <=> r.st = "Bits")
      OBVIOUS
    <2> HIDE DEF b
    <2>2. CASE ~ (ks < n)
      <3>1. o = r
        BY <2>2 DEF P!_exec_out
      <3> QED
        BY <1>2, <3>1
    <2>3. CASE ks < n
      <3>1. o = P!invalid(r) \/ PRead(r, o, b)
        BY <1>3, <2>1, <2>3, PExecOut DEF PQuiet
      <3> HIDE DEF o
      <3>2. ASSUME PRead(r, o, b) PROVE PKept(r, o)
        <4>1. PSealOK(o)
          BY <1>3, <3>2 DEF PRead, PSealOK, PQuiet, POK
        <4>2. PHaltOK(o)
          BY <1>3, <2>1, <3>2 DEF PRead, PHaltOK, PQuiet, POK, P!aead
        <4> QED
          BY <3>2, <4>1, <4>2 DEF PRead, PKept, POK
      <3> QED
        BY <1>2, <3>1, <3>2
    <2> QED
      BY <2>2, <2>3
  <1>4. ASSUME r.st = "Verify" PROVE PKept(r, w)
    <2>1. s \in {"Success", "Failure"} /\ ~ r.sealed
      BY <1>4 DEF PQuiet, POK, PSealOK
    <2> HIDE DEF s
    <2>2. PTypes(w) /\ w.machine = r.machine
      BY <1>4, <2>1 DEF PQuiet, POK, PTypes, PFields
    <2>3. PSealOK(w)
      BY <1>4, <2>1 DEF PQuiet, POK, PTypes, PSealOK, PFields, P!aead
    <2>4. PFeedOK(w)
      BY <1>4, <2>1 DEF PQuiet, POK, PTypes, PFeedOK, PFields, P!aead
    <2>5. PHaltOK(w)
      BY <1>4, <2>1 DEF PQuiet, POK, PTypes, PHaltOK, PFields
    <2> QED
      BY <2>2, <2>3, <2>4, <2>5 DEF PKept, POK
  <1> HIDE DEF v, o, w
  <1>5. r.st \in {"Absorb", "Last", "Aux"} => PKept(r, P!_exec_in(r, n, ks, h))
    BY PExecIn
  <1>6. PKept(r, v)
    BY <1>1, <1>2, <1>3, <1>4, <1>5
  <1> QED
    BY <1>6 DEF v

LEMMA PExecAEAD ==
  ASSUME NEW r, PQuiet(r), P!aead(r), NEW form, NEW n \in Nat, NEW ok \in BOOLEAN
  PROVE  PKept(r, P!_exec_aead(r, form, n, ok))
  <1>1. \/ P!_exec_aead(r, form, n, ok) \in {r, P!invalid(r)}
        \/ \E e \in {r.st, "Output", "Verify", "Success", "Failure"}, g \in {"text", "tag", "verdict"} :
             r.st # "Aux" /\ P!_exec_aead(r, form, n, ok) = [r EXCEPT !.st = e, !.out = g]
    <2>1. DOMAIN r = PFields
      BY DEF PQuiet, POK, PTypes
    <2>2. CASE r.st \in {"Enc", "Dec"}
      <3>1. [r EXCEPT !.out = "text"] = [r EXCEPT !.st = r.st, !.out = "text"]
        BY <2>1 DEF PFields
      <3> QED
        BY <2>2, <3>1 DEF P!_exec_aead
    <2>3. CASE r.st \in {"EncLast", "DecLast"}
      BY <2>3 DEF P!_exec_aead
    <2>4. CASE r.st = "Output"
      BY <2>4 DEF P!_exec_aead
    <2>5. CASE r.st = "Verify"
      BY <2>5 DEF P!_exec_aead
    <2>6. CASE r.st \notin {"Enc", "Dec", "EncLast", "DecLast", "Output", "Verify"}
      BY <2>6 DEF P!_exec_aead
    <2> QED
      BY <2>2, <2>3, <2>4, <2>5, <2>6
  <1>2. ASSUME NEW e, NEW g, r.st # "Aux", e \in {r.st, "Output", "Verify", "Success", "Failure"} PROVE PKept(r, [r EXCEPT !.st = e, !.out = g])
    <2> DEFINE w == [r EXCEPT !.st = e, !.out = g]
    <2>1. PTypes(w) /\ w.machine = r.machine
      BY DEF PQuiet, POK, PTypes, PFields
    <2>2. PSealOK(w)
      BY DEF PQuiet, POK, PTypes, PSealOK, PFields, P!aead
    <2>3. PFeedOK(w)
      BY <1>2 DEF PQuiet, POK, PTypes, PFeedOK, PFields, P!aead
    <2>4. PHaltOK(w)
      BY DEF PQuiet, POK, PTypes, PHaltOK, PFields
    <2> QED
      BY <2>1, <2>2, <2>3, <2>4 DEF PKept, POK
  <1> QED
    <2>1. PKept(r, r) /\ PKept(r, P!invalid(r))
      BY PInvalid DEF PKept, PTo, PQuiet
    <2>2. CASE \E e \in {r.st, "Output", "Verify", "Success", "Failure"}, g \in {"text", "tag", "verdict"} :
                 r.st # "Aux" /\ P!_exec_aead(r, form, n, ok) = [r EXCEPT !.st = e, !.out = g]
      <3>1. PICK e \in {r.st, "Output", "Verify", "Success", "Failure"}, g \in {"text", "tag", "verdict"} :
                 r.st # "Aux" /\ P!_exec_aead(r, form, n, ok) = [r EXCEPT !.st = e, !.out = g]
        BY <2>2
      <3>2. PKept(r, [r EXCEPT !.st = e, !.out = g])
        BY <1>2, <3>1
      <3> QED
        BY <3>1, <3>2
    <2> QED
      BY <1>1, <2>1, <2>2

LEMMA PExec ==
  ASSUME POK(m), NEW given, NEW n \in 0..HashWindow, NEW ks \in 0..HashWindow - 1, NEW h \in 1..HashWindow, NEW ok \in BOOLEAN,
         MachinesAssumption, P!exec(given, n, ks, h, ok)
  PROVE  /\ PKept(m, m')
         /\ P!aead(m) /\ m'.out # "nothing" => m' = m \/ P!Permits(m, P!GATE(m))
  <1> DEFINE q == [m EXCEPT !.out = "nothing", !.halted = P!NotHalted]
             form == IF given = "D" THEN P!Native(m) ELSE given
  <1>1. n \in Nat /\ ks \in Nat /\ h \in Nat
    BY DEF MachinesAssumption
  <1>2. PTo(m, q)
    BY PClear
  <1> HIDE DEF q
  <1>3. \/ m' \in {m, P!invalid(m)}
        \/ ~ P!aead(m) /\ m' = P!_exec_hash(q, form, n, ks, h, ok)
        \/ P!aead(m) /\ P!_gate_ok(m) /\ m' = P!_exec_aead(q, form, n, ok)
    BY DEF P!exec, q
  <1> HIDE DEF form
  <1>4. P!aead(q) = P!aead(m)
    BY <1>2 DEF PTo, P!aead
  <1>5. ~ P!aead(m) => PKept(q, P!_exec_hash(q, form, n, ks, h, ok))
    BY <1>1, <1>2, <1>4, PExecHash DEF PTo
  <1>6. P!aead(m) => PKept(q, P!_exec_aead(q, form, n, ok))
    BY <1>1, <1>2, <1>4, PExecAEAD DEF PTo
  <1>7. PKept(m, m) /\ PKept(m, P!invalid(m)) /\ P!invalid(m).out = "nothing"
    BY PInvalid DEF PKept, PTo, PQuiet
  <1> QED
    BY <1>2, <1>3, <1>5, <1>6, <1>7 DEF PKept, PTo, P!_gate_ok

\* The other operations.
LEMMA PDerive ==
  ASSUME POK(m), NEW n \in 1..HashWindow, NEW shared \in BOOLEAN, NEW restricted \in BOOLEAN, NEW sealed \in BOOLEAN, NEW fits \in BOOLEAN,
         MachinesAssumption, P!derive(n, shared, restricted, sealed, fits)
  PROVE  PKept(m, m') /\ (m'.out # "nothing" => m' = m)
  <1> DEFINE q == [m EXCEPT !.out = "nothing", !.halted = P!NotHalted]
             a == n * BYTE
             u == P!_emit(q, a)
             b == P!Seal(u.sealed, sealed)
             c == u.mseal \/ sealed
             v == [u EXCEPT !.fed = @ + a, !.sealed = b, !.mseal = c]
  <1>1. a \in Nat /\ a % 2 = 0
    BY DEF MachinesAssumption, BYTE
  <1>2. PTo(m, q) /\ q.st = m.st
    BY PClear
  <1>3. \/ m' \in {m, q, P!invalid(m), P!Inert(m.machine, "PrivViolation")}
        \/ m.st = "Absorb" /\ ~ P!aead(m) /\ m' = v
    BY DEF P!derive
  <1> HIDE DEF q, a
  <1>4. ASSUME m.st = "Absorb", ~ P!aead(m) PROVE PTo(m, v)
    <2>1. /\ DOMAIN q = PFields /\ q.bb \in 0..3 /\ q.S \in Nat /\ q.lbl \in Nat /\ q.ol \in Nat /\ q.cum \in Nat /\ q.zlen \in Nat
          /\ q.fed \in Nat /\ q.got \in Nat /\ q.sealed \in BOOLEAN /\ q.mseal \in BOOLEAN
      BY <1>2 DEF PTo, PQuiet, POK, PTypes
    <2>2. /\ DOMAIN u = PFields /\ \A f \in PFields \ {"S", "bb"} : u[f] = q[f]
          /\ u.bb \in 0..3 /\ u.S \in Nat /\ 4 * u.S + u.bb = 4 * q.S + q.bb + a
          /\ q.bb % 2 = 0 /\ a % 2 = 0 => u.bb % 2 = 0
      BY <1>1, <2>1, PEmit, ZenonT(40)
    <2>3. b \in BOOLEAN /\ (b <=> q.sealed \/ sealed) /\ c \in BOOLEAN /\ (c <=> q.mseal \/ sealed)
      BY <2>1, <2>2 DEF P!Seal, PFields
    <2> HIDE DEF u, b, c
    <2>4. /\ DOMAIN v = PFields /\ v.bb = u.bb /\ v.S = u.S /\ v.fed = q.fed + a /\ v.sealed = b /\ v.mseal = c
          /\ \A f \in PFields \ {"S", "bb", "fed", "sealed", "mseal"} : v[f] = q[f]
      BY <2>2 DEF PFields
    <2> HIDE DEF v
    <2>5. PTypes(v) /\ v.out = "nothing" /\ v.halted.pos = 0 /\ v.machine = m.machine /\ v.st = "Absorb"
      BY <1>1, <1>2, <1>4, <2>1, <2>2, <2>3, <2>4 DEF PTypes, PTo, PQuiet, PFields
    <2>6. PSealOK(v)
      BY <1>2, <1>4, <2>3, <2>5, <2>4 DEF PSealOK, PTo, PQuiet, POK, PFields, P!aead
    <2>7. PFeedOK(v)
      <3>1. q.st = "Absorb" /\ ~ P!aead(q) /\ 4 * q.S + q.bb = q.fed /\ q.bb % 2 = 0 /\ q.got = 0 /\ ~ q.cut
        BY <1>2, <1>4 DEF PTo, PQuiet, POK, PFeedOK, P!aead
      <3>2. v.got = 0 /\ ~ v.cut
        BY <2>4, <3>1 DEF PFields
      <3>3. v.bb % 2 = 0
        BY <1>1, <2>2, <2>4, <3>1
      <3>4. 4 * v.S + v.bb = v.fed
        BY <1>1, <2>1, <2>2, <2>4, <3>1
      <3> QED
        BY <2>5, <3>2, <3>3, <3>4 DEF PFeedOK
    <2> QED
      BY <2>5, <2>6, <2>7 DEF PTo, PQuiet, POK, PHaltOK
  <1> HIDE DEF v
  <1>5. \A w : PTo(m, w) => PKept(m, w) /\ w.out = "nothing"
    BY DEF PTo, PKept, PQuiet
  <1>6. PTo(m, P!Inert(m.machine, "PrivViolation")) /\ PTo(m, P!invalid(m)) /\ PKept(m, m)
    BY PInert, PInvalid DEF PTo, PKept
  <1> QED
    BY <1>2, <1>3, <1>4, <1>5, <1>6

LEMMA PDeriveOut ==
  ASSUME POK(m), NEW n \in 1..HashWindow, NEW answer, MachinesAssumption, P!derive_out(n, answer)
  PROVE  PKept(m, m') /\ (m'.out # "nothing" => m' = m)
  <1> DEFINE o == P!_exec_out(m, n, 0, n, FALSE)
             w == [o EXCEPT !.out = "nothing", !.halted = P!NotHalted]
             q == [m EXCEPT !.out = "nothing", !.halted = P!NotHalted]
  <1>1. n \in Nat /\ 0 < n
    BY DEF MachinesAssumption
  <1>2. \/ m' \in {m, P!invalid(m), q}
        \/ m.st \in {"Output", "Bits"} /\ ~ P!aead(m) /\ m' = w
    BY DEF P!derive_out
  <1>3. PTo(m, q) /\ PTo(m, P!invalid(m)) /\ PKept(m, m)
    BY PClear, PInvalid DEF PKept
  <1> HIDE DEF q
  <1>4. ASSUME m.st \in {"Output", "Bits"}, ~ P!aead(m) PROVE PTo(m, w)
    <2>1. PRead(m, o, FALSE)
      BY <1>1, <1>4, PExecOut
    <2> HIDE DEF o
    <2>2. DOMAIN o = PFields
      BY <2>1 DEF PRead, PTypes
    <2>3. w.out = "nothing" /\ w.halted.pos = 0 /\ DOMAIN w = PFields /\ \A f \in PFields \ {"out", "halted"} : w[f] = o[f]
      BY <2>2 DEF PFields, P!NotHalted
    <2> HIDE DEF w
    <2>4. PTypes(w) /\ w.machine = m.machine
      BY <2>1, <2>3 DEF PRead, PTypes, PFields
    <2>5. PSealOK(w)
      BY <1>4, <2>1, <2>3 DEF PRead, PSealOK, POK, PFields, P!aead
    <2>6. PFeedOK(w)
      BY <2>1, <2>3 DEF PRead, PFeedOK, PFields, P!aead
    <2> QED
      BY <2>3, <2>4, <2>5, <2>6 DEF PTo, PQuiet, POK, PHaltOK
  <1> HIDE DEF w
  <1>5. \A v : PTo(m, v) => PKept(m, v) /\ v.out = "nothing"
    BY DEF PTo, PKept, PQuiet
  <1> QED
    BY <1>2, <1>3, <1>4, <1>5

LEMMA PRestrict ==
  ASSUME POK(m), NEW mask, P!rstrl(mask)
  PROVE  PKept(m, m') /\ (m'.out # "nothing" => m' = m)
  <1> DEFINE pol == (IF m.policy = {} THEN {0, 1} ELSE m.policy) \cap mask
             q == [m EXCEPT !.policy = pol, !.out = "nothing"]
             w == [m EXCEPT !.out = "nothing"]
  <1>1. m' \in {w, P!invalid(m), q}
    BY DEF P!rstrl
  <1>2. PTo(m, P!invalid(m))
    BY PInvalid
  <1> HIDE DEF pol
  <1>3. POK(q) /\ q.out = "nothing" /\ q.machine = m.machine
    <2>1. PTypes(q) /\ q.out = "nothing" /\ q.machine = m.machine
      BY DEF POK, PTypes, PFields
    <2>2. PSealOK(q)
      BY DEF POK, PTypes, PSealOK, PFields, P!aead
    <2>3. PFeedOK(q)
      BY DEF POK, PTypes, PFeedOK, PFields, P!aead
    <2>4. PHaltOK(q)
      BY DEF POK, PTypes, PHaltOK, PFields, P!aead
    <2> QED
      BY <2>1, <2>2, <2>3, <2>4 DEF POK
  <1>4. POK(w) /\ w.out = "nothing" /\ w.machine = m.machine
    <2>1. PTypes(w) /\ w.out = "nothing" /\ w.machine = m.machine
      BY DEF POK, PTypes, PFields
    <2>2. PSealOK(w)
      BY DEF POK, PTypes, PSealOK, PFields, P!aead
    <2>3. PFeedOK(w)
      BY DEF POK, PTypes, PFeedOK, PFields, P!aead
    <2>4. PHaltOK(w)
      BY DEF POK, PTypes, PHaltOK, PFields, P!aead
    <2> QED
      BY <2>1, <2>2, <2>3, <2>4 DEF POK
  <1> HIDE DEF q, w
  <1> QED
    BY <1>1, <1>2, <1>3, <1>4 DEF PKept, PTo, PQuiet

LEMMA PImport ==
  ASSUME POK(m), P!import_
  PROVE  PKept(m, m') /\ (m'.out # "nothing" => m' = m)
  <1> DEFINE zlen == IF m.st = "Aux" THEN m.zlen ELSE 0
             cum == IF m.st = "Aux" THEN m.cum ELSE 0
             ol == IF m.st = "Aux" THEN 0 ELSE m.ol
             q == [m EXCEPT !.out = "nothing", !.zlen = zlen, !.cum = cum, !.ol = ol]
  <1>1. m' \in {P!invalid(m), q}
    BY DEF P!import_
  <1>2. zlen \in Nat /\ cum \in Nat /\ ol \in Nat /\ (m.st = "Aux" => zlen = m.zlen /\ cum = m.cum)
    BY DEF POK, PTypes
  <1> HIDE DEF zlen, cum, ol
  <1>3. PTypes(q) /\ q.out = "nothing" /\ q.machine = m.machine
    BY <1>2 DEF POK, PTypes, PFields
  <1>4. PSealOK(q)
    BY <1>2 DEF POK, PTypes, PSealOK, PFields, P!aead
  <1>5. PFeedOK(q)
    BY <1>2 DEF POK, PTypes, PFeedOK, PFields, P!aead
  <1>6. PHaltOK(q)
    BY <1>2 DEF POK, PTypes, PHaltOK, PFields, P!aead
  <1> HIDE DEF q
  <1> QED
    BY <1>1, <1>3, <1>4, <1>5, <1>6, PInvalid DEF PKept, PTo, PQuiet, POK

LEMMA PStep ==
  ASSUME MachinesAssumption, POK(m), P!Next
  PROVE  PKept(m, m') /\ (m' # m /\ P!aead(m) => P!GatedStep)
  <1>1. CASE \E imm \in {"ready", "aux", "absorb", "last", "output", "bits", "verify", "enc", "dec", "enclast", "declast"},
               form \in {"A", "B", "C"}, x \in 0..BYTE * BYTES + 1 : (form # "B" => x = 0) /\ P!setst(imm, form, x)
    BY <1>1, PSetst DEF P!GatedStep
  <1>2. CASE \E given \in {"A", "B", "C", "D"}, n \in 0..HashWindow, ks \in 0..HashWindow - 1, h \in 1..HashWindow, ok \in BOOLEAN :
               P!exec(given, n, ks, h, ok)
    BY <1>2, PExec DEF P!GatedStep
  <1>3. CASE \E n \in 1..HashWindow, shared, restricted, sealed, fits \in BOOLEAN :
               (sealed => restricted) /\ (fits \/ restricted) /\ P!derive(n, shared, restricted, sealed, fits)
    BY <1>3, PDerive DEF P!GatedStep
  <1>4. CASE \E n \in 1..HashWindow, answer \in {"ok", "refused", "srcinv"} : P!derive_out(n, answer)
    BY <1>4, PDeriveOut DEF P!GatedStep
  <1>5. CASE \E mask \in SUBSET {0, 1} : P!rstrl(mask)
    BY <1>5, PRestrict DEF P!GatedStep
  <1>6. CASE P!import_
    BY <1>6, PImport DEF P!GatedStep
  <1> QED
    BY <1>1, <1>2, <1>3, <1>4, <1>5, <1>6 DEF P!Next

LEMMA PStart == ASSUME MachinesAssumption, P!Init PROVE POK(m) /\ m.machine \in Sponges
  <1>1. PICK k \in Sponges, p \in SUBSET {0, 1}, whole \in BOOLEAN :
          \/ m \in {P!Inert(k, "Unsupported"), P!Inert(k, "Invalid")}
          \/ \E pol : m = [P!Inert(k, "Ready") EXCEPT !.policy = pol, !.whole = whole]
    <2>1. PICK k \in Sponges, p \in SUBSET {0, 1}, whole \in BOOLEAN :
            m = CASE k \in {"XOF", "CXOF", "KMACXOF"} /\ p # {} -> P!Inert(k, "Unsupported")
                  [] k = "AEAD_NONCE" /\ 0 \in p -> P!Inert(k, "Invalid")
                  [] OTHER -> [P!Inert(k, "Ready") EXCEPT !.policy = IF k = "AEAD_NONCE" THEN {1} ELSE p, !.whole = whole]
      BY DEF P!Init
    <2>2. CASE k \in {"XOF", "CXOF", "KMACXOF"} /\ p # {}
      BY <2>1, <2>2
    <2>3. CASE k = "AEAD_NONCE" /\ 0 \in p
      BY <2>1, <2>3
    <2>4. CASE ~ (k \in {"XOF", "CXOF", "KMACXOF"} /\ p # {}) /\ ~ (k = "AEAD_NONCE" /\ 0 \in p)
      BY <2>1, <2>4
    <2> QED
      BY <2>2, <2>3, <2>4
  <1>2. CASE m \in {P!Inert(k, "Unsupported"), P!Inert(k, "Invalid")}
    BY <1>2, PInert DEF PQuiet
  <1>3. CASE \E pol : m = [P!Inert(k, "Ready") EXCEPT !.policy = pol, !.whole = whole]
    <2>1. PICK pol : m = [P!Inert(k, "Ready") EXCEPT !.policy = pol, !.whole = whole]
      BY <1>3
    <2>2. PTypes(m) /\ m.out = "nothing" /\ m.halted.pos = 0 /\ m.machine = k
      BY <2>1 DEF PTypes, PFields, P!Inert, P!NotHalted
    <2>3. PSealOK(m)
      BY <2>1 DEF PSealOK, PFields, P!Inert
    <2>4. PFeedOK(m)
      BY <2>1 DEF PFeedOK, PFields, P!Inert
    <2> QED
      BY <2>2, <2>3, <2>4 DEF POK, PHaltOK
  <1> QED
    BY <1>1, <1>2, <1>3

LEMMA PResumes ==
  ASSUME POK(m)
  PROVE  P!HaltIsResumable
  <1> SUFFICES ASSUME m.halted.pos # 0, NEW h \in 1..m.halted.n
               PROVE  P!_exec_hash(m, P!Native(m), m.halted.n, m.halted.pos, h, TRUE).st # "Invalid"
    BY DEF P!HaltIsResumable
  <1> DEFINE n == m.halted.n
             ks == m.halted.pos
             q == [m EXCEPT !.out = "nothing", !.halted = P!NotHalted]
  <1>1. n \in Nat /\ ks \in Nat /\ ks < n /\ ~ P!aead(m) /\ h \in Nat
    BY DEF POK, PHaltOK
  <1>2. DOMAIN m = PFields /\ m.cum \in Nat /\ m.zlen \in Nat
    BY DEF POK, PTypes
  <1> HIDE DEF n, ks
  <1>3. CASE m.st \in {"Absorb", "Aux"}
    <2> DEFINE a == IF m.st = "Aux" THEN P!SMIN({P!Stop(m, n, ks, h), m.zlen - m.cum}) ELSE P!Stop(m, n, ks, h)
               t == [P!_emit(m, a) EXCEPT !.fed = @ + a]
               w == P!Halt(t, n, ks + a \div BYTE)
               v == P!_exec_in(m, n, ks, h)
    <2>1. m.bb = 0 /\ (m.st = "Aux" => m.cum < m.zlen)
      BY <1>3 DEF POK, PHaltOK
    <2>2. P!_exec_hash(m, P!Native(m), n, ks, h, TRUE) = v
      BY <1>3 DEF P!_exec_hash, P!Native
    <2>3. v \in {w, [w EXCEPT !.cum = @ + a], [t EXCEPT !.cum = @ + a]}
      <3>1. CASE m.st = "Aux"
        BY <1>1, <1>2, <2>1, <3>1 DEF P!_exec_in
      <3>2. CASE m.st = "Absorb"
        BY <1>1, <2>1, <3>2 DEF P!_exec_in
      <3> QED
        BY <1>3, <3>1, <3>2
    <2> HIDE DEF v, a
    <2>4. \E x, y : P!_emit(m, a) = [m EXCEPT !.S = x, !.bb = y]
      BY DEF P!_emit
    <2>5. t.st = m.st /\ DOMAIN t = PFields
      BY <1>2, <2>4 DEF PFields
    <2>6. \E x : w = [t EXCEPT !.halted = x]
      BY DEF P!Halt
    <2> HIDE DEF t, w
    <2>7. w.st = m.st /\ DOMAIN w = PFields
      BY <2>5, <2>6 DEF PFields
    <2>8. v.st = m.st
      BY <2>3, <2>5, <2>7 DEF PFields
    <2> QED
      BY <1>3, <2>2, <2>8 DEF n, ks
  <1>4. CASE m.st \notin {"Absorb", "Aux"}
    <2> DEFINE b == m.st = "Bits"
               v == P!_exec_out(m, n, ks, h, b)
    <2>1. (m.st = "Output" /\ m.bb = 0 /\ ~ m.sealed) \/ (m.st = "Bits" /\ m.lbl # 0)
      BY <1>4 DEF POK, PHaltOK
    <2>2. P!_exec_hash(m, P!Native(m), n, ks, h, TRUE) = v
      <3>1. CASE m.st = "Output"
        BY <2>1, <3>1 DEF P!_exec_hash, P!Native
      <3>2. CASE m.st = "Bits"
        BY <2>1, <3>2 DEF P!_exec_hash, P!Native
      <3> QED
        BY <2>1, <3>1, <3>2
    <2>3. b \in BOOLEAN /\ (b <=> m.st = "Bits")
      OBVIOUS
    <2> HIDE DEF b
    <2>4. PRead(m, v, b)
      <3>1. ~ (ks # 0 /\ m.bb # 0 /\ ~ b)
        BY <2>1, <2>3
      <3>2. LET z == P!_exec_out(m, n, ks, h, b) IN (z = P!invalid(m) /\ ks # 0 /\ m.bb # 0 /\ ~ b) \/ PRead(m, z, b)
        BY <1>1, <2>1, <2>3, PExecOut
      <3> QED
        BY <3>1, <3>2
    <2> HIDE DEF v
    <2> QED
      BY <2>1, <2>2, <2>4 DEF n, ks, PRead
  <1> QED
    BY <1>3, <1>4

LEMMA PSafe ==
  ASSUME POK(m)
  PROVE  P!SealedNeverRead /\ P!FeedIsAbsorbed /\ P!HaltIsResumable
  <1>1. P!SealedNeverRead
    BY DEF POK, PSealOK, P!SealedNeverRead
  <1>2. P!FeedIsAbsorbed
    <2>1. BYTE * BYTES = 4 /\ m.S \in Nat
      BY DEF POK, PTypes, BYTE, BYTES
    <2>2. m.S * 4 = 4 * m.S
      BY <2>1
    <2> QED
      BY <2>1, <2>2 DEF POK, PFeedOK, P!FeedIsAbsorbed
  <1> QED
    BY <1>1, <1>2, PResumes

-----------------------------------------------------------------------------
(* The symmetric ciphers: a block is BYTES bytes, of BYTE bits each.       *)

SFields == {"machine", "policy", "u", "st", "iv", "ctr", "mask", "steal", "halted", "start", "fed", "used", "twice", "out"}
SInert == {"Invalid", "Unconfigured"}

STypes(r) ==
  /\ DOMAIN r = SFields /\ r.machine \in Modes /\ r.policy \subseteq {"Encrypt", "Decrypt"}
  /\ r.u \in 1..4 /\ (r.machine # "CFB" /\ r.st \notin SInert => r.u = 4)
  /\ r.iv \in Nat /\ r.mask \in Nat /\ r.fed \in Nat
  /\ r.ctr \in 0..CM - 1 /\ r.start \in 0..CM - 1
\* Only XEX succeeds, and only its decryption steals.
SState(r) ==
  /\ r.st \in SInert \cup {"Ready", "Success"} \cup S!Operations(r.machine)
  /\ r.st = "Success" => r.machine = "XEX"
  /\ r.steal \in {0, 1, 2} /\ (r.steal # 0 => r.machine = "XEX" /\ r.st = "Decrypt")
SCount(r) ==
  /\ r.machine \in {"CBC", "CFB", "OFB"} => r.iv = r.fed
  /\ r.machine \in S!Counting => r.ctr = (r.start + r.fed) % CM
\* The blocks took the masks before the one that is next, but for the block that was stolen from.
SMask(r) ==
  /\ ~ r.twice
  /\ r.machine = "XEX" /\ r.st = "Ready" => r.used = {} /\ r.mask = 0
  /\ r.machine = "XEX" /\ r.st \in {"Encrypt", "Decrypt"} /\ r.steal = 0 => r.used = 0..r.mask - 1
  /\ r.steal = 1 => r.mask # 0 /\ r.used = 0..r.mask - 2
  /\ r.steal = 2 => r.used = (0..r.mask - 1) \cup {r.mask + 1}
  /\ r.st = "Success" => r.used = 0..r.mask + 1
\* A window was halted in whole segments and bytes.
SHaltOK(r) == r.halted.pos # 0 =>
  /\ r.st \notin SInert /\ r.steal = 0 /\ r.halted.n \in Nat /\ r.halted.pos \in Nat
  /\ r.machine # "CFB" => r.halted.n % 2 = 0
  /\ r.halted.pos % (r.u \div S!GCD(2, r.u)) = 0
SOK(r) == STypes(r) /\ SState(r) /\ SCount(r) /\ SMask(r) /\ SHaltOK(r)

\* A step keeps the Machine, and gives text only where the policy permits.
SKept(r, s) == SOK(s) /\ s.machine = r.machine
SQuiet(r, s) == SKept(r, s) /\ s.out = "nothing"

LEMMA ModIs ==
  ASSUME NEW k \in Nat \ {0}, NEW q \in Int, NEW y \in 0..k - 1
  PROVE  (k * q + y) % k = y
  <1> DEFINE x == k * q + y
  <1>1. x \in Int /\ x % k \in 0..k - 1 /\ x = k * (x \div k) + (x % k)
    OBVIOUS
  <1>2. (x \div k) = q
    <2> DEFINE p == x \div k
    <2>1. p \in Int
      BY <1>1
    <2>2. k * (p - q) = y - (x % k)
      BY <1>1, <2>1
    <2> HIDE DEF p
    <2>3. CASE p - q >= 1
      <3>1. k * (p - q) >= k
        BY <2>1, <2>3
      <3> QED
        BY <1>1, <2>2, <3>1
    <2>4. CASE q - p >= 1
      <3>1. k * (p - q) <= 0 - k
        BY <2>1, <2>4
      <3> QED
        BY <1>1, <2>2, <3>1
    <2> QED
      BY <2>1, <2>3, <2>4 DEF p
  <1> QED
    BY <1>1, <1>2

\* The remainder of a sum is one of the remainders.
LEMMA ModSum ==
  ASSUME NEW k \in Nat \ {0}, NEW a \in Nat, NEW b \in Nat
  PROVE  /\ a % k \in 0..k - 1 /\ ((a % k) + b) % k = (a + b) % k
         /\ a < k => a % k = a
  <1> DEFINE x == (a % k) + b
             q == a \div k
             p == x \div k
             y == x % k
  <1>1. a % k \in 0..k - 1 /\ q \in Int /\ a = k * q + (a % k)
    OBVIOUS
  <1>2. x \in Int /\ p \in Int /\ y \in 0..k - 1 /\ x = k * p + y
    BY <1>1
  <1>3. a + b = k * (p + q) + y
    BY <1>1, <1>2
  <1>4. (k * (p + q) + y) % k = y
    <2> HIDE DEF p, q, y
    <2>1. p + q \in Int
      BY <1>1, <1>2
    <2> QED
      BY <1>2, <2>1, ModIs
  <1>5. a < k => a % k = a
    <2> SUFFICES ASSUME a < k PROVE a % k = a
      OBVIOUS
    <2>1. (k * 0 + a) % k = a
      BY ModIs
    <2> QED
      BY <2>1
  <1>6. x % k = (a + b) % k
    BY <1>3, <1>4
  <1> QED
    BY <1>1, <1>5, <1>6

LEMMA SInvalid ==
  ASSUME MachinesAssumption, NEW k \in Modes, NEW e \in SInert
  PROVE  SOK(S!Inert(k, e)) /\ S!Inert(k, e).machine = k /\ S!Inert(k, e).out = "nothing"
  <1> DEFINE v == S!Inert(k, e)
  <1>1. v = [machine |-> k, policy |-> {}, u |-> 1, st |-> e, iv |-> 0, ctr |-> 0, mask |-> 0, steal |-> 0,
             halted |-> [n |-> 0, pos |-> 0], start |-> 0, fed |-> 0, used |-> {}, twice |-> FALSE, out |-> "nothing"]
    BY DEF S!Inert, S!NotHalted
  <1>2. CM \in Nat \ {0} /\ 0 \in 0..CM - 1 /\ 0 % CM = 0
    <2>1. CM \in Nat \ {0} /\ 0 \in 0..CM - 1
      BY DEF MachinesAssumption
    <2> QED
      BY <2>1, ModSum
  <1> HIDE DEF v
  <1>3. STypes(v)
    BY <1>1, <1>2 DEF STypes, SFields, SInert
  <1>4. SState(v) /\ SMask(v) /\ SHaltOK(v)
    BY <1>1 DEF SState, SMask, SHaltOK, SInert
  <1>5. SCount(v)
    BY <1>1, <1>2 DEF SCount
  <1> QED
    BY <1>1, <1>3, <1>4, <1>5 DEF SOK, v

\* The States that begin with nothing done.
LEMMA SEnter ==
  ASSUME MachinesAssumption, NEW r, STypes(r), r.st \notin SInert
  PROVE  LET v == S!enter_ready(r) IN
         /\ SQuiet(r, v) /\ v.st = "Ready" /\ DOMAIN v = SFields /\ v.policy = r.policy /\ v.u = r.u
         /\ v.iv = 0 /\ v.mask = 0 /\ v.steal = 0 /\ v.fed = 0 /\ v.used = {} /\ v.twice = FALSE /\ v.halted.pos = 0
  <1> DEFINE v == S!enter_ready(r)
             c == IF r.machine = "XCTR" THEN 1 ELSE 0
  <1>1. v = [machine |-> r.machine, policy |-> r.policy, u |-> r.u, st |-> "Ready", iv |-> 0, ctr |-> c, mask |-> 0, steal |-> 0,
             halted |-> [n |-> 0, pos |-> 0], start |-> c, fed |-> 0, used |-> {}, twice |-> FALSE, out |-> "nothing"]
    <2>1. v = [S!Inert(r.machine, "Ready") EXCEPT !.policy = r.policy, !.u = r.u, !.ctr = c, !.start = c]
      BY DEF S!enter_ready
    <2> HIDE DEF c, v
    <2> QED
      BY <2>1 DEF S!Inert, S!NotHalted
  <1>2. c \in 0..CM - 1 /\ (c + 0) % CM = c
    <2>1. CM \in Nat \ {0} /\ c \in Nat /\ c < CM
      BY DEF MachinesAssumption
    <2> HIDE DEF c
    <2>2. c % CM = c
      BY <2>1, ModSum
    <2> QED
      BY <2>1, <2>2
  <1> HIDE DEF v, c
  <1>3. STypes(v)
    BY <1>1, <1>2 DEF STypes, SFields, SInert
  <1>4. SState(v) /\ SMask(v) /\ SHaltOK(v)
    BY <1>1 DEF SState, SMask, SHaltOK, SInert
  <1>5. SCount(v)
    BY <1>1, <1>2 DEF SCount
  <1> QED
    BY <1>1, <1>3, <1>4, <1>5 DEF SOK, SKept, SQuiet, SFields, v

LEMMA SSetst ==
  ASSUME MachinesAssumption, SOK(m), NEW s, NEW form \in {"A", "B", "C"}, NEW x \in 0..CM - 1, S!setst(s, form, x)
  PROVE  SKept(m, m') /\ (m' # m => m'.out = "nothing")
  <1> DEFINE ok == m.st \in S!Operations(m.machine) \cup {"Ready"} /\ (\/ s \in S!Operations(m.machine)
                                                                       \/ s = "AUX" /\ m.machine \in S!Counting)
             n == [n |-> 0, pos |-> 0]
  <1>1. \/ S!inert /\ m' = m
        \/ m.st \notin SInert /\ m' \in {S!Inert(m.machine, "Unconfigured"), S!Inert(m.machine, "Invalid"), S!enter_ready(m)}
        \/ /\ m.machine = "XEX" /\ m.st = "Decrypt" /\ m.steal = 0
           /\ m' = [m EXCEPT !.mask = @ + 1, !.steal = 1, !.halted = n, !.out = "nothing"]
        \/ ok /\ s = "AUX" /\ m' = [m EXCEPT !.ctr = x, !.start = x, !.fed = 0, !.halted = n, !.out = "nothing"]
        \/ ok /\ s # "AUX" /\ m' = [S!enter_ready(m) EXCEPT !.st = s, !.ctr = m.ctr, !.start = m.ctr]
    BY DEF S!setst, S!inert, S!invalid, S!NotHalted, SInert
  <1>2. CASE S!inert /\ m' = m
    BY <1>2 DEF SKept
  <1>3. CASE m.st \notin SInert /\ m' \in {S!Inert(m.machine, "Unconfigured"), S!Inert(m.machine, "Invalid"), S!enter_ready(m)}
    <2>1. m.machine \in Modes /\ {"Unconfigured", "Invalid"} \subseteq SInert
      BY DEF SOK, STypes, SInert
    <2>2. LET v == S!enter_ready(m) IN SQuiet(m, v)
      <3>1. STypes(m) /\ m.st \notin SInert
        BY <1>3 DEF SOK
      <3> QED
        BY <3>1, SEnter
    <2>3. ASSUME NEW e \in SInert PROVE SQuiet(m, S!Inert(m.machine, e))
      BY <2>1, SInvalid DEF SKept, SQuiet
    <2>4. SQuiet(m, m')
      <3> HIDE DEF ok, n
      <3>1. CASE m' = S!enter_ready(m)
        BY <2>2, <3>1
      <3>2. CASE m' # S!enter_ready(m)
        BY <1>3, <2>1, <2>3, <3>2
      <3> QED
        BY <3>1, <3>2
    <2> QED
      BY <2>4 DEF SQuiet
  <1>4. CASE /\ m.machine = "XEX" /\ m.st = "Decrypt" /\ m.steal = 0
             /\ m' = [m EXCEPT !.mask = @ + 1, !.steal = 1, !.halted = n, !.out = "nothing"]
    <2>1. STypes(m')
      BY <1>4 DEF SOK, STypes, SFields
    <2>2. SState(m') /\ SHaltOK(m') /\ SCount(m')
      BY <1>4 DEF SOK, STypes, SFields, SState, SHaltOK, SCount, S!Counting
    <2>3. SMask(m')
      <3>1. m.mask \in Nat /\ m.mask + 1 # 0 /\ m.mask + 1 - 2 = m.mask - 1
        BY DEF SOK, STypes
      <3>2. m'.mask = m.mask + 1 /\ m'.st = "Decrypt" /\ m'.steal = 1 /\ m'.used = m.used /\ m'.twice = m.twice
        BY <1>4 DEF SOK, STypes, SFields
      <3>3. m.used = 0..m.mask - 1 /\ ~ m.twice
        BY <1>4 DEF SOK, SMask
      <3>4. m'.used = 0..m'.mask - 2 /\ m'.mask # 0 /\ ~ m'.twice
        BY <3>1, <3>2, <3>3
      <3> QED
        BY <3>2, <3>4 DEF SMask
    <2> QED
      BY <1>4, <2>1, <2>2, <2>3 DEF SOK, STypes, SFields, SKept
  <1>5. CASE ok /\ s = "AUX" /\ m' = [m EXCEPT !.ctr = x, !.start = x, !.fed = 0, !.halted = n, !.out = "nothing"]
    <2>0. m.machine \in S!Counting /\ m.st \notin SInert
      BY <1>5 DEF S!Operations, S!Counting, SInert
    <2>1. STypes(m')
      BY <1>5 DEF SOK, STypes, SFields
    <2>2. SState(m') /\ SHaltOK(m') /\ SMask(m')
      BY <1>5, <2>0 DEF SOK, STypes, SFields, SState, SHaltOK, SMask, S!Counting
    <2>3. SCount(m')
      <3>1. CM \in Nat \ {0} /\ x \in Nat /\ x < CM
        BY DEF MachinesAssumption
      <3>2. (x + 0) % CM = x
        <4>1. x % CM = x
          BY <3>1, ModSum
        <4> QED
          BY <3>1, <4>1
      <3> QED
        BY <1>5, <2>0, <3>2 DEF SOK, STypes, SFields, SCount, S!Counting
    <2> QED
      BY <1>5, <2>1, <2>2, <2>3 DEF SOK, STypes, SFields, SKept
  <1>6. CASE ok /\ s # "AUX" /\ m' = [S!enter_ready(m) EXCEPT !.st = s, !.ctr = m.ctr, !.start = m.ctr]
    <2> DEFINE v == S!enter_ready(m)
    <2>0. m.st \notin SInert /\ s \in S!Operations(m.machine) /\ s \in {"Encrypt", "Decrypt", "Operate"}
      BY <1>6 DEF S!Operations, SInert
    <2>1. /\ SQuiet(m, v) /\ v.st = "Ready" /\ DOMAIN v = SFields /\ v.policy = m.policy /\ v.u = m.u
          /\ v.iv = 0 /\ v.mask = 0 /\ v.steal = 0 /\ v.fed = 0 /\ v.used = {} /\ v.twice = FALSE /\ v.halted.pos = 0
      BY <2>0, SEnter DEF SOK
    <2> HIDE DEF v
    <2>2. /\ DOMAIN m' = SFields /\ m'.st = s /\ m'.ctr = m.ctr /\ m'.start = m.ctr
          /\ \A f \in SFields \ {"st", "ctr", "start"} : m'[f] = v[f]
      BY <1>6, <2>1 DEF SFields, v
    <2>3. STypes(m')
      BY <2>0, <2>1, <2>2 DEF SQuiet, SKept, SOK, STypes, SFields, SInert
    <2>4. SState(m') /\ SHaltOK(m')
      BY <2>0, <2>1, <2>2 DEF SQuiet, SKept, SFields, SState, SHaltOK, SInert
    <2>5. SMask(m')
      <3>1. m'.used = {} /\ m'.mask = 0 /\ m'.steal = 0 /\ ~ m'.twice /\ m'.st = s /\ 0..0 - 1 = {}
        BY <2>1, <2>2 DEF SFields
      <3> QED
        BY <2>0, <3>1 DEF SMask
    <2>6. SCount(m')
      <3>1. CM \in Nat \ {0} /\ m.ctr \in Nat /\ m.ctr < CM
        BY DEF MachinesAssumption, SOK, STypes
      <3>2. (m.ctr + 0) % CM = m.ctr
        <4>1. m.ctr % CM = m.ctr
          BY <3>1, ModSum
        <4> QED
          BY <3>1, <4>1
      <3> QED
        BY <2>1, <2>2, <3>2 DEF SCount, SFields
    <2> QED
      BY <2>1, <2>2, <2>3, <2>4, <2>5, <2>6 DEF SOK, SFields, SKept, SQuiet
  <1> QED
    BY <1>1, <1>2, <1>3, <1>4, <1>5, <1>6

\* The blocks of XEX: one after the other, or the two that ciphertext stealing exchanges.
LEMMA SMasked ==
  ASSUME NEW r, SOK(r), r.machine = "XEX", r.st \in {"Encrypt", "Decrypt"}, NEW d \in Nat, r.steal # 0 => d = 1
  PROVE  LET v == S!Masked(r, d) IN
         /\ DOMAIN v = SFields /\ \A f \in SFields \ {"mask", "used", "twice", "steal", "st"} : v[f] = r[f]
         /\ v.mask \in Nat /\ v.steal \in {0, 2} /\ v.st \in {r.st, "Success"} /\ SMask(v)
         /\ v.steal # 0 => v.st = "Decrypt"
         /\ r.steal = 0 => v.steal = 0 /\ v.st = r.st
  <1> DEFINE k == r.mask
             taken == k..k + d - 1
             b == r.twice \/ r.used \cap taken # {}
             used == r.used \cup taken
             t == [r EXCEPT !.twice = b, !.used = used]
             v == S!Masked(r, d)
  <1>1. v = CASE r.st = "Encrypt" \/ r.steal = 0 -> [t EXCEPT !.mask = @ + d]
              [] r.st # "Encrypt" /\ r.steal = 1 -> [t EXCEPT !.steal = 2, !.mask = @ - 1]
              [] OTHER -> [t EXCEPT !.st = "Success", !.steal = 0]
    BY DEF S!Masked, S!StealBack
  <1>2. k \in Nat /\ DOMAIN r = SFields /\ r.steal \in {0, 1, 2} /\ (r.st = "Encrypt" => r.steal = 0) /\ ~ r.twice
    BY DEF SOK, STypes, SState, SMask
  <1>3. /\ DOMAIN t = SFields /\ \A f \in SFields \ {"twice", "used"} : t[f] = r[f]
        /\ t.twice = b /\ t.used = used
    BY <1>2 DEF SFields
  <1>4. CASE r.steal = 0
    <2>1. r.used = 0..k - 1
      BY <1>4 DEF SOK, SMask
    <2>2. ~ b
      BY <1>2, <2>1
    <2>3. used = 0..k + d - 1
      BY <1>2, <2>1
    <2> HIDE DEF t, b, used, v
    <2>4. v = [t EXCEPT !.mask = @ + d]
      BY <1>1, <1>4
    <2>5. /\ DOMAIN v = SFields /\ v.mask = k + d /\ v.twice = b /\ v.used = used
          /\ \A f \in SFields \ {"twice", "used", "mask"} : v[f] = r[f]
      BY <1>3, <2>4 DEF SFields
    <2>6. SMask(v)
      <3>1. v.steal = 0 /\ v.st = r.st /\ v.used = 0..v.mask - 1
        <4>1. v.steal = 0 /\ v.st = r.st
          BY <1>4, <2>5 DEF SFields
        <4> HIDE DEF k
        <4>2. v.mask = k + d /\ v.used = 0..k + d - 1
          BY <2>3, <2>5
        <4> QED
          BY <1>2, <4>1, <4>2
      <3>2. ~ v.twice
        BY <2>2, <2>5
      <3> QED
        BY <3>1, <3>2 DEF SMask
    <2>7. v.steal = 0 /\ v.st = r.st /\ v.mask \in Nat
      BY <1>2, <1>4, <2>5 DEF SFields
    <2> QED
      BY <2>5, <2>6, <2>7 DEF SFields, v
  <1>5. CASE r.steal = 1
    <2>1. r.used = 0..k - 2 /\ d = 1 /\ k # 0 /\ r.st = "Decrypt"
      BY <1>2, <1>5 DEF SOK, SMask
    <2>2. ~ b
      BY <1>2, <2>1
    <2>3. used = (0..k - 2) \cup {k}
      BY <1>2, <2>1
    <2> HIDE DEF t, b, used, v
    <2>4. v = [t EXCEPT !.steal = 2, !.mask = @ - 1]
      BY <1>1, <1>5, <2>1
    <2>5. /\ DOMAIN v = SFields /\ v.mask = k - 1 /\ v.steal = 2 /\ v.twice = b /\ v.used = used
          /\ \A f \in SFields \ {"twice", "used", "mask", "steal"} : v[f] = r[f]
      BY <1>3, <2>4 DEF SFields
    <2>6. v.used = (0..v.mask - 1) \cup {v.mask + 1} /\ v.mask \in Nat
      <3>1. (k - 1) - 1 = k - 2 /\ (k - 1) + 1 = k /\ k - 1 \in Nat
        BY <1>2, <2>1
      <3> QED
        BY <2>3, <2>5, <3>1
    <2>7. v.st = "Decrypt"
      BY <2>1, <2>5 DEF SFields
    <2>8. SMask(v)
      BY <2>2, <2>5, <2>6, <2>7 DEF SMask
    <2> QED
      BY <1>5, <2>1, <2>5, <2>6, <2>7, <2>8 DEF SFields, v
  <1>6. CASE r.steal = 2
    <2>1. r.used = (0..k - 1) \cup {k + 1} /\ d = 1 /\ r.st = "Decrypt"
      BY <1>2, <1>6 DEF SOK, SMask
    <2>2. ~ b
      BY <1>2, <2>1
    <2>3. used = 0..k + 1
      BY <1>2, <2>1
    <2> HIDE DEF t, b, used, v
    <2>4. v = [t EXCEPT !.st = "Success", !.steal = 0]
      BY <1>1, <1>6, <2>1
    <2>5. /\ DOMAIN v = SFields /\ v.st = "Success" /\ v.steal = 0 /\ v.twice = b /\ v.used = used
          /\ \A f \in SFields \ {"twice", "used", "st", "steal"} : v[f] = r[f]
      BY <1>3, <2>4 DEF SFields
    <2>6. v.mask = k
      BY <2>5 DEF SFields
    <2>7. SMask(v)
      BY <2>2, <2>3, <2>5, <2>6 DEF SMask
    <2> QED
      BY <1>2, <1>6, <2>5, <2>6, <2>7 DEF SFields, v
  <1> QED
    BY <1>2, <1>4, <1>5, <1>6

\* A window that r may halt in.
SAt(r, h) == h.pos # 0 =>
  /\ ~ S!Single(r) /\ h.n \in Nat /\ h.pos \in Nat
  /\ r.machine # "CFB" => h.n % 2 = 0
  /\ h.pos % (r.u \div S!GCD(2, r.u)) = 0

\* d segments, the end or the halt of which gives out o.
SDone(r, d, o, h) == [S!Take(r, d) EXCEPT !.fed = @ + d, !.out = o, !.halted = h]

\* d segments, all of which software knows to be done; they may halt, but for a block that is stolen from.
LEMMA STake ==
  ASSUME MachinesAssumption, NEW r, SOK(r), r.st \in S!Operations(r.machine), NEW d \in Nat, S!Single(r) => d = 1,
         NEW o, NEW h, SAt(r, h)
  PROVE  SKept(r, SDone(r, d, o, h)) /\ SDone(r, d, o, h).out = o
  <1> DEFINE t == S!Take(r, d)
             v == SDone(r, d, o, h)
  <1>1. /\ STypes(r) /\ SState(r) /\ SCount(r) /\ SMask(r) /\ DOMAIN r = SFields /\ CM \in Nat \ {0}
        /\ r.st \in {"Encrypt", "Decrypt", "Operate"}
    BY DEF SOK, STypes, S!Operations, MachinesAssumption
  <1>0. v = [t EXCEPT !.fed = @ + d, !.out = o, !.halted = h]
    BY DEF SDone
  <1> HIDE DEF v
  <1>2. CASE r.machine = "XEX"
    <2>1. r.st \in {"Encrypt", "Decrypt"} /\ (r.steal # 0 => d = 1) /\ r.machine \notin S!Counting
      BY <1>2 DEF S!Operations, S!Counting, S!Single
    <2>2. t = S!Masked(r, d)
      BY <1>2, <2>1 DEF S!Take
    <2>3. LET w == S!Masked(r, d) IN
          /\ DOMAIN w = SFields /\ \A f \in SFields \ {"mask", "used", "twice", "steal", "st"} : w[f] = r[f]
          /\ w.mask \in Nat /\ w.steal \in {0, 2} /\ w.st \in {r.st, "Success"} /\ SMask(w)
          /\ w.steal # 0 => w.st = "Decrypt"
          /\ r.steal = 0 => w.steal = 0 /\ w.st = r.st
      BY <1>2, <2>1, SMasked
    <2> HIDE DEF t
    <2>4. /\ DOMAIN t = SFields /\ \A f \in SFields \ {"mask", "used", "twice", "steal", "st"} : t[f] = r[f]
          /\ t.mask \in Nat /\ t.steal \in {0, 2} /\ t.st \in {r.st, "Success"} /\ SMask(t)
          /\ t.steal # 0 => t.st = "Decrypt"
          /\ r.steal = 0 => t.steal = 0 /\ t.st = r.st
      BY <2>2, <2>3
    <2>5. /\ DOMAIN v = SFields /\ v.fed = t.fed + d /\ v.out = o /\ v.halted = h
          /\ \A f \in SFields \ {"fed", "out", "halted"} : v[f] = t[f]
      BY <1>0, <2>4 DEF SFields
    <2>6. SMask(v)
      <3>1. v.twice = t.twice /\ v.st = t.st /\ v.machine = t.machine /\ v.used = t.used /\ v.mask = t.mask /\ v.steal = t.steal
        BY <2>5 DEF SFields
      <3> QED
        BY <2>4, <3>1 DEF SMask
    <2>7. STypes(v)
      BY <1>1, <2>1, <2>4, <2>5 DEF STypes, SFields, SInert
    <2>8. SState(v) /\ SCount(v)
      BY <1>1, <1>2, <2>1, <2>4, <2>5 DEF SState, SCount, SFields, SInert, S!Counting
    <2>9. SHaltOK(v)
      BY <1>1, <1>2, <2>1, <2>4, <2>5 DEF SHaltOK, SAt, SFields, SInert, S!Single
    <2>10. SOK(v) /\ v.machine = r.machine /\ v.out = o
      BY <2>4, <2>5, <2>6, <2>7, <2>8, <2>9 DEF SOK, SFields
    <2>11. SKept(r, v) /\ v.out = o
      BY <2>10 DEF SKept
    <2> QED
      BY <2>11 DEF v
  <1>3. CASE r.machine \in S!Counting
    <2> DEFINE c == (r.ctr + d) % CM
    <2>1. t = [r EXCEPT !.ctr = c]
      BY <1>3 DEF S!Take, S!Counting
    <2>2. c \in 0..CM - 1 /\ c = (r.start + (r.fed + d)) % CM
      <3>1. r.start \in Nat /\ r.fed \in Nat /\ r.start + r.fed \in Nat /\ r.ctr = (r.start + r.fed) % CM
        BY <1>1, <1>3 DEF STypes, SCount
      <3>2. (((r.start + r.fed) % CM) + d) % CM = (r.start + r.fed + d) % CM
        BY <1>1, <3>1, ModSum
      <3>3. r.start + r.fed + d \in Nat /\ r.start + (r.fed + d) = r.start + r.fed + d
        BY <3>1
      <3>4. (r.start + r.fed + d) % CM \in 0..CM - 1
        BY <1>1, <3>3, ModSum
      <3> QED
        BY <3>1, <3>2, <3>3, <3>4
    <2> HIDE DEF c, t
    <2>3. /\ DOMAIN v = SFields /\ v.fed = r.fed + d /\ v.out = o /\ v.halted = h /\ v.ctr = c
          /\ \A f \in SFields \ {"fed", "out", "halted", "ctr"} : v[f] = r[f]
      BY <1>0, <1>1, <2>1 DEF SFields
    <2>4. STypes(v)
      BY <1>1, <2>2, <2>3 DEF STypes, SFields
    <2>5. SState(v) /\ SMask(v)
      BY <1>1, <1>3, <2>3 DEF SState, SMask, SFields, S!Counting
    <2>6. SCount(v)
      BY <1>3, <2>2, <2>3 DEF SCount, SFields, S!Counting
    <2>7. SHaltOK(v)
      BY <1>1, <1>3, <2>3 DEF SHaltOK, SAt, SFields, SInert, S!Single, SState, S!Counting
    <2>8. SOK(v) /\ v.machine = r.machine /\ v.out = o
      BY <2>3, <2>4, <2>5, <2>6, <2>7 DEF SOK, SFields
    <2>9. SKept(r, v) /\ v.out = o
      BY <2>8 DEF SKept
    <2> QED
      BY <2>9 DEF v
  <1>4. CASE r.machine # "XEX" /\ r.machine \notin S!Counting
    <2> DEFINE c == IF r.machine = "ECB" THEN r.iv ELSE r.iv + d
    <2>1. DOMAIN t = SFields /\ t.iv = c /\ \A f \in SFields \ {"iv"} : t[f] = r[f]
      <3>1. CASE r.machine = "ECB"
        BY <1>1, <1>4, <3>1 DEF S!Take
      <3>2. CASE r.machine # "ECB"
        <4>1. t = [r EXCEPT !.iv = @ + d]
          BY <1>4, <3>2 DEF S!Take
        <4> QED
          BY <1>1, <3>2, <4>1 DEF SFields
      <3> QED
        BY <3>1, <3>2
    <2>2. c \in Nat /\ (r.machine \in {"CBC", "CFB", "OFB"} => c = r.fed + d)
      BY <1>1 DEF STypes, SCount
    <2> HIDE DEF c, t
    <2>3. /\ DOMAIN v = SFields /\ v.fed = r.fed + d /\ v.out = o /\ v.halted = h /\ v.iv = c
          /\ \A f \in SFields \ {"fed", "out", "halted", "iv"} : v[f] = r[f]
      BY <1>0, <1>1, <2>1 DEF SFields
    <2>4. STypes(v)
      BY <1>1, <2>2, <2>3 DEF STypes, SFields
    <2>5. SState(v) /\ SMask(v)
      BY <1>1, <1>4, <2>3 DEF SState, SMask, SFields
    <2>6. SCount(v)
      BY <1>4, <2>2, <2>3 DEF SCount, SFields
    <2>7. SHaltOK(v)
      BY <1>1, <1>4, <2>3 DEF SHaltOK, SAt, SFields, SInert, S!Single, SState
    <2>8. SOK(v) /\ v.machine = r.machine /\ v.out = o
      BY <2>3, <2>4, <2>5, <2>6, <2>7 DEF SOK, SFields
    <2>9. SKept(r, v) /\ v.out = o
      BY <2>8 DEF SKept
    <2> QED
      BY <2>9 DEF v
  <1> QED
    BY <1>2, <1>3, <1>4

\* The bytes at which a kl.exec resumes: those of a whole number of segments and of bytes.
LEMMA SPart ==
  ASSUME NEW u \in 1..4
  PROVE  u \div S!GCD(2, u) = IF u = 3 THEN 3 ELSE IF u = 4 THEN 2 ELSE 1
  <1> DEFINE C(d) == 2 % d = 0 /\ u % d = 0 /\ \A e \in 1..u : 2 % e = 0 /\ u % e = 0 => e <= d
             g == S!GCD(2, u)
             one == IF u \in {2, 4} THEN 2 ELSE 1
  <1>1. one \in 1..u /\ C(one)
    <2>1. CASE u = 1
      BY <2>1
    <2>2. CASE u = 2
      BY <2>2
    <2>3. CASE u = 3
      BY <2>3
    <2>4. CASE u = 4
      BY <2>4
    <2> QED
      BY <2>1, <2>2, <2>3, <2>4
  <1>2. g \in 1..u /\ C(g)
    BY <1>1 DEF S!GCD
  <1>3. g = one
    BY <1>1, <1>2
  <1> HIDE DEF g
  <1>4. u \div g = IF u = 3 THEN 3 ELSE IF u = 4 THEN 2 ELSE 1
    <2>1. CASE u = 1
      BY <1>3, <2>1
    <2>2. CASE u = 2
      BY <1>3, <2>2
    <2>3. CASE u = 3
      BY <1>3, <2>3
    <2>4. CASE u = 4
      BY <1>3, <2>4
    <2> QED
      BY <2>1, <2>2, <2>3, <2>4
  <1> QED
    BY <1>4 DEF g

\* A window from klstart on, and the points where it halts.
LEMMA SCut ==
  ASSUME NEW r, r.u \in 1..4, ~ S!Single(r), NEW n \in Nat, NEW ks \in Nat, ks < n, ks % (r.u \div S!GCD(2, r.u)) = 0,
         NEW h, NEW f, f = (ks * 2) \div r.u
  PROVE  /\ ((n * 2) \div r.u) - f \in Nat
         /\ h \in S!Points(r, n, ks) =>
              LET pos == (h * r.u) \div 2 IN
              h \in 0..((n * 2) \div r.u) - 1 /\ h - f \in Nat /\ pos \in Nat /\ (pos * 2) \div r.u = h /\ pos % (r.u \div S!GCD(2, r.u)) = 0
  <1> DEFINE u == r.u
             g == IF u = 3 THEN 3 ELSE IF u = 4 THEN 2 ELSE 1
             pos == (h * u) \div 2
  <1>1. u \in 1..4 /\ r.u \div S!GCD(2, r.u) = g
    BY SPart
  <1>2. ks % g = 0
    BY <1>1
  <1>3. h \in S!Points(r, n, ks) => h \in 0..((n * 2) \div u) - 1 /\ h * u > ks * 2 /\ (h * u) % 2 = 0
    BY DEF S!Points, BYTE
  <1>4. ((n * 2) \div u) - f \in Nat
    <2> HIDE DEF u
    <2>1. CASE u = 1
      BY <1>2, <2>1 DEF u
    <2>2. CASE u = 2
      BY <1>2, <2>2 DEF u
    <2>3. CASE u = 3
      BY <1>2, <2>3 DEF u
    <2>4. CASE u = 4
      BY <1>2, <2>4 DEF u
    <2> QED
      BY <1>1, <2>1, <2>2, <2>3, <2>4
  <1>5. ASSUME h \in S!Points(r, n, ks) PROVE h - f \in Nat /\ pos \in Nat /\ (pos * 2) \div u = h /\ pos % g = 0
    <2>1. h \in Nat /\ h * u > ks * 2 /\ (h * u) % 2 = 0
      BY <1>1, <1>3, <1>5
    <2>2. CASE u = 1
      BY <1>2, <2>1, <2>2
    <2>3. CASE u = 2
      BY <1>2, <2>1, <2>3
    <2>4. CASE u = 3
      BY <1>2, <2>1, <2>4
    <2>5. CASE u = 4
      BY <1>2, <2>1, <2>5
    <2> QED
      BY <1>1, <2>2, <2>3, <2>4, <2>5
  <1> QED
    BY <1>1, <1>3, <1>4, <1>5

LEMMA SExecAt ==
  ASSUME MachinesAssumption, SOK(m), m.st \in S!Operations(m.machine), NEW n \in Nat, NEW ks \in Nat, ks < n, NEW h \in Nat \ {0}
  PROVE  SKept(m, S!_exec(m, n, ks, h))
  <1> DEFINE v == S!_exec(m, n, ks, h)
             nblk == IF S!Single(m) THEN 1 ELSE (n * 2) \div m.u
             j == IF h \in S!Points(m, n, ks) THEN h ELSE nblk
             pos == (j * m.u) \div 2
             known == IF j < nblk THEN (pos * 2) \div m.u ELSE nblk
             first == (ks * 2) \div m.u
             hal == IF j < nblk THEN [n |-> n, pos |-> pos] ELSE [n |-> 0, pos |-> 0]
             bad == (m.machine # "CFB" /\ n % 2 # 0) \/ ks % S!ip(m, n) # 0
             w == [S!Take(m, j - first) EXCEPT !.fed = @ + known - first, !.out = "text", !.halted = hal]
  <1>1. v = IF bad THEN S!Inert(m.machine, "Invalid") ELSE w
    BY DEF S!_exec, BYTE, BYTES, S!NotHalted
  <1>2. m.u \in 1..4 /\ m.machine \in Modes /\ m.st \notin SInert /\ (S!Single(m) => m.u = 4) /\ m.fed \in Nat
    BY DEF SOK, STypes, S!Operations, SInert, S!Single
  <1>3. CASE bad
    <2>1. v = S!Inert(m.machine, "Invalid") /\ "Invalid" \in SInert
      BY <1>1, <1>3 DEF SInert
    <2> HIDE DEF v
    <2>2. SOK(S!Inert(m.machine, "Invalid")) /\ S!Inert(m.machine, "Invalid").machine = m.machine
      BY <1>2, <2>1, SInvalid
    <2>3. SKept(m, v)
      BY <2>1, <2>2 DEF SKept
    <2> QED
      BY <2>3 DEF v
  <1>4. CASE ~ bad
    <2> DEFINE g == m.u \div S!GCD(2, m.u)
               d == j - first
    <2>1. /\ d \in Nat /\ known = j /\ (S!Single(m) => d = 1)
          /\ hal.pos # 0 => ~ S!Single(m) /\ hal.n = n /\ hal.pos \in Nat /\ hal.pos % g = 0
      <3>1. CASE S!Single(m)
        <4>1. ks = 0
          <5>1. ks % n = 0
            BY <1>4, <3>1 DEF S!ip
          <5>2. ks % n = ks
            <6>1. n \in Nat \ {0}
              OBVIOUS
            <6> QED
              BY <6>1, ModSum
          <5> QED
            BY <5>1, <5>2
        <4>2. j = 1 /\ nblk = 1 /\ first = 0
          BY <1>2, <3>1, <4>1 DEF S!Points
        <4> HIDE DEF j, nblk, first
        <4> QED
          BY <3>1, <4>2
      <3>2. CASE ~ S!Single(m)
        <4>1. ks % g = 0
          BY <1>4, <3>2 DEF S!ip, BYTE
        <4>2. /\ ((n * 2) \div m.u) - first \in Nat
              /\ h \in S!Points(m, n, ks) =>
                   LET p == (h * m.u) \div 2 IN
                   h \in 0..((n * 2) \div m.u) - 1 /\ h - first \in Nat /\ p \in Nat /\ (p * 2) \div m.u = h /\ p % (m.u \div S!GCD(2, m.u)) = 0
          <5> DEFINE f == (ks * 2) \div m.u
          <5>1. f = (ks * 2) \div m.u
            OBVIOUS
          <5> HIDE DEF f
          <5> QED
            BY <1>2, <3>2, <4>1, <5>1, SCut DEF g
        <4>3. nblk = (n * 2) \div m.u
          BY <3>2
        <4>4. nblk \in Int
          BY <1>2, <4>3
        <4> HIDE DEF first, nblk, g
        <4>5. CASE h \in S!Points(m, n, ks)
          <5>1. j = h /\ j < nblk /\ d \in Nat /\ pos \in Nat /\ known = j /\ pos % g = 0
            BY <4>2, <4>3, <4>4, <4>5 DEF g
          <5> QED
            BY <3>2, <5>1
        <4>6. CASE h \notin S!Points(m, n, ks)
          <5>1. j = nblk /\ ~ (j < nblk)
            BY <4>4, <4>6
          <5> HIDE DEF j
          <5> QED
            BY <3>2, <4>2, <4>3, <5>1
        <4> QED
          BY <4>5, <4>6
      <3> QED
        BY <3>1, <3>2
    <2>2. v = SDone(m, d, "text", hal)
      <3>1. first \in Int
        BY <1>2
      <3>2. j \in Int
        <4>1. nblk \in Int
          BY <1>2
        <4> HIDE DEF nblk
        <4> QED
          BY <4>1
      <3>3. v = w
        BY <1>1, <1>4
      <3> HIDE DEF v, j, first, known, hal
      <3> QED
        BY <2>1, <3>1, <3>2, <3>3 DEF SDone
    <2>3. m.machine # "CFB" => n % 2 = 0
      BY <1>4
    <2> HIDE DEF v, d, hal, g
    <2>4. SAt(m, hal)
      BY <2>1, <2>3 DEF SAt, g
    <2>5. SKept(m, SDone(m, d, "text", hal))
      BY <2>1, <2>4, STake
    <2>6. SKept(m, v)
      BY <2>2, <2>5
    <2> QED
      BY <2>6 DEF v
  <1> QED
    BY <1>3, <1>4

LEMMA SExec ==
  ASSUME MachinesAssumption, SOK(m), NEW n \in Nat, NEW ks \in Nat, NEW h \in Nat \ {0}, S!exec(n, ks, h)
  PROVE  SKept(m, m') /\ (m' # m => S!GatedStep)
  <1> DEFINE v == S!_exec(m, n, ks, h)
             w == [m EXCEPT !.halted = [n |-> 0, pos |-> 0], !.out = "nothing"]
  <1>1. m' = IF S!inert THEN m
             ELSE IF m.st \notin S!Operations(m.machine) \/ ~ S!Permitted(m) THEN S!invalid
             ELSE IF ks >= n THEN w ELSE v
    BY DEF S!exec, S!NotHalted
  <1>2. CASE S!inert
    BY <1>1, <1>2 DEF SKept
  <1>3. CASE ~ S!inert /\ (m.st \notin S!Operations(m.machine) \/ ~ S!Permitted(m))
    <2>1. m' = S!Inert(m.machine, "Invalid") /\ "Invalid" \in SInert /\ m.machine \in Modes
      BY <1>1, <1>3 DEF SInert, S!invalid, SOK, STypes
    <2>2. SQuiet(m, S!Inert(m.machine, "Invalid"))
      BY <2>1, SInvalid DEF SQuiet, SKept
    <2> QED
      BY <2>1, <2>2 DEF SQuiet, S!GatedStep
  <1>4. CASE ~ S!inert /\ m.st \in S!Operations(m.machine) /\ S!Permitted(m) /\ ks >= n
    <2>1. m' = w
      BY <1>1, <1>4
    <2>2. DOMAIN m' = SFields /\ m'.halted.pos = 0 /\ m'.out = "nothing" /\ \A f \in SFields \ {"halted", "out"} : m'[f] = m[f]
      BY <2>1 DEF SOK, STypes, SFields
    <2>3. STypes(m') /\ SHaltOK(m')
      BY <2>2 DEF SOK, STypes, SHaltOK, SFields
    <2>4. SState(m') /\ SCount(m') /\ SMask(m')
      <3> HIDE DEF w
      <3>1. SState(m')
        BY <2>2 DEF SOK, SState, SFields
      <3>2. SCount(m')
        BY <2>2 DEF SOK, SCount, SFields
      <3>3. SMask(m')
        BY <2>2 DEF SOK, SMask, SFields
      <3> QED
        BY <3>1, <3>2, <3>3
    <2>5. m'.machine = m.machine
      BY <2>2 DEF SFields
    <2> QED
      BY <2>2, <2>3, <2>4, <2>5 DEF SOK, SKept, S!GatedStep
  <1>5. CASE ~ S!inert /\ m.st \in S!Operations(m.machine) /\ S!Permitted(m) /\ ~ (ks >= n)
    <2>1. m' = v
      BY <1>1, <1>5
    <2> HIDE DEF w, v
    <2>2. SKept(m, v)
      BY <1>5, SExecAt DEF v
    <2>3. S!GatedStep
      BY <1>5 DEF S!GatedStep, S!Permitted
    <2> QED
      BY <2>1, <2>2, <2>3
  <1> QED
    BY <1>2, <1>3, <1>4, <1>5

LEMMA SDeriveOut ==
  ASSUME MachinesAssumption, SOK(m), NEW d \in 1..2, S!derive_out(d)
  PROVE  SKept(m, m') /\ (m' # m => m'.out = "nothing")
  <1> DEFINE n == [n |-> 0, pos |-> 0]
  <1>1. CASE S!inert
    BY <1>1 DEF SKept, S!derive_out
  <1>2. CASE ~ S!inert /\ m.st # "Operate"
    <2>1. m' = S!Inert(m.machine, "Invalid") /\ "Invalid" \in SInert /\ m.machine \in Modes
      BY <1>2 DEF SInert, S!invalid, S!derive_out, SOK, STypes
    <2>2. SQuiet(m, S!Inert(m.machine, "Invalid"))
      BY <2>1, SInvalid DEF SQuiet, SKept
    <2> QED
      BY <2>1, <2>2 DEF SQuiet
  <1>3. CASE ~ S!inert /\ m.st = "Operate"
    <2>1. m.st \in S!Operations(m.machine) /\ ~ S!Single(m) /\ d \in Nat
      BY <1>3 DEF SOK, SState, S!Single, SInert
    <2>2. m' = SDone(m, d, "nothing", n) /\ SAt(m, n)
      BY <1>3 DEF S!derive_out, SDone, S!NotHalted, SAt
    <2> HIDE DEF n
    <2>3. SKept(m, SDone(m, d, "nothing", n)) /\ SDone(m, d, "nothing", n).out = "nothing"
      BY <2>1, <2>2, STake
    <2> QED
      BY <2>2, <2>3
  <1> QED
    BY <1>1, <1>2, <1>3

LEMMA SLoadKey ==
  ASSUME MachinesAssumption, SOK(m), NEW enough \in BOOLEAN, NEW equal \in BOOLEAN, S!load_key(enough, equal)
  PROVE  SKept(m, m') /\ (m' # m => m'.out = "nothing")
  <1>1. CASE S!inert
    BY <1>1 DEF SKept, S!load_key
  <1>2. CASE ~ S!inert /\ m' = S!enter_ready(m)
    <2>1. STypes(m) /\ m.st \notin SInert
      BY <1>2 DEF SOK, S!inert, SInert
    <2>2. LET v == S!enter_ready(m) IN SQuiet(m, v)
      BY <2>1, SEnter
    <2> QED
      BY <1>2, <2>2 DEF SQuiet
  <1>3. CASE ~ S!inert /\ m' = S!invalid
    <2>1. m' = S!Inert(m.machine, "Invalid") /\ "Invalid" \in SInert /\ m.machine \in Modes
      BY <1>3 DEF SInert, S!invalid, SOK, STypes
    <2>2. SQuiet(m, S!Inert(m.machine, "Invalid"))
      BY <2>1, SInvalid DEF SQuiet, SKept
    <2> QED
      BY <2>1, <2>2 DEF SQuiet
  <1> QED
    BY <1>1, <1>2, <1>3 DEF S!load_key

LEMMA SRestrict ==
  ASSUME MachinesAssumption, SOK(m), NEW mask, S!rstrl(mask)
  PROVE  SKept(m, m') /\ (m' # m => m'.out = "nothing")
  <1> DEFINE p == m.policy \cap mask
  <1>1. CASE S!inert
    BY <1>1 DEF SKept, S!rstrl
  <1>2. CASE ~ S!inert /\ m' = S!invalid
    <2>1. m' = S!Inert(m.machine, "Invalid") /\ "Invalid" \in SInert /\ m.machine \in Modes
      BY <1>2 DEF SInert, S!invalid, SOK, STypes
    <2>2. SQuiet(m, S!Inert(m.machine, "Invalid"))
      BY <2>1, SInvalid DEF SQuiet, SKept
    <2> QED
      BY <2>1, <2>2 DEF SQuiet
  <1>3. CASE ~ S!inert /\ m' # S!invalid
    <2>1. m' = [m EXCEPT !.policy = p, !.out = "nothing"]
      BY <1>3 DEF S!rstrl
    <2>2. p \subseteq {"Encrypt", "Decrypt"}
      BY DEF SOK, STypes
    <2> HIDE DEF p
    <2>3. DOMAIN m' = SFields /\ m'.policy = p /\ m'.out = "nothing" /\ \A f \in SFields \ {"policy", "out"} : m'[f] = m[f]
      BY <2>1 DEF SOK, STypes, SFields
    <2>4. STypes(m') /\ SHaltOK(m')
      BY <2>2, <2>3 DEF SOK, STypes, SHaltOK, SFields
    <2>5. SState(m') /\ SCount(m') /\ SMask(m')
      BY <2>3 DEF SOK, SState, SCount, SMask, SFields
    <2>6. m'.machine = m.machine
      BY <2>3 DEF SFields
    <2> QED
      BY <2>3, <2>4, <2>5, <2>6 DEF SOK, SKept
  <1> QED
    BY <1>1, <1>2, <1>3

LEMMA SMove ==
  ASSUME MachinesAssumption, SOK(m), S!Move
  PROVE  SKept(m, m') /\ m'.out = "nothing"
  <1> DEFINE v == S!enter_ready(m)
             iv == IF m.machine \in {"CBC", "OFB", "CFB"} THEN m.iv ELSE 0
             ctr == IF m.machine \in S!Counting THEN m.ctr ELSE v.ctr
             mask == IF m.machine = "XEX" THEN m.mask ELSE 0
             c == [v EXCEPT !.st = m.st, !.steal = m.steal, !.iv = iv, !.ctr = ctr, !.mask = mask]
  <1>1. m.st \notin SInert /\ STypes(m) /\ DOMAIN m = SFields
    BY DEF S!Move, S!inert, SInert, SOK, STypes
  <1>2. /\ SQuiet(m, v) /\ DOMAIN v = SFields /\ v.policy = m.policy /\ v.u = m.u
    BY <1>1, SEnter
  <1>3. v.out = "nothing" /\ v.ctr \in 0..CM - 1 /\ v.machine = m.machine
    BY <1>2 DEF SQuiet, SKept, SOK, STypes
  <1>4. S!Content(m) = c
    BY DEF S!Content
  <1> HIDE DEF v
  <1>5. /\ DOMAIN c = SFields /\ c.st = m.st /\ c.steal = m.steal /\ c.iv = iv /\ c.ctr = ctr /\ c.mask = mask
        /\ c.machine = m.machine /\ c.policy = m.policy /\ c.u = m.u /\ c.out = "nothing"
    BY <1>2, <1>3 DEF SFields
  <1>6. ctr \in 0..CM - 1 /\ iv \in Nat /\ mask \in Nat
    BY <1>1, <1>3 DEF STypes
  <1>7. m' = [c EXCEPT !.halted = m.halted, !.start = m.start, !.fed = m.fed, !.used = m.used, !.twice = m.twice]
    BY <1>4 DEF S!Move
  <1> HIDE DEF c, iv, ctr, mask
  <1>8. /\ DOMAIN m' = SFields /\ m'.iv = iv /\ m'.ctr = ctr /\ m'.mask = mask /\ m'.out = "nothing"
        /\ \A f \in SFields \ {"iv", "ctr", "mask", "out"} : m'[f] = m[f]
    BY <1>5, <1>7 DEF SFields
  <1>9. STypes(m') /\ SHaltOK(m') /\ SState(m')
    BY <1>6, <1>8 DEF SOK, STypes, SHaltOK, SState, SFields
  <1>10. SCount(m')
    BY <1>8 DEF SOK, SCount, SFields, iv, ctr
  <1>11. SMask(m')
    BY <1>8 DEF SOK, SMask, SState, SFields, mask
  <1>12. m'.machine = m.machine
    BY <1>8 DEF SFields
  <1> QED
    BY <1>8, <1>9, <1>10, <1>11, <1>12 DEF SOK, SKept

LEMMA SStep ==
  ASSUME MachinesAssumption, SOK(m), S!Next
  PROVE  SKept(m, m') /\ (m' # m => S!GatedStep)
  <1>1. ASSUME SKept(m, m') /\ (m' # m => m'.out = "nothing") PROVE SKept(m, m') /\ (m' # m => S!GatedStep)
    BY <1>1 DEF S!GatedStep
  <1>2. ASSUME NEW s, NEW form \in {"A", "B", "C"}, NEW x \in 0..CM - 1, S!setst(s, form, x)
        PROVE  SKept(m, m') /\ (m' # m => S!GatedStep)
    BY <1>1, <1>2, SSetst
  <1>3. ASSUME NEW n \in 0..SymWindow, NEW ks \in 0..SymWindow - 1, NEW h \in 1..SymWindow * BYTE, S!exec(n, ks, h)
        PROVE  SKept(m, m') /\ (m' # m => S!GatedStep)
    <2>1. n \in Nat /\ ks \in Nat /\ h \in Nat \ {0}
      BY DEF MachinesAssumption, BYTE
    <2> QED
      BY <1>3, <2>1, SExec
  <1>4. ASSUME NEW d \in 1..2, S!derive_out(d) PROVE SKept(m, m') /\ (m' # m => S!GatedStep)
    BY <1>1, <1>4, SDeriveOut
  <1>5. ASSUME NEW enough \in BOOLEAN, NEW equal \in BOOLEAN, S!load_key(enough, equal) PROVE SKept(m, m') /\ (m' # m => S!GatedStep)
    BY <1>1, <1>5, SLoadKey
  <1>6. ASSUME NEW mask, S!rstrl(mask) PROVE SKept(m, m') /\ (m' # m => S!GatedStep)
    BY <1>1, <1>6, SRestrict
  <1>7. ASSUME S!Move PROVE SKept(m, m') /\ (m' # m => S!GatedStep)
    BY <1>1, <1>7, SMove
  <1> QED
    BY <1>2, <1>3, <1>4, <1>5, <1>6, <1>7 DEF S!Next

LEMMA SStart == ASSUME MachinesAssumption, S!Init PROVE SOK(m) /\ m.machine \in Modes
  <1>1. PICK k \in Modes, p \in SUBSET {"Encrypt", "Decrypt"}, u \in 1..4 :
          (k # "CFB" => u = 4) /\ m = S!enter_ready([S!Inert(k, "Ready") EXCEPT !.policy = p, !.u = u])
    <2>1. BYTE * BYTES = 4
      BY DEF BYTE, BYTES
    <2>2. \E k \in Modes, p \in SUBSET {"Encrypt", "Decrypt"} \ {{}}, u \in 1..BYTE * BYTES :
            (k # "CFB" => u = BYTE * BYTES) /\ m = S!enter_ready([S!Inert(k, "Ready") EXCEPT !.policy = p, !.u = u])
      BY DEF S!Init
    <2> QED
      BY <2>1, <2>2
  <1> DEFINE r == [S!Inert(k, "Ready") EXCEPT !.policy = p, !.u = u]
  <1>2. 0 \in 0..CM - 1
    BY DEF MachinesAssumption
  <1>3. STypes(r) /\ r.st \notin SInert /\ r.machine = k
    BY <1>1, <1>2 DEF STypes, S!Inert, SFields, SInert
  <1> HIDE DEF r
  <1>4. LET v == S!enter_ready(r) IN SQuiet(r, v)
    BY <1>3, SEnter
  <1>5. m = S!enter_ready(r)
    BY <1>1 DEF r
  <1> QED
    BY <1>3, <1>4, <1>5 DEF SQuiet, SKept

LEMMA SSafe ==
  ASSUME MachinesAssumption, SOK(m)
  PROVE  S!MaskOnce /\ S!FeedIsAbsorbed /\ S!HaltIsResumable
  <1>1. S!MaskOnce
    BY DEF SOK, SMask, S!MaskOnce
  <1>2. S!FeedIsAbsorbed
    BY DEF SOK, SCount, S!FeedIsAbsorbed
  <1>3. ASSUME m.halted.pos # 0 PROVE S!_exec(m, m.halted.n, m.halted.pos, 0).st # "Invalid"
    <2> DEFINE n == m.halted.n
               ks == m.halted.pos
               v == S!_exec(m, n, ks, 0)
               bad == (m.machine # "CFB" /\ n % 2 # 0) \/ ks % S!ip(m, n) # 0
               nblk == IF S!Single(m) THEN 1 ELSE (n * BYTE) \div m.u
               j == IF 0 \in S!Points(m, n, ks) THEN 0 ELSE nblk
               pos == (j * m.u) \div BYTE
               known == IF j < nblk THEN (pos * BYTE) \div m.u ELSE nblk
               first == (ks * BYTE) \div m.u
    <2>0. v = IF bad THEN S!Inert(m.machine, "Invalid")
              ELSE [S!Take(m, j - first) EXCEPT !.fed = @ + known - first, !.out = "text",
                      !.halted = IF j < nblk THEN [n |-> n, pos |-> pos] ELSE S!NotHalted]
      BY DEF S!_exec, BYTE, BYTES
    <2> HIDE DEF v, bad, nblk, j, pos, known, first
    <2>1. \E d, f, o, h : v = IF bad THEN S!Inert(m.machine, "Invalid") ELSE [S!Take(m, d) EXCEPT !.fed = f, !.out = o, !.halted = h]
      <3>1. CASE bad
        BY <2>0, <3>1
      <3>2. CASE ~ bad
        <4> DEFINE d == j - first
                   w == S!Take(m, d)
                   f == w.fed + known - first
                   h == IF j < nblk THEN [n |-> n, pos |-> pos] ELSE S!NotHalted
        <4>1. v = [w EXCEPT !.fed = f, !.out = "text", !.halted = h]
          BY <2>0, <3>2
        <4> HIDE DEF f, h, d
        <4> QED
          BY <3>2, <4>1
      <3> QED
        BY <3>1, <3>2
    <2>2. ~ bad
      BY <1>3 DEF SOK, SHaltOK, S!Single, S!ip, BYTE, bad
    <2>3. PICK d, f, o, h : v = [S!Take(m, d) EXCEPT !.fed = f, !.out = o, !.halted = h]
      BY <2>1, <2>2
    <2> DEFINE t == S!Take(m, d)
    <2>4. DOMAIN t = SFields /\ t.st = m.st
      <3>1. DOMAIN m = SFields /\ m.steal = 0
        BY <1>3 DEF SOK, STypes, SHaltOK
      <3>2. CASE m.machine = "XEX"
        <4> DEFINE taken == m.mask..m.mask + d - 1
                   a == m.twice \/ m.used \cap taken # {}
                   b == m.used \cup taken
                   w == [m EXCEPT !.twice = a, !.used = b]
        <4>1. t = S!Masked(m, d)
          BY <3>2 DEF S!Take, S!Counting
        <4>2. S!Masked(m, d) = [w EXCEPT !.mask = @ + d]
          BY <3>1 DEF S!Masked
        <4> HIDE DEF t, a, b
        <4>3. DOMAIN w = SFields /\ w.st = m.st
          BY <3>1 DEF SFields
        <4> HIDE DEF w
        <4> QED
          BY <4>1, <4>2, <4>3 DEF SFields
      <3>3. CASE m.machine # "XEX"
        <4> DEFINE a == (m.ctr + d) % CM
                   b == m.iv + d
        <4>1. t = m \/ t = [m EXCEPT !.ctr = a] \/ t = [m EXCEPT !.iv = b]
          <5>1. CASE m.machine \in S!Counting
            BY <3>3, <5>1 DEF S!Take, S!Counting
          <5>2. CASE m.machine = "ECB"
            BY <3>3, <5>2 DEF S!Take, S!Counting
          <5>3. CASE m.machine \notin S!Counting /\ m.machine # "ECB"
            BY <3>3, <5>3 DEF S!Take
          <5> QED
            BY <5>1, <5>2, <5>3
        <4> HIDE DEF t, a, b
        <4> QED
          BY <3>1, <4>1 DEF SFields
      <3> QED
        BY <3>2, <3>3
    <2> HIDE DEF t, v
    <2>5. v = [t EXCEPT !.fed = f, !.out = o, !.halted = h]
      BY <2>3 DEF t
    <2>6. v.st = m.st
      BY <2>4, <2>5 DEF SFields
    <2>7. m.st # "Invalid"
      BY <1>3 DEF SOK, SHaltOK, SInert
    <2>8. v.st # "Invalid"
      BY <2>6, <2>7
    <2> QED
      BY <2>8 DEF v
  <1> QED
    BY <1>1, <1>2, <1>3 DEF S!HaltIsResumable

-----------------------------------------------------------------------------
(* The AEADs and MACs: a block is BlockUnits units.                        *)

AFields == {"machine", "policy", "st", "ctr", "start", "lbl", "len", "base", "cumul", "tag", "hasN", "any", "all", "halted", "fed",
            "given", "used", "twice", "out"}
AFam(r) == A!Family[r.machine]
ATexts == {"Enc", "Dec", "ELB", "DLB"}
AEnds == {"ETF", "Verify", "Success", "Failure", "Invalid"}
AStates ==
  [GCM |-> ATexts \cup AEnds \cup {"Ready", "SAV", "Absorb", "DTF"},
   GCMSIV |-> (ATexts \cup AEnds \cup {"Ready", "SAV", "SAV2", "Absorb", "DTF"}) \ {"Verify"},
   OCB |-> ATexts \cup AEnds \cup {"Ready", "SAV", "Absorb", "Last"},
   CMAC |-> {"Ready", "Absorb", "Last", "Output", "Verify", "Success", "Failure", "Invalid"}]

ATypes(r) ==
  /\ DOMAIN r = AFields /\ r.machine \in AEADs /\ r.st \in AStates[AFam(r)]
  /\ r.ctr \in Nat /\ r.start \in Nat /\ r.lbl \in Nat /\ r.len \in Nat /\ r.base \in Nat /\ r.cumul \in Nat /\ r.tag \in Nat /\ r.fed \in Nat

\* The counters that d blocks take after s.
ATaken(s, d) == {(s + i) % CM : i \in 1..d}
\* The k blocks since the hash of the IV took the counters after it, and left some.
ABlocks(r) == \E k \in 0..CM - 2 : r.ctr = (r.start + k) % CM /\ r.used = ATaken(r.start, k)
AGcmCount(r) ==
  /\ r.ctr < CM /\ r.start < CM
  /\ r.st \in {"Ready", "SAV", "Absorb"} => r.used = {}
  /\ r.st = "Absorb" \/ (r.st = "Ready" /\ r.machine = "GCM_IV") => r.ctr = r.start
  /\ r.st \in ATexts => ABlocks(r)
ASivCount(r) ==
  /\ r.st \in {"Ready", "SAV", "SAV2", "Absorb", "ETF"} => r.used = {} /\ r.ctr = 0
  /\ r.st \in ATexts => r.used = 0..r.ctr - 1 /\ r.ctr <= CM
ACount(r) ==
  /\ ~ r.twice
  /\ AFam(r) = "GCM" => AGcmCount(r)
  /\ AFam(r) = "GCMSIV" => ASivCount(r)

\* A final block that was announced is fed, and is not yet in the tag.
APending(r) == IF A!Absorbs(r) THEN A!Pending(r) ELSE 0
AInSAV(r) == AFam(r) = "GCM" /\ r.st = "SAV"
AFeed(r) ==
  /\ r.st \in {"Ready", "SAV"} => r.tag = 0
  /\ AFam(r) # "CMAC" => ~ r.all
  /\ AInSAV(r) => r.cumul = r.fed
  /\ ~ AInSAV(r) => r.tag + APending(r) = r.fed

\* What kl.exec asks of the rest of a window that was halted.
AHaltOK(r) == r.halted.pos # 0 =>
  /\ r.halted.n \in Nat /\ r.halted.pos \in Nat /\ r.halted.pos < r.halted.n /\ r.halted.pos % BlockUnits = 0
  /\ r.st \in {"Absorb", "Enc", "Dec"} \/ AInSAV(r)
  /\ r.st \in {"Absorb", "Enc", "Dec"} => r.halted.n % BlockUnits = 0
  /\ AInSAV(r) => r.base = 0 /\ r.cumul < r.len /\ (r.halted.n % BlockUnits = 0 \/ r.cumul + r.halted.n >= r.len)
AOK(r) == ATypes(r) /\ ACount(r) /\ AFeed(r) /\ AHaltOK(r)

AKept(r, s) == AOK(s) /\ s.machine = r.machine
\* A kl.exec in the State of r gives out only what a policy gates.
AGiven(r, s) == AKept(r, s) /\ (s.out # "nothing" => A!GATE(r.st) # {})
AQuiet(r, s) == AKept(r, s) /\ s.out = "nothing"

LEMMA AFamilies ==
  ASSUME MachinesAssumption, NEW r, r.machine \in AEADs
  PROVE  /\ AFam(r) \in {"GCM", "GCMSIV", "OCB", "CMAC"}
         /\ AFam(r) = "GCM" <=> r.machine \in {"GCM", "GCM_IV"}
         /\ AFam(r) = "GCMSIV" <=> r.machine = "GCMSIV"
         /\ AFam(r) = "OCB" <=> r.machine \in {"OCB", "OCB_NONCE"}
         /\ AFam(r) = "CMAC" <=> r.machine = "CMAC"
  <1>1. r.machine \in {"GCM", "GCM_IV", "GCMSIV", "OCB", "OCB_NONCE", "CMAC"}
    BY DEF MachinesAssumption
  <1> QED
    BY <1>1 DEF AFam, A!Family

\* A counter that wraps at most once.
LEMMA Wrap ==
  ASSUME MachinesAssumption, NEW s \in Nat, s < CM, NEW k \in 0..CM
  PROVE  (s + k) % CM = IF s + k < CM THEN s + k ELSE s + k - CM
  <1>1. CM \in Nat \ {0}
    BY DEF MachinesAssumption
  <1>2. CASE s + k < CM
    <2>1. s + k \in Nat
      BY <1>1
    <2> QED
      BY <1>1, <1>2, <2>1, ModSum
  <1>3. CASE ~ (s + k < CM)
    <2> DEFINE y == s + k - CM
    <2>1. y \in 0..CM - 1 /\ s + k = CM * 1 + y
      BY <1>1, <1>3
    <2>2. (CM * 1 + y) % CM = y
      BY <1>1, <2>1, ModIs
    <2> QED
      BY <1>3, <2>1, <2>2
  <1> QED
    BY <1>2, <1>3

LEMMA Apart ==
  ASSUME MachinesAssumption, NEW s \in Nat, s < CM, NEW i \in 0..CM - 1, NEW j \in 0..CM - 1, i # j
  PROVE  (s + i) % CM # (s + j) % CM
  <1>1. CM \in Nat
    BY DEF MachinesAssumption
  <1>2. /\ (s + i) % CM = IF s + i < CM THEN s + i ELSE s + i - CM
        /\ (s + j) % CM = IF s + j < CM THEN s + j ELSE s + j - CM
    BY <1>1, Wrap
  <1> QED
    BY <1>1, <1>2

LEMMA AInvalid ==
  ASSUME MachinesAssumption, NEW k \in AEADs
  PROVE  LET v == A!Invalid(k) IN
         AOK(v) /\ v.machine = k /\ v.out = "nothing" /\ v.st = "Invalid" /\ DOMAIN v = AFields
  <1> DEFINE v == A!Invalid(k)
  <1>1. v = [machine |-> k, policy |-> {}, st |-> "Invalid", ctr |-> 0, start |-> 0, lbl |-> 0, len |-> 0, base |-> 0, cumul |-> 0,
             tag |-> 0, hasN |-> FALSE, any |-> FALSE, all |-> FALSE, halted |-> [n |-> 0, pos |-> 0], fed |-> 0, given |-> FALSE,
             used |-> {}, twice |-> FALSE, out |-> "nothing"]
    BY DEF A!Invalid, A!NotHalted
  <1> HIDE DEF v
  <1>2. AFam(v) \in {"GCM", "GCMSIV", "OCB", "CMAC"}
    BY <1>1, AFamilies
  <1>3. ATypes(v)
    BY <1>1, <1>2 DEF ATypes, AStates, AEnds, ATexts, AFields
  <1>4. ACount(v)
    <2>1. 0 < CM
      BY DEF MachinesAssumption
    <2> QED
      BY <1>1, <2>1 DEF ACount, AGcmCount, ASivCount, ATexts
  <1>5. AFeed(v)
    BY <1>1 DEF AFeed, APending, AInSAV, A!Pending, A!Final
  <1>6. AHaltOK(v)
    BY <1>1 DEF AHaltOK
  <1> QED
    BY <1>1, <1>3, <1>4, <1>5, <1>6 DEF AOK, AFields, v

LEMMA AReady ==
  ASSUME MachinesAssumption, NEW r, ATypes(r), ~ r.twice, AFam(r) = "GCM" => r.ctr < CM /\ r.start < CM
  PROVE  AQuiet(r, A!Ready(r))
  <1> DEFINE v == A!Ready(r)
             lbl == IF AFam(r) = "CMAC" THEN 0 ELSE r.lbl
             len == IF r.machine = "OCB_NONCE" THEN r.len ELSE 0
             start == IF r.machine = "GCM_IV" THEN 1 ELSE r.start
             ctr == CASE r.machine = "GCM_IV" -> 1 [] r.machine = "GCM" -> r.ctr [] AFam(r) \in {"GCMSIV", "OCB", "CMAC"} -> 0
             i == A!Invalid(r.machine)
  <1>1. v = [i EXCEPT !.policy = r.policy, !.st = "Ready", !.twice = r.twice, !.lbl = lbl, !.len = len, !.start = start, !.ctr = ctr]
    BY DEF A!Ready, AFam
  <1>2. /\ AFam(r) \in {"GCM", "GCMSIV", "OCB", "CMAC"}
        /\ AFam(r) = "GCM" <=> r.machine \in {"GCM", "GCM_IV"}
        /\ AFam(r) = "GCMSIV" <=> r.machine = "GCMSIV"
        /\ AFam(r) = "OCB" <=> r.machine \in {"OCB", "OCB_NONCE"}
        /\ AFam(r) = "CMAC" <=> r.machine = "CMAC"
    BY AFamilies DEF ATypes
  <1>3. /\ lbl \in Nat /\ len \in Nat /\ start \in Nat /\ ctr \in Nat
        /\ AFam(r) = "GCM" => ctr < CM /\ start < CM /\ (r.machine = "GCM_IV" => ctr = start)
        /\ AFam(r) = "GCMSIV" => ctr = 0
    BY <1>2 DEF ATypes, MachinesAssumption
  <1> HIDE DEF v, lbl, len, start, ctr
  <1>4. i = [machine |-> r.machine, policy |-> {}, st |-> "Invalid", ctr |-> 0, start |-> 0, lbl |-> 0, len |-> 0, base |-> 0, cumul |-> 0,
             tag |-> 0, hasN |-> FALSE, any |-> FALSE, all |-> FALSE, halted |-> [n |-> 0, pos |-> 0], fed |-> 0, given |-> FALSE,
             used |-> {}, twice |-> FALSE, out |-> "nothing"]
    BY DEF A!Invalid, A!NotHalted
  <1>5. /\ DOMAIN v = AFields /\ v.machine = r.machine /\ v.policy = r.policy /\ v.st = "Ready" /\ v.ctr = ctr /\ v.start = start
        /\ v.lbl = lbl /\ v.len = len /\ v.base = 0 /\ v.cumul = 0 /\ v.tag = 0 /\ v.all = FALSE /\ v.halted.pos = 0
        /\ v.fed = 0 /\ v.used = {} /\ v.twice = r.twice /\ v.out = "nothing"
    <2>1. /\ DOMAIN i = AFields /\ i.machine = r.machine /\ i.base = 0 /\ i.cumul = 0 /\ i.tag = 0 /\ i.all = FALSE
          /\ i.halted.pos = 0 /\ i.fed = 0 /\ i.used = {} /\ i.out = "nothing"
      BY <1>4 DEF AFields
    <2> HIDE DEF i
    <2> QED
      BY <1>1, <2>1 DEF AFields
  <1>6. AFam(v) = AFam(r)
    BY <1>5 DEF AFam
  <1>7. ATypes(v)
    BY <1>2, <1>3, <1>5, <1>6 DEF ATypes, AStates, AEnds, ATexts, AFields
  <1>8. ACount(v)
    BY <1>3, <1>5, <1>6 DEF ACount, AGcmCount, ASivCount, ATexts
  <1>9. AFeed(v)
    BY <1>5 DEF AFeed, APending, AInSAV, A!Pending, A!Final
  <1>10. AHaltOK(v)
    BY <1>5 DEF AHaltOK
  <1> QED
    BY <1>5, <1>7, <1>8, <1>9, <1>10 DEF AOK, AKept, AQuiet, v

\* The counters that are left are those before the one of the tag.
LEMMA ALeft ==
  ASSUME MachinesAssumption, NEW s \in Nat, s < CM, NEW k \in 0..CM - 2
  PROVE  (s - 2 - ((s + k) % CM)) % CM = CM - 2 - k
  <1> DEFINE c == (s + k) % CM
             y == CM - 2 - k
  <1>1. CM \in Nat \ {0} /\ CM >= 3
    BY DEF MachinesAssumption
  <1>2. c = IF s + k < CM THEN s + k ELSE s + k - CM
    BY <1>1, Wrap
  <1>3. y \in 0..CM - 1
    BY <1>1
  <1>4. (CM * 0 + y) % CM = y /\ (CM * (-1) + y) % CM = y
    BY <1>1, <1>3, ModIs
  <1> HIDE DEF c
  <1>5. s - 2 - c = CM * 0 + y \/ s - 2 - c = CM * (-1) + y
    <2>1. CASE s + k < CM
      <3>1. s - 2 - c = CM * (-1) + y
        BY <1>1, <1>2, <2>1
      <3> QED
        BY <3>1
    <2>2. CASE ~ (s + k < CM)
      <3>1. s - 2 - c = CM * 0 + y
        BY <1>1, <1>2, <2>2
      <3> QED
        BY <3>1
    <2> QED
      BY <2>1, <2>2
  <1> HIDE DEF y
  <1>6. (s - 2 - c) % CM = y
    BY <1>4, <1>5
  <1> QED
    BY <1>6 DEF c, y

\* The counters of the next d blocks of GCM are after those of the k blocks so far, and apart from them.
LEMMA ANext ==
  ASSUME MachinesAssumption, NEW s \in Nat, s < CM, NEW k \in Nat, NEW d \in Nat, k + d \in 0..CM - 2,
         NEW c \in Nat, c = (s + k) % CM
  PROVE  ATaken(s, k) \cap ATaken(c, d) = {} /\ ATaken(s, k) \cup ATaken(c, d) = ATaken(s, k + d)
  <1> DEFINE f(i) == (s + i) % CM
             old == {f(i) : i \in 1..k}
             new == {(c + i) % CM : i \in 1..d}
  <1>1. CM \in Nat \ {0} /\ s + k \in Nat
    BY DEF MachinesAssumption
  <1>2. ASSUME NEW i \in Nat PROVE (c + i) % CM = f(k + i)
    <2>1. (((s + k) % CM) + i) % CM = (s + k + i) % CM
      BY <1>1, ModSum
    <2>2. s + k + i = s + (k + i)
      OBVIOUS
    <2> QED
      BY <2>1, <2>2
  <1>3. ASSUME NEW i \in 0..CM - 1, NEW j \in 0..CM - 1, i # j PROVE f(i) # f(j)
    BY <1>3, Apart
  <1> HIDE DEF f
  <1>4. new = {f(i) : i \in k + 1..k + d}
    <2>1. ASSUME NEW x \in new PROVE x \in {f(i) : i \in k + 1..k + d}
      <3>1. PICK i \in 1..d : x = (c + i) % CM
        BY <2>1
      <3>2. i \in Nat /\ k + i \in k + 1..k + d
        OBVIOUS
      <3>3. x = f(k + i)
        BY <1>2, <3>1, <3>2
      <3> QED
        BY <3>2, <3>3
    <2>2. ASSUME NEW j \in k + 1..k + d PROVE f(j) \in new
      <3>1. j - k \in 1..d /\ j - k \in Nat /\ k + (j - k) = j
        OBVIOUS
      <3>2. (c + (j - k)) % CM = f(k + (j - k))
        BY <1>2, <3>1
      <3>3. f(j) = (c + (j - k)) % CM
        BY <3>1, <3>2
      <3> QED
        BY <3>1, <3>3
    <2>3. ASSUME NEW x \in {f(i) : i \in k + 1..k + d} PROVE x \in new
      <3>1. PICK j \in k + 1..k + d : x = f(j)
        OBVIOUS
      <3> QED
        BY <2>2, <3>1
    <2> QED
      BY <2>1, <2>3
  <1> HIDE DEF new
  <1>5. old \cap new = {}
    <2> SUFFICES ASSUME NEW i \in 1..k, NEW j \in k + 1..k + d PROVE f(i) # f(j)
      BY <1>4
    <2>1. i \in 0..CM - 1 /\ j \in 0..CM - 1 /\ i # j
      BY <1>1
    <2> QED
      BY <1>3, <2>1
  <1>6. old \cup new = {f(i) : i \in 1..k + d}
    <2>1. 1..k + d = (1..k) \cup (k + 1..k + d)
      OBVIOUS
    <2> QED
      BY <1>4, <2>1
  <1>7. ATaken(s, k) = old /\ ATaken(c, d) = new /\ ATaken(s, k + d) = {f(i) : i \in 1..k + d}
    BY DEF ATaken, f, new
  <1> QED
    BY <1>5, <1>6, <1>7 DEF f

\* The blocks of a window take counters that no block took before.
LEMMA ATake ==
  ASSUME MachinesAssumption, NEW r, ATypes(r), ACount(r), NEW d \in Nat, ~ A!RunsOut(r, d)
  PROVE  LET v == A!Take(r, d) IN
         /\ DOMAIN v = AFields /\ \A f \in AFields \ {"ctr", "used", "twice"} : v[f] = r[f]
         /\ v.ctr \in Nat /\ ACount(v)
  <1> DEFINE v == A!Take(r, d)
             cs == A!Counters(r, d)
             c == IF AFam(r) = "GCM" THEN (r.ctr + d) % CM ELSE r.ctr + d
             b == r.twice \/ r.used \cap cs # {}
             used == r.used \cup cs
  <1>1. /\ DOMAIN r = AFields /\ r.ctr \in Nat /\ r.start \in Nat /\ ~ r.twice /\ CM \in Nat \ {0}
        /\ AFam(r) = "GCM" => AGcmCount(r)
        /\ AFam(r) = "GCMSIV" => ASivCount(r)
    BY DEF ATypes, ACount, MachinesAssumption
  <1>2. CASE ~ A!Keyed(r) \/ (AFam(r) = "OCB" /\ r.st \in A!Final)
    <2>1. v = r
      BY <1>2 DEF A!Take, AFam
    <2> QED
      BY <1>1, <2>1
  <1>3. CASE A!Keyed(r) /\ AFam(r) = "OCB" /\ r.st \notin A!Final
    <2>1. v = [r EXCEPT !.ctr = @ + d]
      BY <1>3 DEF A!Take, AFam
    <2>2. DOMAIN v = AFields /\ v.ctr = r.ctr + d /\ \A f \in AFields \ {"ctr"} : v[f] = r[f]
      BY <1>1, <2>1 DEF AFields
    <2> HIDE DEF v
    <2>3. ~ v.twice /\ AFam(v) = "OCB"
      BY <1>1, <1>3, <2>2 DEF AFields, AFam
    <2>4. ACount(v)
      BY <2>3 DEF ACount
    <2> QED
      BY <1>1, <2>2, <2>4 DEF AFields, v
  <1>4. CASE A!Keyed(r) /\ AFam(r) # "OCB"
    <2>0. r.st \in ATexts
      BY <1>4 DEF A!Keyed, AFam, ATexts
    <2>1. v = [A!Use(r, cs) EXCEPT !.ctr = IF AFam(r) = "GCM" THEN (@ + d) % CM ELSE @ + d]
      BY <1>4 DEF A!Take, AFam
    <2> DEFINE w == A!Use(r, cs)
    <2>2. w = [r EXCEPT !.twice = b, !.used = used]
      BY DEF A!Use
    <2> HIDE DEF cs, b, used, v, w
    <2>3. DOMAIN w = AFields /\ w.twice = b /\ w.used = used /\ \A f \in AFields \ {"twice", "used"} : w[f] = r[f]
      BY <1>1, <2>2 DEF AFields
    <2>4. w.ctr = r.ctr
      BY <2>3 DEF AFields
    <2>5. v = [w EXCEPT !.ctr = c]
      BY <2>1, <2>4 DEF w
    <2> HIDE DEF c
    <2>6. /\ DOMAIN v = AFields /\ v.twice = b /\ v.used = used /\ v.ctr = c
          /\ \A f \in AFields \ {"ctr", "used", "twice"} : v[f] = r[f]
      BY <2>3, <2>5 DEF AFields
    <2>7. AFam(v) = AFam(r) /\ v.st = r.st /\ v.start = r.start /\ v.machine = r.machine
      BY <2>6 DEF AFields, AFam
    <2>8. CASE AFam(r) = "GCM"
      <3> DEFINE s == r.start
      <3>0. s \in Nat /\ s < CM
        BY <1>1, <2>8 DEF AGcmCount
      <3>1. PICK k \in 0..CM - 2 : r.ctr = (s + k) % CM /\ r.used = ATaken(s, k)
        BY <1>1, <2>0, <2>8 DEF AGcmCount, ABlocks
      <3>2. A!Room(r) = CM - 2 - k
        <4>1. A!Room(r) = (s - 2 - r.ctr) % CM
          BY <1>4, <2>8 DEF A!Room, AFam
        <4> HIDE DEF s
        <4> QED
          BY <3>0, <3>1, <4>1, ALeft
      <3> HIDE DEF s
      <3>3. k + d \in 0..CM - 2 /\ k \in Nat
        BY <1>1, <1>4, <2>8, <3>2 DEF A!RunsOut
      <3> DEFINE x == r.ctr
      <3>4. cs = ATaken(x, d)
        BY <2>8 DEF A!Counters, AFam, ATaken, cs
      <3>5. x = (s + k) % CM /\ x \in Nat
        BY <1>1, <3>1
      <3> HIDE DEF x
      <3>6. /\ ATaken(s, k) \cap ATaken(x, d) = {} /\ ATaken(s, k) \cup ATaken(x, d) = ATaken(s, k + d)
            /\ (x + d) % CM = (s + (k + d)) % CM
        <4>1. ATaken(s, k) \cap ATaken(x, d) = {} /\ ATaken(s, k) \cup ATaken(x, d) = ATaken(s, k + d)
          BY <3>0, <3>3, <3>5, ANext, ZenonT(40)
        <4>2. s + k \in Nat /\ s + k + d = s + (k + d)
          BY <3>0, <3>3
        <4>3. (((s + k) % CM) + d) % CM = (s + k + d) % CM
          BY <1>1, <4>2, ModSum
        <4> QED
          BY <3>5, <4>1, <4>2, <4>3
      <3>7. r.used \cap cs = {} /\ used = ATaken(s, k + d) /\ c = (s + (k + d)) % CM
        BY <2>8, <3>1, <3>4, <3>6 DEF used, c, x
      <3>8. ~ b
        BY <1>1, <3>7 DEF b
      <3>9. c \in 0..CM - 1
        <4>1. s + (k + d) \in Nat
          BY <3>0, <3>3
        <4> QED
          BY <1>1, <3>7, <4>1, ModSum
      <3>10. ABlocks(v)
        BY <2>6, <2>7, <3>3, <3>7 DEF ABlocks, s
      <3>11. AGcmCount(v)
        BY <1>1, <2>0, <2>6, <2>7, <2>8, <3>9, <3>10 DEF AGcmCount, ATexts
      <3>12. ACount(v)
        BY <2>6, <2>7, <2>8, <3>8, <3>11 DEF ACount
      <3>13. v.ctr \in Nat
        BY <1>1, <2>6, <3>9
      <3> QED
        BY <2>6, <3>12, <3>13 DEF v
    <2>9. CASE AFam(r) = "GCMSIV"
      <3>1. r.used = 0..r.ctr - 1 /\ d <= CM - r.ctr
        BY <1>1, <1>4, <2>0, <2>9 DEF ASivCount, A!Room, A!RunsOut, AFam
      <3>0. d <= CM - r.ctr /\ r.ctr \in Nat /\ CM \in Nat
        BY <1>1, <3>1
      <3>2. cs = r.ctr..r.ctr + d - 1
        <4>1. cs = {(r.ctr + i) % CM : i \in 0..d - 1}
          BY <2>9 DEF A!Counters, AFam, cs
        <4>2. ASSUME NEW i \in 0..d - 1 PROVE (r.ctr + i) % CM = r.ctr + i
          <5>1. r.ctr + i \in Nat /\ r.ctr + i < CM
            BY <3>0
          <5> QED
            BY <1>1, <5>1, ModSum
        <4>3. cs = {r.ctr + i : i \in 0..d - 1}
          BY <4>1, <4>2
        <4>4. ASSUME NEW x \in r.ctr..r.ctr + d - 1 PROVE x \in {r.ctr + i : i \in 0..d - 1}
          <5>1. x - r.ctr \in 0..d - 1 /\ r.ctr + (x - r.ctr) = x
            BY <1>1
          <5> QED
            BY <5>1
        <4>5. ASSUME NEW i \in 0..d - 1 PROVE r.ctr + i \in r.ctr..r.ctr + d - 1
          BY <1>1
        <4> QED
          BY <4>3, <4>4, <4>5
      <3>3. c = r.ctr + d
        BY <2>9 DEF c
      <3>4. ~ b
        <4>1. \A x : ~ (x \in 0..r.ctr - 1 /\ x \in r.ctr..r.ctr + d - 1)
          BY <3>0
        <4> QED
          BY <1>1, <3>1, <3>2, <4>1 DEF b
      <3>5. used = 0..r.ctr + d - 1
        <4>1. \A x : x \in 0..r.ctr - 1 \/ x \in r.ctr..r.ctr + d - 1 <=> x \in 0..r.ctr + d - 1
          BY <3>0
        <4>2. used = (0..r.ctr - 1) \cup (r.ctr..r.ctr + d - 1)
          BY <3>1, <3>2 DEF used
        <4> QED
          BY <4>1, <4>2
      <3>6. used = 0..c - 1 /\ c <= CM /\ c \in Nat
        <4>1. c - 1 = r.ctr + d - 1 /\ c <= CM /\ c \in Nat
          BY <3>0, <3>3
        <4> QED
          BY <3>5, <4>1
      <3>7. ASivCount(v)
        BY <2>0, <2>6, <2>7, <3>6 DEF ASivCount, ATexts
      <3>8. ACount(v)
        BY <2>6, <2>7, <2>9, <3>4, <3>7 DEF ACount
      <3> QED
        BY <2>6, <3>6, <3>8 DEF v
    <2>10. CASE AFam(r) = "CMAC"
      BY <2>0, <2>10 DEF ATypes, AStates, ATexts
    <2>11. AFam(r) \in {"GCM", "GCMSIV", "OCB", "CMAC"}
      BY AFamilies DEF ATypes
    <2> QED
      BY <1>4, <2>8, <2>9, <2>10, <2>11
  <1> QED
    BY <1>2, <1>3, <1>4

LEMMA ALost ==
  ASSUME MachinesAssumption, NEW r, r.machine \in AEADs
  PROVE  AQuiet(r, A!Invalid(r.machine)) /\ AGiven(r, A!Invalid(r.machine)) /\ A!Invalid(r.machine).st = "Invalid"
  <1> DEFINE k == r.machine
             w == A!Invalid(k)
  <1>1. LET v == A!Invalid(k) IN AOK(v) /\ v.machine = k /\ v.out = "nothing" /\ v.st = "Invalid" /\ DOMAIN v = AFields
    BY AInvalid
  <1> HIDE DEF w
  <1>2. AOK(w) /\ w.machine = k /\ w.out = "nothing" /\ w.st = "Invalid"
    BY <1>1 DEF w
  <1>3. AQuiet(r, w) /\ AGiven(r, w) /\ w.st = "Invalid"
    BY <1>2 DEF AQuiet, AGiven, AKept
  <1> QED
    BY <1>3 DEF w

LEMMA ASameCount ==
  ASSUME NEW t, NEW v, ACount(t),
         v.machine = t.machine, v.st = t.st, v.ctr = t.ctr, v.start = t.start, v.used = t.used, v.twice = t.twice
  PROVE  ACount(v)
  BY DEF ACount, AFam, AGcmCount, ABlocks, ASivCount

\* Blocks that are taken and, where the State does so, absorbed.
LEMMA AAbsorb ==
  ASSUME MachinesAssumption, NEW r, AOK(r), NEW d \in Nat, ~ A!RunsOut(r, d)
  PROVE  LET v == A!Absorbed(A!Take(r, d), d) IN
         /\ DOMAIN v = AFields /\ \A f \in AFields \ {"ctr", "used", "twice", "tag", "any"} : v[f] = r[f]
         /\ v.ctr \in Nat /\ ACount(v) /\ v.tag = IF A!Absorbs(r) THEN r.tag + d ELSE r.tag
  <1> DEFINE t == A!Take(r, d)
             v == A!Absorbed(t, d)
             b == t.any \/ d > 0
  <1>1. /\ DOMAIN t = AFields /\ \A f \in AFields \ {"ctr", "used", "twice"} : t[f] = r[f]
        /\ t.ctr \in Nat /\ ACount(t)
    BY ATake DEF AOK
  <1> HIDE DEF t
  <1>2. t.machine = r.machine /\ t.st = r.st /\ t.tag = r.tag
    BY <1>1 DEF AFields
  <1>3. A!Absorbs(t) <=> A!Absorbs(r)
    BY <1>2 DEF A!Absorbs
  <1>4. v = IF A!Absorbs(t) THEN [t EXCEPT !.tag = @ + d, !.any = b] ELSE t
    BY DEF A!Absorbed
  <1> HIDE DEF v, b
  <1>5. /\ DOMAIN v = AFields /\ \A f \in AFields \ {"tag", "any"} : v[f] = t[f]
        /\ v.tag = IF A!Absorbs(r) THEN r.tag + d ELSE r.tag
    BY <1>1, <1>2, <1>3, <1>4 DEF AFields
  <1>6. ACount(v)
    <2>1. v.machine = t.machine /\ v.st = t.st /\ v.ctr = t.ctr /\ v.start = t.start /\ v.used = t.used /\ v.twice = t.twice
      BY <1>5 DEF AFields
    <2> QED
      BY <1>1, <2>1, ASameCount
  <1>7. v.ctr \in Nat /\ \A f \in AFields \ {"ctr", "used", "twice", "tag", "any"} : v[f] = r[f]
    BY <1>1, <1>5 DEF AFields
  <1> QED
    BY <1>5, <1>6, <1>7 DEF t, v

LEMMA AMulti ==
  ASSUME MachinesAssumption, NEW r, AOK(r), r.out = "nothing", r.st \in {"Absorb", "Enc", "Dec"},
         NEW n \in Nat, NEW ks \in Nat, NEW h \in Nat, ks < n
  PROVE  AGiven(r, A!_multi(r, n, ks, h))
  <1> DEFINE stop == IF h % BlockUnits = 0 /\ ks < h /\ h < n THEN h ELSE n
             d == (stop - ks) \div BlockUnits
             o == IF A!GATE(r.st) = {} THEN "nothing" ELSE "text"
             bad == n % BlockUnits # 0 \/ ks % BlockUnits # 0 \/ A!RunsOut(r, d)
             u == A!Absorbed(A!Take(r, d), d)
             w == A!Fed(u, d)
             y == [w EXCEPT !.out = o]
             v == A!Halt(y, n, stop)
             hal == IF stop < n THEN [n |-> n, pos |-> stop] ELSE [n |-> 0, pos |-> 0]
  <1>1. A!_multi(r, n, ks, h) = IF bad THEN A!Invalid(r.machine) ELSE v
    BY DEF A!_multi
  <1>2. r.machine \in AEADs /\ BlockUnits \in Nat \ {0}
    BY DEF AOK, ATypes, MachinesAssumption
  <1>3. CASE bad
    BY <1>1, <1>2, <1>3, ALost
  <1>4. CASE ~ bad
    <2>1. d \in Nat /\ stop \in Nat /\ stop > ks
      BY <1>2
    <2>2. ~ A!RunsOut(r, d)
      BY <1>4
    <2>3. hal.pos # 0 => hal.n = n /\ hal.pos = h /\ h % BlockUnits = 0 /\ h < n
      BY <1>2
    <2>4. n % BlockUnits = 0
      BY <1>4
    <2>5. v = [y EXCEPT !.halted = hal]
      BY DEF A!Halt, A!NotHalted
    <2> HIDE DEF d, stop, hal, o
    <2>6. /\ DOMAIN u = AFields /\ \A f \in AFields \ {"ctr", "used", "twice", "tag", "any"} : u[f] = r[f]
          /\ u.ctr \in Nat /\ ACount(u) /\ u.tag = IF A!Absorbs(r) THEN r.tag + d ELSE r.tag
      BY <2>1, <2>2, AAbsorb
    <2>7. w = IF A!Absorbs(u) THEN [u EXCEPT !.fed = @ + d] ELSE u
      BY DEF A!Fed
    <2> HIDE DEF u, w, y, v
    <2>8. A!Absorbs(u) <=> A!Absorbs(r)
      <3>1. u.machine = r.machine /\ u.st = r.st
        BY <2>6 DEF AFields
      <3> QED
        BY <3>1 DEF A!Absorbs
    <2>9. DOMAIN w = AFields /\ w.fed = (IF A!Absorbs(r) THEN r.fed + d ELSE r.fed) /\ \A f \in AFields \ {"fed"} : w[f] = u[f]
      BY <2>6, <2>7, <2>8 DEF AFields
    <2>10. DOMAIN v = AFields /\ v.out = o /\ v.halted = hal /\ \A f \in AFields \ {"out", "halted"} : v[f] = w[f]
      BY <2>5, <2>9 DEF AFields, y
    <2>11. /\ v.ctr \in Nat /\ v.tag = (IF A!Absorbs(r) THEN r.tag + d ELSE r.tag) /\ v.fed = (IF A!Absorbs(r) THEN r.fed + d ELSE r.fed)
           /\ \A f \in AFields \ {"ctr", "used", "twice", "tag", "any", "fed", "out", "halted"} : v[f] = r[f]
      BY <2>6, <2>9, <2>10 DEF AFields
    <2>12. ACount(v)
      <3>1. v.machine = u.machine /\ v.st = u.st /\ v.ctr = u.ctr /\ v.start = u.start /\ v.used = u.used /\ v.twice = u.twice
        BY <2>9, <2>10 DEF AFields
      <3> QED
        BY <2>6, <3>1, ASameCount
    <2>13. /\ v.machine = r.machine /\ v.st = r.st /\ v.start = r.start /\ v.lbl = r.lbl /\ v.len = r.len /\ v.base = r.base
           /\ v.cumul = r.cumul /\ v.all = r.all
      BY <2>11 DEF AFields
    <2>14. ATypes(v)
      BY <2>1, <2>10, <2>11, <2>13 DEF AOK, ATypes, AFam
    <2>15. AFeed(v)
      <3>1. /\ r.tag \in Nat /\ r.fed \in Nat /\ AFam(v) = AFam(r) /\ ~ AInSAV(r) /\ ~ AInSAV(v) /\ APending(r) = 0 /\ APending(v) = 0
            /\ v.st \notin {"Ready", "SAV"}
        BY <2>13 DEF AOK, ATypes, AFam, AInSAV, APending, A!Pending, A!Final
      <3>2. v.tag = v.fed
        BY <2>1, <2>11, <3>1 DEF AOK, AFeed
      <3>3. v.tag \in Nat
        BY <2>1, <2>11, <3>1
      <3>4. AFam(v) # "CMAC" => ~ v.all
        BY <2>13, <3>1 DEF AOK, AFeed
      <3> QED
        BY <3>1, <3>2, <3>3, <3>4 DEF AFeed
    <2>16. AHaltOK(v)
      <3>1. ~ AInSAV(v)
        BY <2>13 DEF AInSAV
      <3> QED
        BY <2>3, <2>4, <2>10, <2>13, <3>1 DEF AHaltOK
    <2>17. v.out # "nothing" => A!GATE(r.st) # {}
      BY <2>10 DEF o
    <2>18. AGiven(r, v)
      BY <2>12, <2>13, <2>14, <2>15, <2>16, <2>17 DEF AGiven, AKept, AOK
    <2>19. A!_multi(r, n, ks, h) = v
      BY <1>1, <1>4
    <2> QED
      BY <2>18, <2>19
  <1> QED
    BY <1>3, <1>4

\* The IV of GCM: what is fed is what is absorbed, until it becomes the counter.
LEMMA AVli ==
  ASSUME MachinesAssumption, NEW r, AOK(r), r.out = "nothing", AInSAV(r),
         NEW n \in Nat, NEW ks \in Nat, NEW h, ks < n, NEW s \in 0..CM - 1
  PROVE  AGiven(r, A!_vli(r, n, ks, h, s))
  <1> DEFINE stop == IF h \in A!Halts(r, n, ks) THEN h ELSE n
             amt == IF stop - ks < r.len - r.cumul THEN stop - ks ELSE r.len - r.cumul
             bad == r.cumul >= r.len \/ (n % BlockUnits # 0 /\ r.cumul + n < r.len) \/ ~ A!Resumable(r, ks)
             base == (r.base + amt) % BlockUnits
             hal == IF stop < n THEN [n |-> n, pos |-> stop] ELSE [n |-> 0, pos |-> 0]
             w == [r EXCEPT !.st = "Absorb", !.start = s, !.ctr = s, !.len = 0, !.base = 0, !.cumul = 0, !.fed = 0,
                            !.halted = [n |-> 0, pos |-> 0]]
             y == [r EXCEPT !.base = base, !.cumul = @ + amt, !.fed = @ + stop - ks]
             v == A!Halt(y, n, stop)
  <1>1. A!_vli(r, n, ks, h, s) = IF bad THEN A!Invalid(r.machine) ELSE IF r.cumul + amt = r.len THEN w ELSE v
    BY DEF A!_vli, A!NotHalted
  <1>2. /\ r.machine \in AEADs /\ BlockUnits \in Nat \ {0} /\ r.len \in Nat /\ r.cumul \in Nat /\ r.base \in Nat /\ r.fed \in Nat
        /\ DOMAIN r = AFields /\ AFam(r) = "GCM" /\ r.st = "SAV" /\ r.cumul = r.fed /\ r.tag = 0 /\ ~ r.all /\ r.used = {} /\ ~ r.twice
        /\ r.lbl \in Nat /\ CM \in Nat
    BY DEF AOK, ATypes, MachinesAssumption, AInSAV, AFeed, ACount, AGcmCount
  <1>3. CASE bad
    BY <1>1, <1>2, <1>3, ALost
  <1>4. CASE ~ bad /\ r.cumul + amt = r.len
    <2>1. A!_vli(r, n, ks, h, s) = w
      BY <1>1, <1>4
    <2>2. /\ DOMAIN w = AFields /\ w.st = "Absorb" /\ w.start = s /\ w.ctr = s /\ w.len = 0 /\ w.base = 0 /\ w.cumul = 0 /\ w.fed = 0
          /\ w.halted.pos = 0 /\ w.machine = r.machine /\ w.tag = 0 /\ w.lbl = r.lbl /\ w.used = {} /\ w.twice = r.twice /\ w.all = r.all
          /\ w.out = "nothing"
      BY <1>2 DEF AFields
    <2> HIDE DEF w
    <2>3. AFam(w) = "GCM"
      BY <1>2, <2>2 DEF AFam
    <2>4. ATypes(w)
      BY <1>2, <2>2, <2>3 DEF ATypes, AStates
    <2>5. ACount(w)
      BY <1>2, <2>2, <2>3 DEF ACount, AGcmCount, ATexts
    <2>6. AFeed(w)
      BY <1>2, <2>2, <2>3 DEF AFeed, AInSAV, APending, A!Pending, A!Final
    <2>7. AHaltOK(w)
      BY <2>2 DEF AHaltOK
    <2>8. AGiven(r, w)
      BY <2>2, <2>4, <2>5, <2>6, <2>7 DEF AGiven, AKept, AOK
    <2> QED
      BY <2>1, <2>8
  <1>5. CASE ~ bad /\ r.cumul + amt # r.len
    <2>1. A!_vli(r, n, ks, h, s) = v
      BY <1>1, <1>5
    <2>2. h \in A!Halts(r, n, ks) => /\ h \in Nat /\ h > ks /\ h < n /\ h % BlockUnits = 0
                                     /\ (r.base + h - ks) % BlockUnits = 0 /\ r.cumul + h - ks < r.len
      BY DEF A!Halts
    <2>3. stop \in Nat /\ stop > ks
      BY <2>2
    <2>4. amt = stop - ks /\ r.cumul + amt < r.len /\ amt \in Nat
      BY <1>2, <1>5, <2>3
    <2>5. base \in Nat
      <3>1. r.base + amt \in Nat
        BY <1>2, <2>4
      <3> QED
        BY <1>2, <3>1
    <2>6. n % BlockUnits = 0 \/ r.cumul + n >= r.len
      BY <1>2, <1>5
    <2>7. hal.pos # 0 => hal.n = n /\ hal.pos = h /\ h \in Nat /\ h < n /\ h % BlockUnits = 0 /\ base = 0
      <3>1. CASE h \in A!Halts(r, n, ks)
        <4>1. stop = h /\ amt = h - ks /\ r.base + amt = r.base + h - ks
          BY <1>2, <2>2, <2>4, <3>1
        <4>2. base = 0
          BY <2>2, <3>1, <4>1
        <4> HIDE DEF base
        <4> QED
          BY <2>2, <3>1, <4>1, <4>2
      <3>2. CASE h \notin A!Halts(r, n, ks)
        BY <3>2
      <3> QED
        BY <3>1, <3>2
    <2>8. v = [y EXCEPT !.halted = hal]
      BY DEF A!Halt, A!NotHalted
    <2>9. r.fed + stop - ks = r.cumul + amt /\ r.cumul + amt \in Nat
      BY <1>2, <2>3, <2>4
    <2> HIDE DEF base, hal, v
    <2>10. /\ DOMAIN y = AFields /\ y.base = base /\ y.cumul = r.cumul + amt /\ y.fed = r.fed + stop - ks
           /\ \A f \in AFields \ {"base", "cumul", "fed"} : y[f] = r[f]
      BY <1>2 DEF AFields
    <2> HIDE DEF stop, amt, y
    <2>11. /\ DOMAIN v = AFields /\ v.halted = hal /\ v.base = base /\ v.cumul = r.cumul + amt /\ v.fed = r.cumul + amt
           /\ \A f \in AFields \ {"base", "cumul", "fed", "halted"} : v[f] = r[f]
      BY <2>8, <2>9, <2>10 DEF AFields
    <2>12. AFam(v) = "GCM" /\ AInSAV(v)
      BY <1>2, <2>11 DEF AFields, AFam, AInSAV
    <2>13. ATypes(v)
      BY <1>2, <2>5, <2>9, <2>11, <2>12 DEF AOK, ATypes, AFields
    <2>14. ACount(v)
      <3>1. v.machine = r.machine /\ v.st = r.st /\ v.ctr = r.ctr /\ v.start = r.start /\ v.used = r.used /\ v.twice = r.twice
        BY <2>11 DEF AFields
      <3> QED
        BY <3>1, ASameCount DEF AOK
    <2>15. AFeed(v)
      <3>1. v.tag = 0 /\ ~ v.all
        BY <1>2, <2>11 DEF AFields
      <3> QED
        BY <2>11, <2>12, <3>1 DEF AFeed
    <2>16. AHaltOK(v)
      <3>1. v.st = "SAV" /\ v.len = r.len
        BY <1>2, <2>11 DEF AFields
      <3>2. hal.pos # 0 => hal.n \in Nat /\ hal.pos \in Nat /\ hal.pos < hal.n /\ hal.pos % BlockUnits = 0 /\ base = 0
        BY <2>7
      <3>3. hal.pos # 0 => hal.n % BlockUnits = 0 \/ r.cumul + amt + hal.n >= r.len
        BY <1>2, <2>4, <2>6, <2>7
      <3> QED
        BY <2>4, <2>11, <2>12, <3>1, <3>2, <3>3 DEF AHaltOK
    <2>17. v.out = "nothing" /\ v.machine = r.machine
      BY <2>11 DEF AFields
    <2>18. AGiven(r, v)
      BY <2>13, <2>14, <2>15, <2>16, <2>17 DEF AGiven, AKept, AOK
    <2> QED
      BY <2>1, <2>18
  <1> QED
    BY <1>3, <1>4, <1>5

\* A tag or a verdict, after all that was fed.
LEMMA AVerdict ==
  ASSUME MachinesAssumption, NEW r, AOK(r), r.halted.pos = 0, r.st \in {"ETF", "DTF", "Output", "Verify"},
         NEW next, NEW o, next \in {"Success", "Failure"} \/ (next = "Enc" /\ AFam(r) = "GCMSIV" /\ r.st = "ETF")
  PROVE  AGiven(r, [r EXCEPT !.st = next, !.out = o])
  <1> DEFINE v == [r EXCEPT !.st = next, !.out = o]
  <1>1. /\ DOMAIN r = AFields /\ r.machine \in AEADs /\ r.fed \in Nat /\ r.tag \in Nat
        /\ AFam(r) \in {"GCM", "GCMSIV", "OCB", "CMAC"}
    BY AFamilies DEF AOK, ATypes
  <1>2. DOMAIN v = AFields /\ v.st = next /\ v.out = o /\ \A f \in AFields \ {"st", "out"} : v[f] = r[f]
    BY <1>1 DEF AFields
  <1> HIDE DEF v
  <1>3. AFam(v) = AFam(r) /\ v.machine = r.machine
    BY <1>2 DEF AFields, AFam
  <1>4. ATypes(v)
    <2>1. next \in AStates[AFam(r)]
      BY <1>1 DEF AStates, AEnds, ATexts
    <2> QED
      BY <1>1, <1>2, <1>3, <2>1 DEF AOK, ATypes, AFields
  <1>5. ACount(v)
    <2>1. ~ v.twice /\ v.start = r.start /\ v.ctr = r.ctr /\ v.used = r.used
      BY <1>2 DEF AFields, AOK, ACount
    <2>2. AFam(v) = "GCM" => AGcmCount(v)
      BY <1>2, <1>3, <2>1 DEF AOK, ACount, AGcmCount, ATexts
    <2>3. AFam(v) = "GCMSIV" => ASivCount(v)
      <3> SUFFICES ASSUME AFam(v) = "GCMSIV" PROVE ASivCount(v)
        OBVIOUS
      <3>1. CASE next # "Enc"
        BY <1>2, <3>1 DEF ASivCount, ATexts
      <3>2. CASE next = "Enc"
        <4>1. v.used = {} /\ v.ctr = 0 /\ 0..0 - 1 = {}
          BY <1>3, <2>1, <3>2 DEF AOK, ACount, ASivCount
        <4> QED
          BY <1>2, <3>2, <4>1 DEF ASivCount, ATexts, MachinesAssumption
      <3> QED
        BY <3>1, <3>2
    <2> QED
      BY <2>1, <2>2, <2>3 DEF ACount
  <1>6. AFeed(v)
    <2>1. ~ AInSAV(r) /\ ~ AInSAV(v) /\ APending(r) = 0 /\ APending(v) = 0 /\ v.st \notin {"Ready", "SAV"}
      BY <1>2 DEF AInSAV, APending, A!Pending, A!Final
    <2>2. v.tag = r.tag /\ v.fed = r.fed /\ v.all = r.all
      BY <1>2 DEF AFields
    <2> QED
      BY <1>1, <1>3, <2>1, <2>2 DEF AOK, AFeed
  <1>7. AHaltOK(v)
    BY <1>2 DEF AFields, AHaltOK
  <1>8. A!GATE(r.st) # {}
    BY DEF A!GATE
  <1>9. AGiven(r, v)
    BY <1>3, <1>4, <1>5, <1>6, <1>7, <1>8 DEF AGiven, AKept, AOK
  <1> QED
    BY <1>9 DEF v

LEMMA AFinalBlock ==
  ASSUME MachinesAssumption, NEW r, AOK(r), r.out = "nothing", r.halted.pos = 0, r.st \in A!Final,
         AFam(r) = "CMAC" => ~ r.all, NEW n \in Nat
  PROVE  AGiven(r, A!FinalBlock(r, n))
  <1> DEFINE o == IF A!GATE(r.st) = {} THEN "nothing" ELSE "text"
             u == A!Absorbed(A!Take(r, 1), 1)
             t == [u EXCEPT !.out = o]
             bad == n < r.lbl \/ r.lbl = 0 \/ A!RunsOut(r, 1)
             v == CASE AFam(r) = "OCB" /\ r.st = "ELB" -> [t EXCEPT !.st = "ETF"]
                    [] AFam(r) = "OCB" /\ r.st = "DLB" -> [t EXCEPT !.st = "Verify"]
                    [] AFam(r) = "CMAC" -> [t EXCEPT !.all = TRUE]
                    [] AFam(r) = "GCMSIV" /\ r.st = "DLB" -> [t EXCEPT !.lbl = 0, !.st = "DTF"]
                    [] OTHER -> [t EXCEPT !.lbl = 0]
             s1 == CASE AFam(r) = "OCB" /\ r.st = "ELB" -> "ETF"
                    [] AFam(r) = "OCB" /\ r.st = "DLB" -> "Verify"
                    [] AFam(r) = "GCMSIV" /\ r.st = "DLB" -> "DTF"
                    [] OTHER -> r.st
  <1>1. A!FinalBlock(r, n) = IF bad THEN A!Invalid(r.machine) ELSE v
    BY DEF A!FinalBlock, AFam
  <1>2. /\ DOMAIN r = AFields /\ r.machine \in AEADs /\ r.fed \in Nat /\ r.tag \in Nat /\ r.lbl \in Nat
        /\ AFam(r) \in {"GCM", "GCMSIV", "OCB", "CMAC"} /\ r.st \in AStates[AFam(r)] /\ r.st \in {"Last", "ELB", "DLB"}
    BY AFamilies DEF AOK, ATypes, A!Final
  <1>3. CASE bad
    BY <1>1, <1>2, <1>3, ALost
  <1>4. CASE ~ bad
    <2>1. r.lbl # 0 /\ ~ A!RunsOut(r, 1)
      BY <1>4
    <2>2. /\ DOMAIN u = AFields /\ \A f \in AFields \ {"ctr", "used", "twice", "tag", "any"} : u[f] = r[f]
          /\ u.ctr \in Nat /\ ACount(u) /\ u.tag = IF A!Absorbs(r) THEN r.tag + 1 ELSE r.tag
      BY <2>1, AAbsorb
    <2>3. ~ r.all
      BY DEF AOK, AFeed
    <2>4. r.fed = IF A!Absorbs(r) THEN r.tag + 1 ELSE r.tag
      <3>1. ~ AInSAV(r) /\ APending(r) = IF A!Absorbs(r) THEN 1 ELSE 0
        BY <1>2, <2>1, <2>3 DEF AInSAV, APending, A!Pending, A!Final
      <3> QED
        BY <1>2, <3>1 DEF AOK, AFeed
    <2> HIDE DEF u, o
    <2>5. DOMAIN t = AFields /\ t.out = o /\ \A f \in AFields \ {"out"} : t[f] = u[f]
      BY <2>2 DEF AFields
    <2> HIDE DEF t
    <2>6. /\ DOMAIN v = AFields /\ \A f \in AFields \ {"st", "lbl", "all"} : v[f] = t[f]
          /\ v.st = s1 /\ v.lbl \in {0, t.lbl} /\ (v.st \in A!Final => v.lbl = 0 \/ v.all)
          /\ AFam(r) # "CMAC" => v.all = t.all
      <3>1. t.st = r.st
        BY <2>2, <2>5 DEF AFields
      <3>2. CASE AFam(r) = "OCB" /\ r.st \in {"ELB", "DLB"}
        <4>1. v = [t EXCEPT !.st = s1] /\ s1 \in {"ETF", "Verify"}
          BY <3>2
        <4> HIDE DEF v, s1
        <4> QED
          BY <2>5, <3>2, <4>1 DEF AFields, A!Final
      <3>3. CASE AFam(r) = "CMAC"
        <4>1. v = [t EXCEPT !.all = TRUE] /\ s1 = r.st
          BY <3>3
        <4> HIDE DEF v, s1
        <4> QED
          BY <2>5, <3>1, <3>3, <4>1 DEF AFields
      <3>4. CASE AFam(r) = "GCMSIV" /\ r.st = "DLB"
        <4>1. v = [t EXCEPT !.lbl = 0, !.st = "DTF"] /\ s1 = "DTF"
          BY <3>4
        <4> HIDE DEF v, s1
        <4> QED
          BY <2>5, <3>4, <4>1 DEF AFields, A!Final
      <3>5. CASE ~ (AFam(r) = "OCB" /\ r.st \in {"ELB", "DLB"}) /\ AFam(r) # "CMAC" /\ ~ (AFam(r) = "GCMSIV" /\ r.st = "DLB")
        <4>1. v = [t EXCEPT !.lbl = 0] /\ s1 = r.st
          BY <3>5
        <4> HIDE DEF v, s1
        <4> QED
          BY <2>5, <3>1, <3>5, <4>1 DEF AFields
      <3> QED
        BY <3>2, <3>3, <3>4, <3>5
    <2>7. s1 \in AStates[AFam(r)] /\ s1 \notin {"Ready", "SAV", "SAV2", "Absorb", "Enc", "Dec"} /\ (s1 # r.st => s1 \notin ATexts)
      BY <1>2 DEF AStates, AEnds, ATexts
    <2>8. (AFam(r) = "GCM" => s1 = r.st) /\ (AFam(r) = "GCMSIV" => s1 # "ETF")
      BY <1>2
    <2> HIDE DEF v, s1
    <2>9. /\ \A f \in AFields \ {"st", "lbl", "all", "ctr", "used", "twice", "tag", "any", "out"} : v[f] = r[f]
          /\ v.ctr = u.ctr /\ v.used = u.used /\ v.twice = u.twice /\ v.tag = u.tag /\ v.out = o /\ t.all = r.all /\ t.lbl = r.lbl
      BY <2>2, <2>5, <2>6 DEF AFields
    <2>10. /\ v.machine = r.machine /\ v.start = r.start /\ v.len = r.len /\ v.base = r.base /\ v.cumul = r.cumul /\ v.fed = r.fed
           /\ v.halted = r.halted /\ AFam(v) = AFam(r) /\ AFam(u) = AFam(r) /\ u.st = r.st /\ u.start = r.start /\ u.machine = r.machine
      BY <2>2, <2>9 DEF AFields, AFam
    <2>11. ATypes(v)
      BY <1>2, <2>2, <2>4, <2>6, <2>7, <2>9, <2>10 DEF AOK, ATypes
    <2>12. ACount(v)
      <3>1. CASE s1 = r.st
        BY <2>2, <2>6, <2>9, <2>10, <3>1, ASameCount
      <3>2. CASE s1 # r.st
        <4>1. AFam(r) # "GCM" /\ ~ v.twice
          BY <2>2, <2>8, <2>9, <3>2 DEF ACount
        <4>2. AFam(r) = "GCMSIV" => ASivCount(v)
          BY <2>6, <2>7, <2>8, <3>2 DEF ASivCount
        <4> QED
          BY <2>10, <4>1, <4>2 DEF ACount
      <3> QED
        BY <3>1, <3>2
    <2>13. AFeed(v)
      <3>1. ~ AInSAV(v) /\ APending(v) = 0 /\ v.st \notin {"Ready", "SAV"}
        BY <2>6, <2>7 DEF AInSAV, APending, A!Pending
      <3>2. v.tag = v.fed /\ v.tag \in Nat
        BY <1>2, <2>2, <2>4, <2>9, <2>10
      <3>3. AFam(v) # "CMAC" => ~ v.all
        BY <2>3, <2>6, <2>9, <2>10
      <3> QED
        BY <3>1, <3>2, <3>3 DEF AFeed
    <2>14. AHaltOK(v)
      BY <2>10 DEF AHaltOK
    <2>15. v.out # "nothing" => A!GATE(r.st) # {}
      BY <2>9 DEF o
    <2>16. AGiven(r, v)
      BY <2>10, <2>11, <2>12, <2>13, <2>14, <2>15 DEF AGiven, AKept, AOK
    <2>17. A!FinalBlock(r, n) = v
      BY <1>1, <1>4
    <2> QED
      BY <2>16, <2>17
  <1> QED
    BY <1>3, <1>4

\* What the invariant does not look at.
AFree == {"policy", "hasN", "any", "given", "out"}
LEMMA AFrame ==
  ASSUME NEW r, NEW v, AOK(r), DOMAIN v = AFields, \A f \in AFields \ (AFree \cup {"halted"}) : v[f] = r[f],
         v.halted = r.halted \/ v.halted.pos = 0
  PROVE  AKept(r, v)
  <1>1. /\ v.machine = r.machine /\ v.st = r.st /\ v.ctr = r.ctr /\ v.start = r.start /\ v.lbl = r.lbl /\ v.len = r.len /\ v.base = r.base
        /\ v.cumul = r.cumul /\ v.tag = r.tag /\ v.all = r.all /\ v.fed = r.fed /\ v.used = r.used /\ v.twice = r.twice
        /\ AFam(v) = AFam(r)
    BY DEF AFields, AFree, AFam
  <1>2. ATypes(v)
    BY <1>1 DEF AOK, ATypes
  <1>3. ACount(v)
    BY <1>1, ASameCount DEF AOK
  <1>4. (AInSAV(v) <=> AInSAV(r)) /\ APending(v) = APending(r)
    BY <1>1 DEF AInSAV, APending, A!Pending, A!Absorbs, AFam
  <1>5. AFeed(v)
    BY <1>1, <1>4 DEF AOK, AFeed
  <1>6. AHaltOK(v)
    <2>1. CASE v.halted = r.halted
      BY <1>1, <1>4, <2>1 DEF AOK, AHaltOK
    <2>2. CASE v.halted.pos = 0
      BY <2>2 DEF AHaltOK
    <2> QED
      BY <2>1, <2>2
  <1> QED
    BY <1>1, <1>2, <1>3, <1>5, <1>6 DEF AOK, AKept

\* The final block of OCB that has no units.
LEMMA ANoBlock ==
  ASSUME MachinesAssumption, NEW r, AOK(r), r.out = "nothing", r.halted.pos = 0, AFam(r) = "OCB", r.st \in {"ELB", "DLB"}, r.lbl = 0,
         NEW next \in {"ETF", "Verify"}
  PROVE  AGiven(r, [r EXCEPT !.st = next])
  <1> DEFINE v == [r EXCEPT !.st = next]
  <1>1. DOMAIN r = AFields /\ r.fed \in Nat /\ r.tag \in Nat
    BY DEF AOK, ATypes
  <1>2. DOMAIN v = AFields /\ v.st = next /\ \A f \in AFields \ {"st"} : v[f] = r[f]
    BY <1>1 DEF AFields
  <1> HIDE DEF v
  <1>3. AFam(v) = "OCB" /\ v.machine = r.machine /\ v.tag = r.tag /\ v.fed = r.fed /\ v.all = r.all /\ v.twice = r.twice /\ v.out = "nothing"
        /\ v.halted = r.halted
    BY <1>2 DEF AFields, AFam
  <1>4. ATypes(v)
    BY <1>2, <1>3 DEF AOK, ATypes, AFields, AStates, AEnds
  <1>5. ACount(v)
    BY <1>3 DEF AOK, ACount
  <1>6. AFeed(v)
    <2>1. ~ AInSAV(r) /\ ~ AInSAV(v) /\ APending(r) = 0 /\ APending(v) = 0 /\ v.st \notin {"Ready", "SAV"}
      BY <1>2, <1>3 DEF AInSAV, APending, A!Pending, A!Final
    <2> QED
      BY <1>1, <1>3, <2>1 DEF AOK, AFeed
  <1>7. AHaltOK(v)
    BY <1>3 DEF AHaltOK
  <1>8. AGiven(r, v)
    BY <1>3, <1>4, <1>5, <1>6, <1>7 DEF AGiven, AKept, AOK
  <1> QED
    BY <1>8 DEF v

LEMMA AExecState ==
  ASSUME MachinesAssumption, NEW r, AOK(r), r.out = "nothing", r.halted.pos = 0, A!EXF(r) # "none",
         NEW n \in Nat, NEW ks \in Nat, NEW h \in Nat, r.st \in {"SAV", "Absorb", "Enc", "Dec"} => ks < n,
         NEW s \in 0..CM - 1, NEW ok \in BOOLEAN
  PROVE  AGiven(r, A!_exec(r, n, ks, h, s, ok))
  <1>1. AFam(r) \in {"GCM", "GCMSIV", "OCB", "CMAC"} /\ r.st \in AStates[AFam(r)] /\ r.machine \in AEADs /\ DOMAIN r = AFields
    BY AFamilies DEF AOK, ATypes
  <1>2. r.st \in {"Absorb", "Enc", "Dec"} => AGiven(r, A!_multi(r, n, ks, h))
    BY AMulti
  <1>3. r.st \in A!Final /\ (AFam(r) = "CMAC" => ~ r.all) => AGiven(r, A!FinalBlock(r, n))
    BY AFinalBlock
  <1>4. AInSAV(r) => AGiven(r, A!_vli(r, n, ks, h, s))
    BY AVli DEF AInSAV
  <1>5. AGiven(r, A!Invalid(r.machine))
    BY <1>1, ALost
  <1>6. ASSUME r.st \in {"ETF", "DTF", "Output", "Verify"},
               NEW next, next \in {"Success", "Failure"} \/ (next = "Enc" /\ AFam(r) = "GCMSIV" /\ r.st = "ETF")
        PROVE  AGiven(r, A!GiveTag(r, n, next)) /\ AGiven(r, A!Compare(r, n, ok))
    <2>1. ASSUME NEW o PROVE AGiven(r, [r EXCEPT !.st = next, !.out = o])
      BY <1>6, AVerdict
    <2>2. ASSUME NEW x \in {"Success", "Failure"}, NEW o PROVE AGiven(r, [r EXCEPT !.st = x, !.out = o])
      BY <1>6, AVerdict
    <2>3. AGiven(r, A!GiveTag(r, n, next))
      BY <1>5, <2>1 DEF A!GiveTag
    <2>4. AGiven(r, A!Compare(r, n, ok))
      <3> DEFINE x == IF ok THEN "Success" ELSE "Failure"
      <3>1. AGiven(r, [r EXCEPT !.st = x, !.out = "verdict"])
        BY <2>2
      <3> QED
        BY <1>5, <3>1 DEF A!Compare
    <2> QED
      BY <2>3, <2>4
  <1>7. r.st \in {"ETF", "DTF", "Output", "Verify"} => AGiven(r, A!GiveTag(r, n, "Success")) /\ AGiven(r, A!Compare(r, n, ok))
    BY <1>6
  <1>8. CASE AFam(r) = "GCM"
    <2>1. r.st \in {"SAV", "Absorb", "Enc", "Dec", "ELB", "DLB", "ETF", "Verify"}
      BY <1>1, <1>8 DEF AStates, AEnds, ATexts, A!EXF, AFam
    <2>2. A!_exec(r, n, ks, h, s, ok) = A!_exec_gcm(r, n, ks, h, s, ok)
      BY <1>8 DEF A!_exec, AFam
    <2>3. CASE r.st = "SAV"
      BY <1>4, <1>8, <2>2, <2>3 DEF A!_exec_gcm, AInSAV
    <2>4. CASE r.st \in {"Absorb", "Enc", "Dec"}
      BY <1>2, <2>2, <2>4 DEF A!_exec_gcm
    <2>5. CASE r.st \in {"ELB", "DLB"}
      BY <1>3, <1>8, <2>2, <2>5 DEF A!_exec_gcm, A!Final
    <2>6. CASE r.st = "ETF"
      BY <1>7, <2>2, <2>6 DEF A!_exec_gcm
    <2>7. CASE r.st = "Verify"
      BY <1>7, <2>2, <2>7 DEF A!_exec_gcm
    <2> QED
      BY <2>1, <2>3, <2>4, <2>5, <2>6, <2>7
  <1>9. CASE AFam(r) = "GCMSIV"
    <2>1. r.st \in {"Absorb", "Enc", "Dec", "ELB", "DLB", "ETF", "DTF"}
      BY <1>1, <1>9 DEF AStates, AEnds, ATexts, A!EXF, AFam
    <2>2. A!_exec(r, n, ks, h, s, ok) = A!_exec_gcmsiv(r, n, ks, h, ok)
      BY <1>9 DEF A!_exec, AFam
    <2>3. CASE r.st \in {"Absorb", "Enc", "Dec"}
      BY <1>2, <2>2, <2>3 DEF A!_exec_gcmsiv
    <2>4. CASE r.st \in {"ELB", "DLB"}
      BY <1>3, <1>9, <2>2, <2>4 DEF A!_exec_gcmsiv, A!Final
    <2>5. CASE r.st = "ETF"
      BY <1>6, <1>9, <2>2, <2>5 DEF A!_exec_gcmsiv
    <2>6. CASE r.st = "DTF"
      BY <1>7, <2>2, <2>6 DEF A!_exec_gcmsiv
    <2> QED
      BY <2>1, <2>3, <2>4, <2>5, <2>6
  <1>10. CASE AFam(r) = "OCB"
    <2>1. r.st \in {"SAV", "Absorb", "Last", "Enc", "Dec", "ELB", "DLB", "ETF", "Verify"}
      BY <1>1, <1>10 DEF AStates, AEnds, ATexts, A!EXF, AFam
    <2>2. A!_exec(r, n, ks, h, s, ok) = A!_exec_ocb(r, n, ks, h, ok)
      BY <1>10 DEF A!_exec, AFam
    <2>3. CASE r.st = "SAV"
      <3> DEFINE v == [r EXCEPT !.hasN = TRUE, !.given = TRUE]
      <3>1. A!_exec_ocb(r, n, ks, h, ok) = IF n < r.len THEN A!Invalid(r.machine) ELSE v
        BY <2>3 DEF A!_exec_ocb
      <3>2. DOMAIN v = AFields /\ \A f \in AFields \ {"hasN", "given"} : v[f] = r[f]
        BY <1>1 DEF AFields
      <3> HIDE DEF v
      <3>3. v.out = r.out /\ v.halted = r.halted /\ \A f \in AFields \ (AFree \cup {"halted"}) : v[f] = r[f]
        BY <3>2 DEF AFields, AFree
      <3>4. AGiven(r, v)
        BY <3>2, <3>3, AFrame DEF AGiven
      <3> QED
        BY <1>5, <2>2, <3>1, <3>4
    <2>4. CASE r.st \in {"Absorb", "Enc", "Dec"}
      BY <1>2, <2>2, <2>4 DEF A!_exec_ocb
    <2>5. CASE r.st \in {"ELB", "DLB"} /\ r.lbl = 0
      <3> DEFINE next == IF r.st = "ELB" THEN "ETF" ELSE "Verify"
      <3>1. A!_exec_ocb(r, n, ks, h, ok) = [r EXCEPT !.st = next] /\ next \in {"ETF", "Verify"}
        BY <2>5 DEF A!_exec_ocb
      <3> HIDE DEF next
      <3> QED
        <4>1. AGiven(r, [r EXCEPT !.st = next])
          BY <1>10, <2>5, <3>1, ANoBlock
        <4> QED
          BY <2>2, <3>1, <4>1
    <2>6. CASE r.st = "Last" \/ (r.st \in {"ELB", "DLB"} /\ r.lbl # 0)
      BY <1>3, <1>10, <2>2, <2>6 DEF A!_exec_ocb, A!Final
    <2>7. CASE r.st = "ETF"
      BY <1>7, <2>2, <2>7 DEF A!_exec_ocb
    <2>8. CASE r.st = "Verify"
      BY <1>7, <2>2, <2>8 DEF A!_exec_ocb
    <2> QED
      BY <2>1, <2>3, <2>4, <2>5, <2>6, <2>7, <2>8
  <1>11. CASE AFam(r) = "CMAC"
    <2>1. r.st \in {"Absorb", "Last", "Output", "Verify"}
      BY <1>1, <1>11 DEF AStates, A!EXF, AFam
    <2>2. A!_exec(r, n, ks, h, s, ok) = A!_exec_cmac(r, n, ks, h, ok)
      BY <1>11 DEF A!_exec, AFam
    <2>3. CASE r.st = "Absorb"
      BY <1>2, <2>2, <2>3 DEF A!_exec_cmac
    <2>4. CASE r.st = "Last"
      BY <1>3, <1>5, <2>2, <2>4 DEF A!_exec_cmac, A!Final
    <2>5. CASE r.st = "Output"
      BY <1>7, <2>2, <2>5 DEF A!_exec_cmac
    <2>6. CASE r.st = "Verify"
      BY <1>7, <2>2, <2>6 DEF A!_exec_cmac
    <2> QED
      BY <2>1, <2>3, <2>4, <2>5, <2>6
  <1> QED
    BY <1>1, <1>8, <1>9, <1>10, <1>11

LEMMA AExec ==
  ASSUME MachinesAssumption, AOK(m), NEW form \in {"A", "B", "C", "D"}, NEW n \in Nat, NEW ks \in Nat, NEW h \in Nat, NEW ok \in BOOLEAN,
         A!exec(form, n, ks, h, ok)
  PROVE  AKept(m, m') /\ (m' # m => A!GatedStep)
  <1> DEFINE r == [m EXCEPT !.out = "nothing", !.halted = [n |-> 0, pos |-> 0]]
  <1>1. \/ m' = m
        \/ m' = A!Invalid(m.machine)
        \/ m' = r
        \/ /\ A!MayRun(m) /\ form = A!EXF(m) /\ ~ (form # "D" /\ ks >= n /\ ~ A!NoExec(m))
           /\ \E s \in A!_finalize(m) : m' = A!_exec(r, n, ks, h, s, ok)
    BY DEF A!exec, A!NotHalted
  <1>2. m.machine \in AEADs /\ DOMAIN m = AFields /\ AFam(m) \in {"GCM", "GCMSIV", "OCB", "CMAC"}
    BY AFamilies DEF AOK, ATypes
  <1>3. DOMAIN r = AFields /\ r.out = "nothing" /\ r.halted.pos = 0 /\ \A f \in AFields \ {"out", "halted"} : r[f] = m[f]
    BY <1>2 DEF AFields
  <1> HIDE DEF r
  <1>4. AKept(m, r)
    <2>1. \A f \in AFields \ (AFree \cup {"halted"}) : r[f] = m[f]
      BY <1>3 DEF AFree
    <2> QED
      BY <1>3, <2>1, AFrame
  <1>5. CASE m' = m
    BY <1>5 DEF AKept
  <1>6. CASE m' = A!Invalid(m.machine)
    <2>1. AQuiet(m, A!Invalid(m.machine))
      BY <1>2, ALost
    <2> QED
      BY <1>6, <2>1 DEF AQuiet, A!GatedStep
  <1>7. CASE m' = r
    BY <1>3, <1>4, <1>7 DEF A!GatedStep
  <1>8. CASE /\ A!MayRun(m) /\ form = A!EXF(m) /\ ~ (form # "D" /\ ks >= n /\ ~ A!NoExec(m))
             /\ \E s \in A!_finalize(m) : m' = A!_exec(r, n, ks, h, s, ok)
    <2>1. PICK s \in A!_finalize(m) : m' = A!_exec(r, n, ks, h, s, ok)
      BY <1>8
    <2>2. s \in 0..CM - 1
      BY DEF A!_finalize, MachinesAssumption
    <2>3. r.st = m.st /\ r.machine = m.machine /\ r.lbl = m.lbl /\ AFam(r) = AFam(m)
      BY <1>3 DEF AFields, AFam
    <2>4. A!EXF(r) # "none"
      <3>1. A!EXF(r) = A!EXF(m)
        BY <2>3 DEF A!EXF
      <3> QED
        BY <1>8, <3>1
    <2>5. r.st \in {"SAV", "Absorb", "Enc", "Dec"} => ks < n
      <3> SUFFICES ASSUME r.st \in {"SAV", "Absorb", "Enc", "Dec"} PROVE ks < n
        OBVIOUS
      <3>1. ~ A!NoExec(m) /\ A!EXF(m) # "D"
        BY <2>3 DEF A!NoExec, A!EXF
      <3> QED
        BY <1>8, <3>1
    <2>6. AOK(r)
      BY <1>4 DEF AKept
    <2>7. AGiven(r, m')
      BY <1>3, <2>1, <2>2, <2>4, <2>5, <2>6, AExecState
    <2>8. AKept(m, m')
      BY <2>3, <2>7 DEF AGiven, AKept
    <2>9. A!GatedStep
      BY <1>8, <2>3, <2>7 DEF AGiven, A!GatedStep, A!MayRun
    <2> QED
      BY <2>8, <2>9
  <1> QED
    BY <1>1, <1>5, <1>6, <1>7, <1>8

LEMMA ASteps ==
  ASSUME MachinesAssumption, NEW r, r.machine \in AEADs, NEW to, <<r.st, to>> \in A!TRANS[r.machine]
  PROVE  /\ to \in AStates[AFam(r)] \ {"Ready", "Success", "Failure", "Invalid"}
         /\ to = "SAV" => AFam(r) # "CMAC" /\ r.st \in {"Ready", "SAV"} /\ (AFam(r) = "GCMSIV" => r.st = "Ready")
         /\ to = "Last" => r.st = "Absorb" /\ AFam(r) \in {"OCB", "CMAC"}
         /\ to = "ELB" => r.st = "Enc"
         /\ to = "DLB" => r.st = "Dec"
         /\ r.st = to => to = "SAV"
         /\ AFam(r) = "GCM" => /\ to = "Absorb" => r.st = "SAV" \/ (r.st = "Ready" /\ r.machine = "GCM_IV")
                               /\ to \in {"Enc", "Dec"} => r.st = "Absorb"
                               /\ to \in {"ETF", "DTF"} => r.st \in ATexts
         /\ AFam(r) = "GCMSIV" => /\ to \in {"SAV2", "Absorb", "ETF"} => r.st \in {"SAV", "SAV2", "Absorb"}
                                  /\ to \notin {"Enc", "Last"} /\ (to = "Dec" => r.st = "Absorb")
         /\ r.st \in {"ELB", "DLB"} /\ AFam(r) = "OCB" => to \in {"ETF", "Verify"}
         /\ r.st = "Last" => AFam(r) = "OCB" \/ (AFam(r) = "CMAC" /\ to \in {"Output", "Verify"})
  <1>1. r.machine \in {"GCM", "GCM_IV", "GCMSIV", "OCB", "OCB_NONCE", "CMAC"}
    BY DEF MachinesAssumption
  <1> DEFINE k == r.machine
             st == r.st
  <1>2. CASE k \in {"GCM", "GCM_IV"}
    <2>1. AFam(r) = "GCM"
      BY <1>2, AFamilies
    <2>2. <<st, to>> \in A!GcmTRANS \cup {<<"Ready", "SAV">>, <<"SAV", "Absorb">>, <<"SAV", "SAV">>}
          \/ (<<st, to>> = <<"Ready", "Absorb">> /\ k = "GCM_IV")
      BY <1>2 DEF A!TRANS, A!WithSAV
    <2> HIDE DEF st, k
    <2>3. /\ to \in {"SAV", "Absorb", "Enc", "Dec", "ELB", "DLB", "ETF", "DTF", "Verify"}
          /\ to = "SAV" => st \in {"Ready", "SAV"}
          /\ to = "ELB" => st = "Enc"
          /\ to = "DLB" => st = "Dec"
          /\ to = "Verify" => st = "DTF"
          /\ to = "Absorb" => st = "SAV" \/ (st = "Ready" /\ k = "GCM_IV")
          /\ to \in {"Enc", "Dec"} => st = "Absorb"
          /\ to \in {"ETF", "DTF"} => st \in ATexts
      BY <2>2 DEF A!GcmTRANS, ATexts
    <2> QED
      BY <2>1, <2>3 DEF st, k, AStates, AEnds, ATexts
  <1>3. CASE k = "GCMSIV"
    <2>1. AFam(r) = "GCMSIV"
      BY <1>3, AFamilies
    <2>2. <<st, to>> \in A!SivTRANS
      BY <1>3 DEF A!TRANS
    <2> HIDE DEF st, k
    <2>3. /\ to \in {"SAV", "SAV2", "Absorb", "Dec", "ELB", "DLB", "ETF", "DTF"}
          /\ to = "SAV" => st = "Ready"
          /\ to = "ELB" => st = "Enc"
          /\ to = "DLB" => st = "Dec"
          /\ to \in {"SAV2", "Absorb", "ETF"} => st \in {"SAV", "SAV2", "Absorb"} /\ st # to
          /\ to = "Dec" => st = "Absorb"
          /\ to = "DTF" => st \in {"Dec", "DLB"}
          /\ st # "Last"
      BY <2>2 DEF A!SivTRANS
    <2> QED
      BY <2>1, <2>3 DEF st, k, AStates, AEnds, ATexts
  <1>4. CASE k \in {"OCB", "OCB_NONCE"}
    <2>1. AFam(r) = "OCB"
      BY <1>4, AFamilies
    <2>2. <<st, to>> \in A!OcbTRANS \cup {<<"Ready", "SAV">>, <<"SAV", "Absorb">>, <<"SAV", "SAV">>, <<"Ready", "Absorb">>}
      BY <1>4 DEF A!TRANS, A!WithSAV
    <2> HIDE DEF st, k
    <2>3. /\ to \in {"SAV", "Absorb", "Last", "Enc", "Dec", "ELB", "DLB", "ETF", "Verify"}
          /\ to = "SAV" => st \in {"Ready", "SAV"}
          /\ to = "Absorb" => st \in {"Ready", "SAV"}
          /\ to = "Last" => st = "Absorb"
          /\ to \in {"Enc", "Dec"} => st = "Last"
          /\ to = "ELB" => st = "Enc"
          /\ to = "DLB" => st = "Dec"
          /\ to = "ETF" => st = "ELB"
          /\ to = "Verify" => st = "DLB"
      BY <2>2 DEF A!OcbTRANS
    <2> QED
      BY <2>1, <2>3 DEF st, k, AStates, AEnds, ATexts
  <1>5. CASE k = "CMAC"
    <2>1. AFam(r) = "CMAC"
      BY <1>5, AFamilies
    <2>2. <<st, to>> \in A!CmacTRANS
      BY <1>5 DEF A!TRANS
    <2> HIDE DEF st, k
    <2>3. \/ to = "Absorb" /\ st = "Ready"
          \/ to = "Last" /\ st = "Absorb"
          \/ to \in {"Output", "Verify"} /\ st = "Last"
      BY <2>2 DEF A!CmacTRANS
    <2> QED
      BY <2>1, <2>3 DEF st, k, AStates, AEnds, ATexts
  <1> QED
    BY <1>1, <1>2, <1>3, <1>4, <1>5

\* What entering a State changes.
LEMMA AEntered ==
  ASSUME MachinesAssumption, NEW r, AOK(r), NEW to, NEW x \in Nat
  PROVE  LET v == A!_enter(r, to, x) IN
         /\ DOMAIN v = AFields /\ v.machine = r.machine /\ v.st = to /\ v.start = r.start /\ v.tag = r.tag /\ v.halted.pos = 0
         /\ v.out = "nothing"
         /\ v.lbl = IF to \in A!Final THEN x ELSE r.lbl
         /\ v.ctr = IF AFam(r) = "OCB" /\ to \in {"Absorb", "Enc", "Dec"} THEN 1 ELSE r.ctr
         /\ v.fed = IF to = "SAV" THEN 0
                    ELSE IF to \in A!Final /\ x > 0 /\ (AFam(r) = "GCMSIV" => to # "ELB") THEN r.fed + 1 ELSE r.fed
         /\ v.used = IF AFam(r) = "GCM" /\ to \in {"ETF", "DTF"} THEN r.used \cup {r.start} ELSE r.used
         /\ v.twice <=> AFam(r) = "GCM" /\ to \in {"ETF", "DTF"} /\ r.start \in r.used
         /\ v.all <=> IF to \in A!Final THEN AFam(r) = "CMAC" /\ x = 0 ELSE r.all
         /\ v.len \in Nat /\ v.base \in Nat /\ v.cumul \in Nat
         /\ to = "SAV" => v.cumul = 0
  <1> DEFINE v == A!_enter(r, to, x)
             t == [r EXCEPT !.st = to, !.halted = [n |-> 0, pos |-> 0], !.out = "nothing"]
             a == AFam(r) = "CMAC" /\ x = 0
             b == r.twice \/ r.used \cap {r.start} # {}
             e == IF x > 0 /\ (AFam(r) = "GCMSIV" => to # "ELB") THEN 1 ELSE 0
  <1>1. /\ DOMAIN r = AFields /\ r.len \in Nat /\ r.base \in Nat /\ r.cumul \in Nat /\ r.fed \in Nat /\ ~ r.twice
    BY DEF AOK, ATypes, ACount
  <1>2. /\ DOMAIN t = AFields /\ t.st = to /\ t.halted.pos = 0 /\ t.out = "nothing"
        /\ \A f \in AFields \ {"st", "halted", "out"} : t[f] = r[f]
    BY <1>1 DEF AFields
  <1>3. v = CASE to = "SAV" -> [t EXCEPT !.len = x, !.base = 0, !.cumul = 0, !.fed = 0, !.hasN = FALSE, !.given = FALSE]
              [] to \in A!Final -> [A!Announce(t, x) EXCEPT !.all = a]
              [] AFam(r) = "OCB" /\ to \in {"Absorb", "Enc", "Dec"} -> [t EXCEPT !.ctr = 1]
              [] AFam(r) = "GCM" /\ to \in {"ETF", "DTF"} -> A!Use(t, {r.start})
              [] OTHER -> t
    BY DEF A!_enter, AFam, A!NotHalted
  <1> HIDE DEF t, v
  <1>4. t.machine = r.machine /\ t.start = r.start /\ t.tag = r.tag /\ t.lbl = r.lbl /\ t.ctr = r.ctr /\ t.fed = r.fed /\ t.used = r.used
        /\ t.twice = r.twice /\ t.all = r.all /\ t.len = r.len /\ t.base = r.base /\ t.cumul = r.cumul
    BY <1>2 DEF AFields
  <1>5. CASE to = "SAV"
    <2>1. v = [t EXCEPT !.len = x, !.base = 0, !.cumul = 0, !.fed = 0, !.hasN = FALSE, !.given = FALSE]
      BY <1>3, <1>5 DEF A!Final
    <2>2. /\ DOMAIN v = AFields /\ v.len = x /\ v.base = 0 /\ v.cumul = 0 /\ v.fed = 0
          /\ \A f \in AFields \ {"len", "base", "cumul", "fed", "hasN", "given"} : v[f] = t[f]
      BY <1>2, <2>1 DEF AFields
    <2> QED
      BY <1>1, <1>2, <1>4, <1>5, <2>2 DEF AFields, A!Final, v
  <1>6. CASE to \in A!Final
    <2> DEFINE w == A!Announce(t, x)
    <2>1. v = [w EXCEPT !.all = a]
      BY <1>3, <1>6 DEF A!Final
    <2>2. A!Absorbs(t) <=> (AFam(r) = "GCMSIV" => to # "ELB")
      BY <1>2, <1>4, <1>6 DEF A!Absorbs, AFam, A!Final
    <2>3. w = [t EXCEPT !.lbl = x, !.fed = @ + e]
      BY <2>2 DEF A!Announce
    <2> HIDE DEF w, a, e
    <2>4. DOMAIN w = AFields /\ w.lbl = x /\ w.fed = r.fed + e /\ \A f \in AFields \ {"lbl", "fed"} : w[f] = t[f]
      BY <1>2, <1>4, <2>3 DEF AFields
    <2>5. DOMAIN v = AFields /\ v.all = a /\ v.lbl = x /\ v.fed = r.fed + e /\ \A f \in AFields \ {"lbl", "fed", "all"} : v[f] = t[f]
      BY <2>1, <2>4 DEF AFields
    <2>6. r.fed + e = IF x > 0 /\ (AFam(r) = "GCMSIV" => to # "ELB") THEN r.fed + 1 ELSE r.fed
      BY <1>1 DEF e
    <2>7. /\ v.machine = r.machine /\ v.st = to /\ v.start = r.start /\ v.tag = r.tag /\ v.halted.pos = 0 /\ v.out = "nothing"
          /\ v.ctr = r.ctr /\ v.used = r.used /\ v.twice = r.twice /\ v.len = r.len /\ v.base = r.base /\ v.cumul = r.cumul
      <3> HIDE DEF v, w, t
      <3>1. v.machine = t.machine /\ v.st = t.st /\ v.start = t.start /\ v.tag = t.tag /\ v.halted = t.halted /\ v.out = t.out
        BY <2>5 DEF AFields
      <3>2. v.ctr = t.ctr /\ v.used = t.used /\ v.twice = t.twice /\ v.len = t.len /\ v.base = t.base /\ v.cumul = t.cumul
        BY <2>5 DEF AFields
      <3> QED
        BY <1>2, <1>4, <3>1, <3>2
    <2>8. to \notin {"SAV", "Absorb", "Enc", "Dec", "ETF", "DTF"}
      BY <1>6 DEF A!Final
    <2>9. v.all <=> AFam(r) = "CMAC" /\ x = 0
      BY <2>5 DEF a
    <2> QED
      BY <1>1, <1>6, <2>5, <2>6, <2>7, <2>8, <2>9 DEF v
  <1>7. CASE AFam(r) = "GCM" /\ to \in {"ETF", "DTF"}
    <2>1. v = A!Use(t, {r.start})
      BY <1>3, <1>7 DEF A!Final
    <2>2. A!Use(t, {r.start}) = [t EXCEPT !.twice = b, !.used = @ \cup {r.start}]
      BY <1>4 DEF A!Use
    <2>3. b <=> r.start \in r.used
      BY <1>1
    <2> HIDE DEF b
    <2>4. DOMAIN v = AFields /\ v.twice = b /\ v.used = r.used \cup {r.start} /\ \A f \in AFields \ {"twice", "used"} : v[f] = t[f]
      <3> DEFINE w == [t EXCEPT !.twice = b, !.used = @ \cup {r.start}]
      <3>1. v = w
        BY <2>1, <2>2
      <3> HIDE DEF t, v
      <3>2. DOMAIN w = AFields /\ w.twice = b /\ w.used = t.used \cup {r.start} /\ \A f \in AFields \ {"twice", "used"} : w[f] = t[f]
        BY <1>2 DEF AFields
      <3> HIDE DEF w
      <3> QED
        BY <1>4, <3>1, <3>2
    <2>5. /\ v.machine = r.machine /\ v.st = to /\ v.start = r.start /\ v.tag = r.tag /\ v.halted.pos = 0 /\ v.out = "nothing"
          /\ v.ctr = r.ctr /\ v.all = r.all /\ v.len = r.len /\ v.base = r.base /\ v.cumul = r.cumul /\ v.lbl = r.lbl /\ v.fed = r.fed
      <3> HIDE DEF v, t
      <3>1. v.machine = t.machine /\ v.st = t.st /\ v.start = t.start /\ v.tag = t.tag /\ v.halted = t.halted /\ v.out = t.out
        BY <2>4 DEF AFields
      <3>2. v.ctr = t.ctr /\ v.all = t.all /\ v.len = t.len /\ v.base = t.base /\ v.cumul = t.cumul /\ v.lbl = t.lbl /\ v.fed = t.fed
        BY <2>4 DEF AFields
      <3> QED
        BY <1>2, <1>4, <3>1, <3>2
    <2>6. to \notin A!Final /\ to # "SAV"
      BY <1>7 DEF A!Final
    <2>7. v.twice <=> r.start \in r.used
      BY <2>3, <2>4
    <2> QED
      BY <1>1, <1>7, <2>4, <2>5, <2>6, <2>7 DEF v
  <1>8. CASE to # "SAV" /\ to \notin A!Final /\ ~ (AFam(r) = "GCM" /\ to \in {"ETF", "DTF"})
    <2> DEFINE c == AFam(r) = "OCB" /\ to \in {"Absorb", "Enc", "Dec"}
    <2>1. v = IF c THEN [t EXCEPT !.ctr = 1] ELSE t
      BY <1>3, <1>8
    <2>2. DOMAIN v = AFields /\ v.ctr = (IF c THEN 1 ELSE r.ctr) /\ \A f \in AFields \ {"ctr"} : v[f] = t[f]
      BY <1>2, <1>4, <2>1 DEF AFields
    <2>3. /\ v.machine = r.machine /\ v.st = to /\ v.start = r.start /\ v.tag = r.tag /\ v.halted.pos = 0 /\ v.out = "nothing"
          /\ v.used = r.used /\ v.twice = r.twice /\ v.all = r.all /\ v.len = r.len /\ v.base = r.base /\ v.cumul = r.cumul
          /\ v.lbl = r.lbl /\ v.fed = r.fed
      BY <1>2, <1>4, <2>2 DEF AFields
    <2> QED
      BY <1>1, <1>8, <2>2, <2>3 DEF v
  <1> QED
    BY <1>5, <1>6, <1>7, <1>8

\* The tag takes the counter of the hash of the IV, which no block took.
LEMMA ATagCounter ==
  ASSUME MachinesAssumption, NEW r, AOK(r), AFam(r) = "GCM", r.st \in ATexts
  PROVE  r.start \notin r.used
  <1> DEFINE s == r.start
  <1>1. s \in Nat /\ s < CM /\ CM \in Nat \ {0}
    BY DEF AOK, ATypes, ACount, AGcmCount, MachinesAssumption
  <1>2. PICK k \in 0..CM - 2 : r.used = ATaken(s, k)
    BY DEF AOK, ACount, AGcmCount, ABlocks
  <1> HIDE DEF s
  <1>3. ASSUME NEW i \in 1..k PROVE (s + i) % CM # s
    <2>1. i \in 0..CM - 1 /\ i # 0 /\ 0 \in 0..CM - 1
      BY <1>1
    <2>2. (s + i) % CM # (s + 0) % CM
      BY <1>1, <2>1, Apart
    <2>3. s % CM = s
      BY <1>1, ModSum
    <2>4. s + 0 = s
      BY <1>1
    <2> QED
      BY <2>2, <2>3, <2>4
  <1>4. s \notin ATaken(s, k)
    BY <1>3 DEF ATaken
  <1> QED
    BY <1>2, <1>4 DEF s

LEMMA AEnter ==
  ASSUME MachinesAssumption, NEW r, AOK(r), NEW to, NEW x \in Nat,
         <<r.st, to>> \in A!TRANS[r.machine], A!_leave(r, to), A!_enter_ok(r, to, x)
  PROVE  AQuiet(r, A!_enter(r, to, x))
  <1> DEFINE v == A!_enter(r, to, x)
             fam == AFam(r)
  <1>1. /\ r.machine \in AEADs /\ r.ctr \in Nat /\ r.start \in Nat /\ r.lbl \in Nat /\ r.tag \in Nat /\ r.fed \in Nat
        /\ fam \in {"GCM", "GCMSIV", "OCB", "CMAC"} /\ r.st \in AStates[fam] /\ ~ r.twice
        /\ fam = "GCM" => AGcmCount(r)
        /\ fam = "GCMSIV" => ASivCount(r)
    BY AFamilies DEF AOK, ATypes, ACount
  <1>2. /\ to \in AStates[fam] \ {"Ready", "Success", "Failure", "Invalid"}
        /\ to = "SAV" => fam # "CMAC" /\ r.st \in {"Ready", "SAV"} /\ (fam = "GCMSIV" => r.st = "Ready")
        /\ to = "Last" => r.st = "Absorb" /\ fam \in {"OCB", "CMAC"}
        /\ to = "ELB" => r.st = "Enc"
        /\ to = "DLB" => r.st = "Dec"
        /\ r.st = to => to = "SAV"
        /\ fam = "GCM" => /\ to = "Absorb" => r.st = "SAV" \/ (r.st = "Ready" /\ r.machine = "GCM_IV")
                          /\ to \in {"Enc", "Dec"} => r.st = "Absorb"
                          /\ to \in {"ETF", "DTF"} => r.st \in ATexts
        /\ fam = "GCMSIV" => /\ to \in {"SAV2", "Absorb", "ETF"} => r.st \in {"SAV", "SAV2", "Absorb"}
                             /\ to \notin {"Enc", "Last"} /\ (to = "Dec" => r.st = "Absorb")
        /\ r.st \in {"ELB", "DLB"} /\ fam = "OCB" => to \in {"ETF", "Verify"}
        /\ r.st = "Last" => fam = "OCB" \/ (fam = "CMAC" /\ to \in {"Output", "Verify"})
    BY <1>1, ASteps
  <1>3. /\ DOMAIN v = AFields /\ v.machine = r.machine /\ v.st = to /\ v.start = r.start /\ v.tag = r.tag /\ v.halted.pos = 0
        /\ v.out = "nothing"
        /\ v.lbl = IF to \in A!Final THEN x ELSE r.lbl
        /\ v.ctr = IF fam = "OCB" /\ to \in {"Absorb", "Enc", "Dec"} THEN 1 ELSE r.ctr
        /\ v.fed = IF to = "SAV" THEN 0
                   ELSE IF to \in A!Final /\ x > 0 /\ (fam = "GCMSIV" => to # "ELB") THEN r.fed + 1 ELSE r.fed
        /\ v.used = IF fam = "GCM" /\ to \in {"ETF", "DTF"} THEN r.used \cup {r.start} ELSE r.used
        /\ v.twice <=> fam = "GCM" /\ to \in {"ETF", "DTF"} /\ r.start \in r.used
        /\ v.all <=> IF to \in A!Final THEN fam = "CMAC" /\ x = 0 ELSE r.all
        /\ v.len \in Nat /\ v.base \in Nat /\ v.cumul \in Nat
        /\ to = "SAV" => v.cumul = 0
    BY AEntered
  <1>4. AFam(v) = fam
    BY <1>3 DEF AFam
  <1>5. \* The State that is left has no final block that is not in the tag.
        /\ ~ (fam = "GCM" /\ r.st = "SAV" /\ to # "SAV")
        /\ r.st \in {"ELB", "DLB"} /\ fam \in {"GCM", "GCMSIV"} => r.lbl = 0
        /\ r.st = "Last" /\ fam = "OCB" => r.lbl = 0
        /\ r.st \in {"ELB", "DLB"} /\ fam = "OCB" => r.lbl = 0
        /\ r.st = "Last" /\ fam = "CMAC" => r.all
    <2>1. /\ r.st \in {"ELB", "DLB"} /\ fam = "OCB" => r.lbl = 0
      BY <1>2 DEF A!_enter_ok, A!_enter_ocb, AFam, A!Final
    <2>2. /\ r.st = "Last" /\ fam = "CMAC" => r.all
      BY <1>2 DEF A!_enter_ok, A!_enter_cmac, AFam
    <2>3. r.st = to \/ (/\ ~ (r.st = "SAV" /\ fam = "GCM")
                        /\ r.st \in {"ELB", "DLB"} /\ fam \in {"GCM", "GCMSIV"} => r.lbl = 0
                        /\ r.st = "Last" /\ fam = "OCB" => r.lbl = 0)
      BY DEF A!_leave, AFam
    <2> QED
      BY <1>2, <2>1, <2>2, <2>3
  <1>6. fam = "GCM" /\ to \in {"ETF", "DTF"} => r.start \notin r.used
    BY <1>2, ATagCounter
  <1> HIDE DEF v, fam
  <1>7. ATypes(v)
    <2>1. v.ctr \in Nat /\ v.lbl \in Nat /\ v.fed \in Nat
      BY <1>1, <1>3
    <2> QED
      BY <1>1, <1>2, <1>3, <1>4, <2>1 DEF ATypes
  <1>8. ACount(v)
    <2>1. ~ v.twice
      BY <1>3, <1>6
    <2>2. ASSUME fam = "GCM" PROVE AGcmCount(v)
      <3>1. v.ctr = r.ctr /\ v.ctr < CM /\ v.start < CM
        BY <1>1, <1>3, <2>2 DEF AGcmCount
      <3>2. v.st \in {"Ready", "SAV", "Absorb"} => v.used = {}
        BY <1>1, <1>2, <1>3, <2>2 DEF AGcmCount
      <3>3. v.st = "Absorb" \/ (v.st = "Ready" /\ v.machine = "GCM_IV") => v.ctr = v.start
        BY <1>1, <1>2, <1>3, <1>5, <2>2 DEF AGcmCount
      <3>4. ASSUME to \in ATexts PROVE ABlocks(v)
        <4>1. v.used = r.used /\ v.ctr = r.ctr /\ v.start = r.start
          BY <1>3, <2>2, <3>4 DEF ATexts
        <4>2. CASE r.st \in ATexts
          <5>1. ABlocks(r)
            BY <1>1, <2>2, <4>2 DEF AGcmCount
          <5> QED
            BY <4>1, <5>1 DEF ABlocks
        <4>3. CASE r.st \notin ATexts
          <5>1. r.st = "Absorb"
            BY <1>2, <2>2, <3>4, <4>3 DEF ATexts
          <5>2. r.used = {} /\ r.ctr = r.start /\ r.start \in Nat /\ r.start < CM
            BY <1>1, <2>2, <5>1 DEF AGcmCount
          <5>3. CM \in Nat \ {0} /\ 0 \in 0..CM - 2
            BY DEF MachinesAssumption
          <5>4. r.start % CM = r.start /\ r.start + 0 = r.start
            <6>1. r.start % CM = r.start
              BY <5>2, <5>3, ModSum
            <6> QED
              BY <5>2, <6>1
          <5>5. v.ctr = (v.start + 0) % CM
            BY <4>1, <5>2, <5>4
          <5>6. v.used = ATaken(v.start, 0)
            BY <4>1, <5>2 DEF ATaken
          <5> QED
            BY <5>3, <5>5, <5>6 DEF ABlocks
        <4> QED
          BY <4>2, <4>3
      <3> QED
        BY <1>3, <3>1, <3>2, <3>3, <3>4 DEF AGcmCount
    <2>3. ASSUME fam = "GCMSIV" PROVE ASivCount(v)
      <3>1. v.used = r.used /\ v.ctr = r.ctr
        BY <1>3, <2>3
      <3>2. v.st \in {"Ready", "SAV", "SAV2", "Absorb", "ETF"} => v.used = {} /\ v.ctr = 0
        BY <1>1, <1>2, <1>3, <2>3, <3>1 DEF ASivCount
      <3>3. v.st \in ATexts => v.used = 0..v.ctr - 1 /\ v.ctr <= CM
        <4>1. CASE r.st \in ATexts
          BY <1>1, <2>3, <3>1, <4>1 DEF ASivCount
        <4>2. CASE r.st = "Absorb"
          <5>1. v.used = {} /\ v.ctr = 0 /\ 0..0 - 1 = {} /\ 0 <= CM
            BY <1>1, <2>3, <3>1, <4>2 DEF ASivCount, MachinesAssumption
          <5> QED
            BY <5>1
        <4> QED
          BY <1>2, <1>3, <2>3, <4>1, <4>2 DEF ATexts
      <3> QED
        BY <3>2, <3>3 DEF ASivCount
    <2> QED
      BY <1>4, <2>1, <2>2, <2>3 DEF ACount
  <1>9. AFeed(v)
    <2>1. APending(r) = 0 /\ (fam # "CMAC" => ~ r.all)
      <3>1. fam # "CMAC" => ~ r.all
        BY DEF AOK, AFeed, fam
      <3>2. A!Pending(r) = 0
        <4>1. r.st \in {"ELB", "DLB"} => fam # "CMAC"
          BY <1>1 DEF AStates
        <4> QED
          BY <1>1, <1>2, <1>5, <4>1 DEF A!Pending, A!Final
      <3> QED
        BY <3>1, <3>2 DEF APending
    <2>2. ~ (fam = "GCM" /\ r.st = "SAV") => r.tag = r.fed
      BY <1>1, <2>1 DEF AOK, AFeed, AInSAV, fam
    <2>3. fam # "CMAC" => ~ v.all
      BY <1>3, <2>1
    <2>4. CASE to = "SAV"
      <3>1. v.tag = 0 /\ v.fed = 0 /\ v.cumul = 0 /\ APending(v) = 0
        BY <1>2, <1>3, <2>4 DEF AOK, AFeed, APending, A!Pending, A!Final
      <3> QED
        BY <1>4, <2>3, <3>1 DEF AFeed
    <2>5. CASE to # "SAV"
      <3>1. ~ AInSAV(v) /\ v.st \notin {"Ready", "SAV"} /\ r.tag = r.fed
        BY <1>2, <1>3, <1>5, <2>2, <2>5 DEF AInSAV
      <3>2. v.tag + APending(v) = v.fed
        <4>1. CASE to \in A!Final
          <5>1. A!Absorbs(v) <=> (fam = "GCMSIV" => to # "ELB")
            BY <1>2, <1>3, <1>4, <4>1 DEF A!Absorbs, AFam, A!Final
          <5>2. A!Pending(v) = IF x > 0 THEN 1 ELSE 0
            BY <1>2, <1>3, <4>1 DEF A!Pending, A!Final
          <5>3. APending(v) = IF x > 0 /\ (fam = "GCMSIV" => to # "ELB") THEN 1 ELSE 0
            BY <5>1, <5>2 DEF APending
          <5> QED
            BY <1>1, <1>3, <2>5, <3>1, <4>1, <5>3
        <4>2. CASE to \notin A!Final
          <5>1. APending(v) = 0
            BY <1>3, <4>2 DEF APending, A!Pending
          <5> QED
            BY <1>1, <1>3, <2>5, <3>1, <4>2, <5>1
        <4> QED
          BY <4>1, <4>2
      <3> QED
        BY <1>4, <2>3, <3>1, <3>2 DEF AFeed
    <2> QED
      BY <2>4, <2>5
  <1>10. AHaltOK(v)
    BY <1>3 DEF AHaltOK
  <1>11. AQuiet(r, v)
    BY <1>3, <1>7, <1>8, <1>9, <1>10 DEF AQuiet, AKept, AOK
  <1> QED
    BY <1>11 DEF v

LEMMA AToReady ==
  ASSUME MachinesAssumption, AOK(m)
  PROVE  AQuiet(m, A!Ready(m))
  BY AReady DEF AOK, ACount, AGcmCount

LEMMA ASetst ==
  ASSUME MachinesAssumption, AOK(m), NEW to \in A!States, NEW form, NEW x \in 0..BlockUnits + 1, A!setst(to, form, x)
  PROVE  m' = m \/ AQuiet(m, m')
  <1>1. m.machine \in AEADs /\ x \in Nat
    BY DEF AOK, ATypes, MachinesAssumption
  <1>2. \/ m' = m \/ m' = A!Ready(m) \/ m' = A!Invalid(m.machine)
        \/ <<m.st, to>> \in A!TRANS[m.machine] /\ A!_leave(m, to) /\ A!_enter_ok(m, to, x) /\ m' = A!_enter(m, to, x)
    BY DEF A!setst
  <1>3. AQuiet(m, A!Ready(m)) /\ AQuiet(m, A!Invalid(m.machine))
    BY <1>1, AToReady, ALost
  <1>4. <<m.st, to>> \in A!TRANS[m.machine] /\ A!_leave(m, to) /\ A!_enter_ok(m, to, x) => AQuiet(m, A!_enter(m, to, x))
    BY <1>1, AEnter
  <1> QED
    BY <1>2, <1>3, <1>4

LEMMA ARestrict ==
  ASSUME MachinesAssumption, AOK(m), NEW mask, A!rstr(mask)
  PROVE  m' = m \/ AQuiet(m, m')
  <1> DEFINE p == m.policy \cap mask
             v == [m EXCEPT !.policy = p, !.out = "nothing"]
  <1>1. m.machine \in AEADs /\ DOMAIN m = AFields
    BY DEF AOK, ATypes
  <1>2. m' = m \/ m' = A!Invalid(m.machine) \/ m' = v
    BY DEF A!rstr
  <1>3. AQuiet(m, A!Invalid(m.machine))
    BY <1>1, ALost
  <1> HIDE DEF p
  <1>4. DOMAIN v = AFields /\ v.out = "nothing" /\ v.halted = m.halted /\ \A f \in AFields \ {"policy", "out"} : v[f] = m[f]
    BY <1>1 DEF AFields
  <1> HIDE DEF v
  <1>5. AQuiet(m, v)
    <2>1. \A f \in AFields \ (AFree \cup {"halted"}) : v[f] = m[f]
      BY <1>4 DEF AFree
    <2> QED
      BY <1>4, <2>1, AFrame DEF AQuiet
  <1> QED
    BY <1>2, <1>3, <1>5

LEMMA ADerive ==
  ASSUME MachinesAssumption, AOK(m), A!derive_dest \/ A!derive_src
  PROVE  m' = m \/ AQuiet(m, m')
  <1> DEFINE v == [m EXCEPT !.out = "nothing"]
  <1>1. m.machine \in AEADs /\ DOMAIN m = AFields
    BY DEF AOK, ATypes
  <1>2. m' = m \/ m' = A!Invalid(m.machine) \/ m' = v \/ m' = A!Ready(m)
    BY DEF A!derive_dest, A!derive_src
  <1>3. AQuiet(m, A!Invalid(m.machine)) /\ AQuiet(m, A!Ready(m))
    BY <1>1, ALost, AToReady
  <1>4. DOMAIN v = AFields /\ v.out = "nothing" /\ v.halted = m.halted /\ \A f \in AFields \ {"out"} : v[f] = m[f]
    BY <1>1 DEF AFields
  <1> HIDE DEF v
  <1>5. AQuiet(m, v)
    <2>1. \A f \in AFields \ (AFree \cup {"halted"}) : v[f] = m[f]
      BY <1>4 DEF AFree
    <2> QED
      BY <1>4, <2>1, AFrame DEF AQuiet
  <1> QED
    BY <1>2, <1>3, <1>5

\* A move keeps the counters, and the lengths of an IV that is not yet whole.
LEMMA AMove ==
  ASSUME MachinesAssumption, AOK(m), A!Move
  PROVE  AQuiet(m, m')
  <1> DEFINE w == A!Imported(m)
             ctr == IF AInSAV(m) THEN 0 ELSE m.ctr
             keep == AFam(m) # "GCM" \/ AInSAV(m)
             len == IF keep THEN m.len ELSE 0
             base == IF keep THEN m.base ELSE 0
             cumul == IF keep THEN m.cumul ELSE 0
  <1>1. /\ m.machine \in AEADs /\ DOMAIN m = AFields /\ AFam(m) \in {"GCM", "GCMSIV", "OCB", "CMAC"} /\ CM \in Nat \ {0}
        /\ m.ctr \in Nat /\ m.len \in Nat /\ m.base \in Nat /\ m.cumul \in Nat
    BY AFamilies DEF AOK, ATypes, MachinesAssumption
  <1>2. /\ DOMAIN w = AFields /\ w.ctr = ctr /\ w.len = len /\ w.base = base /\ w.cumul = cumul
        /\ \A f \in AFields \ {"ctr", "len", "base", "cumul", "hasN"} : w[f] = m[f]
    <2>1. CASE AFam(m) = "GCM"
      <3>1. w = A!ImportedGCM(m)
        BY <2>1 DEF A!Imported, AFam
      <3>2. CASE m.st = "SAV"
        <4>1. w = [m EXCEPT !.ctr = 0]
          BY <3>1, <3>2 DEF A!ImportedGCM
        <4> HIDE DEF w
        <4> QED
          BY <1>1, <2>1, <3>2, <4>1 DEF AFields, AInSAV
      <3>3. CASE m.st # "SAV"
        <4>1. w = [m EXCEPT !.len = 0, !.base = 0, !.cumul = 0]
          BY <3>1, <3>3 DEF A!ImportedGCM
        <4> HIDE DEF w
        <4> QED
          BY <1>1, <2>1, <3>3, <4>1 DEF AFields, AInSAV
      <3> QED
        BY <3>2, <3>3
    <2>2. CASE AFam(m) = "GCMSIV"
      <3> DEFINE c == A!SerializedCounter(m)
      <3>1. w = [m EXCEPT !.ctr = c]
        BY <2>2 DEF A!Imported, AFam
      <3>2. c = m.ctr
        <4> DEFINE a == m.ctr
        <4>1. c = (a % CM) + (CM * (a \div CM))
          BY DEF A!SerializedCounter
        <4>2. a \in Nat
          BY <1>1
        <4> HIDE DEF a, c
        <4>3. a % CM \in Int /\ CM * (a \div CM) \in Int /\ a = CM * (a \div CM) + (a % CM)
          BY <1>1, <4>2
        <4> QED
          BY <4>1, <4>3 DEF a
      <3> HIDE DEF w, c
      <3> QED
        BY <1>1, <2>2, <3>1, <3>2 DEF AFields, AInSAV
    <2>3. CASE AFam(m) = "OCB"
      <3> DEFINE b == m.len # 0
      <3>1. w = [m EXCEPT !.hasN = b]
        BY <2>3 DEF A!Imported, A!ImportedOCB, AFam
      <3> HIDE DEF w, b
      <3> QED
        BY <1>1, <2>3, <3>1 DEF AFields, AInSAV
    <2>4. CASE AFam(m) = "CMAC"
      <3>1. w = m
        BY <2>4 DEF A!Imported, AFam
      <3> HIDE DEF w
      <3> QED
        BY <1>1, <2>4, <3>1 DEF AFields, AInSAV
    <2> QED
      BY <1>1, <2>1, <2>2, <2>3, <2>4
  <1>3. m' = [w EXCEPT !.out = "nothing"]
    BY DEF A!Move
  <1> HIDE DEF w
  <1>4. /\ DOMAIN m' = AFields /\ m'.ctr = ctr /\ m'.len = len /\ m'.base = base /\ m'.cumul = cumul /\ m'.out = "nothing"
        /\ \A f \in AFields \ {"ctr", "len", "base", "cumul", "hasN", "out"} : m'[f] = m[f]
    BY <1>2, <1>3 DEF AFields
  <1>5. /\ m'.machine = m.machine /\ m'.st = m.st /\ m'.start = m.start /\ m'.lbl = m.lbl /\ m'.tag = m.tag /\ m'.all = m.all
        /\ m'.halted = m.halted /\ m'.fed = m.fed /\ m'.used = m.used /\ m'.twice = m.twice /\ AFam(m') = AFam(m)
    BY <1>4 DEF AFields, AFam
  <1>6. AInSAV(m') <=> AInSAV(m)
    BY <1>5 DEF AInSAV
  <1>7. ATypes(m')
    <2>1. ctr \in Nat /\ len \in Nat /\ base \in Nat /\ cumul \in Nat
      BY <1>1
    <2> QED
      BY <1>4, <1>5, <2>1 DEF AOK, ATypes
  <1>8. ACount(m')
    <2>1. CASE AInSAV(m)
      <3>1. 0 < CM /\ m'.ctr = 0 /\ m.st = "SAV" /\ AFam(m) = "GCM"
        BY <1>1, <1>4, <2>1 DEF AInSAV
      <3>2. AGcmCount(m')
        BY <1>5, <3>1 DEF AOK, ACount, AGcmCount, ATexts
      <3> QED
        BY <1>5, <3>1, <3>2 DEF AOK, ACount
    <2>2. CASE ~ AInSAV(m)
      BY <1>4, <1>5, <2>2, ASameCount DEF AOK
    <2> QED
      BY <2>1, <2>2
  <1>9. AFeed(m')
    <2>1. APending(m') = APending(m)
      BY <1>5 DEF APending, A!Pending, A!Absorbs, AFam
    <2>2. AInSAV(m) => m'.cumul = m.cumul
      BY <1>4
    <2> QED
      BY <1>5, <1>6, <2>1, <2>2 DEF AOK, AFeed
  <1>10. AHaltOK(m')
    <2>1. AInSAV(m) => m'.cumul = m.cumul /\ m'.base = m.base /\ m'.len = m.len
      BY <1>4
    <2> QED
      BY <1>5, <1>6, <2>1 DEF AOK, AHaltOK
  <1> QED
    BY <1>4, <1>5, <1>7, <1>8, <1>9, <1>10 DEF AQuiet, AKept, AOK

LEMMA AStep ==
  ASSUME MachinesAssumption, AOK(m), A!Next
  PROVE  AKept(m, m') /\ (m' # m => A!GatedStep)
  <1>1. ASSUME m' = m \/ AQuiet(m, m') PROVE AKept(m, m') /\ (m' # m => A!GatedStep)
    BY <1>1 DEF AQuiet, AKept, A!GatedStep
  <1>2. ASSUME NEW to \in A!States, NEW form, NEW x \in 0..BlockUnits + 1, A!setst(to, form, x)
        PROVE  AKept(m, m') /\ (m' # m => A!GatedStep)
    BY <1>1, <1>2, ASetst
  <1>3. ASSUME NEW form \in {"A", "B", "C", "D"}, NEW n \in 0..BlockWindow, NEW ks \in 0..BlockUnits, NEW h \in 0..BlockWindow - 1,
               NEW ok \in BOOLEAN, A!exec(form, n, ks, h, ok)
        PROVE  AKept(m, m') /\ (m' # m => A!GatedStep)
    <2>1. n \in Nat /\ ks \in Nat /\ h \in Nat
      BY DEF MachinesAssumption
    <2> QED
      BY <1>3, <2>1, AExec
  <1>4. ASSUME NEW mask, A!rstr(mask) PROVE AKept(m, m') /\ (m' # m => A!GatedStep)
    BY <1>1, <1>4, ARestrict
  <1>5. ASSUME A!derive_dest \/ A!derive_src PROVE AKept(m, m') /\ (m' # m => A!GatedStep)
    BY <1>1, <1>5, ADerive
  <1>6. ASSUME A!Move PROVE AKept(m, m') /\ (m' # m => A!GatedStep)
    BY <1>1, <1>6, AMove
  <1> QED
    BY <1>2, <1>3, <1>4, <1>5, <1>6 DEF A!Next

LEMMA AStart == ASSUME MachinesAssumption, A!Init PROVE AOK(m) /\ m.machine \in AEADs
  <1>1. PICK k \in AEADs, p \in SUBSET {0, 1} : m = A!Ready([A!Invalid(k) EXCEPT !.policy = p, !.len = 1])
    BY DEF A!Init
  <1> DEFINE i == A!Invalid(k)
             r == [i EXCEPT !.policy = p, !.len = 1]
  <1>2. i = [machine |-> k, policy |-> {}, st |-> "Invalid", ctr |-> 0, start |-> 0, lbl |-> 0, len |-> 0, base |-> 0, cumul |-> 0,
             tag |-> 0, hasN |-> FALSE, any |-> FALSE, all |-> FALSE, halted |-> [n |-> 0, pos |-> 0], fed |-> 0, given |-> FALSE,
             used |-> {}, twice |-> FALSE, out |-> "nothing"]
    BY DEF A!Invalid, A!NotHalted
  <1> HIDE DEF i
  <1>3. /\ DOMAIN r = AFields /\ r.machine = k /\ r.st = "Invalid" /\ r.ctr = 0 /\ r.start = 0 /\ r.lbl = 0 /\ r.len = 1 /\ r.base = 0
        /\ r.cumul = 0 /\ r.tag = 0 /\ r.fed = 0 /\ r.twice = FALSE
    BY <1>2 DEF AFields
  <1>4. m = A!Ready(r)
    BY <1>1 DEF i
  <1> HIDE DEF r
  <1>5. AFam(r) \in {"GCM", "GCMSIV", "OCB", "CMAC"}
    BY <1>3, AFamilies
  <1>6. ATypes(r)
    BY <1>3, <1>5 DEF ATypes, AStates, AEnds
  <1>7. 0 < CM
    BY DEF MachinesAssumption
  <1>8. AQuiet(r, A!Ready(r))
    BY <1>3, <1>6, <1>7, AReady
  <1> QED
    BY <1>3, <1>4, <1>8 DEF AQuiet, AKept

LEMMA AResumes == ASSUME MachinesAssumption, AOK(m) PROVE A!HaltIsResumable
  <1> DEFINE n == m.halted.n
             ks == m.halted.pos
             d == (n - ks) \div BlockUnits
             x == A!_exec(m, n, ks, n, 0, TRUE)
  <1> SUFFICES ASSUME m.halted.pos # 0, ~ A!RunsOut(m, d) PROVE x.st # "Invalid"
    BY DEF A!HaltIsResumable
  <1>1. /\ n \in Nat /\ ks \in Nat /\ ks < n /\ ks % BlockUnits = 0 /\ BlockUnits \in Nat \ {0}
        /\ m.st \in {"Absorb", "Enc", "Dec"} \/ AInSAV(m)
        /\ m.st \in {"Absorb", "Enc", "Dec"} => n % BlockUnits = 0
        /\ AInSAV(m) => m.base = 0 /\ m.cumul < m.len /\ (n % BlockUnits = 0 \/ m.cumul + n >= m.len)
        /\ DOMAIN m = AFields /\ m.machine \in AEADs /\ m.len \in Nat /\ m.cumul \in Nat
    BY DEF AOK, ATypes, AHaltOK, MachinesAssumption
  <1>2. AFam(m) \in {"GCM", "GCMSIV", "OCB", "CMAC"} /\ m.st \in AStates[AFam(m)] /\ m.ctr \in Int /\ m.start \in Int
    BY <1>1, AFamilies DEF AOK, ATypes
  <1>3. CASE m.st \in {"Absorb", "Enc", "Dec"}
    <2> DEFINE o == IF A!GATE(m.st) = {} THEN "nothing" ELSE "text"
               u == A!Absorbed(A!Take(m, d), d)
               w == A!Fed(u, d)
               v == A!Halt([w EXCEPT !.out = o], n, n)
    <2>1. x = A!_multi(m, n, ks, n)
      <3>1. m.st # "Absorb" => AFam(m) # "CMAC"
        BY <1>2, <1>3 DEF AStates
      <3> QED
        BY <1>2, <1>3, <3>1 DEF A!_exec, A!_exec_gcm, A!_exec_gcmsiv, A!_exec_ocb, A!_exec_cmac, AFam
    <2>2. d \in Nat
      <3>1. n - ks \in Nat
        BY <1>1
      <3> QED
        BY <1>1, <3>1
    <2>4. x = v
      <3>1. x = IF n % BlockUnits # 0 \/ ks % BlockUnits # 0 \/ A!RunsOut(m, d) THEN A!Invalid(m.machine) ELSE v
        BY <1>1, <2>1 DEF A!_multi
      <3> QED
        BY <1>1, <1>3, <3>1
    <2> HIDE DEF d, o
    <2>5. /\ DOMAIN u = AFields /\ \A f \in AFields \ {"ctr", "used", "twice", "tag", "any"} : u[f] = m[f]
          /\ u.ctr \in Nat /\ ACount(u) /\ u.tag = IF A!Absorbs(m) THEN m.tag + d ELSE m.tag
      BY <2>2, AAbsorb
    <2> HIDE DEF u
    <2>6. DOMAIN w = AFields /\ w.st = m.st
      BY <2>5 DEF A!Fed, AFields
    <2> HIDE DEF w, x, n
    <2>7. v.st = m.st
      BY <2>6 DEF A!Halt, AFields
    <2> QED
      BY <1>3, <2>4, <2>7
  <1>4. CASE AInSAV(m)
    <2> DEFINE stop == IF n \in A!Halts(m, n, ks) THEN n ELSE n
               amt == IF stop - ks < m.len - m.cumul THEN stop - ks ELSE m.len - m.cumul
               base == (m.base + amt) % BlockUnits
               w == [m EXCEPT !.st = "Absorb", !.start = 0, !.ctr = 0, !.len = 0, !.base = 0, !.cumul = 0, !.fed = 0,
                              !.halted = [n |-> 0, pos |-> 0]]
               y == [m EXCEPT !.base = base, !.cumul = @ + amt, !.fed = @ + stop - ks]
               v == A!Halt(y, n, stop)
               bad == m.cumul >= m.len \/ (n % BlockUnits # 0 /\ m.cumul + n < m.len) \/ ~ A!Resumable(m, ks)
    <2>1. m.st = "SAV" /\ AFam(m) = "GCM"
      BY <1>4 DEF AInSAV
    <2>2. x = A!_vli(m, n, ks, n, 0)
      BY <2>1 DEF A!_exec, A!_exec_gcm, AFam
    <2>3. A!_vli(m, n, ks, n, 0) = IF bad THEN A!Invalid(m.machine) ELSE IF m.cumul + amt = m.len THEN w ELSE v
      BY DEF A!_vli, A!NotHalted
    <2>4. ~ bad
      BY <1>1, <1>4 DEF A!Resumable
    <2>5. w.st = "Absorb"
      BY <1>1 DEF AFields
    <2>6. v.st = "SAV"
      <3> HIDE DEF amt, base, stop
      <3>1. DOMAIN y = AFields /\ y.st = "SAV"
        BY <1>1, <2>1 DEF AFields
      <3> HIDE DEF y, n
      <3> QED
        BY <3>1 DEF A!Halt, AFields
    <2>7. x \in {w, v}
      <3> HIDE DEF w, v, x, bad
      <3> QED
        BY <2>2, <2>3, <2>4
    <2> HIDE DEF w, v, x
    <2> QED
      BY <2>5, <2>6, <2>7
  <1> QED
    BY <1>1, <1>3, <1>4

LEMMA ASafe ==
  ASSUME MachinesAssumption, AOK(m)
  PROVE  A!CounterOnce /\ A!FeedIsAbsorbed /\ A!HaltIsResumable
  <1>1. A!CounterOnce
    BY DEF AOK, ACount, A!CounterOnce
  <1>2. A!FeedIsAbsorbed
    <2>1. ASSUME m.st \in {"ETF", "DTF", "Output", "Verify", "Success"} PROVE m.tag = m.fed
      <3>1. ~ AInSAV(m) /\ APending(m) = 0 /\ m.tag \in Nat
        BY <2>1 DEF AOK, ATypes, AInSAV, APending, A!Pending, A!Final
      <3> QED
        BY <3>1 DEF AOK, AFeed
    <2>2. m.st = "SAV" => m.cumul = m.fed \/ AFam(m) # "GCM"
      BY DEF AOK, AFeed, AInSAV
    <2> QED
      BY <2>1, <2>2 DEF A!FeedIsAbsorbed, AFam
  <1> QED
    BY <1>1, <1>2, AResumes

-----------------------------------------------------------------------------
(* The locker, of whichever Machine.                                       *)

IInv ==
  /\ m.machine \in AEADs => AOK(m)
  /\ m.machine \in Modes => SOK(m)
  /\ m.machine \in Hashes => HOK(m)
  /\ m.machine \in Sponges => POK(m)
  /\ m.machine \in {c[1] : c \in Curves} => EOK(m)

ECCs == {c[1] : c \in Curves}

LEMMA Families ==
  ASSUME MachinesAssumption
  PROVE  /\ AEADs \cap Modes = {} /\ AEADs \cap Hashes = {} /\ AEADs \cap Sponges = {} /\ AEADs \cap ECCs = {}
         /\ Modes \cap Hashes = {} /\ Modes \cap Sponges = {} /\ Modes \cap ECCs = {}
         /\ Hashes \cap Sponges = {} /\ Hashes \cap ECCs = {} /\ Sponges \cap ECCs = {}
  <1>1. ECCs \subseteq {"wei", "ed", "mont"}
    BY DEF MachinesAssumption, ECCs
  <1>2. /\ AEADs \subseteq {"GCM", "GCM_IV", "GCMSIV", "OCB", "OCB_NONCE", "CMAC"}
        /\ Modes \subseteq {"ECB", "CBC", "CFB", "OFB", "CTR", "XCTR", "XEX"}
        /\ Hashes \subseteq {"SHA2", "SHAKE", "BLAKE2", "BLAKE2_KEY", "HMAC_NIK", "HMAC_KIP"}
        /\ Sponges \subseteq {"XOF", "CXOF", "KMAC", "KMACXOF", "AEAD", "AEAD_NONCE", "AEAD_MASK"}
    BY DEF MachinesAssumption
  <1>3. AEADs \cap Modes = {} /\ AEADs \cap Hashes = {} /\ AEADs \cap Sponges = {} /\ AEADs \cap ECCs = {}
    BY <1>1, <1>2
  <1>4. Modes \cap Hashes = {} /\ Modes \cap Sponges = {} /\ Modes \cap ECCs = {}
    BY <1>1, <1>2
  <1>5. Hashes \cap Sponges = {} /\ Hashes \cap ECCs = {} /\ Sponges \cap ECCs = {}
    BY <1>1, <1>2
  <1> QED
    BY <1>3, <1>4, <1>5

LEMMA Starts == ASSUME MachinesAssumption, Init PROVE IInv
  <1>1. CASE A!Init
    BY <1>1, AStart, Families DEF IInv, ECCs
  <1>2. CASE S!Init
    BY <1>2, SStart, Families DEF IInv, ECCs
  <1>3. CASE H!Init
    BY <1>3, HStart, Families DEF IInv, ECCs
  <1>4. CASE P!Init
    BY <1>4, PStart, Families DEF IInv, ECCs
  <1>5. CASE E!Init
    BY <1>5, EStart, Families DEF IInv, ECCs
  <1> QED
    BY <1>1, <1>2, <1>3, <1>4, <1>5 DEF Init

\* What OutputIsGated says of a step.
Gated ==
  /\ m.machine \in AEADs => A!GatedStep
  /\ m.machine \in Modes => S!GatedStep
  /\ H!hmac(m) => H!GatedStep
  /\ P!aead(m) => P!GatedStep

LEMMA Steps ==
  ASSUME MachinesAssumption, IInv, Next
  PROVE  IInv' /\ m'.machine = m.machine /\ (m' # m => Gated)
  <1>1. CASE m.machine \in AEADs /\ A!Next
    <2>1. AKept(m, m') /\ (m' # m => A!GatedStep)
      BY <1>1, AStep DEF IInv
    <2>2. ~ P!aead(m) /\ ~ H!hmac(m)
      BY <1>1 DEF P!aead, H!hmac, MachinesAssumption
    <2> QED
      BY <1>1, <2>1, <2>2, Families DEF AKept, IInv, Gated, ECCs
  <1>2. CASE m.machine \in Modes /\ S!Next
    <2>1. SKept(m, m') /\ (m' # m => S!GatedStep)
      BY <1>2, SStep DEF IInv
    <2>2. ~ P!aead(m) /\ ~ H!hmac(m)
      BY <1>2 DEF P!aead, H!hmac, MachinesAssumption
    <2> QED
      BY <1>2, <2>1, <2>2, Families DEF SKept, IInv, Gated, ECCs
  <1>3. CASE m.machine \in Hashes /\ H!Next
    <2>1. HKept(m, m') /\ (m' # m => H!GatedStep)
      BY <1>3, HStep DEF IInv
    <2>2. ~ P!aead(m)
      BY <1>3 DEF P!aead, MachinesAssumption
    <2> QED
      BY <1>3, <2>1, <2>2, Families DEF HKept, IInv, Gated, ECCs
  <1>4. CASE m.machine \in Sponges /\ P!Next
    <2>1. PKept(m, m') /\ (m' # m /\ P!aead(m) => P!GatedStep)
      BY <1>4, PStep DEF IInv
    <2>2. ~ H!hmac(m)
      BY <1>4 DEF H!hmac, MachinesAssumption
    <2> QED
      BY <1>4, <2>1, <2>2, Families DEF PKept, IInv, Gated, ECCs
  <1>5. CASE m.machine \in ECCs /\ E!Next
    <2>1. Kept(m, m')
      BY <1>5, EStep DEF IInv, ECCs
    <2>2. ~ P!aead(m) /\ ~ H!hmac(m)
      BY <1>5 DEF P!aead, H!hmac, MachinesAssumption, ECCs
    <2> QED
      BY <1>5, <2>1, <2>2, Families DEF Kept, IInv, Gated, ECCs
  <1> QED
    BY <1>1, <1>2, <1>3, <1>4, <1>5 DEF Next, ECCs

\* The inductive invariant: what the registers, the history of what software fed and read, and a halted
\* kl.exec say of one another, in the family of the Machine, which no step changes.
THEOREM Invariance == Spec => []IInv
  <1>1. Init => IInv
    BY MachinesAssumption, Starts
  <1>2. IInv /\ [Next]_m => IInv'
    <2>1. CASE UNCHANGED m
      BY <2>1 DEF IInv
    <2> QED
      BY MachinesAssumption, <2>1, Steps
  <1> QED
    BY <1>1, <1>2, PTL DEF Spec

\* A nonce of ECDSA and SM2 signs once, however the signature is halted, dropped, repeated or copied.
THEOREM NoncesSignOnce == Spec => []NonceSignsOnce
  <1>1. IInv => NonceSignsOnce
    BY MachinesAssumption, ESafe DEF IInv, NonceSignsOnce
  <1> QED
    BY <1>1, Invariance, PTL

\* The second pass of EdDSA signs the message whose nonce the first has made, with the same scalar.
THEOREM EdDSAPassesAgree == Spec => []PassesAgree
  <1>1. IInv => PassesAgree
    BY MachinesAssumption, ESafe DEF IInv, PassesAgree
  <1> QED
    BY <1>1, Invariance, PTL

\* No operation of an HMAC whose key software sets, or of a curve, takes a key or a field of which a
\* part was loaded.
THEOREM KeysAreWhole == Spec => []NoPartialKey
  <1>1. IInv => NoPartialKey
    BY MachinesAssumption, ESafe, HSafe DEF IInv, NoPartialKey
  <1> QED
    BY <1>1, Invariance, PTL

\* A digest that a sealed secret entered is not read: neither as text nor as a verdict.
THEOREM SealedIsNotRead == Spec => []SealedNeverRead
  <1>1. IInv => SealedNeverRead
    BY MachinesAssumption, HSafe, PSafe DEF IInv, SealedNeverRead
  <1> QED
    BY <1>1, Invariance, PTL

\* No counter block of GCM or GCM-SIV, and no mask of XEX, is used twice (aead_model.py, sym_model.py).
THEOREM CountersAndMasksServeOnce == Spec => []CounterAndMaskOnce
  <1>1. IInv => CounterAndMaskOnce
    BY MachinesAssumption, ASafe, SSafe DEF IInv, CounterAndMaskOnce
  <1> QED
    BY <1>1, Invariance, PTL

\* What software fed and saw done is what the Machine absorbed, and what it read is the output in order.
THEOREM NothingIsLost == Spec => []FeedIsAbsorbed
  <1>1. IInv => FeedIsAbsorbed
    BY MachinesAssumption, ASafe, SSafe, HSafe, PSafe DEF IInv, FeedIsAbsorbed
  <1> QED
    BY <1>1, Invariance, PTL

\* Where an interrupt halts a kl.exec, the same kl.exec goes on.
THEOREM HaltsResume == Spec => []HaltIsResumable
  <1>1. IInv => HaltIsResumable
    BY MachinesAssumption, ASafe, SSafe, HSafe, PSafe DEF IInv, HaltIsResumable
  <1> QED
    BY <1>1, Invariance, PTL

\* A kl.exec of an AEAD Machine or CMAC, a symmetric cipher, HMAC or Ascon-AEAD128 gives text, a tag or a
\* verdict only in a State whose operation the policy of now permits; not so keyed BLAKE2 and KMAC.
THEOREM OutputsAreGated == Spec => OutputIsGated
  <1>1. IInv /\ [Next]_m => [Gated]_m
    BY MachinesAssumption, Steps
  <1>2. [Gated]_m <=> [/\ m.machine \in AEADs => A!GatedStep
                       /\ m.machine \in Modes => S!GatedStep
                       /\ H!hmac(m) => H!GatedStep
                       /\ P!aead(m) => P!GatedStep]_m
    BY DEF Gated
  <1> QED
    BY <1>1, <1>2, Invariance, PTL DEF Spec, OutputIsGated
=============================================================================
