---------------------------- MODULE AEADSoftware ----------------------------
(***************************************************************************)
(* Software that drives the AEAD and MAC Machines: the instruction         *)
(* sequences of aead_util.py over the locker of AEAD.tla.  An interrupt    *)
(* may halt every kl.exec, which is then issued again from klstart on, and *)
(* the CC may be moved between two instructions.  Lengths count units.     *)
(***************************************************************************)
EXTENDS Integers, Sequences

CONSTANTS AEADs, B, CM, MAX_BLOCKS, MaxWindow, MaxFed, \* as in AEAD.tla
          MaxIV, MaxAAD, MaxText                        \* bounds: units of an IV, of the associated data, and of a text

VARIABLES m,    \* the locker
          job,  \* what software does: the operation and its lengths; via: OCB leaves its last block by kl.setst
          todo, \* the instructions that are ahead
          ks,   \* klstart of the first of them
          got,  \* the units of text that software has been given
          may   \* history: whether the policy permitted the operation when it began
vars == <<m, job, todo, ks, got, may>>

A == INSTANCE AEAD

\* Instructions: kl.setst, and kl.exec over n units, of which software takes the first text.
Setst(to, form, x) == [ins |-> "setst", to |-> to, form |-> form, x |-> x]
Exec(form, n, text) == [ins |-> "exec", form |-> form, n |-> n, text |-> text]

Blocks(n) == (n + B - 1) \div B
pad16(n) == Blocks(n) * B
When(c, s) == IF c THEN s ELSE <<>>
feed(n) == When(n > 0, <<Exec("B", pad16(n), 0)>>)
\* The full blocks, and the final block if there is one.
\* Mutant: the final block is padded and goes with the others.
BodyPadded(n) == When(n > 0, <<Exec("A", pad16(n), n)>>)
_body(n) == When(n >= B, <<Exec("A", n - (n % B), n - (n % B))>>)
rest(n, last) == When(n % B # 0, <<Setst(last, "B", n % B), Exec("A", B, n % B)>>)

GiveIV(k, j) == IF k = "GCM" THEN <<Setst("SAV", "B", j.iv), Exec("B", pad16(j.iv), 0)>> ELSE <<Setst("Absorb", "A", 0)>>
gcm_enc(k, j) == GiveIV(k, j) \o feed(j.aad) \o <<Setst("Enc", "A", 0)>> \o _body(j.text) \o rest(j.text, "ELB")
              \o <<Setst("ETF", "C", 0), Exec("C", A!FullTag, 0)>>
gcm_dec(k, j) == GiveIV(k, j) \o feed(j.aad) \o <<Setst("Dec", "A", 0)>> \o _body(j.text) \o rest(j.text, "DLB")
              \o <<Setst("DTF", "C", 0), Setst("Verify", "B", A!FullTag), Exec("B", A!FullTag, 0)>>
siv_enc(j) == <<Setst("SAV", "C", 0), Setst("Absorb", "A", 0)>> \o feed(j.aad) \o feed(j.text)
              \o <<Setst("ETF", "A", 0), Exec("A", A!FullTag, 0)>> \o _body(j.text) \o rest(j.text, "ELB")
siv_dec(j) == <<Setst("SAV", "C", 0), Setst("SAV2", "C", 0), Setst("Absorb", "A", 0)>> \o feed(j.aad)
              \o <<Setst("Dec", "A", 0)>> \o _body(j.text)
              \o (IF j.text % B # 0 THEN rest(j.text, "DLB") ELSE <<Setst("DTF", "A", 0)>>) \o <<Exec("B", A!FullTag, 0)>>

GiveNonce(k, j) == When(k = "OCB", <<Setst("SAV", "B", j.iv), Exec("B", B, 0)>>) \o <<Setst("Absorb", "B", A!FullTag)>>
\* Mutant: a final block is announced only if there is one.
AadUnended(n) == When(n >= B, <<Exec("B", n - (n % B), 0)>>) \o When(n % B # 0, <<Setst("Last", "B", n % B), Exec("B", B, 0)>>)
ocb_aad(n) == When(n >= B, <<Exec("B", n - (n % B), 0)>>) \o <<Setst("Last", "B", n % B)>> \o When(n % B # 0, <<Exec("B", B, 0)>>)
OcbText(j, st, last, next) ==
  <<Setst(st, "A", 0)>> \o _body(j.text) \o <<Setst(last, "B", j.text % B)>>
  \o (IF j.text % B # 0 THEN <<Exec("A", B, j.text % B)>> ELSE IF j.via THEN <<Setst(next, "A", 0)>> ELSE <<Exec("D", 0, 0)>>)
ocb_enc(k, j) == GiveNonce(k, j) \o ocb_aad(j.aad) \o OcbText(j, "Enc", "ELB", "ETF") \o <<Exec("C", A!FullTag, 0)>>
ocb_dec(k, j) == GiveNonce(k, j) \o ocb_aad(j.aad) \o OcbText(j, "Dec", "DLB", "Verify") \o <<Exec("B", A!FullTag, 0)>>

\* The last block of a message of CMAC is its final piece, also when it is full.
Full(n) == IF n = 0 THEN 0 ELSE (Blocks(n) - 1) * B
Message(n) == <<Setst("Absorb", "A", 0)>> \o When(Full(n) > 0, <<Exec("B", Full(n), 0)>>)
              \o <<Setst("Last", "B", n - Full(n))>> \o When(n > 0, <<Exec("B", B, 0)>>)
cmac_gen(j) == Message(j.text) \o <<Setst("Output", "A", 0), Exec("C", A!FullTag, 0)>>
cmac_ver(j) == Message(j.text) \o <<Setst("Verify", "B", A!FullTag), Exec("B", A!FullTag, 0)>>

Program(k, j) ==
  LET f == A!Family[k] IN
  CASE f = "GCM"    -> IF j.dec THEN gcm_dec(k, j) ELSE gcm_enc(k, j)
    [] f = "GCMSIV" -> IF j.dec THEN siv_dec(j) ELSE siv_enc(j)
    [] f = "OCB"    -> IF j.dec THEN ocb_dec(k, j) ELSE ocb_enc(k, j)
    [] f = "CMAC"   -> IF j.dec THEN cmac_ver(j) ELSE cmac_gen(j)

Jobs(k) ==
  [dec : BOOLEAN, iv : IF k = "GCM" THEN 1..MaxIV ELSE IF k = "OCB" THEN 1..B - 1 ELSE {0},
   aad : IF k = "CMAC" THEN {0} ELSE 0..MaxAAD, text : 0..MaxText,
   via : IF k \in {"OCB", "OCB_NONCE"} THEN BOOLEAN ELSE {FALSE}]
Permits(pol, j) == (IF j.dec THEN 1 ELSE 0) \in pol
Init == A!Init /\ job \in Jobs(m.machine) /\ todo = Program(m.machine, job) /\ ks = 0 /\ got = 0 /\ may = Permits(m.policy, job)

-----------------------------------------------------------------------------
More == todo # <<>>
\* Mutant: a kl.exec that was halted is issued again from its beginning.
FromTheBeginning == 0
Resume == m'.halted.pos
SetstStep ==
  LET i == Head(todo) IN
  /\ More /\ i.ins = "setst"
  /\ A!setst(i.to, i.form, i.x)
  /\ todo' = Tail(todo) /\ ks' = 0 /\ UNCHANGED <<job, got, may>>
\* What is given out of a window that is halted is given once: the rest comes when it is resumed.
ExecStep(h, ok) ==
  LET i == Head(todo) IN
  /\ More /\ i.ins = "exec"
  /\ A!exec(i.form, i.n, ks, h, ok)
  /\ IF m'.halted.pos # 0 THEN todo' = todo /\ ks' = Resume ELSE todo' = Tail(todo) /\ ks' = 0
  /\ got' = IF m'.out # "text" THEN got ELSE got + (IF m'.halted.pos # 0 THEN m'.halted.pos ELSE i.text) - ks
  /\ UNCHANGED <<job, may>>
Moved == More /\ A!Move /\ UNCHANGED <<job, todo, ks, got, may>>
\* The next operation of this locker, or of a new one when this one has become Invalid.
Begin(j) ==
  /\ m' = IF m.st = "Invalid" THEN A!Ready([m EXCEPT !.policy = {1}, !.len = 1]) ELSE A!Ready(m)
  /\ job' = j /\ todo' = Program(m.machine, j) /\ ks' = 0 /\ got' = 0 /\ may' = Permits(m'.policy, j)

Next ==
  \/ SetstStep
  \/ \E h \in 0..MaxWindow, ok \in BOOLEAN : ExecStep(h, ok)
  \/ Moved
  \/ ~ More /\ \E j \in Jobs(m.machine) : Begin(j)
Spec == Init /\ [][Next]_vars

-----------------------------------------------------------------------------
\* The policy permits the operation, and the counters are enough: GCM keeps one for the tag, and
\* kl.setst does not leave the last block of OCB with the greatest index, as kl.exec of Form D does.
Fits ==
  LET n == Blocks(job.text)
      f == A!Family[m.machine]
  IN /\ may
     /\ f = "GCM" => n <= CM - 2
     /\ f = "GCMSIV" => n <= CM
     /\ f = "OCB" => /\ n <= MAX_BLOCKS /\ Blocks(job.aad) <= MAX_BLOCKS
                     /\ (job.via /\ job.text % B = 0 => n < MAX_BLOCKS)

\* No instruction of the sequences is refused, whatever their lengths are, however their kl.exec are
\* halted and resumed, wherever the CC is moved, and whatever the operation before left in the locker,
\* but where the policy or the counters do not allow the operation: that one never comes to its end
\* (aead_util.py).
SequenceIsAccepted ==
  /\ m.st = "Invalid" => ~ Fits
  /\ ~ More /\ ~ Fits => m.st = "Invalid"

\* A sequence that ends gave every unit of the text once, and its tag is that of all the associated
\* data and of all the text.
SequenceIsWhole ==
  ~ More /\ m.st # "Invalid" =>
    /\ got = IF m.machine = "CMAC" THEN 0 ELSE job.text
    /\ m.tag = Blocks(job.aad) + Blocks(job.text)
    /\ m.st \in IF job.dec THEN {"Success", "Failure"} ELSE IF m.machine = "GCMSIV" THEN {"Enc", "ELB"} ELSE {"Success"}

\* A text is decrypted with the keystream it was encrypted with: which one that is depends on the
\* first counter and the length alone.
SameKeystream ==
  ~ More /\ m.st # "Invalid" =>
    LET n == Blocks(job.text) IN
    CASE A!Family[m.machine] = "GCM" -> m.used = {(m.start + i) % CM : i \in 0..n}
      [] A!Family[m.machine] = "GCMSIV" -> m.used = 0..n - 1
      [] A!Family[m.machine] = "OCB" -> m.ctr = (job.text \div B) + 1
      [] OTHER -> m.used = {}
=============================================================================
