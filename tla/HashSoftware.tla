---------------------------- MODULE HashSoftware ----------------------------
(***************************************************************************)
(* Software that drives the hash and HMAC Machines: run, digest and        *)
(* derive_out of hash_model.py and the plans of hash_util.py over the      *)
(* locker of Hash.tla.  A message goes in by windows of any size that are  *)
(* halted and resumed, with or without a final piece, after a shared       *)
(* secret or not; the output is read in bytes or bits, or goes into a key. *)
(***************************************************************************)
EXTENDS Integers

CONSTANTS Hashes, BYTE, B, SEALABLE, MaxWindow, MaxFed, \* as in Hash.tla
          MaxBits                                       \* bound: bits of a message

VARIABLES m,    \* the locker
          job,  \* the message, the plan that feeds it, and what becomes of the output
          pc,   \* where software is
          left, \* bytes of the message that wait for a window
          win,  \* the window that is being fed or read: its bytes, and klstart of the next kl.exec
          got,  \* bits of the output that software has put together
          key,  \* the locker that a key is derived into
          sum,  \* history: the bits that the hash held when its output began
          was   \* history: the locker when the message began
vars == <<m, job, pc, left, win, got, key, sum, was>>

H == INSTANCE Hash

NoWindow == [n |-> 0, ks |-> 0]
Whole(n) == n \div BYTE
\* The bits of the final piece: none is announced, an empty one, or all that is not in full blocks.
Lb(j) == IF j.plan = "last" /\ j.nbits > 0 THEN ((j.nbits - 1) % B) + 1 ELSE 0
Jobs ==
  {j \in [nbits : 0..MaxBits, plan : {"multi", "chunks", "export", "last", "last0"}, secret : {"none", "open", "sealed"},
          read : {"all", "digest", "bits", "key", "verify"}, size : 1..MaxWindow] :
     /\ j.plan # "last" => j.nbits % BYTE = 0
     /\ j.secret # "none" => j.plan \in {"multi", "last"} /\ j.nbits = 0
     /\ j.read \in {"key", "verify"} => j.size = 1}
D == B \div BYTE
Keys(j) ==
  LET derived == j.read = "key" IN
  [n : IF derived THEN {1, SEALABLE, D + 1} ELSE {1}, src_out : IF derived THEN BOOLEAN ELSE {FALSE}, st : {"Ready"}, key : {"none"}]
Init == H!Init /\ job \in Jobs /\ key \in Keys(job) /\ pc = "begin" /\ left = 0 /\ win = NoWindow /\ got = 0 /\ sum = 0 /\ was = m

Same == UNCHANGED <<job, left, win, got, key, sum, was>>
-----------------------------------------------------------------------------
\* HMAC with a key that software sets gets it first.
SetKey ==
  \/ pc = "begin" /\ m.machine = "HMAC_NIK" /\ H!setst("setkey", "A", 0) /\ pc' = "setkey" /\ Same
  \/ pc = "setkey" /\ H!exec("B", D, 0, FALSE, TRUE) /\ pc' = "keyed" /\ Same
Absorb ==
  /\ pc = "keyed" \/ (pc = "begin" /\ m.machine # "HMAC_NIK")
  /\ H!setst("absorb", "A", 0)
  /\ pc' = IF job.secret = "none" THEN "feed" ELSE "secret"
  /\ left' = Whole(job.nbits - Lb(job))
  /\ UNCHANGED <<job, win, got, key, sum, was>>
Secret(fits) ==
  /\ pc = "secret" /\ (fits \/ job.secret = "sealed")
  /\ H!derive(SEALABLE, TRUE, FALSE, job.secret = "sealed", fits)
  /\ pc' = (IF ~ fits THEN "stop" ELSE "feed") /\ Same

\* run: the next part of the message is fed, and a window that was halted is fed on from there.
\* Mutant: it begins again.
FromTheBeginning(n, k) == [n |-> n, ks |-> 0]
Resume(n, k) == [n |-> n, ks |-> k]
run(n, halt) ==
  /\ pc = "feed" /\ (win.n # 0 => n = win.n) /\ (win.n = 0 => 0 < n /\ n <= left)
  /\ (job.plan \in {"multi", "last", "last0"} => n = left \/ win.n # 0) /\ (job.plan = "multi" => ~ halt)
  /\ H!exec("B", n, win.ks, halt, TRUE)
  /\ IF m'.halted.pos # 0 THEN win' = Resume(n, m'.halted.pos) /\ left' = left
     ELSE win' = NoWindow /\ left' = left - n
  /\ UNCHANGED <<job, pc, got, key, sum, was>>
Export == pc = "feed" /\ job.plan = "export" /\ win.n = 0 /\ H!import_ /\ UNCHANGED pc /\ Same
FinalPiece ==
  \/ /\ pc = "feed" /\ left = 0 /\ job.plan \in {"last", "last0"}
     /\ H!setst("last", IF Lb(job) # 0 THEN "B" ELSE "A", Lb(job)) /\ pc' = (IF Lb(job) # 0 THEN "final" ELSE "fed") /\ Same
  \/ pc = "final" /\ H!exec("B", (Lb(job) + BYTE - 1) \div BYTE, 0, FALSE, TRUE) /\ pc' = "fed" /\ Same

\* The output begins: digest names its length, the others take all of it.
Xs == IF job.read = "digest" THEN D * BYTE ELSE 0
Output ==
  /\ pc = "fed" \/ (pc = "feed" /\ left = 0 /\ job.plan \notin {"last", "last0"})
  /\ IF job.read = "verify" THEN H!setst("verify", "B", B) ELSE H!setst("output", IF Xs # 0 THEN "B" ELSE "A", Xs)
  /\ sum' = m.S * B + m.bb /\ pc' = job.read
  /\ UNCHANGED <<job, left, win, got, key, was>>
Verdict(ok) == pc = "verify" /\ H!exec("B", D, 0, FALSE, ok) /\ pc' = "stop" /\ Same

-----------------------------------------------------------------------------
\* The bytes that are read: software chooses how many of SHAKE.
Size(j) == IF H!xof(m) THEN j.size ELSE D
\* out_all: what a kl.exec that is halted has put before the point where it is resumed is kept.
out_all(halt) ==
  /\ pc = "all" /\ H!exec("C", Size(job), win.ks, halt, TRUE)
  /\ got' = win.ks * BYTE + m'.got - m.got
  /\ IF m'.halted.pos # 0 /\ m'.st = "Output" THEN win' = Resume(Size(job), m'.halted.pos) /\ UNCHANGED pc
     ELSE win' = NoWindow /\ pc' = "stop"
  /\ UNCHANGED <<job, left, key, sum, was>>
\* digest: pieces of size bytes until there are enough.
digest ==
  LET want == H!HMIN(job.size, D - Whole(got)) IN
  /\ pc = "digest"
  /\ IF want > 0 /\ m.st = "Output" THEN H!exec("C", want, 0, FALSE, TRUE) /\ got' = got + want * BYTE /\ UNCHANGED pc
     ELSE pc' = "stop" /\ UNCHANGED <<m, got>>
  /\ UNCHANGED <<job, left, win, key, sum, was>>
\* read_bits: reads of size bits, by windows of a byte or of all of them, until the output ends.
read_bits(kl, halt) ==
  /\ pc = "bits"
  /\ \/ /\ m.st = "Output" \/ (m.st = "Bits" /\ m.lbl = 0)
        /\ H!setst("bits", "B", job.size) /\ UNCHANGED <<pc, win, got>>
     \/ /\ m.st = "Bits" /\ m.lbl # 0 /\ (win.n # 0 => kl = win.n)
        /\ H!exec("C", kl, win.ks, halt, TRUE)
        /\ IF m'.halted.pos # 0 THEN win' = Resume(kl, m'.halted.pos) /\ got' = got
           ELSE win' = NoWindow /\ got' = got + win.ks * BYTE + m.lbl - m'.lbl
        /\ UNCHANGED pc
     \/ m.st \notin {"Output", "Bits"} /\ pc' = "stop" /\ UNCHANGED <<m, win, got>>
  /\ UNCHANGED <<job, left, key, sum, was>>

\* Key.derive: what a key field says of an output of len bytes.
Answer(k, len, sealed, fits) ==
  IF sealed /\ k.src_out THEN "srcinv" ELSE IF len < k.n THEN "refused"
  ELSE IF sealed /\ k.n < SEALABLE THEN "srcinv" ELSE IF sealed /\ ~ fits THEN "refused" ELSE "ok"
derive_out(fits) ==
  LET a == Answer(key, D, ~ H!NoSecret(m), fits) IN
  /\ pc = "key" /\ H!derive_out(key.n, a) /\ pc' = "stop"
  /\ key' = IF m.st # "Output" THEN key
            ELSE CASE a = "ok" -> [key EXCEPT !.key = IF m.mseal \/ m.kseal THEN "sealed" ELSE "open"]
                   [] OTHER -> [key EXCEPT !.st = IF D < key.n \/ key.src_out THEN "Invalid" ELSE IF a = "refused" THEN "PrivViolation" ELSE @]
  /\ UNCHANGED <<job, left, win, got, sum, was>>
\* The locker is used again for another message.
Again(j, k) ==
  /\ pc = "stop" /\ m.st \in {"Success", "Failure", "Output"} /\ H!setst("ready", "A", 0)
  /\ job' = j /\ key' = k /\ pc' = "begin" /\ left' = 0 /\ win' = NoWindow /\ got' = 0 /\ sum' = 0 /\ was' = m'

Next ==
  \/ SetKey \/ Absorb \/ Export \/ FinalPiece \/ Output \/ digest
  \/ \E fits \in BOOLEAN : Secret(fits) \/ derive_out(fits)
  \/ \E n \in 1..Whole(MaxBits), halt \in BOOLEAN : run(n, halt)
  \/ \E halt \in BOOLEAN : out_all(halt) \/ \E kl \in {1, (job.size + BYTE - 1) \div BYTE} : read_bits(kl, halt)
  \/ \E ok \in BOOLEAN : Verdict(ok)
  \/ \E j \in Jobs : \E k \in Keys(j) : Again(j, k)
Spec == Init /\ [][Next]_vars

-----------------------------------------------------------------------------
\* The bits of the message, with the shared secret before it.
Bits(j) == j.nbits + (IF j.secret = "none" THEN 0 ELSE SEALABLE * BYTE)
Fits ==
  /\ job.nbits % BYTE # 0 => ~ H!hold(was)
  /\ job.read # "verify" /\ (H!hmac(was) \/ was.machine = "BLAKE2_KEY") => 0 \in was.policy
  /\ job.read = "verify" => H!hmac(was) /\ 1 \in was.policy /\ was.full
  /\ job.secret # "none" => ~ H!hmac(was) \/ was.full
  /\ job.secret = "sealed" => job.read = "key" /\ ~ key.src_out /\ (key.n > D \/ key.n >= SEALABLE)

\* No window, final piece or read of a plan is refused, whatever the parts of the message are and
\* however they are halted, resumed and exported, but where the policy, the Machine or a sealed secret
\* does not allow what software wants: that one gives nothing (hash_util.py).
PlanIsAccepted ==
  /\ m.st = "Invalid" => ~ Fits
  /\ pc = "stop" /\ ~ Fits => m.st \in {"Invalid", "PrivViolation"}

\* Every plan gives the same hash: that of all bits of the message (hash_util.py).
PlansAgree ==
  pc \in {"all", "digest", "bits", "key", "verify"} /\ m.st # "Invalid" =>
    LET n == Bits(job) IN
    sum = (IF H!hmac(m) \/ (m.machine = "BLAKE2_KEY" /\ n > 0) THEN B ELSE 0)
          + (IF H!xof(m) THEN n ELSE ((n + BYTE - 1) \div BYTE) * BYTE)

\* The pieces that software puts together are the output: each bit of it once, however it was read.
ReadIsWhole ==
  /\ pc = "bits" /\ m.st \in {"Output", "Bits"} /\ win.n = 0 => got = m.got
  /\ pc = "stop" /\ m.st \in {"Success", "Output"} /\ job.read \in {"all", "digest", "bits"} =>
       got = m.got /\ got = (IF job.read = "all" THEN Size(job) ELSE D) * BYTE
=============================================================================
