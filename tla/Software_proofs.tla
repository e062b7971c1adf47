------------------------ MODULE Software_proofs ------------------------
(***************************************************************************)
(* Proofs about Software: every sequence and every plan that fits is       *)
(* accepted, is whole at its end, and equals every other plan of the same  *)
(* operation, for every size of block, every counter and every length,     *)
(* however execution is halted and lockers are moved.                      *)
(*                                                                         *)
(* Sequences of AEADSoftware.  A sequence is a list of instructions, todo  *)
(* is the rest of it.  The invariant says which rest it may be: for each   *)
(* Machine k and each operation j there are the places between two         *)
(* instructions (At), the windows within one (Window, Iv) and the final    *)
(* pieces (Piece), each with the State, the blocks that the hash holds,    *)
(* the counters used, the units given so far and the instructions that are *)
(* left.  A step leads from a place to the same place (a move, a halt) or  *)
(* to the next one; or the CC is lost, and then policy or a counter does   *)
(* not allow the operation (Dead).  At the end of a sequence (Done) all of *)
(* the message has been processed, with the counters of the reference.     *)
(* The programs are made of optional parts (a text may be empty, or end    *)
(* with a block); each is first shown to be a first instruction and the    *)
(* rest, whatever its parts (GPrograms, SPrograms, OPrograms, CPrograms).  *)
(*                                                                         *)
(* Plans of HashSoftware.  They feed one message in different ways: in one *)
(* instruction, in chunks between which the CC is exported, with a final   *)
(* piece.  The invariant HashInv relates what a locker of a hash Machine   *)
(* holds (S blocks absorbed and bb bits of the next one) to what its plan  *)
(* has fed (HFeed, HFinal), and says that at the end of the message every  *)
(* plan has fed the same Total (HFed); then which bits of the output were  *)
(* read, whole, in halves or in bits (HAll, HDigest, HBits).  A plan that  *)
(* has failed does not fit (HDead).                                        *)
(***************************************************************************)
EXTENDS Software, TLAPS, SequenceTheorems

-----------------------------------------------------------------------------
(* Blocks of B units.                                                      *)

\* Division by the units of a block.
LEMMA Units ==
  ASSUME SoftwareAssumption, NEW n \in Nat
  PROVE  /\ n \div BlockUnits \in Nat /\ n % BlockUnits \in 0..BlockUnits - 1
         /\ n = BlockUnits * (n \div BlockUnits) + (n % BlockUnits)
  BY DEF SoftwareAssumption

\* What q blocks and s units more are.
LEMMA Cut ==
  ASSUME SoftwareAssumption, NEW q \in Nat, NEW s \in 0..BlockUnits - 1
  PROVE  (BlockUnits * q + s) \div BlockUnits = q /\ (BlockUnits * q + s) % BlockUnits = s
  <1> DEFINE n == BlockUnits * q + s
             p == n \div BlockUnits
             t == n % BlockUnits
  <1>1. BlockUnits \in Nat \ {0, 1}
    BY DEF SoftwareAssumption
  <1>2. n \in Nat
    BY <1>1
  <1>3. p \in Nat /\ t \in 0..BlockUnits - 1 /\ n = BlockUnits * p + t
    <2> HIDE DEF n
    <2> QED
      BY <1>2, Units
  <1>4. BlockUnits * q + s = BlockUnits * p + t
    BY <1>3
  <1> HIDE DEF n, p, t
  <1>5. p = q
    <2>1. CASE p < q
      <3>1. BlockUnits * (p + 1) <= BlockUnits * q
        BY <1>1, <1>3, <2>1
      <3>2. BlockUnits * (p + 1) = BlockUnits * p + BlockUnits
        BY <1>1, <1>3
      <3> QED
        BY <1>1, <1>3, <1>4, <3>1, <3>2
    <2>2. CASE q < p
      <3>1. BlockUnits * (q + 1) <= BlockUnits * p
        BY <1>1, <1>3, <2>2
      <3>2. BlockUnits * (q + 1) = BlockUnits * q + BlockUnits
        BY <1>1
      <3> QED
        BY <1>1, <1>3, <1>4, <3>1, <3>2
    <2> QED
      BY <1>3, <2>1, <2>2
  <1>6. t = s
    BY <1>1, <1>3, <1>4, <1>5
  <1> QED
    BY <1>5, <1>6 DEF n, p, t

\* Between two ends of blocks.
LEMMA Between ==
  ASSUME SoftwareAssumption, NEW x \in Nat, NEW y \in Nat, x % BlockUnits = 0, y % BlockUnits = 0, x <= y
  PROVE  /\ y - x \in Nat /\ (y - x) % BlockUnits = 0 /\ (y - x) \div BlockUnits = (y \div BlockUnits) - (x \div BlockUnits)
         /\ x \div BlockUnits <= y \div BlockUnits /\ (x < y => x \div BlockUnits < y \div BlockUnits)
  <1> DEFINE p == x \div BlockUnits
             q == y \div BlockUnits
  <1>1. BlockUnits \in Nat \ {0, 1}
    BY DEF SoftwareAssumption
  <1>2. p \in Nat /\ q \in Nat /\ x = BlockUnits * p /\ y = BlockUnits * q
    BY Units
  <1> HIDE DEF p, q
  <1>3. p <= q /\ (x < y => p < q)
    <2>1. CASE q < p
      <3>1. BlockUnits * q < BlockUnits * p
        BY <1>1, <1>2, <2>1
      <3> QED
        BY <1>2, <3>1
    <2> QED
      BY <1>2, <2>1
  <1>4. q - p \in Nat /\ y - x = BlockUnits * (q - p) + 0
    BY <1>1, <1>2, <1>3
  <1> DEFINE e == q - p
  <1>5. e \in Nat /\ y - x = BlockUnits * e + 0
    BY <1>4
  <1> HIDE DEF e
  <1>6. (BlockUnits * e + 0) \div BlockUnits = e /\ (BlockUnits * e + 0) % BlockUnits = 0
    BY <1>1, <1>5, Cut
  <1>7. y - x \in Nat
    BY <1>1, <1>5
  <1> QED
    BY <1>3, <1>5, <1>6, <1>7 DEF e, p, q

\* The full blocks of n units, all of its blocks, and what they are padded to.
LEMMA Pieces ==
  ASSUME SoftwareAssumption, NEW n \in Nat
  PROVE  LET q == n \div BlockUnits
             s == n % BlockUnits IN
         /\ A!Blocks(n) = IF s = 0 THEN q ELSE q + 1
         /\ n - s \in Nat /\ (n - s) % BlockUnits = 0 /\ (n - s) \div BlockUnits = q /\ (q = 0 <=> n < BlockUnits)
         /\ A!pad16(n) \in Nat /\ A!pad16(n) % BlockUnits = 0 /\ A!pad16(n) \div BlockUnits = A!Blocks(n) /\ n <= A!pad16(n)
         /\ A!Blocks(n) \in Nat /\ (n = 0 => A!Blocks(n) = 0)
  <1> DEFINE q == n \div BlockUnits
             s == n % BlockUnits
             k == IF s = 0 THEN q ELSE q + 1
  <1>1. BlockUnits \in Nat \ {0, 1}
    BY DEF SoftwareAssumption
  <1>2. q \in Nat /\ s \in 0..BlockUnits - 1 /\ n = BlockUnits * q + s
    BY Units
  <1> HIDE DEF q, s
  <1>3. A!Blocks(n) = k
    <2>1. CASE s = 0
      <3>1. n + BlockUnits - 1 = BlockUnits * q + (BlockUnits - 1) /\ BlockUnits - 1 \in 0..BlockUnits - 1
        BY <1>1, <1>2, <2>1
      <3>2. (BlockUnits * q + (BlockUnits - 1)) \div BlockUnits = q
        BY <1>2, <3>1, Cut
      <3> QED
        BY <2>1, <3>1, <3>2 DEF A!Blocks
    <2>2. CASE s # 0
      <3>1. n + BlockUnits - 1 = BlockUnits * (q + 1) + (s - 1) /\ s - 1 \in 0..BlockUnits - 1 /\ q + 1 \in Nat
        BY <1>1, <1>2, <2>2
      <3>2. (BlockUnits * (q + 1) + (s - 1)) \div BlockUnits = q + 1
        BY <3>1, Cut
      <3> QED
        BY <2>2, <3>1, <3>2 DEF A!Blocks
    <2> QED
      BY <2>1, <2>2
  <1>4. n - s \in Nat /\ n - s = BlockUnits * q + 0
    BY <1>1, <1>2
  <1>5. (BlockUnits * q + 0) \div BlockUnits = q /\ (BlockUnits * q + 0) % BlockUnits = 0
    BY <1>1, <1>2, Cut
  <1>6. q = 0 <=> n < BlockUnits
    <2>1. CASE q = 0
      BY <1>1, <1>2, <2>1
    <2>2. CASE q # 0
      <3>1. BlockUnits * 1 <= BlockUnits * q
        BY <1>1, <1>2, <2>2
      <3> QED
        BY <1>1, <1>2, <2>2, <3>1
    <2> QED
      BY <2>1, <2>2
  <1>7. k \in Nat
    BY <1>2
  <1>8. A!pad16(n) = BlockUnits * k + 0
    BY <1>1, <1>3, <1>7 DEF A!pad16
  <1>9. (BlockUnits * k + 0) \div BlockUnits = k /\ (BlockUnits * k + 0) % BlockUnits = 0 /\ BlockUnits * k + 0 \in Nat
    <2> HIDE DEF k
    <2> QED
      BY <1>1, <1>7, Cut
  <1>10. n <= BlockUnits * k + 0
    <2>1. BlockUnits * (q + 1) = BlockUnits * q + BlockUnits
      BY <1>1, <1>2
    <2> QED
      BY <1>1, <1>2, <2>1
  <1>11. n = 0 => k = 0
    <2>1. q > 0 => BlockUnits * 1 <= BlockUnits * q
      BY <1>1, <1>2
    <2> QED
      BY <1>1, <1>2, <2>1
  <1> QED
    BY <1>3, <1>4, <1>5, <1>6, <1>7, <1>8, <1>9, <1>10, <1>11 DEF q, s

-----------------------------------------------------------------------------
(* Sequences of instructions: one and those that come then.                *)

Join(a, b) == a \o b
Then(i, t) == <<i>> \o t
Names == {"SAV", "SAV2", "Absorb", "Last", "Enc", "Dec", "ELB", "DLB", "ETF", "DTF", "Output", "Verify"}
Forms == {"A", "B", "C", "D"}
Ins == [ins : {"setst"}, to : Names, form : Forms, x : Int] \cup [ins : {"exec"}, form : Forms, n : Int, text : Int]
Seqs == Seq(Ins)

\* kl.setst as an instruction.
LEMMA Setsts == ASSUME NEW to \in Names, NEW form \in Forms, NEW x \in Int PROVE A!Setst(to, form, x) \in Ins
  BY DEF A!Setst, Ins

\* kl.exec as an instruction.
LEMMA Execs == ASSUME NEW form \in Forms, NEW n \in Int, NEW text \in Int PROVE A!Exec(form, n, text) \in Ins
  BY DEF A!Exec, Ins

\* An instruction and those that come then are a sequence, which begins with it.
LEMMA Thens ==
  ASSUME NEW i \in Ins, NEW t \in Seqs
  PROVE  Then(i, t) \in Seqs /\ Then(i, t) # <<>> /\ Head(Then(i, t)) = i /\ Tail(Then(i, t)) = t
  <1> USE DEF Seqs
  <1> DEFINE u == <<i>> \o t
  <1>1. <<i>> \in Seqs /\ Len(<<i>>) = 1
    OBVIOUS
  <1>2. u \in Seqs /\ Len(u) = 1 + Len(t) /\ \A k \in 1..1 + Len(t) : u[k] = IF k <= 1 THEN <<i>>[k] ELSE t[k - 1]
    BY <1>1, ConcatProperties
  <1>3. Len(t) \in Nat
    OBVIOUS
  <1> HIDE DEF u
  <1>4. u # <<>> /\ u[1] = i
    BY <1>2, <1>3
  <1>5. Head(u) = i /\ Tail(u) \in Seqs /\ Len(Tail(u)) = Len(t) /\ \A k \in 1..Len(t) : Tail(u)[k] = u[k + 1]
    BY <1>2, <1>3, <1>4, HeadTailProperties
  <1>6. \A k \in 1..Len(t) : Tail(u)[k] = t[k]
    BY <1>2, <1>3, <1>5
  <1>7. Tail(u) = t
    BY <1>5, <1>6, SeqEqual
  <1> QED
    BY <1>2, <1>4, <1>5, <1>7 DEF Then, u

\* The empty sequence, and a sequence after it.
LEMMA NoIns == <<>> \in Seqs /\ \A t \in Seqs : Join(<<>>, t) = t
  BY DEF Seqs, Join

\* A sequence, and nothing after it.
LEMMA JoinNothing == ASSUME NEW s \in Seqs PROVE Join(s, <<>>) = s
  BY ConcatEmptySeq DEF Seqs, Join

\* A sequence of one instruction, and t after it.
LEMMA OneThen ==
  ASSUME NEW i \in Ins, NEW t \in Seqs
  PROVE  <<i>> \in Seqs /\ Join(<<i>>, t) = Then(i, t) /\ <<i>> = Then(i, <<>>)
  BY DEF Then, Join, Seqs

\* A sequence of two instructions, and t after it.
LEMMA TwoThen ==
  ASSUME NEW i \in Ins, NEW j \in Ins, NEW t \in Seqs
  PROVE  <<i, j>> \in Seqs /\ Join(<<i, j>>, t) = Then(i, Then(j, t)) /\ <<i, j>> = Then(i, Then(j, <<>>))
  <1> USE DEF Seqs
  <1>1. <<i>> \in Seqs /\ <<j>> \in Seqs /\ <<i, j>> \in Seqs /\ <<>> \in Seqs
    OBVIOUS
  <1>2. <<i, j>> = <<i>> \o <<j>>
    <2> DEFINE u == <<i>> \o <<j>>
    <2>1. Len(<<i>>) = 1 /\ Len(<<j>>) = 1 /\ Len(<<i, j>>) = 2
      OBVIOUS
    <2>2. u \in Seqs /\ Len(u) = 2 /\ \A k \in 1..2 : u[k] = IF k <= 1 THEN <<i>>[k] ELSE <<j>>[k - 1]
      BY <1>1, <2>1, ConcatProperties
    <2> HIDE DEF u
    <2>3. \A k \in 1..2 : u[k] = <<i, j>>[k]
      BY <2>2
    <2> QED
      BY <1>1, <2>1, <2>2, <2>3, SeqEqual DEF u
  <1>3. (<<i>> \o <<j>>) \o t = <<i>> \o (<<j>> \o t)
    BY <1>1, ConcatAssociative
  <1>4. <<j>> \o <<>> = <<j>>
    OBVIOUS
  <1> QED
    BY <1>1, <1>2, <1>3, <1>4 DEF Then, Join

\* Sequences may be joined in either order.
LEMMA Joins ==
  ASSUME NEW a \in Seqs, NEW b \in Seqs
  PROVE  Join(a, b) \in Seqs /\ \A c \in Seqs : Join(Join(a, b), c) = Join(a, Join(b, c))
  BY ConcatProperties, ConcatAssociative DEF Seqs, Join

\* Four sequences, joined from the right.
LEMMA FromRight4 ==
  ASSUME NEW a \in Seqs, NEW b \in Seqs, NEW c \in Seqs, NEW d \in Seqs
  PROVE  Join(Join(Join(a, b), c), d) = Join(a, Join(b, Join(c, d)))
  <1>1. Join(a, b) \in Seqs /\ Join(c, d) \in Seqs
    BY Joins
  <1>2. Join(Join(Join(a, b), c), d) = Join(Join(a, b), Join(c, d))
    BY <1>1, Joins
  <1>3. Join(Join(a, b), Join(c, d)) = Join(a, Join(b, Join(c, d)))
    BY <1>1, Joins
  <1> QED
    BY <1>2, <1>3

\* Six sequences, joined from the right.
LEMMA FromRight6 ==
  ASSUME NEW a \in Seqs, NEW b \in Seqs, NEW c \in Seqs, NEW d \in Seqs, NEW e \in Seqs, NEW f \in Seqs
  PROVE  Join(Join(Join(Join(Join(a, b), c), d), e), f) = Join(a, Join(b, Join(c, Join(d, Join(e, f)))))
  <1> DEFINE u == Join(Join(a, b), c)
             v == Join(d, Join(e, f))
  <1>1. u \in Seqs /\ v \in Seqs
    BY Joins
  <1> HIDE DEF u
  <1>2. Join(Join(Join(u, d), e), f) = Join(u, Join(d, Join(e, f)))
    BY <1>1, FromRight4
  <1> HIDE DEF v
  <1>3. Join(Join(Join(a, b), c), v) = Join(a, Join(b, Join(c, v)))
    BY <1>1, FromRight4
  <1> QED
    BY <1>2, <1>3 DEF u, v

\* What comes before t: a part of a message, if there is one.
Feed(n, t) == IF n > 0 THEN Then(A!Exec("B", A!pad16(n), 0), t) ELSE t
Body(n, t) == IF n >= BlockUnits THEN Then(A!Exec("A", n - (n % BlockUnits), n - (n % BlockUnits)), t) ELSE t
Rest(n, last, t) ==
  IF n % BlockUnits # 0 THEN Then(A!Setst(last, "B", n % BlockUnits), Then(A!Exec("A", BlockUnits, n % BlockUnits), t)) ELSE t

\* The instructions that feed n units, padded to blocks.
LEMMA Feeds ==
  ASSUME SoftwareAssumption, NEW n \in Nat, NEW t \in Seqs
  PROVE  A!feed(n) \in Seqs /\ Join(A!feed(n), t) = Feed(n, t) /\ Feed(n, t) \in Seqs
  <1> DEFINE i == A!Exec("B", A!pad16(n), 0)
  <1>1. i \in Ins
    BY Pieces, Execs DEF Forms
  <1>2. A!feed(n) = A!When(n > 0, <<i>>)
    BY DEF A!feed
  <1>3. Feed(n, t) = IF n > 0 THEN Then(i, t) ELSE t
    BY DEF Feed
  <1> HIDE DEF i
  <1>4. <<i>> \in Seqs /\ Join(<<i>>, t) = Then(i, t) /\ Then(i, t) \in Seqs
    BY <1>1, OneThen, Thens
  <1> QED
    BY <1>2, <1>3, <1>4, NoIns DEF A!When

\* The instruction that processes the full blocks of n units.
LEMMA Bodies ==
  ASSUME SoftwareAssumption, NEW n \in Nat, NEW t \in Seqs
  PROVE  A!_body(n) \in Seqs /\ Join(A!_body(n), t) = Body(n, t) /\ Body(n, t) \in Seqs
  <1> DEFINE i == A!Exec("A", n - (n % BlockUnits), n - (n % BlockUnits))
  <1>1. i \in Ins
    BY Pieces, Execs DEF Forms
  <1>2. A!_body(n) = A!When(n >= BlockUnits, <<i>>)
    BY DEF A!_body
  <1>3. Body(n, t) = IF n >= BlockUnits THEN Then(i, t) ELSE t
    BY DEF Body
  <1> HIDE DEF i
  <1>4. <<i>> \in Seqs /\ Join(<<i>>, t) = Then(i, t) /\ Then(i, t) \in Seqs
    BY <1>1, OneThen, Thens
  <1> QED
    BY <1>2, <1>3, <1>4, NoIns DEF A!When

\* The instructions that process what the full blocks of n units leave.
LEMMA Rests ==
  ASSUME SoftwareAssumption, NEW n \in Nat, NEW last \in Names, NEW t \in Seqs
  PROVE  A!rest(n, last) \in Seqs /\ Join(A!rest(n, last), t) = Rest(n, last, t) /\ Rest(n, last, t) \in Seqs
  <1> DEFINE i == A!Setst(last, "B", n % BlockUnits)
             k == A!Exec("A", BlockUnits, n % BlockUnits)
  <1>1. i \in Ins /\ k \in Ins
    <2>1. n % BlockUnits \in Int /\ BlockUnits \in Int
      BY Units DEF SoftwareAssumption
    <2> QED
      BY <2>1, Setsts, Execs DEF Forms
  <1>2. A!rest(n, last) = A!When(n % BlockUnits # 0, <<i, k>>)
    BY DEF A!rest
  <1>3. Rest(n, last, t) = IF n % BlockUnits # 0 THEN Then(i, Then(k, t)) ELSE t
    BY DEF Rest
  <1> HIDE DEF i, k
  <1>4. <<i, k>> \in Seqs /\ Join(<<i, k>>, t) = Then(i, Then(k, t))
    BY <1>1, TwoThen
  <1>5. Then(i, Then(k, t)) \in Seqs
    BY <1>1, Thens
  <1> QED
    BY <1>2, <1>3, <1>4, <1>5, NoIns DEF A!When

-----------------------------------------------------------------------------
(* The programs from each of their instructions on.                        *)

Lengths(j) == j.iv \in Nat /\ j.aad \in Nat /\ j.text \in Nat
Tag(form) == Then(A!Exec(form, BlockUnits, 0), <<>>)
Start(to, form, t) == Then(A!Setst(to, form, 0), t)
TextSt(j) == IF j.dec THEN "Dec" ELSE "Enc"
LastSt(j) == IF j.dec THEN "DLB" ELSE "ELB"

\* kl.setst without an operand, and t after it.
LEMMA Starts == ASSUME NEW to \in Names, NEW form \in Forms, NEW t \in Seqs PROVE Start(to, form, t) \in Seqs
  BY Setsts, Thens DEF Start

\* The last instruction of a program gives or takes a tag.
LEMMA Tags == ASSUME SoftwareAssumption, NEW form \in Forms PROVE Tag(form) \in Seqs /\ <<A!Exec(form, BlockUnits, 0)>> = Tag(form)
  <1>1. A!Exec(form, BlockUnits, 0) \in Ins
    BY Execs DEF SoftwareAssumption
  <1> QED
    BY <1>1, NoIns, OneThen, Thens DEF Tag

GVerify == Then(A!Setst("Verify", "B", BlockUnits), Tag("B"))
GTail(j) == IF j.dec THEN Start("DTF", "C", GVerify) ELSE Start("ETF", "C", Tag("C"))
GRest(j) == Rest(j.text, LastSt(j), GTail(j))
GBody(j) == Body(j.text, GRest(j))
GText(j) == Start(TextSt(j), "A", GBody(j))
GAad(j) == Feed(j.aad, GText(j))
GGiven(j) == Then(A!Exec("B", A!pad16(j.iv), 0), GAad(j))
GBegin(k, j) == IF k = "GCM" THEN Then(A!Setst("SAV", "B", j.iv), GGiven(j)) ELSE Start("Absorb", "A", GAad(j))

\* What is left of a program of GCM is a sequence of instructions.
LEMMA GSeqs ==
  ASSUME SoftwareAssumption, NEW j, Lengths(j)
  PROVE  /\ GVerify \in Seqs /\ GTail(j) \in Seqs /\ GRest(j) \in Seqs /\ GBody(j) \in Seqs
         /\ GText(j) \in Seqs /\ GAad(j) \in Seqs /\ GGiven(j) \in Seqs
  <1>1. BlockUnits \in Int /\ j.iv \in Nat /\ j.aad \in Nat /\ j.text \in Nat
    BY DEF SoftwareAssumption, Lengths
  <1>2. GVerify \in Seqs
    <2>1. A!Setst("Verify", "B", BlockUnits) \in Ins
      BY <1>1, Setsts DEF Names, Forms
    <2> QED
      BY <2>1, Tags, Thens DEF GVerify, Names, Forms
  <1>3. GTail(j) \in Seqs
    BY <1>2, Starts, Tags DEF GTail, Names, Forms
  <1>4. GRest(j) \in Seqs
    BY <1>1, <1>3, Rests DEF GRest, LastSt, Names
  <1>5. GBody(j) \in Seqs
    BY <1>1, <1>4, Bodies DEF GBody
  <1>6. GText(j) \in Seqs
    BY <1>5, Starts DEF GText, TextSt, Names, Forms
  <1>7. GAad(j) \in Seqs
    BY <1>1, <1>6, Feeds DEF GAad
  <1>8. A!Exec("B", A!pad16(j.iv), 0) \in Ins
    <2>1. A!pad16(j.iv) \in Nat
      BY <1>1, Pieces
    <2> QED
      BY <2>1, Execs DEF Forms
  <1>9. GGiven(j) \in Seqs
    BY <1>7, <1>8, Thens DEF GGiven
  <1> QED
    BY <1>2, <1>3, <1>4, <1>5, <1>6, <1>7, <1>9

\* A program of GCM is its beginning and all that comes then.
LEMMA GPrograms ==
  ASSUME SoftwareAssumption, NEW j, Lengths(j), NEW k, k \in {"GCM", "GCM_IV"}
  PROVE  A!Program(k, j) = GBegin(k, j)
  <1>1. BlockUnits \in Int /\ j.iv \in Nat /\ j.aad \in Nat /\ j.text \in Nat
    BY DEF SoftwareAssumption, Lengths
  <1> DEFINE a == A!GiveIV(k, j)
             b == A!feed(j.aad)
             c == <<A!Setst(TextSt(j), "A", 0)>>
             d == A!_body(j.text)
             e == A!rest(j.text, LastSt(j))
             f == IF j.dec THEN <<A!Setst("DTF", "C", 0), A!Setst("Verify", "B", BlockUnits), A!Exec("B", BlockUnits, 0)>>
                  ELSE <<A!Setst("ETF", "C", 0), A!Exec("C", BlockUnits, 0)>>
  <1>2. A!Program(k, j) = Join(Join(Join(Join(Join(a, b), c), d), e), f)
    <2>1. A!Program(k, j) = IF j.dec THEN A!gcm_dec(k, j) ELSE A!gcm_enc(k, j)
      BY DEF A!Program, A!A!Family
    <2>2. CASE j.dec
      BY <2>1, <2>2 DEF A!gcm_dec, A!A!FullTag, TextSt, LastSt, Join
    <2>3. CASE ~ j.dec
      BY <2>1, <2>3 DEF A!gcm_enc, A!A!FullTag, TextSt, LastSt, Join
    <2> QED
      BY <2>2, <2>3
  <1>3. f = GTail(j)
    <2>1. /\ A!Setst("DTF", "C", 0) \in Ins /\ A!Setst("Verify", "B", BlockUnits) \in Ins /\ A!Setst("ETF", "C", 0) \in Ins
          /\ A!Exec("B", BlockUnits, 0) \in Ins /\ A!Exec("C", BlockUnits, 0) \in Ins
      BY <1>1, Setsts, Execs DEF Names, Forms
    <2> DEFINE p == A!Setst("DTF", "C", 0)
               q == A!Setst("Verify", "B", BlockUnits)
               x == A!Exec("B", BlockUnits, 0)
               y == A!Setst("ETF", "C", 0)
               z == A!Exec("C", BlockUnits, 0)
    <2>2. f = (IF j.dec THEN <<p, q, x>> ELSE <<y, z>>) /\ GTail(j) = IF j.dec THEN Then(p, Then(q, Then(x, <<>>))) ELSE Then(y, Then(z, <<>>))
      BY DEF GTail, GVerify, Start, Tag
    <2>3. p \in Ins /\ q \in Ins /\ x \in Ins /\ y \in Ins /\ z \in Ins
      BY <2>1
    <2> HIDE DEF f, p, q, x, y, z
    <2>4. <<y, z>> = Then(y, Then(z, <<>>))
      BY <2>3, NoIns, TwoThen
    <2>5. <<p, q, x>> = Join(<<p, q>>, <<x>>)
      BY DEF Join
    <2>6. <<x>> \in Seqs /\ <<x>> = Then(x, <<>>)
      BY <2>3, NoIns, OneThen
    <2>7. Join(<<p, q>>, <<x>>) = Then(p, Then(q, <<x>>))
      BY <2>3, <2>6, TwoThen
    <2> QED
      BY <2>2, <2>4, <2>5, <2>6, <2>7
  <1>4. /\ b \in Seqs /\ c \in Seqs /\ d \in Seqs /\ e \in Seqs /\ f \in Seqs
        /\ Join(e, f) = GRest(j) /\ Join(d, GRest(j)) = GBody(j) /\ Join(c, GBody(j)) = GText(j) /\ Join(b, GText(j)) = GAad(j)
    <2>1. e \in Seqs /\ Join(e, GTail(j)) = GRest(j)
      BY <1>1, GSeqs, Rests DEF GRest, LastSt, Names
    <2>2. d \in Seqs /\ Join(d, GRest(j)) = GBody(j)
      BY <1>1, GSeqs, Bodies DEF GBody
    <2>3. A!Setst(TextSt(j), "A", 0) \in Ins
      BY Setsts DEF TextSt, Names, Forms
    <2>4. c \in Seqs /\ Join(c, GBody(j)) = GText(j)
      BY <2>3, GSeqs, OneThen DEF GText, Start
    <2>5. b \in Seqs /\ Join(b, GText(j)) = GAad(j)
      BY <1>1, GSeqs, Feeds DEF GAad
    <2>6. f \in Seqs
      BY <1>3, GSeqs
    <2> QED
      BY <1>3, <2>1, <2>2, <2>4, <2>5, <2>6
  <1>5. a \in Seqs /\ Join(a, GAad(j)) = GBegin(k, j)
    <2> DEFINE p == A!Setst("SAV", "B", j.iv)
               q == A!Exec("B", A!pad16(j.iv), 0)
               x == A!Setst("Absorb", "A", 0)
    <2>1. p \in Ins /\ x \in Ins
      BY <1>1, Setsts DEF Names, Forms
    <2>2. q \in Ins
      <3>1. A!pad16(j.iv) \in Nat
        BY <1>1, Pieces
      <3> QED
        BY <3>1, Execs DEF Forms
    <2>3. a = IF k = "GCM" THEN <<p, q>> ELSE <<x>>
      BY DEF A!GiveIV
    <2>4. GBegin(k, j) = IF k = "GCM" THEN Then(p, Then(q, GAad(j))) ELSE Then(x, GAad(j))
      BY DEF GBegin, GGiven, Start
    <2>5. GAad(j) \in Seqs
      BY GSeqs
    <2> HIDE DEF a, p, q, x
    <2> QED
      BY <2>1, <2>2, <2>3, <2>4, <2>5, OneThen, TwoThen
  <1>6. Join(Join(Join(Join(Join(a, b), c), d), e), f) = Join(a, Join(b, Join(c, Join(d, Join(e, f)))))
    <2> HIDE DEF a, b, c, d, e, f
    <2> QED
      BY <1>4, <1>5, FromRight6
  <1> HIDE DEF a, b, c, d, e, f
  <1> QED
    BY <1>2, <1>4, <1>5, <1>6

STail(j) == IF j.dec THEN Tag("B") ELSE <<>>
SRest(j) == IF j.dec /\ j.text % BlockUnits = 0 THEN Start("DTF", "A", Tag("B")) ELSE Rest(j.text, LastSt(j), STail(j))
SBody(j) == Body(j.text, SRest(j))
STag(j) == Then(A!Exec("A", BlockUnits, 0), SBody(j))
SSeal(j) == Start("ETF", "A", STag(j))
SText(j) == IF j.dec THEN Start("Dec", "A", SBody(j)) ELSE Feed(j.text, SSeal(j))
SAad(j) == Feed(j.aad, SText(j))
SAbsorb(j) == Start("Absorb", "A", SAad(j))
SSav(j) == IF j.dec THEN Start("SAV2", "C", SAbsorb(j)) ELSE SAbsorb(j)
SBegin(j) == Start("SAV", "C", SSav(j))

\* What is left of a program of GCM-SIV is a sequence of instructions.
LEMMA SSeqs ==
  ASSUME SoftwareAssumption, NEW j, Lengths(j)
  PROVE  /\ STail(j) \in Seqs /\ SRest(j) \in Seqs /\ SBody(j) \in Seqs /\ STag(j) \in Seqs /\ SSeal(j) \in Seqs
         /\ SText(j) \in Seqs /\ SAad(j) \in Seqs /\ SAbsorb(j) \in Seqs /\ SSav(j) \in Seqs
  <1>1. BlockUnits \in Int /\ j.iv \in Nat /\ j.aad \in Nat /\ j.text \in Nat
    BY DEF SoftwareAssumption, Lengths
  <1>2. STail(j) \in Seqs /\ Start("DTF", "A", Tag("B")) \in Seqs
    BY NoIns, Tags, Starts DEF STail, Names, Forms
  <1>3. SRest(j) \in Seqs
    BY <1>1, <1>2, Rests DEF SRest, LastSt, Names
  <1>4. SBody(j) \in Seqs
    BY <1>1, <1>3, Bodies DEF SBody
  <1>5. STag(j) \in Seqs
    <2>1. A!Exec("A", BlockUnits, 0) \in Ins
      BY <1>1, Execs DEF Forms
    <2> QED
      BY <1>4, <2>1, Thens DEF STag
  <1>6. SSeal(j) \in Seqs
    BY <1>5, Starts DEF SSeal, Names, Forms
  <1>7. SText(j) \in Seqs
    BY <1>1, <1>4, <1>6, Starts, Feeds DEF SText, Names, Forms
  <1>8. SAad(j) \in Seqs
    BY <1>1, <1>7, Feeds DEF SAad
  <1>9. SAbsorb(j) \in Seqs
    BY <1>8, Starts DEF SAbsorb, Names, Forms
  <1>10. SSav(j) \in Seqs
    BY <1>9, Starts DEF SSav, Names, Forms
  <1> QED
    BY <1>2, <1>3, <1>4, <1>5, <1>6, <1>7, <1>8, <1>9, <1>10

\* A program of GCM-SIV is its beginning and all that comes then.
LEMMA SPrograms ==
  ASSUME SoftwareAssumption, NEW j, Lengths(j)
  PROVE  A!Program("GCMSIV", j) = SBegin(j)
  <1>1. BlockUnits \in Int /\ j.iv \in Nat /\ j.aad \in Nat /\ j.text \in Nat
    BY DEF SoftwareAssumption, Lengths
  <1> DEFINE x1 == A!Setst("SAV", "C", 0)
             x2 == A!Setst("SAV2", "C", 0)
             x3 == A!Setst("Absorb", "A", 0)
             x4 == A!Setst("ETF", "A", 0)
             x5 == A!Setst("Dec", "A", 0)
             x6 == A!Setst("DTF", "A", 0)
             y1 == A!Exec("A", BlockUnits, 0)
             y2 == A!Exec("B", BlockUnits, 0)
             b == A!feed(j.aad)
             d == A!_body(j.text)
             e == A!rest(j.text, LastSt(j))
             t == A!feed(j.text)
  <1>2. x1 \in Ins /\ x2 \in Ins /\ x3 \in Ins /\ x4 \in Ins /\ x5 \in Ins /\ x6 \in Ins /\ y1 \in Ins /\ y2 \in Ins
    BY <1>1, Setsts, Execs DEF Names, Forms
  <1>3. /\ b \in Seqs /\ Join(b, SText(j)) = SAad(j) /\ d \in Seqs /\ Join(d, SRest(j)) = SBody(j)
        /\ t \in Seqs /\ Join(t, SSeal(j)) = Feed(j.text, SSeal(j)) /\ e \in Seqs /\ Join(e, STail(j)) = Rest(j.text, LastSt(j), STail(j))
    <2>1. LastSt(j) \in Names
      BY DEF LastSt, Names
    <2>2. b \in Seqs /\ Join(b, SText(j)) = SAad(j)
      BY <1>1, SSeqs, Feeds DEF SAad
    <2>3. d \in Seqs /\ Join(d, SRest(j)) = SBody(j)
      BY <1>1, SSeqs, Bodies DEF SBody
    <2>4. t \in Seqs /\ Join(t, SSeal(j)) = Feed(j.text, SSeal(j))
      BY <1>1, SSeqs, Feeds
    <2>5. e \in Seqs /\ Join(e, STail(j)) = Rest(j.text, LastSt(j), STail(j))
      BY <1>1, <2>1, SSeqs, Rests
    <2> QED
      BY <2>2, <2>3, <2>4, <2>5
  <1>4. /\ SBegin(j) = Then(x1, SSav(j)) /\ SSav(j) = (IF j.dec THEN Then(x2, SAbsorb(j)) ELSE SAbsorb(j)) /\ SAbsorb(j) = Then(x3, SAad(j))
        /\ SText(j) = IF j.dec THEN Then(x5, SBody(j)) ELSE Feed(j.text, SSeal(j))
        /\ SSeal(j) = Then(x4, STag(j)) /\ STag(j) = Then(y1, SBody(j))
        /\ SRest(j) = IF j.dec /\ j.text % BlockUnits = 0 THEN Then(x6, Then(y2, <<>>)) ELSE Rest(j.text, LastSt(j), STail(j))
        /\ STail(j) = IF j.dec THEN Then(y2, <<>>) ELSE <<>>
    BY DEF SBegin, SSav, SAbsorb, SText, SSeal, STag, SRest, STail, Start, Tag
  <1>5. CASE ~ j.dec
    <2> DEFINE a == <<x1, x3>>
               f == <<x4, y1>>
    <2>1. A!Program("GCMSIV", j) = Join(Join(Join(Join(Join(a, b), t), f), d), e)
      <3>1. A!Program("GCMSIV", j) = A!siv_enc(j)
        BY <1>5 DEF A!Program, A!A!Family
      <3> QED
        BY <1>5, <3>1 DEF A!siv_enc, A!A!FullTag, LastSt, Join
    <2> HIDE DEF b, d, e, t, x1, x2, x3, x4, x5, x6, y1, y2
    <2>2. a \in Seqs /\ f \in Seqs /\ Join(f, SBody(j)) = SSeal(j) /\ Join(a, SAad(j)) = SBegin(j)
      BY <1>2, <1>4, <1>5, SSeqs, TwoThen
    <2>3. e = SRest(j)
      <3>1. Join(e, <<>>) = e
        BY <1>3, JoinNothing
      <3> QED
        BY <1>3, <1>4, <1>5, <3>1
    <2> HIDE DEF a, f
    <2>4. Join(Join(Join(Join(Join(a, b), t), f), d), e) = Join(a, Join(b, Join(t, Join(f, Join(d, e)))))
      BY <1>3, <2>2, FromRight6
    <2> QED
      BY <1>3, <1>4, <1>5, <2>1, <2>2, <2>3, <2>4
  <1>6. CASE j.dec
    <2> DEFINE a == <<x1, x2, x3>>
               c == <<x5>>
               f == IF j.text % BlockUnits # 0 THEN e ELSE <<x6>>
               g == <<y2>>
    <2>1. A!Program("GCMSIV", j) = Join(Join(Join(Join(Join(a, b), c), d), f), g)
      <3>1. A!Program("GCMSIV", j) = A!siv_dec(j)
        BY <1>6 DEF A!Program, A!A!Family
      <3> QED
        BY <1>6, <3>1 DEF A!siv_dec, A!A!FullTag, LastSt, Join
    <2>2. a = Join(<<x1, x2>>, <<x3>>)
      BY DEF Join
    <2>3. LET u == <<x3>> IN u \in Seqs /\ Join(u, SAad(j)) = SAbsorb(j)
      <3> HIDE DEF x3
      <3> QED
        BY <1>2, <1>4, SSeqs, OneThen
    <2>4. LET v == <<x1, x2>> IN v \in Seqs /\ Join(v, SAbsorb(j)) = SBegin(j)
      <3> HIDE DEF x1, x2
      <3> QED
        BY <1>2, <1>4, <1>6, SSeqs, TwoThen
    <2> HIDE DEF b, d, e, t, x1, x2, x3, x4, x5, x6, y1, y2
    <2>5. a \in Seqs /\ Join(a, SAad(j)) = SBegin(j)
      <3> DEFINE u == <<x3>>
                 v == <<x1, x2>>
      <3>1. a = Join(v, u) /\ u \in Seqs /\ v \in Seqs /\ Join(u, SAad(j)) = SAbsorb(j) /\ Join(v, SAbsorb(j)) = SBegin(j)
        BY <2>2, <2>3, <2>4
      <3>2. SAad(j) \in Seqs
        BY SSeqs
      <3> HIDE DEF u, v, a
      <3>3. Join(v, u) \in Seqs /\ Join(Join(v, u), SAad(j)) = Join(v, Join(u, SAad(j)))
        BY <3>1, <3>2, Joins
      <3> QED
        BY <3>1, <3>3
    <2>6. g \in Seqs /\ g = STail(j) /\ c \in Seqs /\ Join(c, SBody(j)) = SText(j)
      BY <1>2, <1>4, <1>6, SSeqs, NoIns, OneThen
    <2>7. f \in Seqs /\ Join(f, g) = SRest(j)
      <3>1. CASE j.text % BlockUnits # 0
        BY <1>3, <1>4, <2>6, <3>1
      <3>2. CASE j.text % BlockUnits = 0
        <4>1. f = <<x6>>
          BY <3>2
        <4>2. g = Then(y2, <<>>) /\ SRest(j) = Then(x6, g)
          BY <1>4, <1>6, <2>6, <3>2
        <4> HIDE DEF g
        <4> QED
          BY <1>2, <2>6, <4>1, <4>2, OneThen
      <3> QED
        BY <3>1, <3>2
    <2> HIDE DEF a, c, f, g
    <2>8. Join(Join(Join(Join(Join(a, b), c), d), f), g) = Join(a, Join(b, Join(c, Join(d, Join(f, g)))))
      <3>1. a \in Seqs /\ b \in Seqs /\ c \in Seqs /\ d \in Seqs /\ f \in Seqs /\ g \in Seqs
        BY <1>3, <2>5, <2>6, <2>7
      <3> QED
        BY <3>1, FromRight6
    <2> QED
      BY <1>3, <2>1, <2>5, <2>6, <2>7, <2>8
  <1> QED
    BY <1>5, <1>6

NextSt(j) == IF j.dec THEN "Verify" ELSE "ETF"
OTag(j) == Tag(IF j.dec THEN "B" ELSE "C")
OFinal(j) ==
  IF j.text % BlockUnits # 0 THEN Then(A!Exec("A", BlockUnits, j.text % BlockUnits), OTag(j))
  ELSE IF j.via THEN Start(NextSt(j), "A", OTag(j)) ELSE Then(A!Exec("D", 0, 0), OTag(j))
ORest(j) == Then(A!Setst(LastSt(j), "B", j.text % BlockUnits), OFinal(j))
OBody(j) == Body(j.text, ORest(j))
OText(j) == Start(TextSt(j), "A", OBody(j))
OPiece(j) == IF j.aad % BlockUnits # 0 THEN Then(A!Exec("B", BlockUnits, 0), OText(j)) ELSE OText(j)
OLast(j) == Then(A!Setst("Last", "B", j.aad % BlockUnits), OPiece(j))
OAad(j) == IF j.aad >= BlockUnits THEN Then(A!Exec("B", j.aad - (j.aad % BlockUnits), 0), OLast(j)) ELSE OLast(j)
OAbsorb(j) == Then(A!Setst("Absorb", "B", BlockUnits), OAad(j))
OGiven(j) == Then(A!Exec("B", BlockUnits, 0), OAbsorb(j))
OBegin(k, j) == IF k = "OCB" THEN Then(A!Setst("SAV", "B", j.iv), OGiven(j)) ELSE OAbsorb(j)

\* The instructions of OCB.
LEMMA OIns ==
  ASSUME SoftwareAssumption, NEW j, Lengths(j)
  PROVE  /\ A!Exec("A", BlockUnits, j.text % BlockUnits) \in Ins /\ A!Exec("D", 0, 0) \in Ins
         /\ A!Setst(LastSt(j), "B", j.text % BlockUnits) \in Ins /\ A!Setst(NextSt(j), "A", 0) \in Ins
         /\ A!Setst(TextSt(j), "A", 0) \in Ins /\ A!Exec("B", BlockUnits, 0) \in Ins /\ A!Exec("C", BlockUnits, 0) \in Ins
         /\ A!Setst("Last", "B", j.aad % BlockUnits) \in Ins /\ A!Exec("B", j.aad - (j.aad % BlockUnits), 0) \in Ins
         /\ A!Setst("Absorb", "B", BlockUnits) \in Ins /\ A!Setst("SAV", "B", j.iv) \in Ins
  <1>1. BlockUnits \in Int /\ j.iv \in Int /\ j.aad \in Nat /\ j.text \in Nat
    BY DEF SoftwareAssumption, Lengths
  <1>2. j.text % BlockUnits \in Int /\ j.aad % BlockUnits \in Int /\ j.aad - (j.aad % BlockUnits) \in Int
    <2>1. j.text % BlockUnits \in 0..BlockUnits - 1 /\ j.aad % BlockUnits \in 0..BlockUnits - 1
      BY <1>1, Units
    <2> QED
      BY <1>1, <2>1
  <1>3. LastSt(j) \in Names /\ NextSt(j) \in Names /\ TextSt(j) \in Names
    BY DEF LastSt, NextSt, TextSt, Names
  <1>4. "A" \in Forms /\ "B" \in Forms /\ "C" \in Forms /\ "D" \in Forms /\ "Last" \in Names /\ "Absorb" \in Names /\ "SAV" \in Names
    BY DEF Forms, Names
  <1> QED
    BY <1>1, <1>2, <1>3, <1>4, Setsts, Execs

\* What is left of a program of OCB is a sequence of instructions.
LEMMA OSeqs ==
  ASSUME SoftwareAssumption, NEW j, Lengths(j)
  PROVE  /\ OTag(j) \in Seqs /\ OFinal(j) \in Seqs /\ ORest(j) \in Seqs /\ OBody(j) \in Seqs /\ OText(j) \in Seqs
         /\ OPiece(j) \in Seqs /\ OLast(j) \in Seqs /\ OAad(j) \in Seqs /\ OAbsorb(j) \in Seqs /\ OGiven(j) \in Seqs
  <1>1. j.text \in Nat
    BY DEF Lengths
  <1>2. OTag(j) \in Seqs
    BY Tags DEF OTag, Forms
  <1>3. OFinal(j) \in Seqs
    BY <1>2, OIns, Thens DEF OFinal, Start
  <1>4. ORest(j) \in Seqs
    BY <1>3, OIns, Thens DEF ORest
  <1>5. OBody(j) \in Seqs
    BY <1>1, <1>4, Bodies DEF OBody
  <1>6. OText(j) \in Seqs
    BY <1>5, OIns, Thens DEF OText, Start
  <1>7. OPiece(j) \in Seqs
    BY <1>6, OIns, Thens DEF OPiece
  <1>8. OLast(j) \in Seqs
    BY <1>7, OIns, Thens DEF OLast
  <1>9. OAad(j) \in Seqs
    BY <1>8, OIns, Thens DEF OAad
  <1>10. OAbsorb(j) \in Seqs
    BY <1>9, OIns, Thens DEF OAbsorb
  <1>11. OGiven(j) \in Seqs
    BY <1>10, OIns, Thens DEF OGiven
  <1> QED
    BY <1>2, <1>3, <1>4, <1>5, <1>6, <1>7, <1>8, <1>9, <1>10, <1>11

\* The three parts of a program of OCB: the nonce, the associated data, the text.
LEMMA OParts ==
  ASSUME SoftwareAssumption, NEW j, Lengths(j), NEW k
  PROVE  /\ A!GiveNonce(k, j) \in Seqs /\ Join(A!GiveNonce(k, j), OAad(j)) = OBegin(k, j)
         /\ A!ocb_aad(j.aad) \in Seqs /\ Join(A!ocb_aad(j.aad), OText(j)) = OAad(j)
         /\ A!OcbText(j, TextSt(j), LastSt(j), NextSt(j)) \in Seqs
         /\ Join(A!OcbText(j, TextSt(j), LastSt(j), NextSt(j)), OTag(j)) = OText(j)
  <1> DEFINE x1 == A!Setst("SAV", "B", j.iv)
             x2 == A!Exec("B", BlockUnits, 0)
             x3 == A!Setst("Absorb", "B", BlockUnits)
             y1 == A!Exec("B", j.aad - (j.aad % BlockUnits), 0)
             y2 == A!Setst("Last", "B", j.aad % BlockUnits)
             z1 == A!Setst(TextSt(j), "A", 0)
             z2 == A!Setst(LastSt(j), "B", j.text % BlockUnits)
             z3 == A!Exec("A", BlockUnits, j.text % BlockUnits)
             z4 == A!Setst(NextSt(j), "A", 0)
             z5 == A!Exec("D", 0, 0)
  <1>1. x1 \in Ins /\ x2 \in Ins /\ x3 \in Ins /\ y1 \in Ins /\ y2 \in Ins /\ z1 \in Ins /\ z2 \in Ins /\ z3 \in Ins /\ z4 \in Ins /\ z5 \in Ins
    BY OIns
  <1>2. A!GiveNonce(k, j) \in Seqs /\ Join(A!GiveNonce(k, j), OAad(j)) = OBegin(k, j)
    <2> DEFINE a == IF k = "OCB" THEN <<x1, x2>> ELSE <<>>
               b == <<x3>>
    <2>1. A!GiveNonce(k, j) = Join(a, b)
      BY DEF A!GiveNonce, A!When, A!A!FullTag, Join
    <2>2. OBegin(k, j) = (IF k = "OCB" THEN Then(x1, Then(x2, OAbsorb(j))) ELSE OAbsorb(j)) /\ OAbsorb(j) = Then(x3, OAad(j))
      BY DEF OBegin, OGiven, OAbsorb
    <2> HIDE DEF x1, x2, x3
    <2>3. a \in Seqs /\ b \in Seqs /\ Join(b, OAad(j)) = OAbsorb(j) /\ Join(a, OAbsorb(j)) = OBegin(k, j)
      BY <1>1, <2>2, OSeqs, NoIns, OneThen, TwoThen
    <2>4. OAad(j) \in Seqs
      BY OSeqs
    <2> HIDE DEF a, b
    <2>5. Join(a, b) \in Seqs /\ Join(Join(a, b), OAad(j)) = Join(a, Join(b, OAad(j)))
      BY <2>3, <2>4, Joins
    <2> QED
      BY <2>1, <2>3, <2>5
  <1>3. A!ocb_aad(j.aad) \in Seqs /\ Join(A!ocb_aad(j.aad), OText(j)) = OAad(j)
    <2> DEFINE a == IF j.aad >= BlockUnits THEN <<y1>> ELSE <<>>
               b == <<y2>>
               c == IF j.aad % BlockUnits # 0 THEN <<x2>> ELSE <<>>
    <2>1. A!ocb_aad(j.aad) = Join(Join(a, b), c)
      BY DEF A!ocb_aad, A!When, Join
    <2>2. /\ OAad(j) = (IF j.aad >= BlockUnits THEN Then(y1, OLast(j)) ELSE OLast(j)) /\ OLast(j) = Then(y2, OPiece(j))
          /\ OPiece(j) = IF j.aad % BlockUnits # 0 THEN Then(x2, OText(j)) ELSE OText(j)
      BY DEF OAad, OLast, OPiece
    <2> HIDE DEF y1, y2, x2
    <2>3. a \in Seqs /\ Join(a, OLast(j)) = OAad(j)
      BY <1>1, <2>2, OSeqs, NoIns, OneThen
    <2>4. b \in Seqs /\ Join(b, OPiece(j)) = OLast(j)
      BY <1>1, <2>2, OSeqs, OneThen
    <2>5. c \in Seqs /\ Join(c, OText(j)) = OPiece(j)
      BY <1>1, <2>2, OSeqs, NoIns, OneThen
    <2>6. OText(j) \in Seqs
      BY OSeqs
    <2> HIDE DEF a, b, c
    <2>7. Join(Join(Join(a, b), c), OText(j)) = Join(a, Join(b, Join(c, OText(j))))
      BY <2>3, <2>4, <2>5, <2>6, FromRight4
    <2>8. Join(a, b) \in Seqs
      BY <2>3, <2>4, Joins
    <2>9. Join(Join(a, b), c) \in Seqs
      BY <2>5, <2>8, Joins
    <2> QED
      BY <2>1, <2>3, <2>4, <2>5, <2>7, <2>9
  <1>4. /\ A!OcbText(j, TextSt(j), LastSt(j), NextSt(j)) \in Seqs
        /\ Join(A!OcbText(j, TextSt(j), LastSt(j), NextSt(j)), OTag(j)) = OText(j)
    <2> DEFINE a == <<z1>>
               b == A!_body(j.text)
               c == <<z2>>
               d == IF j.text % BlockUnits # 0 THEN <<z3>> ELSE IF j.via THEN <<z4>> ELSE <<z5>>
    <2>1. A!OcbText(j, TextSt(j), LastSt(j), NextSt(j)) = Join(Join(Join(a, b), c), d)
      BY DEF A!OcbText, Join
    <2>2. /\ OText(j) = Then(z1, OBody(j)) /\ ORest(j) = Then(z2, OFinal(j))
          /\ OFinal(j) = IF j.text % BlockUnits # 0 THEN Then(z3, OTag(j)) ELSE IF j.via THEN Then(z4, OTag(j)) ELSE Then(z5, OTag(j))
      BY DEF OText, ORest, OFinal, Start
    <2>3. b \in Seqs /\ Join(b, ORest(j)) = OBody(j)
      BY OSeqs, Bodies DEF OBody, Lengths
    <2> HIDE DEF z1, z2, z3, z4, z5
    <2>4. a \in Seqs /\ Join(a, OBody(j)) = OText(j)
      BY <1>1, <2>2, OSeqs, OneThen
    <2>5. c \in Seqs /\ Join(c, OFinal(j)) = ORest(j)
      BY <1>1, <2>2, OSeqs, OneThen
    <2>6. d \in Seqs /\ Join(d, OTag(j)) = OFinal(j)
      BY <1>1, <2>2, OSeqs, OneThen
    <2>7. OTag(j) \in Seqs
      BY OSeqs
    <2> HIDE DEF a, b, c, d
    <2>8. Join(a, b) \in Seqs /\ Join(c, d) \in Seqs
      BY <2>3, <2>4, <2>5, <2>6, Joins
    <2>9. Join(Join(a, b), c) \in Seqs
      BY <2>5, <2>8, Joins
    <2>10. Join(Join(Join(a, b), c), d) \in Seqs
      BY <2>6, <2>9, Joins
    <2>11. Join(Join(Join(Join(a, b), c), d), OTag(j)) = Join(Join(Join(a, b), c), Join(d, OTag(j)))
      BY <2>6, <2>7, <2>9, Joins
    <2>12. Join(Join(Join(a, b), c), OFinal(j)) = Join(a, Join(b, Join(c, OFinal(j))))
      <3>1. OFinal(j) \in Seqs
        BY OSeqs
      <3> QED
        BY <2>3, <2>4, <2>5, <3>1, FromRight4
    <2> QED
      BY <2>1, <2>3, <2>4, <2>5, <2>6, <2>10, <2>11, <2>12
  <1> QED
    BY <1>2, <1>3, <1>4

\* A program of OCB is its beginning and all that comes then.
LEMMA OPrograms ==
  ASSUME SoftwareAssumption, NEW j, Lengths(j), NEW k, k \in {"OCB", "OCB_NONCE"}
  PROVE  A!Program(k, j) = OBegin(k, j)
  <1> DEFINE a == A!GiveNonce(k, j)
             b == A!ocb_aad(j.aad)
             c == A!OcbText(j, TextSt(j), LastSt(j), NextSt(j))
             d == <<A!Exec(IF j.dec THEN "B" ELSE "C", BlockUnits, 0)>>
  <1>1. A!Program(k, j) = Join(Join(Join(a, b), c), d)
    <2>1. A!Program(k, j) = IF j.dec THEN A!ocb_dec(k, j) ELSE A!ocb_enc(k, j)
      BY DEF A!Program, A!A!Family
    <2>2. CASE j.dec
      BY <2>1, <2>2 DEF A!ocb_dec, A!A!FullTag, TextSt, LastSt, NextSt, Join
    <2>3. CASE ~ j.dec
      BY <2>1, <2>3 DEF A!ocb_enc, A!A!FullTag, TextSt, LastSt, NextSt, Join
    <2> QED
      BY <2>2, <2>3
  <1>2. d \in Seqs /\ d = OTag(j)
    BY Tags DEF OTag, Forms
  <1>3. a \in Seqs /\ b \in Seqs /\ c \in Seqs /\ Join(a, OAad(j)) = OBegin(k, j) /\ Join(b, OText(j)) = OAad(j) /\ Join(c, OTag(j)) = OText(j)
    BY OParts
  <1> HIDE DEF a, b, c, d
  <1>4. Join(Join(Join(a, b), c), d) = Join(a, Join(b, Join(c, d)))
    BY <1>2, <1>3, FromRight4
  <1> QED
    BY <1>1, <1>2, <1>3, <1>4

COut(j) == IF j.dec THEN GVerify ELSE Start("Output", "A", Tag("C"))
CFinal(j) == IF j.text > 0 THEN Then(A!Exec("B", BlockUnits, 0), COut(j)) ELSE COut(j)
CLast(j) == Then(A!Setst("Last", "B", j.text - A!Full(j.text)), CFinal(j))
CFeed(j) == IF A!Full(j.text) > 0 THEN Then(A!Exec("B", A!Full(j.text), 0), CLast(j)) ELSE CLast(j)
CBegin(j) == Start("Absorb", "A", CFeed(j))

\* The last block of a message is left for the final piece.
LEMMA Fulls ==
  ASSUME SoftwareAssumption, NEW n \in Nat
  PROVE  LET f == A!Full(n) IN
         /\ f \in Nat /\ f % BlockUnits = 0 /\ f <= n /\ n - f <= BlockUnits
         /\ n = 0 => f = 0 /\ n - f = 0 /\ A!Blocks(n) = 0
         /\ n # 0 => n - f # 0 /\ A!Blocks(n) = (f \div BlockUnits) + 1
  <1>1. BlockUnits \in Nat \ {0, 1}
    BY DEF SoftwareAssumption
  <1>2. CASE n = 0
    <2>1. A!Full(n) = 0 /\ A!Blocks(n) = 0
      BY <1>2, Pieces DEF A!Full
    <2> QED
      BY <1>1, <1>2, <2>1
  <1>3. CASE n # 0
    <2> DEFINE q == n \div BlockUnits
               s == n % BlockUnits
               k == IF s = 0 THEN q - 1 ELSE q
    <2>1. q \in Nat /\ s \in 0..BlockUnits - 1 /\ n = BlockUnits * q + s
      BY Units
    <2>2. A!Blocks(n) = (IF s = 0 THEN q ELSE q + 1) /\ (q = 0 <=> n < BlockUnits)
      BY Pieces
    <2> HIDE DEF q, s
    <2>3. k \in Nat /\ A!Blocks(n) = k + 1
      BY <1>1, <1>3, <2>1, <2>2
    <2>4. A!Full(n) = BlockUnits * k + 0
      BY <1>1, <1>3, <2>3 DEF A!Full
    <2>5. n - (BlockUnits * k + 0) \in 1..BlockUnits
      <3>1. CASE s = 0
        <4>1. q - 1 \in Nat /\ BlockUnits * q = BlockUnits * (q - 1) + BlockUnits
          BY <1>1, <2>1, <2>3, <3>1
        <4> QED
          BY <1>1, <2>1, <3>1, <4>1
      <3>2. CASE s # 0
        BY <1>1, <2>1, <3>2
      <3> QED
        BY <3>1, <3>2
    <2> HIDE DEF k
    <2>6. BlockUnits * k + 0 \in Nat /\ (BlockUnits * k + 0) % BlockUnits = 0 /\ (BlockUnits * k + 0) \div BlockUnits = k
      <3>1. k \in Nat /\ 0 \in 0..BlockUnits - 1 /\ BlockUnits * k + 0 \in Nat
        BY <1>1, <2>3
      <3> QED
        BY <3>1, Cut
    <2> QED
      BY <1>1, <1>3, <2>3, <2>4, <2>5, <2>6
  <1> QED
    BY <1>2, <1>3

\* What is left of a program of CMAC is a sequence of instructions.
LEMMA CSeqs ==
  ASSUME SoftwareAssumption, NEW j, Lengths(j)
  PROVE  /\ COut(j) \in Seqs /\ CFinal(j) \in Seqs /\ CLast(j) \in Seqs /\ CFeed(j) \in Seqs
         /\ A!Exec("B", BlockUnits, 0) \in Ins /\ A!Setst("Last", "B", j.text - A!Full(j.text)) \in Ins /\ A!Exec("B", A!Full(j.text), 0) \in Ins
  <1>1. j.text \in Nat
    BY DEF Lengths
  <1>2. A!Full(j.text) \in Int /\ j.text - A!Full(j.text) \in Int /\ BlockUnits \in Int
    <2>1. A!Full(j.text) \in Nat
      BY <1>1, Fulls
    <2> QED
      BY <1>1, <2>1 DEF SoftwareAssumption
  <1>3. A!Exec("B", BlockUnits, 0) \in Ins /\ A!Setst("Last", "B", j.text - A!Full(j.text)) \in Ins /\ A!Exec("B", A!Full(j.text), 0) \in Ins
    BY <1>2, Setsts, Execs DEF Names, Forms
  <1>4. COut(j) \in Seqs
    BY GSeqs, Tags, Starts DEF COut, Names, Forms
  <1>5. CFinal(j) \in Seqs
    BY <1>3, <1>4, Thens DEF CFinal
  <1>6. CLast(j) \in Seqs
    BY <1>3, <1>5, Thens DEF CLast
  <1>7. CFeed(j) \in Seqs
    BY <1>3, <1>6, Thens DEF CFeed
  <1> QED
    BY <1>3, <1>4, <1>5, <1>6, <1>7

\* A program of CMAC is its beginning and all that comes then.
LEMMA CPrograms ==
  ASSUME SoftwareAssumption, NEW j, Lengths(j)
  PROVE  A!Program("CMAC", j) = CBegin(j)
  <1> DEFINE x1 == A!Setst("Absorb", "A", 0)
             x2 == A!Exec("B", A!Full(j.text), 0)
             x3 == A!Setst("Last", "B", j.text - A!Full(j.text))
             x4 == A!Exec("B", BlockUnits, 0)
             y1 == A!Setst("Output", "A", 0)
             y2 == A!Exec("C", BlockUnits, 0)
             y3 == A!Setst("Verify", "B", BlockUnits)
             a == <<x1>>
             b == IF A!Full(j.text) > 0 THEN <<x2>> ELSE <<>>
             c == <<x3>>
             d == IF j.text > 0 THEN <<x4>> ELSE <<>>
             e == IF j.dec THEN <<y3, x4>> ELSE <<y1, y2>>
  <1>1. x1 \in Ins /\ x2 \in Ins /\ x3 \in Ins /\ x4 \in Ins /\ y1 \in Ins /\ y2 \in Ins /\ y3 \in Ins
    <2>1. x2 \in Ins /\ x3 \in Ins /\ x4 \in Ins
      BY CSeqs
    <2>2. BlockUnits \in Int
      BY DEF SoftwareAssumption
    <2> QED
      BY <2>1, <2>2, Setsts, Execs DEF Names, Forms
  <1>2. A!Program("CMAC", j) = Join(Join(Join(Join(a, b), c), d), e)
    <2>1. A!Program("CMAC", j) = IF j.dec THEN A!cmac_ver(j) ELSE A!cmac_gen(j)
      BY DEF A!Program, A!A!Family
    <2>2. CASE j.dec
      BY <2>1, <2>2 DEF A!cmac_ver, A!Message, A!When, A!A!FullTag, Join
    <2>3. CASE ~ j.dec
      BY <2>1, <2>3 DEF A!cmac_gen, A!Message, A!When, A!A!FullTag, Join
    <2> QED
      BY <2>2, <2>3
  <1>3. /\ CBegin(j) = Then(x1, CFeed(j)) /\ CFeed(j) = (IF A!Full(j.text) > 0 THEN Then(x2, CLast(j)) ELSE CLast(j))
        /\ CLast(j) = Then(x3, CFinal(j)) /\ CFinal(j) = (IF j.text > 0 THEN Then(x4, COut(j)) ELSE COut(j))
        /\ COut(j) = IF j.dec THEN Then(y3, Then(x4, <<>>)) ELSE Then(y1, Then(y2, <<>>))
    BY DEF CBegin, CFeed, CLast, CFinal, COut, GVerify, Start, Tag
  <1> HIDE DEF x1, x2, x3, x4, y1, y2, y3
  <1>4. a \in Seqs /\ Join(a, CFeed(j)) = CBegin(j)
    BY <1>1, <1>3, CSeqs, OneThen
  <1>5. b \in Seqs /\ Join(b, CLast(j)) = CFeed(j)
    BY <1>1, <1>3, CSeqs, NoIns, OneThen
  <1>6. c \in Seqs /\ Join(c, CFinal(j)) = CLast(j)
    BY <1>1, <1>3, CSeqs, OneThen
  <1>7. d \in Seqs /\ Join(d, COut(j)) = CFinal(j)
    BY <1>1, <1>3, CSeqs, NoIns, OneThen
  <1>8. e \in Seqs /\ e = COut(j)
    BY <1>1, <1>3, NoIns, TwoThen
  <1> HIDE DEF a, b, c, d, e
  <1>9. Join(Join(a, b), c) \in Seqs
    <2>1. Join(a, b) \in Seqs
      BY <1>4, <1>5, Joins
    <2> QED
      BY <1>6, <2>1, Joins
  <1>10. Join(Join(Join(Join(a, b), c), d), e) = Join(Join(Join(a, b), c), Join(d, e))
    BY <1>7, <1>8, <1>9, Joins
  <1>11. Join(Join(Join(a, b), c), CFinal(j)) = Join(a, Join(b, Join(c, CFinal(j))))
    <2>1. CFinal(j) \in Seqs
      BY CSeqs
    <2> QED
      BY <1>4, <1>5, <1>6, <2>1, FromRight4
  <1> QED
    BY <1>2, <1>4, <1>5, <1>6, <1>7, <1>8, <1>10, <1>11

-----------------------------------------------------------------------------
(* One instruction.                                                        *)

AFields == {"machine", "policy", "st", "ctr", "start", "lbl", "len", "base", "cumul", "tag", "hasN", "any", "all", "halted", "fed",
            "given", "used", "twice", "out"}
Still == [n |-> 0, pos |-> 0]
Fam(r) == A!A!Family[r.machine]
\* v is r but for the fields F.
But(v, r, F) == DOMAIN v = AFields /\ \A f \in AFields \ F : v[f] = r[f]

\* The Machines of each family.
LEMMA Families ==
  ASSUME SoftwareAssumption, NEW r, r.machine \in AEADs
  PROVE  /\ Fam(r) \in {"GCM", "GCMSIV", "OCB", "CMAC"}
         /\ Fam(r) = "GCM" <=> r.machine \in {"GCM", "GCM_IV"}
         /\ Fam(r) = "GCMSIV" <=> r.machine = "GCMSIV"
         /\ Fam(r) = "OCB" <=> r.machine \in {"OCB", "OCB_NONCE"}
         /\ Fam(r) = "CMAC" <=> r.machine = "CMAC"
  <1>1. r.machine \in {"GCM", "GCM_IV", "GCMSIV", "OCB", "OCB_NONCE", "CMAC"}
    BY DEF SoftwareAssumption
  <1> QED
    BY <1>1 DEF Fam, A!A!Family

\* A locker that a State was entered in.
EnteredOf(r, v, to, x) ==
  /\ DOMAIN v = AFields /\ v.st = to /\ v.halted = Still
  /\ v.machine = r.machine /\ v.policy = r.policy /\ v.start = r.start /\ v.tag = r.tag /\ (v.any <=> r.any)
  /\ v.len = (IF to = "SAV" THEN x ELSE r.len) /\ v.base = (IF to = "SAV" THEN 0 ELSE r.base)
  /\ v.cumul = (IF to = "SAV" THEN 0 ELSE r.cumul) /\ (v.hasN <=> to # "SAV" /\ r.hasN)
  /\ v.lbl = IF to \in A!A!Final THEN x ELSE r.lbl
  /\ v.all <=> IF to \in A!A!Final THEN Fam(r) = "CMAC" /\ x = 0 ELSE r.all
  /\ v.ctr = IF Fam(r) = "OCB" /\ to \in {"Absorb", "Enc", "Dec"} THEN 1 ELSE r.ctr
  /\ v.used = IF Fam(r) = "GCM" /\ to \in {"ETF", "DTF"} THEN r.used \cup {r.start} ELSE r.used

\* Entering a State changes what EnteredOf says, and no more.
LEMMA Entered ==
  ASSUME NEW r, DOMAIN r = AFields, NEW to, NEW x \in Nat
  PROVE  EnteredOf(r, A!A!_enter(r, to, x), to, x)
  <1> DEFINE v == A!A!_enter(r, to, x)
             t == [r EXCEPT !.st = to, !.halted = Still, !.out = "nothing"]
             a == Fam(r) = "CMAC" /\ x = 0
             b == r.twice \/ r.used \cap {r.start} # {}
             c == Fam(r) = "OCB" /\ to \in {"Absorb", "Enc", "Dec"}
  <1>1. t.st = to /\ t.halted = Still /\ But(t, r, {"st", "halted", "out"})
    BY DEF AFields, But
  <1>2. v = CASE to = "SAV" -> [t EXCEPT !.len = x, !.base = 0, !.cumul = 0, !.fed = 0, !.hasN = FALSE, !.given = FALSE]
              [] to \in A!A!Final -> [A!A!Announce(t, x) EXCEPT !.all = a]
              [] Fam(r) = "OCB" /\ to \in {"Absorb", "Enc", "Dec"} -> [t EXCEPT !.ctr = 1]
              [] Fam(r) = "GCM" /\ to \in {"ETF", "DTF"} -> A!A!Use(t, {r.start})
              [] OTHER -> t
    BY DEF A!A!_enter, Fam, A!A!NotHalted, Still
  <1> HIDE DEF t, v
  <1>3. /\ DOMAIN t = AFields /\ t.machine = r.machine /\ t.start = r.start /\ t.tag = r.tag /\ t.lbl = r.lbl /\ t.ctr = r.ctr /\ t.used = r.used
        /\ t.twice = r.twice /\ t.len = r.len /\ t.base = r.base /\ t.cumul = r.cumul /\ t.policy = r.policy
        /\ t.any = r.any /\ t.all = r.all /\ t.hasN = r.hasN
    BY <1>1 DEF AFields, But
  <1>4. CASE to = "SAV"
    <2>1. v = [t EXCEPT !.len = x, !.base = 0, !.cumul = 0, !.fed = 0, !.hasN = FALSE, !.given = FALSE]
      BY <1>2, <1>4 DEF A!A!Final
    <2>2. v.len = x /\ v.base = 0 /\ v.cumul = 0 /\ ~ v.hasN /\ But(v, t, {"len", "base", "cumul", "fed", "hasN", "given"})
      BY <1>3, <2>1 DEF AFields, But
    <2>3. v.lbl = t.lbl /\ v.all = t.all /\ v.ctr = t.ctr /\ v.used = t.used /\ v.st = t.st /\ v.halted = t.halted
      BY <2>2 DEF AFields, But
    <2>4. v.machine = t.machine /\ v.policy = t.policy /\ v.start = t.start /\ v.tag = t.tag /\ v.any = t.any /\ DOMAIN v = AFields
      BY <2>2 DEF AFields, But
    <2>5. to \notin A!A!Final \cup {"Absorb", "Enc", "Dec", "ETF", "DTF"}
      BY <1>4 DEF A!A!Final
    <2> QED
      BY <1>1, <1>3, <1>4, <2>2, <2>3, <2>4, <2>5 DEF EnteredOf, v
  <1>5. CASE to \in A!A!Final
    <2> DEFINE e == t.fed + (IF x > 0 /\ A!A!Absorbs(t) THEN 1 ELSE 0)
               w == [t EXCEPT !.lbl = x, !.fed = e]
    <2>1. v = [w EXCEPT !.all = a]
      BY <1>2, <1>5 DEF A!A!Final, A!A!Announce
    <2> HIDE DEF a, e
    <2>2. w.lbl = x /\ But(w, t, {"lbl", "fed"})
      BY <1>3 DEF AFields, But
    <2> HIDE DEF w
    <2>3. v.lbl = x /\ v.all = a /\ But(v, t, {"lbl", "fed", "all"})
      BY <2>1, <2>2 DEF AFields, But
    <2>4. v.len = t.len /\ v.base = t.base /\ v.cumul = t.cumul /\ v.hasN = t.hasN /\ v.ctr = t.ctr /\ v.used = t.used
      BY <2>3 DEF AFields, But
    <2>5. /\ v.machine = t.machine /\ v.policy = t.policy /\ v.start = t.start /\ v.tag = t.tag /\ v.any = t.any /\ DOMAIN v = AFields
          /\ v.st = t.st /\ v.halted = t.halted
      BY <2>3 DEF AFields, But
    <2>6. to \notin {"SAV", "Absorb", "Enc", "Dec", "ETF", "DTF"}
      BY <1>5 DEF A!A!Final
    <2>7. v.all <=> Fam(r) = "CMAC" /\ x = 0
      BY <2>3 DEF a
    <2> QED
      BY <1>1, <1>3, <1>5, <2>3, <2>4, <2>5, <2>6, <2>7 DEF EnteredOf, v
  <1>6. CASE Fam(r) = "GCM" /\ to \in {"ETF", "DTF"}
    <2>1. v = [t EXCEPT !.twice = b, !.used = @ \cup {r.start}]
      BY <1>2, <1>3, <1>6 DEF A!A!Final, A!A!Use
    <2> HIDE DEF b
    <2>2. v.used = t.used \cup {r.start} /\ But(v, t, {"twice", "used"})
      BY <1>3, <2>1 DEF AFields, But
    <2>3. v.len = t.len /\ v.base = t.base /\ v.cumul = t.cumul /\ v.hasN = t.hasN /\ v.ctr = t.ctr /\ v.lbl = t.lbl /\ v.all = t.all
      BY <2>2 DEF AFields, But
    <2>4. /\ v.machine = t.machine /\ v.policy = t.policy /\ v.start = t.start /\ v.tag = t.tag /\ v.any = t.any /\ DOMAIN v = AFields
          /\ v.st = t.st /\ v.halted = t.halted
      BY <2>2 DEF AFields, But
    <2>5. to \notin A!A!Final /\ to # "SAV"
      BY <1>6 DEF A!A!Final
    <2> QED
      BY <1>1, <1>3, <1>6, <2>2, <2>3, <2>4, <2>5 DEF EnteredOf, v
  <1>7. CASE to # "SAV" /\ to \notin A!A!Final /\ ~ (Fam(r) = "GCM" /\ to \in {"ETF", "DTF"})
    <2>1. v = IF c THEN [t EXCEPT !.ctr = 1] ELSE t
      BY <1>2, <1>7
    <2>2. v.ctr = (IF c THEN 1 ELSE t.ctr) /\ But(v, t, {"ctr"})
      BY <1>3, <2>1 DEF AFields, But
    <2>3. v.len = t.len /\ v.base = t.base /\ v.cumul = t.cumul /\ v.hasN = t.hasN /\ v.used = t.used /\ v.lbl = t.lbl /\ v.all = t.all
      BY <2>2 DEF AFields, But
    <2>4. /\ v.machine = t.machine /\ v.policy = t.policy /\ v.start = t.start /\ v.tag = t.tag /\ v.any = t.any /\ DOMAIN v = AFields
          /\ v.st = t.st /\ v.halted = t.halted
      BY <2>2 DEF AFields, But
    <2> QED
      BY <1>1, <1>3, <1>7, <2>2, <2>3, <2>4 DEF EnteredOf, v
  <1> QED
    BY <1>4, <1>5, <1>6, <1>7

\* kl.setst of an instruction: it is refused, or the State is entered.
Allowed(to, form, x) ==
  /\ <<m.st, to>> \in A!A!TRANS[m.machine] /\ A!A!_formok(A!A!SetForm(m, to), form)
  /\ A!A!_leave(m, to) /\ A!A!_enter_ok(m, to, x)
Lost == m' = A!A!Invalid(m.machine)
Sets(to, form, x, t) ==
  /\ IF Allowed(to, form, x) /\ A!A!GATE(to) \subseteq m.policy THEN EnteredOf(m, m', to, x) ELSE Lost
  /\ todo' = t /\ ks' = 0 /\ got' = got /\ job' = job /\ may' = may

\* What one kl.setst of a sequence does.
LEMMA Setting ==
  ASSUME DOMAIN m = AFields, m.st # "Invalid", NEW to \in Names, NEW form \in Forms, NEW x \in Nat, NEW t \in Seqs,
         todo = Then(A!Setst(to, form, x), t), A!SetstStep \/ \E h \in 0..BlockWindow, ok \in BOOLEAN : A!ExecStep(h, ok)
  PROVE  Sets(to, form, x, t)
  <1> DEFINE i == A!Setst(to, form, x)
  <1>1. i \in Ins /\ i.ins = "setst" /\ i.to = to /\ i.form = form /\ i.x = x
    BY Setsts DEF A!Setst
  <1> HIDE DEF i
  <1>2. Head(todo) = i /\ Tail(todo) = t
    BY <1>1, Thens DEF i
  <1>3. A!SetstStep
    BY <1>1, <1>2 DEF A!ExecStep
  <1>4. A!A!setst(to, form, x) /\ todo' = t /\ ks' = 0 /\ got' = got /\ job' = job /\ may' = may
    BY <1>1, <1>2, <1>3 DEF A!SetstStep
  <1>5. to # "Ready"
    BY DEF Names
  <1>6. IF Allowed(to, form, x) /\ A!A!GATE(to) \subseteq m.policy THEN m' = A!A!_enter(m, to, x) ELSE Lost
    BY <1>4, <1>5 DEF A!A!setst, Allowed, Lost
  <1>7. EnteredOf(m, A!A!_enter(m, to, x), to, x)
    BY Entered
  <1> QED
    BY <1>4, <1>6, <1>7 DEF Sets

\* kl.exec of an instruction over n units: it is halted, and goes on where it was, or it is over.
Quiet(r) == [r EXCEPT !.out = "nothing", !.halted = Still]
Goes(n, text, t) ==
  /\ IF m'.halted.pos # 0 THEN todo' = todo /\ ks' = m'.halted.pos ELSE todo' = t /\ ks' = 0
  /\ got' = IF m'.out # "text" THEN got ELSE got + (IF m'.halted.pos # 0 THEN m'.halted.pos ELSE text) - ks
  /\ job' = job /\ may' = may
Execs_(form, n, text, t, h, s, ok) ==
  m' = (IF A!A!MayRun(m) /\ form = A!A!EXF(m) THEN A!A!_exec(Quiet(m), n, ks, h, s, ok) ELSE A!A!Invalid(m.machine)) /\ Goes(n, text, t)

\* What one kl.exec of a sequence does.
LEMMA Executing ==
  ASSUME m.st # "Invalid", NEW form \in Forms, NEW n \in Nat, NEW text \in Int, NEW t \in Seqs, ks \in Nat, form = "D" \/ ks < n,
         todo = Then(A!Exec(form, n, text), t), A!SetstStep \/ \E h \in 0..BlockWindow, ok \in BOOLEAN : A!ExecStep(h, ok)
  PROVE  \E h \in 0..BlockWindow, ok \in BOOLEAN, s \in A!A!_finalize(m) : Execs_(form, n, text, t, h, s, ok)
  <1> DEFINE i == A!Exec(form, n, text)
  <1>1. i \in Ins /\ i.ins = "exec" /\ i.form = form /\ i.n = n /\ i.text = text
    BY Execs DEF A!Exec
  <1> HIDE DEF i
  <1>2. Head(todo) = i /\ Tail(todo) = t
    BY <1>1, Thens DEF i
  <1>3. PICK h \in 0..BlockWindow, ok \in BOOLEAN : A!ExecStep(h, ok)
    BY <1>1, <1>2 DEF A!SetstStep
  <1>4. A!A!exec(form, n, ks, h, ok) /\ Goes(n, text, t)
    BY <1>1, <1>2, <1>3 DEF A!ExecStep, A!Resume, Goes
  <1>5. \E s \in A!A!_finalize(m) :
          m' = IF A!A!MayRun(m) /\ form = A!A!EXF(m) THEN A!A!_exec(Quiet(m), n, ks, h, s, ok) ELSE A!A!Invalid(m.machine)
    <2>1. ~ (form # "D" /\ ks >= n /\ ~ A!A!NoExec(m))
      OBVIOUS
    <2>2. Quiet(m) = [m EXCEPT !.out = "nothing", !.halted = A!A!NotHalted]
      BY DEF Quiet, Still, A!A!NotHalted
    <2>3. CASE A!A!MayRun(m) /\ form = A!A!EXF(m)
      BY <1>4, <2>1, <2>2, <2>3 DEF A!A!exec
    <2>4. CASE ~ (A!A!MayRun(m) /\ form = A!A!EXF(m))
      <3>1. m' = A!A!Invalid(m.machine)
        BY <1>4, <2>4 DEF A!A!exec
      <3>2. A!A!_finalize(m) # {}
        <4>1. 0 \in 0..CM - 1
          BY SoftwareAssumption DEF SoftwareAssumption
        <4> QED
          BY <4>1 DEF A!A!_finalize
      <3> QED
        BY <2>4, <3>1, <3>2
    <2> QED
      BY <2>3, <2>4
  <1> QED
    BY <1>4, <1>5 DEF Execs_

-----------------------------------------------------------------------------
(* Counters.                                                               *)

\* A remainder is what is left of a multiple.
LEMMA ModIs ==
  ASSUME NEW k \in Nat \ {0}, NEW q \in Int, NEW y \in 0..k - 1
  PROVE  (k * q + y) % k = y
  <1> DEFINE x == k * q + y
  <1>1. x \in Int /\ x % k \in 0..k - 1 /\ x = k * (x \div k) + (x % k)
    OBVIOUS
  <1>2. (x \div k) = q
    <2> DEFINE p == x \div k
    <2>1. p \in Int
      BY <1>1
    <2>2. k * (p - q) = y - (x % k)
      BY <1>1, <2>1
    <2> HIDE DEF p
    <2>3. CASE p - q >= 1
      <3>1. k * (p - q) >= k
        BY <2>1, <2>3
      <3> QED
        BY <1>1, <2>2, <3>1
    <2>4. CASE q - p >= 1
      <3>1. k * (p - q) <= 0 - k
        BY <2>1, <2>4
      <3> QED
        BY <1>1, <2>2, <3>1
    <2> QED
      BY <2>1, <2>3, <2>4 DEF p
  <1> QED
    BY <1>1, <1>2

\* A sum need be reduced only once.
LEMMA ModSum ==
  ASSUME NEW k \in Nat \ {0}, NEW a \in Nat, NEW b \in Nat
  PROVE  a % k \in 0..k - 1 /\ ((a % k) + b) % k = (a + b) % k
  <1> DEFINE x == (a % k) + b
             q == a \div k
             p == x \div k
             y == x % k
  <1>1. a % k \in 0..k - 1 /\ q \in Int /\ a = k * q + (a % k)
    OBVIOUS
  <1>2. x \in Int /\ p \in Int /\ y \in 0..k - 1 /\ x = k * p + y
    BY <1>1
  <1>3. a + b = k * (p + q) + y
    BY <1>1, <1>2
  <1>4. (k * (p + q) + y) % k = y
    <2> HIDE DEF p, q, y
    <2>1. p + q \in Int
      BY <1>1, <1>2
    <2> QED
      BY <1>2, <2>1, ModIs
  <1> QED
    BY <1>1, <1>3, <1>4

\* A counter of GCM that wraps at most once, and how many are left before that of the tag.
LEMMA Left ==
  ASSUME SoftwareAssumption, NEW s \in 0..CM - 1, NEW k \in 0..CM - 2
  PROVE  (s - 2 - ((s + k) % CM)) % CM = CM - 2 - k /\ s % CM = s
  <1> DEFINE c == (s + k) % CM
             y == CM - 2 - k
  <1>1. CM \in Nat \ {0} /\ CM >= 3
    BY DEF SoftwareAssumption
  <1>2. c = IF s + k < CM THEN s + k ELSE s + k - CM
    <2>1. CASE s + k < CM
      <3>1. s + k \in 0..CM - 1 /\ s + k = CM * 0 + (s + k)
        BY <1>1, <2>1
      <3>2. (CM * 0 + (s + k)) % CM = s + k
        BY <1>1, <3>1, ModIs
      <3> QED
        BY <2>1, <3>1, <3>2
    <2>2. CASE ~ (s + k < CM)
      <3> DEFINE z == s + k - CM
      <3>1. z \in 0..CM - 1 /\ s + k = CM * 1 + z
        BY <1>1, <2>2
      <3>2. (CM * 1 + z) % CM = z
        BY <1>1, <3>1, ModIs
      <3> QED
        BY <2>2, <3>1, <3>2
    <2> QED
      BY <2>1, <2>2
  <1>3. y \in 0..CM - 1
    BY <1>1
  <1>4. (CM * 0 + y) % CM = y /\ (CM * (-1) + y) % CM = y /\ (CM * 0 + s) % CM = s
    BY <1>1, <1>3, ModIs
  <1> HIDE DEF c
  <1>5. s - 2 - c = CM * 0 + y \/ s - 2 - c = CM * (-1) + y
    <2>1. CASE s + k < CM
      <3>1. s - 2 - c = CM * (-1) + y
        BY <1>1, <1>2, <2>1
      <3> QED
        BY <3>1
    <2>2. CASE ~ (s + k < CM)
      <3>1. s - 2 - c = CM * 0 + y
        BY <1>1, <1>2, <2>2
      <3> QED
        BY <3>1
    <2> QED
      BY <2>1, <2>2
  <1>6. CM * 0 + s = s
    BY <1>1
  <1> HIDE DEF y
  <1>7. (s - 2 - c) % CM = y
    BY <1>4, <1>5
  <1> QED
    BY <1>4, <1>6, <1>7 DEF c, y

\* The counters of the c blocks after the one of the tag.
Nth(s, c) == (s + c) % CM
Taken(s, c) == {(s + i) % CM : i \in 1..c}
Follow(s, k, d) == Taken(s, k) \cup Taken(Nth(s, k), d) = Taken(s, k + d) /\ Nth(Nth(s, k), d) = Nth(s, k + d)

\* Counters that follow one another.
LEMMA After ==
  ASSUME SoftwareAssumption, NEW s \in 0..CM - 1, NEW k \in Nat, NEW d \in Nat
  PROVE  Follow(s, k, d)
  <1> DEFINE c == (s + k) % CM
             f(i) == (s + i) % CM
             new == {(c + i) % CM : i \in 1..d}
  <1>1. CM \in Nat \ {0} /\ s + k \in Nat
    BY DEF SoftwareAssumption
  <1>2. ASSUME NEW i \in Nat PROVE (c + i) % CM = f(k + i)
    <2>1. (((s + k) % CM) + i) % CM = (s + k + i) % CM
      BY <1>1, ModSum
    <2>2. s + k + i = s + (k + i)
      OBVIOUS
    <2> QED
      BY <2>1, <2>2
  <1> HIDE DEF f
  <1>3. new = {f(i) : i \in k + 1..k + d}
    <2>1. ASSUME NEW x \in new PROVE x \in {f(i) : i \in k + 1..k + d}
      <3>1. PICK i \in 1..d : x = (c + i) % CM
        BY <2>1
      <3>2. i \in Nat /\ k + i \in k + 1..k + d
        OBVIOUS
      <3>3. x = f(k + i)
        BY <1>2, <3>1, <3>2
      <3> QED
        BY <3>2, <3>3
    <2>2. ASSUME NEW j \in k + 1..k + d PROVE f(j) \in new
      <3>1. j - k \in 1..d /\ j - k \in Nat /\ k + (j - k) = j
        OBVIOUS
      <3>2. (c + (j - k)) % CM = f(k + (j - k))
        BY <1>2, <3>1
      <3>3. f(j) = (c + (j - k)) % CM
        BY <3>1, <3>2
      <3> QED
        BY <3>1, <3>3
    <2>3. ASSUME NEW x \in {f(i) : i \in k + 1..k + d} PROVE x \in new
      <3>1. PICK j \in k + 1..k + d : x = f(j)
        OBVIOUS
      <3> QED
        BY <2>2, <3>1
    <2> QED
      BY <2>1, <2>3
  <1> HIDE DEF new
  <1>4. {f(i) : i \in 1..k} \cup new = {f(i) : i \in 1..k + d}
    <2>1. 1..k + d = (1..k) \cup (k + 1..k + d)
      OBVIOUS
    <2> QED
      BY <1>3, <2>1
  <1>5. Taken(s, k) = {f(i) : i \in 1..k} /\ Taken(s, k + d) = {f(i) : i \in 1..k + d} /\ Taken(c, d) = new
    BY DEF Taken, f, new
  <1>6. (c + d) % CM = (s + (k + d)) % CM
    BY <1>2 DEF f
  <1> QED
    BY <1>4, <1>5, <1>6 DEF Nth, Follow

\* c blocks of a keystream, or of an index, have been used, of as many as there may be.
Limit(f) == CASE f = "GCM" -> CM - 2 [] f = "GCMSIV" -> CM [] OTHER -> MAX_BLOCKS
Counted(r, c) ==
  /\ c \in Nat /\ c <= Limit(Fam(r))
  /\ Fam(r) = "GCM" => r.start \in 0..CM - 1 /\ r.ctr = Nth(r.start, c) /\ r.used = Taken(r.start, c)
  /\ Fam(r) = "GCMSIV" => r.ctr = c /\ r.used = 0..c - 1
  /\ Fam(r) = "OCB" => r.ctr = c + 1
  /\ Fam(r) = "CMAC" => c = 0 /\ r.used = {}
SameCount(r, v) == v.machine = r.machine /\ v.start = r.start /\ v.ctr = r.ctr /\ v.used = r.used

\* A locker with the same counter has used as much of it.
LEMMA SameCounted ==
  ASSUME NEW r, NEW v, NEW c, Counted(r, c), SameCount(r, v)
  PROVE  Counted(v, c)
  BY DEF Counted, SameCount, Fam

\* A counter runs out where the limit of its family would be exceeded.
LEMMA Rooms ==
  ASSUME SoftwareAssumption, NEW r, r.machine \in AEADs, NEW c, Counted(r, c), NEW d \in Nat,
         Fam(r) = "CMAC" => ~ A!A!Keyed(r)
  PROVE  A!A!RunsOut(r, d) <=> A!A!Keyed(r) /\ c + d > Limit(Fam(r))
  <1>1. Fam(r) \in {"GCM", "GCMSIV", "OCB", "CMAC"}
    BY Families
  <1>2. c \in Nat /\ CM \in Nat /\ MAX_BLOCKS \in Nat
    BY DEF Counted, SoftwareAssumption
  <1>3. Fam(r) # "CMAC" => A!A!Room(r) = Limit(Fam(r)) - c
    <2>1. CASE Fam(r) = "GCM"
      <3>1. c \in 0..CM - 2 /\ r.start \in 0..CM - 1 /\ r.ctr = Nth(r.start, c)
        BY <1>2, <2>1 DEF Counted, Limit
      <3>2. (r.start - 2 - Nth(r.start, c)) % CM = CM - 2 - c
        BY <3>1, Left DEF Nth
      <3> QED
        BY <2>1, <3>1, <3>2 DEF A!A!Room, Fam, Limit
    <2>2. CASE Fam(r) = "GCMSIV"
      BY <2>2 DEF A!A!Room, Fam, Limit, Counted
    <2>3. CASE Fam(r) = "OCB"
      BY <1>2, <2>3 DEF A!A!Room, Fam, Limit, Counted
    <2> QED
      BY <1>1, <2>1, <2>2, <2>3
  <1>4. Limit(Fam(r)) \in Int
    BY <1>2 DEF Limit
  <1> QED
    BY <1>1, <1>2, <1>3, <1>4 DEF A!A!RunsOut

\* The index of OCB does not count a final block.
Grows(r) == A!A!Keyed(r) /\ ~ (Fam(r) = "OCB" /\ r.st \in A!A!Final)
More_(r, c, d) == IF Grows(r) THEN c + d ELSE c

\* Taking d blocks of a counter that does not run out: it counts them, and repeats none.
LEMMA Taking ==
  ASSUME SoftwareAssumption, NEW r, DOMAIN r = AFields, r.machine \in AEADs, NEW c, Counted(r, c), NEW d \in Nat,
         Fam(r) = "CMAC" => ~ A!A!Keyed(r), ~ A!A!RunsOut(r, d)
  PROVE  But(A!A!Take(r, d), r, {"ctr", "used", "twice"}) /\ Counted(A!A!Take(r, d), More_(r, c, d))
  <1> DEFINE v == A!A!Take(r, d)
             cs == A!A!Counters(r, d)
             e == IF Fam(r) = "GCM" THEN Nth(r.ctr, d) ELSE r.ctr + d
             b == r.twice \/ r.used \cap cs # {}
             used == r.used \cup cs
  <1>1. Fam(r) \in {"GCM", "GCMSIV", "OCB", "CMAC"} /\ c \in Nat /\ CM \in Nat \ {0} /\ MAX_BLOCKS \in Nat /\ Limit(Fam(r)) \in Int
    BY Families DEF Counted, SoftwareAssumption, Limit
  <1>2. CASE ~ Grows(r)
    <2>1. v = r
      BY <1>2 DEF Grows, A!A!Take, Fam
    <2> QED
      BY <1>2, <2>1 DEF But, More_
  <1>3. CASE Grows(r)
    <2>1. A!A!Keyed(r) /\ Fam(r) # "CMAC" /\ More_(r, c, d) = c + d /\ c + d \in Nat /\ c + d <= Limit(Fam(r))
      BY <1>1, <1>3, Rooms DEF Grows, More_
    <2>2. CASE Fam(r) = "OCB"
      <3>1. v = [r EXCEPT !.ctr = @ + d]
        BY <1>3, <2>2 DEF Grows, A!A!Take, Fam
      <3>2. v.ctr = r.ctr + d /\ But(v, r, {"ctr"})
        BY <3>1 DEF But, AFields
      <3> HIDE DEF v
      <3>3. But(v, r, {"ctr", "used", "twice"}) /\ v.machine = r.machine
        BY <3>2 DEF But, AFields
      <3>4. Fam(v) = "OCB"
        BY <2>2, <3>3 DEF Fam
      <3>5. v.ctr = c + d + 1
        BY <1>1, <2>2, <3>2 DEF Counted
      <3>6. Counted(v, More_(r, c, d))
        BY <2>1, <2>2, <3>4, <3>5 DEF Counted
      <3> QED
        BY <3>3, <3>6 DEF v
    <2>3. CASE Fam(r) # "OCB"
      <3>1. v = [A!A!Use(r, cs) EXCEPT !.ctr = IF Fam(r) = "GCM" THEN Nth(@, d) ELSE @ + d]
        BY <2>1, <2>3 DEF A!A!Take, Fam, Nth
      <3> DEFINE w == A!A!Use(r, cs)
      <3>2. w = [r EXCEPT !.twice = b, !.used = used]
        BY DEF A!A!Use
      <3> HIDE DEF cs, b, used, v, w
      <3>3. w.used = used /\ But(w, r, {"twice", "used"})
        BY <3>2 DEF But, AFields
      <3>4. w.ctr = r.ctr /\ DOMAIN w = AFields
        BY <3>3 DEF But, AFields
      <3>5. v = [w EXCEPT !.ctr = e]
        BY <3>1, <3>4 DEF w
      <3> HIDE DEF e
      <3>6. v.ctr = e /\ v.used = used /\ But(v, r, {"ctr", "used", "twice"})
        BY <3>3, <3>4, <3>5 DEF But, AFields
      <3>7. v.machine = r.machine /\ v.start = r.start
        BY <3>6 DEF But, AFields
      <3>8. Fam(v) = Fam(r)
        BY <3>7 DEF Fam
      <3>9. Counted(v, c + d)
        <4>1. CASE Fam(r) = "GCM"
          <5>1. r.start \in 0..CM - 1 /\ r.ctr = Nth(r.start, c) /\ r.used = Taken(r.start, c)
            BY <4>1 DEF Counted
          <5>2. cs = Taken(r.ctr, d)
            BY <4>1 DEF cs, A!A!Counters, Fam, Taken
          <5>3. /\ Taken(r.start, c) \cup Taken(r.ctr, d) = Taken(r.start, c + d)
                /\ Nth(r.ctr, d) = Nth(r.start, c + d)
            <6>1. c \in Nat /\ d \in Nat /\ r.start \in 0..CM - 1 /\ r.ctr = Nth(r.start, c)
              BY <1>1, <5>1
            <6>2. Follow(r.start, c, d)
              BY <6>1, After
            <6> QED
              BY <6>1, <6>2 DEF Follow
          <5>4. v.ctr = Nth(v.start, c + d) /\ v.used = Taken(v.start, c + d)
            BY <3>6, <3>7, <4>1, <5>1, <5>2, <5>3 DEF e, used
          <5> QED
            BY <2>1, <3>7, <3>8, <4>1, <5>1, <5>4 DEF Counted
        <4>2. CASE Fam(r) = "GCMSIV"
          <5>1. r.ctr = c /\ r.used = 0..c - 1 /\ c + d <= CM
            BY <2>1, <4>2 DEF Counted, Limit
          <5>2. cs = {(c + i) % CM : i \in 0..d - 1}
            BY <4>2, <5>1 DEF cs, A!A!Counters, Fam
          <5>3. \A i \in 0..d - 1 : (c + i) % CM = c + i
            <6> SUFFICES ASSUME NEW i \in 0..d - 1 PROVE (c + i) % CM = c + i
              OBVIOUS
            <6> DEFINE z == c + i
            <6>1. z \in 0..CM - 1 /\ z = CM * 0 + z
              BY <1>1, <5>1
            <6> HIDE DEF z
            <6>2. (CM * 0 + z) % CM = z
              BY <1>1, <6>1, ModIs
            <6>3. z % CM = z
              BY <6>1, <6>2
            <6> QED
              BY <6>3 DEF z
          <5>4. cs = {c + i : i \in 0..d - 1}
            BY <5>2, <5>3
          <5>5. \A x \in c..c + d - 1 : x - c \in 0..d - 1 /\ x = c + (x - c)
            BY <1>1
          <5>6. \A x : x \in cs <=> x \in c..c + d - 1
            <6>1. ASSUME NEW x \in cs PROVE x \in c..c + d - 1
              BY <1>1, <5>4
            <6>2. ASSUME NEW x \in c..c + d - 1 PROVE x \in cs
              BY <5>4, <5>5
            <6> QED
              BY <6>1, <6>2
          <5>7. (0..c - 1) \cup (c..c + d - 1) = 0..(c + d) - 1
            BY <1>1
          <5>8. v.ctr = c + d /\ v.used = 0..(c + d) - 1
            <6>1. cs = c..c + d - 1
              BY <5>6
            <6> QED
              BY <3>6, <4>2, <5>1, <5>7, <6>1 DEF e, used
          <5> QED
            BY <2>1, <3>8, <4>2, <5>8 DEF Counted
        <4> QED
          BY <1>1, <2>1, <2>3, <4>1, <4>2
      <3> QED
        BY <2>1, <3>6, <3>9 DEF v
    <2> QED
      BY <2>2, <2>3
  <1> QED
    BY <1>2, <1>3

QuietOf(v, r) == But(v, r, {"out", "halted"}) /\ v.out = "nothing" /\ v.halted = Still

\* A locker before kl.exec.
LEMMA Quiets == ASSUME NEW r, DOMAIN r = AFields PROVE QuietOf(Quiet(r), r)
  BY DEF Quiet, QuietOf, But, AFields

\* d blocks go into the hash.
LEMMA Absorbing ==
  ASSUME NEW r, DOMAIN r = AFields, NEW d \in Nat
  PROVE  LET v == A!A!Absorbed(r, d) IN But(v, r, {"tag", "any"}) /\ v.tag = IF A!A!Absorbs(r) THEN r.tag + d ELSE r.tag
  <1> DEFINE v == A!A!Absorbed(r, d)
             b == r.any \/ d > 0
  <1>1. v = IF A!A!Absorbs(r) THEN [r EXCEPT !.tag = @ + d, !.any = b] ELSE r
    BY DEF A!A!Absorbed
  <1> HIDE DEF b, v
  <1>2. But(v, r, {"tag", "any"}) /\ v.tag = IF A!A!Absorbs(r) THEN r.tag + d ELSE r.tag
    <2>1. CASE A!A!Absorbs(r)
      BY <1>1, <2>1 DEF But, AFields
    <2>2. CASE ~ A!A!Absorbs(r)
      BY <1>1, <2>2 DEF But, AFields
    <2> QED
      BY <2>1, <2>2
  <1> QED
    BY <1>2 DEF v

\* The blocks of a window, up to the point where it stops.
Given(st) == IF A!A!GATE(st) = {} THEN "nothing" ELSE "text"
WindowOf(r, v, n, c, stop) ==
  LET d == (stop \div BlockUnits) - (ks \div BlockUnits) IN
  IF A!A!RunsOut(r, d) THEN v = A!A!Invalid(r.machine)
  ELSE /\ But(v, r, {"ctr", "used", "twice", "tag", "any", "fed", "out", "halted"}) /\ Counted(v, More_(r, c, d))
       /\ v.tag = (IF A!A!Absorbs(r) THEN r.tag + d ELSE r.tag) /\ v.out = Given(r.st)
       /\ v.halted = IF stop < n THEN [n |-> n, pos |-> stop] ELSE Still
StopsAt(stop, n) == stop \in Nat /\ ks < stop /\ stop <= n /\ stop % BlockUnits = 0

\* kl.exec over full blocks processes a window of them, or the counter runs out.
LEMMA Multi ==
  ASSUME SoftwareAssumption, NEW r, DOMAIN r = AFields, r.machine \in AEADs, NEW c, Counted(r, c), Fam(r) = "CMAC" => ~ A!A!Keyed(r),
         NEW n \in Nat, n % BlockUnits = 0, ks \in Nat, ks % BlockUnits = 0, ks < n, NEW h \in Nat
  PROVE  \E stop : StopsAt(stop, n) /\ WindowOf(r, A!A!_multi(r, n, ks, h), n, c, stop)
  <1> DEFINE stop == IF h % BlockUnits = 0 /\ ks < h /\ h < n THEN h ELSE n
             d == (stop - ks) \div BlockUnits
             o == Given(r.st)
             hal == IF stop < n THEN [n |-> n, pos |-> stop] ELSE Still
             t == A!A!Take(r, d)
             u == A!A!Absorbed(t, d)
             w == A!A!Fed(u, d)
             y == [w EXCEPT !.out = o]
             v == A!A!Halt(y, n, stop)
  <1>1. StopsAt(stop, n)
    BY DEF StopsAt
  <1>2. A!A!_multi(r, n, ks, h) = IF A!A!RunsOut(r, d) THEN A!A!Invalid(r.machine) ELSE v
    BY DEF A!A!_multi, Given
  <1>3. v = [y EXCEPT !.halted = hal]
    BY DEF A!A!Halt, A!A!NotHalted, Still
  <1> HIDE DEF stop
  <1>4. d = (stop \div BlockUnits) - (ks \div BlockUnits) /\ d \in Nat
    <2>1. stop \in Nat /\ stop % BlockUnits = 0 /\ ks <= stop
      BY <1>1 DEF StopsAt
    <2>2. (stop - ks) \div BlockUnits = (stop \div BlockUnits) - (ks \div BlockUnits) /\ ks \div BlockUnits <= stop \div BlockUnits
      BY <2>1, Between
    <2>3. stop \div BlockUnits \in Nat /\ ks \div BlockUnits \in Nat
      BY <2>1, Units
    <2> QED
      BY <2>2, <2>3
  <1> HIDE DEF d, o, hal, t, u, w, y, v
  <1>5. CASE A!A!RunsOut(r, d)
    <2>1. WindowOf(r, A!A!_multi(r, n, ks, h), n, c, stop)
      BY <1>2, <1>4, <1>5 DEF WindowOf
    <2> QED
      BY <1>1, <2>1
  <1>6. CASE ~ A!A!RunsOut(r, d)
    <2>1. But(t, r, {"ctr", "used", "twice"}) /\ Counted(t, More_(r, c, d))
      BY <1>4, <1>6, Taking DEF t
    <2>2. DOMAIN t = AFields /\ t.tag = r.tag /\ t.machine = r.machine /\ t.st = r.st
      BY <2>1 DEF But, AFields
    <2>3. A!A!Absorbs(t) <=> A!A!Absorbs(r)
      BY <2>2 DEF A!A!Absorbs
    <2>4. But(u, t, {"tag", "any"}) /\ u.tag = IF A!A!Absorbs(r) THEN r.tag + d ELSE r.tag
      BY <1>4, <2>2, <2>3, Absorbing DEF u
    <2>5. w = IF A!A!Absorbs(u) THEN [u EXCEPT !.fed = @ + d] ELSE u
      BY DEF w, A!A!Fed
    <2>6. But(w, u, {"fed"})
      BY <2>4, <2>5 DEF But, AFields
    <2>7. v.out = o /\ v.halted = hal /\ But(v, w, {"out", "halted"})
      BY <1>3, <2>6 DEF But, AFields, y
    <2>8. But(v, r, {"ctr", "used", "twice", "tag", "any", "fed", "out", "halted"}) /\ v.tag = u.tag
      BY <2>1, <2>4, <2>6, <2>7 DEF But, AFields
    <2>9. SameCount(t, v)
      BY <2>4, <2>6, <2>7 DEF But, AFields, SameCount
    <2>10. Counted(v, More_(r, c, d))
      BY <2>1, <2>9, SameCounted
    <2>11. WindowOf(r, v, n, c, stop)
      BY <1>4, <1>6, <2>4, <2>7, <2>8, <2>10 DEF WindowOf, o, hal
    <2> QED
      BY <1>1, <1>2, <1>6, <2>11
  <1> QED
    BY <1>5, <1>6

\* A final block of lbl units.
NextOf(r) ==
  CASE Fam(r) = "OCB" /\ r.st = "ELB" -> "ETF" [] Fam(r) = "OCB" /\ r.st = "DLB" -> "Verify"
    [] Fam(r) = "GCMSIV" /\ r.st = "DLB" -> "DTF" [] OTHER -> r.st
FinalOf(r, v, c) ==
  IF A!A!RunsOut(r, 1) THEN v = A!A!Invalid(r.machine)
  ELSE /\ But(v, r, {"ctr", "used", "twice", "tag", "any", "out", "st", "lbl", "all"}) /\ Counted(v, More_(r, c, 1))
       /\ v.tag = (IF A!A!Absorbs(r) THEN r.tag + 1 ELSE r.tag) /\ v.out = Given(r.st) /\ v.st = NextOf(r)
       /\ v.lbl = (IF Fam(r) = "CMAC" \/ (Fam(r) = "OCB" /\ r.st # "Last") THEN r.lbl ELSE 0) /\ (Fam(r) = "CMAC" => v.all)

\* kl.exec over a final block processes it, or the counter runs out.
LEMMA Finishing ==
  ASSUME SoftwareAssumption, NEW r, DOMAIN r = AFields, r.machine \in AEADs, NEW c, Counted(r, c), Fam(r) = "CMAC" => r.st = "Last",
         r.st \in A!A!Final, NEW n \in Nat, r.lbl \in Nat, r.lbl # 0, r.lbl <= n
  PROVE  FinalOf(r, A!A!FinalBlock(r, n), c)
  <1> DEFINE k == A!A!Take(r, 1)
             u == A!A!Absorbed(k, 1)
             o == Given(r.st)
             t == [u EXCEPT !.out = o]
             v == CASE Fam(r) = "OCB" /\ r.st = "ELB" -> [t EXCEPT !.st = "ETF"]
                    [] Fam(r) = "OCB" /\ r.st = "DLB" -> [t EXCEPT !.st = "Verify"]
                    [] Fam(r) = "CMAC" -> [t EXCEPT !.all = TRUE]
                    [] Fam(r) = "GCMSIV" /\ r.st = "DLB" -> [t EXCEPT !.lbl = 0, !.st = "DTF"]
                    [] OTHER -> [t EXCEPT !.lbl = 0]
  <1>1. A!A!FinalBlock(r, n) = IF A!A!RunsOut(r, 1) THEN A!A!Invalid(r.machine) ELSE v
    BY DEF A!A!FinalBlock, Given, Fam
  <1> HIDE DEF k, u, o, t, v
  <1>2. Fam(r) = "CMAC" => ~ A!A!Keyed(r)
    BY DEF A!A!Keyed, Fam
  <1>3. CASE A!A!RunsOut(r, 1)
    BY <1>1, <1>3 DEF FinalOf
  <1>4. CASE ~ A!A!RunsOut(r, 1)
    <2>1. But(k, r, {"ctr", "used", "twice"}) /\ Counted(k, More_(r, c, 1))
      BY <1>2, <1>4, Taking DEF k
    <2>2. DOMAIN k = AFields /\ k.tag = r.tag /\ k.machine = r.machine /\ k.st = r.st
      BY <2>1 DEF But, AFields
    <2>3. A!A!Absorbs(k) <=> A!A!Absorbs(r)
      BY <2>2 DEF A!A!Absorbs
    <2>4. But(u, k, {"tag", "any"}) /\ u.tag = IF A!A!Absorbs(r) THEN r.tag + 1 ELSE r.tag
      BY <2>2, <2>3, Absorbing DEF u
    <2>5. t.out = o /\ But(t, u, {"out"})
      BY <2>4 DEF But, AFields, t
    <2>6. But(t, r, {"ctr", "used", "twice", "tag", "any", "out"}) /\ t.tag = u.tag /\ SameCount(k, t)
      BY <2>1, <2>4, <2>5 DEF But, AFields, SameCount
    <2>7. DOMAIN t = AFields /\ t.st = r.st /\ t.lbl = r.lbl
      BY <2>6 DEF But, AFields
    <2>8. /\ But(v, t, {"st", "lbl", "all"}) /\ v.st = NextOf(r) /\ (Fam(r) = "CMAC" => v.all)
          /\ v.lbl = IF Fam(r) = "CMAC" \/ (Fam(r) = "OCB" /\ r.st # "Last") THEN r.lbl ELSE 0
      <3>1. CASE Fam(r) = "OCB" /\ r.st = "ELB"
        <4>1. v = [t EXCEPT !.st = "ETF"]
          BY <3>1 DEF v
        <4> QED
          BY <2>7, <3>1, <4>1 DEF But, AFields, NextOf
      <3>2. CASE Fam(r) = "OCB" /\ r.st = "DLB"
        <4>1. v = [t EXCEPT !.st = "Verify"]
          BY <3>2 DEF v
        <4> QED
          BY <2>7, <3>2, <4>1 DEF But, AFields, NextOf
      <3>3. CASE Fam(r) = "CMAC"
        <4>1. v = [t EXCEPT !.all = TRUE]
          BY <3>3 DEF v
        <4> QED
          BY <2>7, <3>3, <4>1 DEF But, AFields, NextOf
      <3>4. CASE Fam(r) = "GCMSIV" /\ r.st = "DLB"
        <4>1. v = [t EXCEPT !.lbl = 0, !.st = "DTF"]
          BY <3>4 DEF v
        <4> QED
          BY <2>7, <3>4, <4>1 DEF But, AFields, NextOf
      <3>5. CASE ~ (Fam(r) = "OCB" /\ r.st \in {"ELB", "DLB"}) /\ Fam(r) # "CMAC" /\ ~ (Fam(r) = "GCMSIV" /\ r.st = "DLB")
        <4>1. v = [t EXCEPT !.lbl = 0]
          BY <3>5 DEF v
        <4>2. r.st # "Last" => Fam(r) # "OCB"
          BY <3>5 DEF A!A!Final
        <4> QED
          BY <2>7, <3>5, <4>1, <4>2 DEF But, AFields, NextOf
      <3> QED
        BY <3>1, <3>2, <3>3, <3>4, <3>5
    <2>9. But(v, r, {"ctr", "used", "twice", "tag", "any", "out", "st", "lbl", "all"}) /\ v.tag = u.tag /\ v.out = o /\ SameCount(t, v)
      BY <2>5, <2>6, <2>8 DEF But, AFields, SameCount
    <2>10. Counted(v, More_(r, c, 1))
      <3>1. SameCount(k, v)
        BY <2>6, <2>9 DEF SameCount
      <3> QED
        BY <2>1, <3>1, SameCounted
    <2>11. FinalOf(r, v, c)
      BY <1>4, <2>4, <2>8, <2>9, <2>10 DEF FinalOf, o
    <2> QED
      BY <1>1, <1>4, <2>11
  <1> QED
    BY <1>3, <1>4

\* What a locker is when it has been moved.
MovedOf(r, v) ==
  /\ But(v, r, {"out", "len", "base", "cumul", "hasN", "ctr"})
  /\ Fam(r) # "GCM" \/ r.st # "SAV" => v.ctr = r.ctr
  /\ Fam(r) = "GCM" /\ r.st = "SAV" => v.len = r.len /\ v.base = r.base /\ v.cumul = r.cumul
  /\ Fam(r) = "OCB" => v.len = r.len /\ (v.hasN <=> r.len # 0)

\* A move keeps all but what the image leaves out.
LEMMA Moving ==
  ASSUME SoftwareAssumption, NEW r, DOMAIN r = AFields, Fam(r) = "GCMSIV" => r.ctr \in Nat
  PROVE  MovedOf(r, [A!A!Imported(r) EXCEPT !.out = "nothing"])
  <1> DEFINE b == r.len # 0
             i == A!A!Imported(r)
             v == [i EXCEPT !.out = "nothing"]
  <1>1. CASE Fam(r) = "GCM" /\ r.st = "SAV"
    <2>1. i = [r EXCEPT !.ctr = 0]
      BY <1>1 DEF A!A!Imported, A!A!ImportedGCM, Fam
    <2>2. But(v, r, {"out", "ctr"})
      BY <2>1 DEF But, AFields
    <2> HIDE DEF v
    <2>3. But(v, r, {"out", "len", "base", "cumul", "hasN", "ctr"}) /\ v.len = r.len /\ v.base = r.base /\ v.cumul = r.cumul
      BY <2>2 DEF But, AFields
    <2> QED
      BY <1>1, <2>3 DEF MovedOf, v
  <1>2. CASE Fam(r) = "GCM" /\ r.st # "SAV"
    <2>1. i = [r EXCEPT !.len = 0, !.base = 0, !.cumul = 0]
      BY <1>2 DEF A!A!Imported, A!A!ImportedGCM, Fam
    <2>2. But(v, r, {"out", "len", "base", "cumul"})
      BY <2>1 DEF But, AFields
    <2> HIDE DEF v
    <2>3. But(v, r, {"out", "len", "base", "cumul", "hasN", "ctr"}) /\ v.ctr = r.ctr
      BY <2>2 DEF But, AFields
    <2> QED
      BY <1>2, <2>3 DEF MovedOf, v
  <1>3. CASE Fam(r) = "GCMSIV"
    <2> DEFINE e == A!A!SerializedCounter(r)
    <2>1. i = [r EXCEPT !.ctr = e]
      BY <1>3 DEF A!A!Imported, Fam
    <2>2. e = r.ctr
      <3>1. r.ctr \in Nat /\ CM \in Nat \ {0}
        BY <1>3 DEF SoftwareAssumption
      <3>2. r.ctr = CM * (r.ctr \div CM) + (r.ctr % CM) /\ r.ctr % CM \in Int /\ CM * (r.ctr \div CM) \in Int
        BY <3>1
      <3> QED
        BY <3>2 DEF A!A!SerializedCounter
    <2> HIDE DEF e
    <2>3. v.ctr = r.ctr /\ But(v, r, {"out", "ctr"})
      BY <2>1, <2>2 DEF But, AFields
    <2> HIDE DEF v
    <2>4. But(v, r, {"out", "len", "base", "cumul", "hasN", "ctr"})
      BY <2>3 DEF But, AFields
    <2> QED
      BY <1>3, <2>3, <2>4 DEF MovedOf, v
  <1>4. CASE Fam(r) = "OCB"
    <2>1. i = [r EXCEPT !.hasN = b]
      BY <1>4 DEF A!A!Imported, A!A!ImportedOCB, Fam
    <2> HIDE DEF b
    <2>2. v.hasN = b /\ But(v, r, {"out", "hasN"})
      BY <2>1 DEF But, AFields
    <2> HIDE DEF v
    <2>3. But(v, r, {"out", "len", "base", "cumul", "hasN", "ctr"}) /\ v.ctr = r.ctr /\ v.len = r.len
      BY <2>2 DEF But, AFields
    <2>4. v.hasN <=> r.len # 0
      BY <2>2 DEF b
    <2> QED
      BY <1>4, <2>3, <2>4 DEF MovedOf, v
  <1>5. CASE Fam(r) \notin {"GCM", "GCMSIV", "OCB"}
    <2>1. i = r
      BY <1>5 DEF A!A!Imported, Fam
    <2>2. But(v, r, {"out"})
      BY <2>1 DEF But, AFields
    <2> HIDE DEF v
    <2>3. But(v, r, {"out", "len", "base", "cumul", "hasN", "ctr"}) /\ v.ctr = r.ctr
      BY <2>2 DEF But, AFields
    <2> QED
      BY <1>5, <2>3 DEF MovedOf, v
  <1> QED
    BY <1>1, <1>2, <1>3, <1>4, <1>5

-----------------------------------------------------------------------------
(* Where a sequence is.                                                    *)

Gate(j) == IF j.dec THEN 1 ELSE 0
\* The Machine k does the operation j, which its counters are enough for or are not.
Does(k, j) ==
  /\ DOMAIN m = AFields /\ m.machine = k /\ k \in AEADs /\ job = j /\ j \in A!Jobs(k) /\ (may <=> Gate(j) \in m.policy)
  /\ m.st # "Invalid"
Suits(k, j) ==
  LET n == A!Blocks(j.text)
      f == A!A!Family[k]
  IN /\ f = "GCM" => n <= CM - 2
     /\ f = "GCMSIV" => n <= CM
     /\ f = "OCB" => /\ n <= MAX_BLOCKS /\ A!Blocks(j.aad) <= MAX_BLOCKS
                     /\ (j.via /\ j.text % BlockUnits = 0 => n < MAX_BLOCKS)
Dead(k, j) == m = A!A!Invalid(k) /\ k \in AEADs /\ job = j /\ j \in A!Jobs(k) /\ ~ (may /\ Suits(k, j))

\* Between two instructions: the hash holds tag blocks, c were encrypted, g units were given.
At(k, j, st, tag, c, g, t) ==
  Does(k, j) /\ m.st = st /\ m.tag = tag /\ Counted(m, c) /\ ks = 0 /\ got = g /\ todo = t
\* In a window of n units, after a blocks.
Window(k, j, st, n, t, a) ==
  /\ Does(k, j) /\ m.st = st /\ ks \in Nat /\ ks % BlockUnits = 0 /\ ks < n
  /\ m.tag = (IF A!A!Absorbs(m) THEN a + (ks \div BlockUnits) ELSE a)
  /\ Counted(m, IF A!A!Keyed(m) THEN ks \div BlockUnits ELSE 0)
  /\ got = (IF A!A!GATE(st) = {} THEN 0 ELSE ks) /\ (A!A!GATE(st) # {} => may)
  /\ todo = Then(A!Exec(IF st = "Absorb" THEN "B" ELSE "A", n, IF A!A!GATE(st) = {} THEN 0 ELSE n), t)

Instruct == A!SetstStep \/ \E h \in 0..BlockWindow, ok \in BOOLEAN : A!ExecStep(h, ok)

\* What Fits says of an operation.
LEMMA FitsIs ==
  ASSUME NEW k, NEW j, m.machine = k, job = j
  PROVE  A!Fits <=> may /\ Suits(k, j)
  BY DEF A!Fits, Suits

\* The operations that software asks of a Machine.
LEMMA JobIs ==
  ASSUME SoftwareAssumption, NEW k, NEW j \in A!Jobs(k)
  PROVE  /\ Lengths(j) /\ j.dec \in BOOLEAN /\ j.via \in BOOLEAN
         /\ (k = "GCM" => j.iv > 0) /\ (k = "OCB" => j.iv > 0 /\ j.iv < BlockUnits) /\ (k = "CMAC" => j.aad = 0)
  <1>1. MaxIV \in Nat /\ MaxAAD \in Nat /\ MaxText \in Nat /\ BlockUnits \in Nat
    BY DEF SoftwareAssumption
  <1>2. /\ j.iv \in (IF k = "GCM" THEN 1..MaxIV ELSE IF k = "OCB" THEN 1..BlockUnits - 1 ELSE {0}) /\ j.dec \in BOOLEAN
        /\ j.aad \in (IF k = "CMAC" THEN {0} ELSE 0..MaxAAD) /\ j.text \in 0..MaxText
        /\ j.via \in IF k \in {"OCB", "OCB_NONCE"} THEN BOOLEAN ELSE {FALSE}
    BY DEF A!Jobs
  <1>3. j.iv \in Nat /\ (k = "GCM" => j.iv > 0) /\ (k = "OCB" => j.iv > 0 /\ j.iv < BlockUnits)
    BY <1>1, <1>2
  <1>4. j.aad \in Nat /\ (k = "CMAC" => j.aad = 0) /\ j.text \in Nat
    BY <1>1, <1>2
  <1>5. j.via \in BOOLEAN
    BY <1>2
  <1> QED
    BY <1>2, <1>3, <1>4, <1>5 DEF Lengths

\* An operation that is refused although it suits is none.
LEMMA Dies ==
  ASSUME NEW k, NEW j, Does(k, j), Lost, job' = job, may' = may, ~ (may /\ Suits(k, j))
  PROVE  Dead(k, j)'
  BY DEF Does, Lost, Dead

\* kl.setst does what the sequence wants, if policy and counters allow the operation.
EntersTo(k, j, to, x, t) ==
  /\ Does(k, j)' /\ EnteredOf(m, m', to, x) /\ todo' = t /\ ks' = 0 /\ got' = got /\ may' = may /\ (A!A!GATE(to) # {} => may)

\* kl.setst of a sequence enters its State, or the operation does not suit.
LEMMA Entering ==
  ASSUME NEW k, NEW j, Does(k, j), NEW to \in Names, NEW form \in Forms, NEW x \in Nat, NEW t \in Seqs,
         todo = Then(A!Setst(to, form, x), t), Instruct, Suits(k, j) => Allowed(to, form, x), A!A!GATE(to) \subseteq {Gate(j)}
  PROVE  Dead(k, j)' \/ EntersTo(k, j, to, x, t)
  <1>1. Sets(to, form, x, t)
    BY Setting DEF Does, Instruct
  <1>2. A!A!GATE(to) \subseteq m.policy <=> (A!A!GATE(to) = {} \/ may)
    BY DEF Does
  <1>3. CASE Allowed(to, form, x) /\ A!A!GATE(to) \subseteq m.policy
    <2>1. EnteredOf(m, m', to, x) /\ todo' = t /\ ks' = 0 /\ got' = got /\ may' = may /\ job' = job
      BY <1>1, <1>3 DEF Sets
    <2>2. DOMAIN m' = AFields /\ m'.machine = m.machine /\ m'.policy = m.policy /\ m'.st = to
      BY <2>1 DEF EnteredOf
    <2>3. to # "Invalid"
      BY DEF Names
    <2>4. Does(k, j)'
      BY <2>1, <2>2, <2>3 DEF Does
    <2> QED
      BY <1>2, <1>3, <2>1, <2>4 DEF EntersTo
  <1>4. CASE ~ (Allowed(to, form, x) /\ A!A!GATE(to) \subseteq m.policy)
    <2>1. Lost /\ job' = job /\ may' = may
      BY <1>1, <1>4 DEF Sets
    <2>2. ~ (may /\ Suits(k, j))
      BY <1>2, <1>4
    <2> QED
      BY <2>1, <2>2, Dies
  <1> QED
    BY <1>3, <1>4

\* Entering a State keeps what is counted, or begins to count.
LEMMA EnteredCount ==
  ASSUME SoftwareAssumption, NEW r, NEW v, NEW to, NEW x, EnteredOf(r, v, to, x)
  PROVE  /\ Fam(r) = "OCB" /\ to \in {"Absorb", "Enc", "Dec"} => Counted(v, 0)
         /\ \A c : Counted(r, c) /\ ~ (Fam(r) = "OCB" /\ to \in {"Absorb", "Enc", "Dec"}) /\ ~ (Fam(r) = "GCM" /\ to \in {"ETF", "DTF"}) => Counted(v, c)
  <1>1. Fam(v) = Fam(r)
    BY DEF EnteredOf, Fam
  <1>2. Fam(r) = "OCB" /\ to \in {"Absorb", "Enc", "Dec"} => Counted(v, 0)
    BY <1>1 DEF EnteredOf, Counted, Limit, SoftwareAssumption
  <1>3. ASSUME NEW c, Counted(r, c), ~ (Fam(r) = "OCB" /\ to \in {"Absorb", "Enc", "Dec"}), ~ (Fam(r) = "GCM" /\ to \in {"ETF", "DTF"})
        PROVE  Counted(v, c)
    <2>1. SameCount(r, v)
      BY <1>3 DEF EnteredOf, SameCount
    <2> QED
      BY <1>3, <2>1, SameCounted
  <1> QED
    BY <1>2, <1>3

\* An entered State, as a place between two instructions.
LEMMA Arrive ==
  ASSUME SoftwareAssumption, NEW k, NEW j, NEW to, NEW x, NEW t, EntersTo(k, j, to, x, t), NEW c, NEW e, NEW tag, NEW g, m.tag = tag, got = g,
         IF Fam(m) = "OCB" /\ to \in {"Absorb", "Enc", "Dec"} THEN e = 0
         ELSE Counted(m, c) /\ e = c /\ ~ (Fam(m) = "GCM" /\ to \in {"ETF", "DTF"})
  PROVE  At(k, j, to, tag, e, g, t)'
  <1>1. EnteredOf(m, m', to, x) /\ Does(k, j)' /\ todo' = t /\ ks' = 0 /\ got' = got
    BY DEF EntersTo
  <1>2. Counted(m', e)
    BY <1>1, EnteredCount
  <1>3. m'.st = to /\ m'.tag = m.tag
    BY <1>1 DEF EnteredOf
  <1> QED
    BY <1>1, <1>2, <1>3 DEF At

-----------------------------------------------------------------------------
(* kl.exec, from one place of a sequence to the next.                      *)

\* What neither a window nor a move changes.
Aside == m'.lbl = m.lbl /\ (m'.all <=> m.all)
Form(st) == IF st = "Absorb" THEN "B" ELSE "A"
\* The window is over.
Over(k, j, st, n, t, a) ==
  /\ Does(k, j) /\ m.st = st /\ m.tag = (IF A!A!Absorbs(m) THEN a + (n \div BlockUnits) ELSE a)
  /\ Counted(m, IF A!A!Keyed(m) THEN n \div BlockUnits ELSE 0)
  /\ ks = 0 /\ got = (IF A!A!GATE(st) = {} THEN 0 ELSE n) /\ todo = t

WindowFor(j, st, n, t, a) ==
  /\ st \in {"Absorb", "Enc", "Dec"} /\ n \in Nat /\ n % BlockUnits = 0 /\ t \in Seqs /\ a \in Nat
  /\ A!A!GATE(st) \subseteq {Gate(j)} /\ (Fam(m) = "CMAC" => st = "Absorb")
WindowEnough(k, j, n) == Suits(k, j) /\ A!A!Keyed(m) => n \div BlockUnits <= Limit(Fam(m))

\* One kl.exec within a window: it goes on, is over, or the counter was too short.
LEMMA WindowStep ==
  ASSUME SoftwareAssumption, NEW k, NEW j, NEW st, NEW n, NEW t, NEW a, WindowFor(j, st, n, t, a),
         Window(k, j, st, n, t, a), Instruct, WindowEnough(k, j, n)
  PROVE  may' = may /\ (Dead(k, j)' \/ (Aside /\ (Window(k, j, st, n, t, a)' \/ Over(k, j, st, n, t, a)')))
  <1> SUFFICES ASSUME st \in {"Absorb", "Enc", "Dec"}, n \in Nat, n % BlockUnits = 0, t \in Seqs, a \in Nat,
                      A!A!GATE(st) \subseteq {Gate(j)}, Fam(m) = "CMAC" => st = "Absorb",
                      Suits(k, j) /\ A!A!Keyed(m) => n \div BlockUnits <= Limit(Fam(m))
               PROVE  may' = may /\ (Dead(k, j)' \/ (Aside /\ (Window(k, j, st, n, t, a)' \/ Over(k, j, st, n, t, a)')))
    BY DEF WindowFor, WindowEnough
  <1> DEFINE g == IF A!A!GATE(st) = {} THEN 0 ELSE n
             r == Quiet(m)
             b == ks \div BlockUnits
             c == IF A!A!Keyed(m) THEN b ELSE 0
  <1>1. /\ Does(k, j) /\ m.st = st /\ ks \in Nat /\ ks % BlockUnits = 0 /\ ks < n /\ m.tag = (IF A!A!Absorbs(m) THEN a + b ELSE a)
        /\ Counted(m, c) /\ got = (IF A!A!GATE(st) = {} THEN 0 ELSE ks) /\ (A!A!GATE(st) # {} => may)
        /\ todo = Then(A!Exec(Form(st), n, g), t) /\ DOMAIN m = AFields /\ m.machine = k /\ k \in AEADs
    BY DEF Window, Form, Does
  <1>2. b \in Nat /\ g \in Int /\ Form(st) \in Forms /\ n \div BlockUnits \in Nat
    <2>1. b \in Nat /\ n \div BlockUnits \in Nat
      BY <1>1, Units
    <2>2. g \in Int /\ Form(st) \in Forms
      BY DEF Form, Forms
    <2> QED
      BY <2>1, <2>2
  <1>3. A!A!MayRun(m) /\ A!A!EXF(m) = Form(st)
    <2>1. A!A!GATE(m.st) \subseteq m.policy
      BY <1>1 DEF Does
    <2> QED
      BY <1>1, <2>1 DEF A!A!MayRun, A!A!EXF, Form
  <1> HIDE DEF r, b, g, c
  <1>4. PICK h \in 0..BlockWindow, ok \in BOOLEAN, s \in A!A!_finalize(m) : Execs_(Form(st), n, g, t, h, s, ok)
    <2>1. m.st # "Invalid"
      BY <1>1 DEF Does
    <2> QED
      BY <1>1, <1>2, <2>1, Executing DEF Instruct
  <1>5. QuietOf(r, m)
    BY <1>1, Quiets DEF r
  <1>6. /\ DOMAIN r = AFields /\ r.machine = m.machine /\ r.st = m.st /\ r.tag = m.tag /\ r.lbl = m.lbl /\ r.all = m.all /\ r.policy = m.policy
        /\ SameCount(m, r)
    BY <1>5 DEF QuietOf, But, AFields, SameCount
  <1>7. Counted(r, c) /\ Fam(r) = Fam(m) /\ (A!A!Keyed(r) <=> A!A!Keyed(m)) /\ (A!A!Absorbs(r) <=> A!A!Absorbs(m))
    <2>1. Counted(r, c)
      BY <1>1, <1>6, SameCounted
    <2> QED
      BY <1>6, <2>1 DEF Fam, A!A!Keyed, A!A!Absorbs
  <1>8. Fam(m) \in {"GCM", "GCMSIV", "OCB", "CMAC"}
    BY <1>1, Families
  <1>9. m' = A!A!_multi(r, n, ks, h) /\ Goes(n, g, t)
    <2>1. m' = A!A!_exec(r, n, ks, h, s, ok) /\ Goes(n, g, t)
      BY <1>3, <1>4 DEF Execs_, r
    <2>2. A!A!_exec(r, n, ks, h, s, ok) = A!A!_multi(r, n, ks, h)
      <3>1. A!A!Family[r.machine] = Fam(m) /\ r.st = st
        BY <1>1, <1>6 DEF Fam
      <3>2. CASE Fam(m) = "GCM"
        BY <3>1, <3>2 DEF A!A!_exec, A!A!_exec_gcm
      <3>3. CASE Fam(m) = "GCMSIV"
        BY <3>1, <3>3 DEF A!A!_exec, A!A!_exec_gcmsiv
      <3>4. CASE Fam(m) = "OCB"
        BY <3>1, <3>4 DEF A!A!_exec, A!A!_exec_ocb
      <3>5. CASE Fam(m) = "CMAC"
        <4>1. r.st = "Absorb"
          BY <1>1, <1>6, <3>5
        <4> QED
          BY <3>1, <3>5, <4>1 DEF A!A!_exec, A!A!_exec_cmac
      <3> QED
        BY <1>8, <3>2, <3>3, <3>4, <3>5
    <2> QED
      BY <2>1, <2>2
  <1>10. PICK stop : StopsAt(stop, n) /\ WindowOf(r, m', n, c, stop)
    <2>1. Fam(r) = "CMAC" => ~ A!A!Keyed(r)
      BY <1>1, <1>6, <1>7 DEF A!A!Keyed, Fam
    <2>2. h \in Nat
      BY DEF SoftwareAssumption
    <2>3. \E stop : StopsAt(stop, n) /\ WindowOf(r, A!A!_multi(r, n, ks, h), n, c, stop)
      BY <1>1, <1>6, <1>7, <2>1, <2>2, Multi
    <2> QED
      BY <1>9, <2>3
  <1> DEFINE e == stop \div BlockUnits
             d == e - b
  <1>11. may' = may /\ job' = job
    BY <1>9 DEF Goes
  <1> HIDE DEF e
  <1>12. stop \in Nat /\ ks < stop /\ stop <= n /\ stop % BlockUnits = 0 /\ e \in Nat /\ d \in Nat /\ b + d = e /\ e <= n \div BlockUnits
    <2>1. stop \in Nat /\ ks < stop /\ stop <= n /\ stop % BlockUnits = 0 /\ ks <= stop
      BY <1>1, <1>10 DEF StopsAt
    <2>2. e \in Nat
      BY <2>1, Units DEF e
    <2>3. b <= e
      BY <1>1, <2>1, Between DEF b, e
    <2>4. e <= n \div BlockUnits
      BY <2>1, Between DEF e
    <2> QED
      BY <1>2, <2>1, <2>2, <2>3, <2>4
  <1>13. CASE A!A!RunsOut(r, d)
    <2>1. Lost
      BY <1>6, <1>10, <1>13 DEF WindowOf, Lost, e, b
    <2>2. A!A!Keyed(m) /\ c + d > Limit(Fam(m))
      <3>1. Fam(r) = "CMAC" => ~ A!A!Keyed(r)
        BY <1>1, <1>6, <1>7 DEF A!A!Keyed, Fam
      <3> HIDE DEF d
      <3>2. A!A!RunsOut(r, d) <=> A!A!Keyed(r) /\ c + d > Limit(Fam(r))
        BY <1>1, <1>6, <1>7, <1>12, <3>1, Rooms
      <3> QED
        BY <1>7, <1>13, <3>2
    <2>3. ~ Suits(k, j)
      <3>1. c = b
        BY <2>2 DEF c
      <3>2. Limit(Fam(m)) \in Int
        BY DEF Limit, SoftwareAssumption
      <3> HIDE DEF d
      <3> QED
        BY <1>2, <1>12, <2>2, <3>1, <3>2
    <2> QED
      BY <1>1, <1>11, <2>1, <2>3, Dies
  <1>14. CASE ~ A!A!RunsOut(r, d)
    <2> DEFINE f == More_(r, c, d)
    <2>1. /\ But(m', r, {"ctr", "used", "twice", "tag", "any", "fed", "out", "halted"}) /\ Counted(m', f)
          /\ m'.tag = (IF A!A!Absorbs(r) THEN r.tag + d ELSE r.tag) /\ m'.out = Given(r.st)
          /\ m'.halted = IF stop < n THEN [n |-> n, pos |-> stop] ELSE Still
      BY <1>10, <1>14 DEF WindowOf, e, b
    <2>2. DOMAIN m' = AFields /\ m'.st = st /\ m'.machine = m.machine /\ m'.policy = m.policy /\ m'.lbl = m.lbl /\ m'.all = m.all
      BY <1>1, <1>6, <2>1 DEF But, AFields
    <2>3. Aside
      BY <2>2 DEF Aside
    <2>4. Does(k, j)'
      BY <1>1, <1>11, <2>2 DEF Does
    <2>5. (A!A!Keyed(m') <=> A!A!Keyed(m)) /\ (A!A!Absorbs(m') <=> A!A!Absorbs(m))
      BY <1>1, <2>2 DEF A!A!Keyed, A!A!Absorbs
    <2>6. f = IF A!A!Keyed(m) THEN e ELSE 0
      <3>1. Grows(r) <=> A!A!Keyed(m)
        BY <1>1, <1>6, <1>7 DEF Grows, A!A!Final
      <3> QED
        BY <1>12, <3>1 DEF More_, c
    <2>7. m'.tag = IF A!A!Absorbs(m) THEN a + e ELSE a
      <3> HIDE DEF d
      <3> QED
        BY <1>1, <1>2, <1>6, <1>7, <1>12, <2>1
    <2>8. CASE stop < n
      <3>1. m'.halted.pos = stop /\ stop # 0
        <4>1. m'.halted = [n |-> n, pos |-> stop]
          BY <2>1, <2>8
        <4> QED
          BY <1>1, <1>12, <4>1
      <3>2. todo' = todo /\ ks' = stop /\ got' = IF m'.out # "text" THEN got ELSE got + stop - ks
        BY <1>9, <3>1 DEF Goes
      <3>3. got' = IF A!A!GATE(st) = {} THEN 0 ELSE stop
        BY <1>1, <1>6, <1>12, <2>1, <3>2 DEF Given
      <3>4. ks' % BlockUnits = 0 /\ ks' \div BlockUnits = e /\ ks' \in Nat /\ ks' < n
        BY <1>12, <2>8, <3>2 DEF e
      <3>5. m'.tag = (IF A!A!Absorbs(m') THEN a + (ks' \div BlockUnits) ELSE a) /\ Counted(m', IF A!A!Keyed(m') THEN ks' \div BlockUnits ELSE 0)
        BY <2>1, <2>5, <2>6, <2>7, <3>4
      <3>6. todo' = Then(A!Exec(Form(st), n, g), t)
        BY <1>1, <3>2
      <3>7. Window(k, j, st, n, t, a)'
        BY <1>1, <1>11, <2>2, <2>4, <3>2, <3>3, <3>4, <3>5, <3>6 DEF Window, Form, g
      <3> QED
        BY <1>11, <2>3, <3>7
    <2>9. CASE ~ (stop < n)
      <3>1. m'.halted.pos = 0 /\ stop = n
        BY <1>12, <2>1, <2>9 DEF Still
      <3>2. todo' = t /\ ks' = 0 /\ got' = IF m'.out # "text" THEN got ELSE got + g - ks
        BY <1>9, <3>1 DEF Goes
      <3>3. got' = IF A!A!GATE(st) = {} THEN 0 ELSE n
        BY <1>1, <1>6, <2>1, <3>2 DEF Given, g
      <3>4. n \div BlockUnits = e
        BY <3>1 DEF e
      <3>5. m'.tag = (IF A!A!Absorbs(m') THEN a + (n \div BlockUnits) ELSE a) /\ Counted(m', IF A!A!Keyed(m') THEN n \div BlockUnits ELSE 0)
        BY <2>1, <2>5, <2>6, <2>7, <3>4
      <3>6. Over(k, j, st, n, t, a)'
        BY <2>2, <2>4, <3>2, <3>3, <3>5 DEF Over
      <3> QED
        BY <1>11, <2>3, <3>6
    <2> QED
      BY <2>8, <2>9
  <1> QED
    BY <1>13, <1>14

\* A final block that was announced is fed.
FinalForm(st) == IF st = "Last" THEN "B" ELSE "A"
FinalStates(f) == CASE f = "OCB" -> {"Last", "ELB", "DLB"} [] f = "CMAC" -> {"Last"} [] OTHER -> {"ELB", "DLB"}
Final_(k, j, st, tag, c, g, x, t) ==
  /\ Does(k, j) /\ m.st = st /\ m.tag = tag /\ Counted(m, c) /\ ks = 0 /\ got = g /\ m.lbl \in 1..BlockUnits
  /\ (Fam(m) = "CMAC" => ~ m.all) /\ (A!A!GATE(st) # {} => may) /\ todo = Then(A!Exec(FinalForm(st), BlockUnits, x), t)
Finished(k, j, st, tag, c, g, x, t) ==
  /\ Does(k, j)' /\ m'.st = NextOf(m) /\ m'.tag = (IF A!A!Absorbs(m) THEN tag + 1 ELSE tag) /\ Counted(m', More_(m, c, 1)) /\ ks' = 0
  /\ got' = (IF A!A!GATE(st) = {} THEN g ELSE g + x) /\ todo' = t
  /\ m'.lbl = (IF Fam(m) = "CMAC" \/ (Fam(m) = "OCB" /\ st # "Last") THEN m.lbl ELSE 0) /\ (Fam(m) = "CMAC" => m'.all)
  /\ (A!A!Keyed(m) => c + 1 <= Limit(Fam(m)))

\* One kl.exec over a final piece.
LEMMA FinalStep ==
  ASSUME SoftwareAssumption, NEW k, NEW j, NEW st \in FinalStates(Fam(m)), NEW tag \in Nat, NEW c, NEW g \in Int, NEW x \in Int, NEW t \in Seqs,
         Final_(k, j, st, tag, c, g, x, t), Instruct, A!A!GATE(st) \subseteq {Gate(j)},
         Suits(k, j) /\ A!A!Keyed(m) => c + 1 <= Limit(Fam(m))
  PROVE  may' = may /\ (Dead(k, j)' \/ Finished(k, j, st, tag, c, g, x, t))
  <1> DEFINE r == Quiet(m)
  <1>1. /\ Does(k, j) /\ m.st = st /\ m.tag = tag /\ Counted(m, c) /\ ks = 0 /\ got = g /\ m.lbl \in 1..BlockUnits
        /\ (Fam(m) = "CMAC" => ~ m.all) /\ (A!A!GATE(st) # {} => may) /\ todo = Then(A!Exec(FinalForm(st), BlockUnits, x), t)
        /\ DOMAIN m = AFields /\ m.machine = k /\ k \in AEADs /\ BlockUnits \in Nat \ {0}
    BY DEF Final_, Does, SoftwareAssumption
  <1>2. /\ Fam(m) \in {"GCM", "GCMSIV", "OCB", "CMAC"} /\ FinalForm(st) \in Forms /\ st \in A!A!Final /\ (Fam(m) = "CMAC" => st = "Last")
        /\ (Fam(m) \in {"GCM", "GCMSIV"} => st # "Last")
    <2>1. Fam(m) \in {"GCM", "GCMSIV", "OCB", "CMAC"}
      BY <1>1, Families
    <2> QED
      BY <2>1 DEF FinalForm, Forms, FinalStates, A!A!Final
  <1>3. A!A!MayRun(m) /\ A!A!EXF(m) = FinalForm(st)
    <2>1. A!A!GATE(m.st) \subseteq m.policy
      BY <1>1 DEF Does
    <2>2. m.lbl # 0
      BY <1>1
    <2> QED
      BY <1>1, <1>2, <2>1, <2>2 DEF A!A!MayRun, A!A!EXF, FinalForm, A!A!Final, Fam
  <1> HIDE DEF r
  <1>4. PICK h \in 0..BlockWindow, ok \in BOOLEAN, s \in A!A!_finalize(m) : Execs_(FinalForm(st), BlockUnits, x, t, h, s, ok)
    <2>1. m.st # "Invalid" /\ ks \in Nat /\ ks < BlockUnits /\ BlockUnits \in Nat
      BY <1>1 DEF Does
    <2> QED
      BY <1>1, <1>2, <2>1, Executing DEF Instruct
  <1>5. QuietOf(r, m)
    BY <1>1, Quiets DEF r
  <1>6. /\ DOMAIN r = AFields /\ r.machine = m.machine /\ r.st = m.st /\ r.tag = m.tag /\ r.lbl = m.lbl /\ r.all = m.all /\ r.policy = m.policy
        /\ r.halted = Still /\ SameCount(m, r)
    BY <1>5 DEF QuietOf, But, AFields, SameCount
  <1>7. /\ Counted(r, c) /\ Fam(r) = Fam(m) /\ (A!A!Keyed(r) <=> A!A!Keyed(m)) /\ (A!A!Absorbs(r) <=> A!A!Absorbs(m))
        /\ NextOf(r) = NextOf(m) /\ More_(r, c, 1) = More_(m, c, 1)
    <2>1. Counted(r, c)
      BY <1>1, <1>6, SameCounted
    <2>2. Fam(r) = Fam(m) /\ (A!A!Keyed(r) <=> A!A!Keyed(m)) /\ (A!A!Absorbs(r) <=> A!A!Absorbs(m))
      BY <1>6 DEF Fam, A!A!Keyed, A!A!Absorbs
    <2> QED
      BY <1>6, <2>1, <2>2 DEF NextOf, More_, Grows
  <1>8. m' = A!A!FinalBlock(r, BlockUnits) /\ Goes(BlockUnits, x, t)
    <2>1. m' = A!A!_exec(r, BlockUnits, ks, h, s, ok) /\ Goes(BlockUnits, x, t)
      BY <1>3, <1>4 DEF Execs_, r
    <2>2. A!A!_exec(r, BlockUnits, ks, h, s, ok) = A!A!FinalBlock(r, BlockUnits)
      <3>1. A!A!Family[r.machine] = Fam(m) /\ r.st = st /\ r.lbl # 0
        BY <1>1, <1>6 DEF Fam
      <3>2. CASE Fam(m) = "GCM"
        BY <1>2, <3>1, <3>2 DEF A!A!_exec, A!A!_exec_gcm, A!A!Final
      <3>3. CASE Fam(m) = "GCMSIV"
        BY <1>2, <3>1, <3>3 DEF A!A!_exec, A!A!_exec_gcmsiv, A!A!Final
      <3>4. CASE Fam(m) = "OCB"
        BY <1>2, <3>1, <3>4 DEF A!A!_exec, A!A!_exec_ocb, A!A!Final
      <3>5. CASE Fam(m) = "CMAC"
        <4>1. r.st = "Last" /\ ~ r.all
          BY <1>1, <1>2, <1>6, <3>5
        <4> QED
          BY <3>1, <3>5, <4>1 DEF A!A!_exec, A!A!_exec_cmac
      <3> QED
        BY <1>2, <3>2, <3>3, <3>4, <3>5
    <2> QED
      BY <2>1, <2>2
  <1>9. FinalOf(r, m', c)
    <2>1. r.st \in A!A!Final /\ (Fam(r) = "CMAC" => r.st = "Last") /\ r.lbl \in Nat /\ r.lbl # 0 /\ r.lbl <= BlockUnits /\ BlockUnits \in Nat
      BY <1>1, <1>2, <1>6, <1>7
    <2>2. r.machine \in AEADs
      BY <1>1, <1>6
    <2>3. FinalOf(r, A!A!FinalBlock(r, BlockUnits), c)
      BY <1>6, <1>7, <2>1, <2>2, Finishing
    <2> QED
      BY <1>8, <2>3
  <1>10. may' = may /\ job' = job
    BY <1>8 DEF Goes
  <1>11. CASE A!A!RunsOut(r, 1)
    <2>1. Lost
      BY <1>6, <1>9, <1>11 DEF FinalOf, Lost
    <2>2. A!A!Keyed(m) /\ c + 1 > Limit(Fam(m))
      <3>1. Fam(r) = "CMAC" => ~ A!A!Keyed(r)
        BY <1>1, <1>2, <1>6, <1>7 DEF A!A!Keyed, Fam
      <3>2. 1 \in Nat /\ r.machine \in AEADs
        BY <1>1, <1>6
      <3>3. A!A!RunsOut(r, 1) <=> A!A!Keyed(r) /\ c + 1 > Limit(Fam(r))
        BY <1>7, <3>1, <3>2, Rooms
      <3> QED
        BY <1>7, <1>11, <3>3
    <2>3. ~ Suits(k, j)
      <3>1. Limit(Fam(m)) \in Int
        BY DEF Limit, SoftwareAssumption
      <3>2. c \in Nat
        BY <1>1 DEF Counted
      <3> QED
        BY <2>2, <3>1, <3>2
    <2> QED
      BY <1>1, <1>10, <2>1, <2>3, Dies
  <1>12. CASE ~ A!A!RunsOut(r, 1)
    <2>1. /\ But(m', r, {"ctr", "used", "twice", "tag", "any", "out", "st", "lbl", "all"}) /\ Counted(m', More_(r, c, 1))
          /\ m'.tag = (IF A!A!Absorbs(r) THEN r.tag + 1 ELSE r.tag) /\ m'.out = Given(r.st) /\ m'.st = NextOf(r)
          /\ m'.lbl = (IF Fam(r) = "CMAC" \/ (Fam(r) = "OCB" /\ r.st # "Last") THEN r.lbl ELSE 0) /\ (Fam(r) = "CMAC" => m'.all)
      BY <1>9, <1>12 DEF FinalOf
    <2>2. DOMAIN m' = AFields /\ m'.machine = m.machine /\ m'.policy = m.policy /\ m'.halted = Still
      BY <1>6, <2>1 DEF But, AFields
    <2>3. NextOf(m) # "Invalid"
      BY <1>1, <1>2 DEF NextOf, A!A!Final
    <2>4. Does(k, j)'
      BY <1>1, <1>7, <1>10, <2>1, <2>2, <2>3 DEF Does
    <2>5. m'.halted.pos = 0
      BY <2>2 DEF Still
    <2>6. todo' = t /\ ks' = 0 /\ got' = IF m'.out # "text" THEN got ELSE got + x - ks
      BY <1>8, <2>5 DEF Goes
    <2>7. got' = IF A!A!GATE(st) = {} THEN g ELSE g + x
      BY <1>1, <1>6, <2>1, <2>6 DEF Given
    <2>8. A!A!Keyed(m) => c + 1 <= Limit(Fam(m))
      <3>1. Fam(r) = "CMAC" => ~ A!A!Keyed(r)
        BY <1>1, <1>2, <1>6, <1>7 DEF A!A!Keyed, Fam
      <3>2. 1 \in Nat /\ r.machine \in AEADs
        BY <1>1, <1>6
      <3>3. A!A!RunsOut(r, 1) <=> A!A!Keyed(r) /\ c + 1 > Limit(Fam(r))
        BY <1>7, <3>1, <3>2, Rooms
      <3>4. Limit(Fam(m)) \in Int
        BY DEF Limit, SoftwareAssumption
      <3>5. c \in Nat
        BY <1>1 DEF Counted
      <3> QED
        BY <1>7, <1>12, <3>3, <3>4, <3>5
    <2>9. Finished(k, j, st, tag, c, g, x, t)
      BY <1>1, <1>6, <1>7, <2>1, <2>4, <2>6, <2>7, <2>8 DEF Finished
    <2> QED
      BY <1>10, <2>9
  <1> QED
    BY <1>11, <1>12

\* A tag is given, or one is compared.
EndForm(f, st) == IF st = "Verify" \/ st = "DTF" THEN "B" ELSE IF st = "ETF" /\ f = "GCMSIV" THEN "A" ELSE "C"
EndStates(f) ==
  CASE f = "GCM" -> {"ETF", "Verify"} [] f = "GCMSIV" -> {"ETF", "DTF"} [] f = "OCB" -> {"ETF", "Verify"} [] f = "CMAC" -> {"Output", "Verify"}
EndOf(f, st, v) ==
  IF st = "Verify" \/ st = "DTF" THEN v \in {"Success", "Failure"} ELSE IF f = "GCMSIV" THEN v = "Enc" ELSE v = "Success"
Ended(k, j, st, t) ==
  /\ Does(k, j)' /\ EndOf(Fam(m), st, m'.st) /\ But(m', m, {"st", "out", "halted"}) /\ ks' = 0 /\ got' = got /\ todo' = t /\ may' = may

\* One kl.exec that gives or takes a tag.
LEMMA EndStep ==
  ASSUME SoftwareAssumption, NEW k, NEW j, Does(k, j), NEW st \in EndStates(Fam(m)), m.st = st, ks = 0, NEW t \in Seqs, Instruct,
         A!A!GATE(st) \subseteq {Gate(j)}, may, todo = Then(A!Exec(EndForm(Fam(m), st), BlockUnits, 0), t)
  PROVE  Ended(k, j, st, t)
  <1> DEFINE r == Quiet(m)
             f == EndForm(Fam(m), st)
  <1>1. /\ DOMAIN m = AFields /\ m.machine = k /\ k \in AEADs /\ BlockUnits \in Nat \ {0} /\ Fam(m) \in {"GCM", "GCMSIV", "OCB", "CMAC"}
    BY Families DEF Does, SoftwareAssumption
  <1>2. f \in Forms /\ A!A!MayRun(m) /\ A!A!EXF(m) = f
    <2>1. A!A!GATE(m.st) \subseteq m.policy
      BY DEF Does
    <2>2. f \in Forms
      BY DEF EndForm, Forms
    <2>3. A!A!EXF(m) = f
      BY <1>1 DEF A!A!EXF, EndForm, EndStates, Fam
    <2> QED
      BY <2>1, <2>2, <2>3 DEF A!A!MayRun
  <1> HIDE DEF r, f
  <1>3. PICK h \in 0..BlockWindow, ok \in BOOLEAN, s \in A!A!_finalize(m) : Execs_(f, BlockUnits, 0, t, h, s, ok)
    <2>1. m.st # "Invalid" /\ ks \in Nat /\ ks < BlockUnits /\ BlockUnits \in Nat /\ 0 \in Int /\ todo = Then(A!Exec(f, BlockUnits, 0), t)
      BY <1>1 DEF Does, f
    <2> QED
      BY <1>2, <2>1, Executing DEF Instruct
  <1>4. QuietOf(r, m)
    BY <1>1, Quiets DEF r
  <1>5. DOMAIN r = AFields /\ r.machine = m.machine /\ r.st = m.st
    BY <1>4 DEF QuietOf, But, AFields
  <1>6. m' = A!A!_exec(r, BlockUnits, ks, h, s, ok) /\ Goes(BlockUnits, 0, t)
    BY <1>2, <1>3 DEF Execs_, r
  <1>7. \E e, o : m' = [r EXCEPT !.st = e, !.out = o] /\ EndOf(Fam(m), st, e) /\ o \in {"tag", "verdict"}
    <2>1. A!A!Family[r.machine] = Fam(m) /\ r.st = st /\ BlockUnits >= A!A!FullTag
      BY <1>1, <1>5 DEF Fam, A!A!FullTag
    <2>2. CASE st \in {"Verify", "DTF"}
      <3>1. m' = A!A!Compare(r, BlockUnits, ok)
        <4>1. CASE Fam(m) = "GCM"
          BY <1>6, <2>1, <2>2, <4>1 DEF EndStates, A!A!_exec, A!A!_exec_gcm
        <4>2. CASE Fam(m) = "GCMSIV"
          BY <1>6, <2>1, <2>2, <4>2 DEF EndStates, A!A!_exec, A!A!_exec_gcmsiv
        <4>3. CASE Fam(m) = "OCB"
          BY <1>6, <2>1, <2>2, <4>3 DEF EndStates, A!A!_exec, A!A!_exec_ocb
        <4>4. CASE Fam(m) = "CMAC"
          BY <1>6, <2>1, <2>2, <4>4 DEF EndStates, A!A!_exec, A!A!_exec_cmac
        <4> QED
          BY <1>1, <4>1, <4>2, <4>3, <4>4
      <3>2. m' = [r EXCEPT !.st = IF ok THEN "Success" ELSE "Failure", !.out = "verdict"]
        BY <1>1, <3>1 DEF A!A!Compare, A!A!FullTag
      <3> DEFINE e == IF ok THEN "Success" ELSE "Failure"
      <3>3. m' = [r EXCEPT !.st = e, !.out = "verdict"] /\ EndOf(Fam(m), st, e)
        BY <2>2, <3>2 DEF EndOf
      <3> QED
        BY <3>3
    <2>3. CASE st \notin {"Verify", "DTF"}
      <3> DEFINE e == IF Fam(m) = "GCMSIV" THEN "Enc" ELSE "Success"
      <3>1. m' = A!A!GiveTag(r, BlockUnits, e)
        <4>1. CASE Fam(m) = "GCM"
          BY <1>6, <2>1, <2>3, <4>1 DEF EndStates, A!A!_exec, A!A!_exec_gcm
        <4>2. CASE Fam(m) = "GCMSIV"
          BY <1>6, <2>1, <2>3, <4>2 DEF EndStates, A!A!_exec, A!A!_exec_gcmsiv
        <4>3. CASE Fam(m) = "OCB"
          BY <1>6, <2>1, <2>3, <4>3 DEF EndStates, A!A!_exec, A!A!_exec_ocb
        <4>4. CASE Fam(m) = "CMAC"
          BY <1>6, <2>1, <2>3, <4>4 DEF EndStates, A!A!_exec, A!A!_exec_cmac
        <4> QED
          BY <1>1, <4>1, <4>2, <4>3, <4>4
      <3>2. EndOf(Fam(m), st, e)
        BY <2>3 DEF EndOf
      <3> HIDE DEF e
      <3>3. m' = [r EXCEPT !.st = e, !.out = "tag"]
        BY <1>1, <3>1 DEF A!A!GiveTag, A!A!FullTag
      <3> QED
        BY <3>2, <3>3
    <2> QED
      BY <2>2, <2>3
  <1>8. PICK e, o : m' = [r EXCEPT !.st = e, !.out = o] /\ EndOf(Fam(m), st, e) /\ o \in {"tag", "verdict"}
    BY <1>7
  <1>9. But(m', r, {"st", "out"}) /\ m'.st = e /\ m'.out = o
    BY <1>5, <1>8 DEF But, AFields
  <1>10. But(m', m, {"st", "out", "halted"}) /\ m'.halted = Still
    BY <1>4, <1>9 DEF QuietOf, But, AFields
  <1>11. DOMAIN m' = AFields /\ m'.machine = m.machine /\ m'.policy = m.policy /\ m'.halted.pos = 0
    BY <1>10 DEF But, AFields, Still
  <1>12. todo' = t /\ ks' = 0 /\ got' = got /\ may' = may /\ job' = job
    BY <1>6, <1>8, <1>9, <1>11 DEF Goes
  <1>13. e # "Invalid"
    BY <1>8 DEF EndOf
  <1>14. Does(k, j)'
    BY <1>9, <1>11, <1>12, <1>13 DEF Does
  <1> QED
    BY <1>8, <1>9, <1>10, <1>12, <1>14 DEF Ended

\* A move, between two instructions or within a window.
Moved_(k, j) ==
  Does(k, j)' /\ m'.st = m.st /\ m'.tag = m.tag /\ m'.used = m.used /\ m'.start = m.start /\ m'.lbl = m.lbl /\ (m'.all <=> m.all) /\ (m'.any <=> m.any)
  /\ MovedOf(m, m') /\ todo' = todo /\ ks' = ks /\ got' = got /\ may' = may

\* A move keeps what an operation needs.
LEMMA MoveStep ==
  ASSUME SoftwareAssumption, NEW k, NEW j, Does(k, j), Fam(m) = "GCMSIV" => m.ctr \in Nat, A!Moved
  PROVE  Moved_(k, j)
  <1>1. m' = [A!A!Imported(m) EXCEPT !.out = "nothing"] /\ todo' = todo /\ ks' = ks /\ got' = got /\ may' = may /\ job' = job
    BY DEF A!Moved, A!A!Move
  <1>2. DOMAIN m = AFields
    BY DEF Does
  <1>3. MovedOf(m, m')
    BY <1>1, <1>2, Moving
  <1>4. /\ DOMAIN m' = AFields /\ m'.machine = m.machine /\ m'.policy = m.policy /\ m'.st = m.st /\ m'.tag = m.tag /\ m'.used = m.used
        /\ m'.start = m.start /\ m'.lbl = m.lbl /\ m'.all = m.all /\ m'.any = m.any
    BY <1>3 DEF MovedOf, But, AFields
  <1>5. Does(k, j)'
    BY <1>1, <1>4 DEF Does
  <1> QED
    BY <1>1, <1>3, <1>4, <1>5 DEF Moved_

\* A place survives a move.
LEMMA MovedAt ==
  ASSUME SoftwareAssumption, NEW k, NEW j, NEW st, NEW tag, NEW c, NEW g, NEW t, At(k, j, st, tag, c, g, t), A!Moved,
         Fam(m) = "GCM" => st # "SAV"
  PROVE  At(k, j, st, tag, c, g, t)' /\ Moved_(k, j)
  <1>1. Does(k, j) /\ m.st = st /\ m.tag = tag /\ Counted(m, c) /\ ks = 0 /\ got = g /\ todo = t
    BY DEF At
  <1>2. Fam(m) = "GCMSIV" => m.ctr \in Nat
    BY <1>1 DEF Counted
  <1>3. Moved_(k, j)
    BY <1>1, <1>2, MoveStep
  <1>4. SameCount(m, m')
    <2>1. m.machine = m'.machine
      BY <1>1, <1>3 DEF Moved_, Does
    <2> QED
      BY <1>1, <1>3, <2>1 DEF Moved_, MovedOf, SameCount
  <1>5. Counted(m', c)
    BY <1>1, <1>4, SameCounted
  <1> QED
    BY <1>1, <1>3, <1>5 DEF At, Moved_

\* A window survives a move: its blocks are not encrypted again.
LEMMA MovedWindow ==
  ASSUME SoftwareAssumption, NEW k, NEW j, NEW st \in {"Absorb", "Enc", "Dec"}, NEW n, NEW t, NEW a, Window(k, j, st, n, t, a), A!Moved
  PROVE  Window(k, j, st, n, t, a)' /\ Moved_(k, j)
  <1> DEFINE c == IF A!A!Keyed(m) THEN ks \div BlockUnits ELSE 0
  <1>1. Does(k, j) /\ m.st = st /\ Counted(m, c)
    BY DEF Window
  <1> HIDE DEF c
  <1>2. Fam(m) = "GCMSIV" => m.ctr \in Nat
    BY <1>1 DEF Counted
  <1>3. Moved_(k, j)
    BY <1>1, <1>2, MoveStep
  <1>4. m.machine = m'.machine
    BY <1>1, <1>3 DEF Moved_, Does
  <1>5. SameCount(m, m')
    BY <1>1, <1>3, <1>4 DEF Moved_, MovedOf, SameCount
  <1>6. Counted(m', c)
    BY <1>1, <1>5, SameCounted
  <1>7. (A!A!Keyed(m') <=> A!A!Keyed(m)) /\ (A!A!Absorbs(m') <=> A!A!Absorbs(m))
    BY <1>3, <1>4 DEF Moved_, A!A!Keyed, A!A!Absorbs
  <1> QED
    BY <1>3, <1>6, <1>7 DEF Window, Moved_, c

-----------------------------------------------------------------------------
(* Places, and the steps from one to the next.                             *)

Gives(st, n) == IF A!A!GATE(st) = {} THEN 0 ELSE n
WindowOrAt(k, j, st, n, t, a, u, c, g) == Window(k, j, st, n, t, a) \/ At(k, j, st, u, c, g, t)
WindowTo(k, j, n, a, u, c) ==
  /\ Suits(k, j) /\ A!A!Keyed(m) => n \div BlockUnits <= Limit(Fam(m))
  /\ u = (IF A!A!Absorbs(m) THEN a + (n \div BlockUnits) ELSE a) /\ c = (IF A!A!Keyed(m) THEN n \div BlockUnits ELSE 0)

\* A window goes on or is over, whether the locker is moved or not.
LEMMA WindowNext ==
  ASSUME SoftwareAssumption, NEW k, NEW j, NEW st, NEW n, NEW t, NEW a, WindowFor(j, st, n, t, a), Window(k, j, st, n, t, a), Instruct \/ A!Moved,
         NEW u, NEW c, WindowTo(k, j, n, a, u, c)
  PROVE  may' = may /\ (Dead(k, j)' \/ (Aside /\ WindowOrAt(k, j, st, n, t, a, u, c, Gives(st, n))'))
  <1>1. /\ st \in {"Absorb", "Enc", "Dec"} /\ n \in Nat /\ n % BlockUnits = 0 /\ t \in Seqs /\ a \in Nat
         /\ A!A!GATE(st) \subseteq {Gate(j)} /\ (Fam(m) = "CMAC" => st = "Absorb")
    BY DEF WindowFor
  <1>2. /\ Suits(k, j) /\ A!A!Keyed(m) => n \div BlockUnits <= Limit(Fam(m))
        /\ u = (IF A!A!Absorbs(m) THEN a + (n \div BlockUnits) ELSE a) /\ c = (IF A!A!Keyed(m) THEN n \div BlockUnits ELSE 0)
    BY DEF WindowTo
  <1>3. WindowEnough(k, j, n)
    BY <1>2 DEF WindowEnough
  <1>4. CASE A!Moved
    <2>1. Window(k, j, st, n, t, a)' /\ Moved_(k, j)
      BY <1>1, <1>4, MovedWindow
    <2> QED
      BY <2>1 DEF Moved_, Aside, WindowOrAt
  <1>5. CASE Instruct
    <2>1. may' = may /\ (Dead(k, j)' \/ (Aside /\ (Window(k, j, st, n, t, a)' \/ Over(k, j, st, n, t, a)')))
      BY <1>5, <1>3, WindowStep
    <2>2. ASSUME Over(k, j, st, n, t, a)' PROVE At(k, j, st, u, c, Gives(st, n), t)'
      <3>1. m'.machine = m.machine /\ m'.st = m.st
        BY <2>2 DEF Over, Window, Does
      <3>2. (A!A!Keyed(m') <=> A!A!Keyed(m)) /\ (A!A!Absorbs(m') <=> A!A!Absorbs(m))
        BY <3>1 DEF A!A!Keyed, A!A!Absorbs
      <3> QED
        BY <1>2, <2>2, <3>2 DEF Over, At, Gives
    <2> QED
      BY <2>1, <2>2 DEF WindowOrAt
  <1> QED
    BY <1>4, <1>5

\* The same, for a window whose parameters are known.
LEMMA WindowThen ==
  ASSUME SoftwareAssumption, NEW k, NEW j, NEW st \in {"Absorb", "Enc", "Dec"}, NEW n \in Nat, n % BlockUnits = 0, NEW t \in Seqs, NEW a \in Nat,
         Window(k, j, st, n, t, a), Instruct \/ A!Moved, A!A!GATE(st) \subseteq {Gate(j)}, Fam(m) = "CMAC" => st = "Absorb",
         NEW u, NEW c, WindowTo(k, j, n, a, u, c)
  PROVE  may' = may /\ (Dead(k, j)' \/ (Aside /\ WindowOrAt(k, j, st, n, t, a, u, c, Gives(st, n))'))
  BY WindowNext DEF WindowFor

\* A place before a window is the window at its beginning.
LEMMA AtWindow ==
  ASSUME SoftwareAssumption, NEW k, NEW j, NEW st, NEW n \in Nat, n > 0, NEW t, NEW a \in Nat, NEW g, g = Gives(st, n),
         At(k, j, st, a, 0, 0, Then(A!Exec(Form(st), n, g), t)), A!A!GATE(st) # {} => may
  PROVE  Window(k, j, st, n, t, a)
  <1>1. 0 % BlockUnits = 0 /\ 0 \div BlockUnits = 0 /\ 0 \in Nat /\ a + 0 = a
    BY DEF SoftwareAssumption
  <1>2. /\ Does(k, j) /\ m.st = st /\ m.tag = a /\ Counted(m, 0) /\ ks = 0 /\ got = 0
        /\ todo = Then(A!Exec(IF st = "Absorb" THEN "B" ELSE "A", n, IF A!A!GATE(st) = {} THEN 0 ELSE n), t)
    BY DEF At, Form, Gives
  <1> QED
    BY <1>1, <1>2 DEF Window

\* A place before a final block.
Piece(k, j, st, tag, c, g, t) == At(k, j, st, tag, c, g, t) /\ m.lbl \in 1..BlockUnits /\ (Fam(m) = "CMAC" => ~ m.all) /\ (A!A!GATE(st) # {} => may)
PieceOver(k, j, st, tag, c, g, t, l) == At(k, j, st, tag, c, g, t) /\ m.lbl = l /\ (Fam(m) = "CMAC" => m.all)
\* The place after it.
PieceTo(k, j, st, tag, c, g, x, next, u, d, w, l) ==
  /\ Suits(k, j) /\ A!A!Keyed(m) => c + 1 <= Limit(Fam(m))
  /\ next = NextOf(m) /\ u = (IF A!A!Absorbs(m) THEN tag + 1 ELSE tag) /\ d = More_(m, c, 1)
  /\ w = (IF A!A!GATE(st) = {} THEN g ELSE g + x) /\ l = (IF Fam(m) = "CMAC" \/ (Fam(m) = "OCB" /\ st # "Last") THEN m.lbl ELSE 0)

\* A final piece waits or is processed, whether the locker is moved or not.
LEMMA PieceThen ==
  ASSUME SoftwareAssumption, NEW k, NEW j, NEW st \in FinalStates(Fam(m)), NEW tag \in Nat, NEW c, NEW g \in Int, NEW x \in Int, NEW t \in Seqs, NEW s,
         Piece(k, j, st, tag, c, g, s), s = Then(A!Exec(FinalForm(st), BlockUnits, x), t), Instruct \/ A!Moved, A!A!GATE(st) \subseteq {Gate(j)},
         NEW next, NEW u, NEW d, NEW w, NEW l, PieceTo(k, j, st, tag, c, g, x, next, u, d, w, l)
  PROVE  \/ Dead(k, j)'
         \/ m'.lbl = m.lbl /\ Piece(k, j, st, tag, c, g, s)'
         \/ may' = may /\ PieceOver(k, j, next, u, d, w, t, l)' /\ (A!A!Keyed(m) => c + 1 <= Limit(Fam(m)))
  <1>1. /\ Suits(k, j) /\ A!A!Keyed(m) => c + 1 <= Limit(Fam(m))
        /\ next = NextOf(m) /\ u = (IF A!A!Absorbs(m) THEN tag + 1 ELSE tag) /\ d = More_(m, c, 1)
        /\ w = (IF A!A!GATE(st) = {} THEN g ELSE g + x) /\ l = (IF Fam(m) = "CMAC" \/ (Fam(m) = "OCB" /\ st # "Last") THEN m.lbl ELSE 0)
    BY DEF PieceTo
  <1>2. At(k, j, st, tag, c, g, s) /\ m.lbl \in 1..BlockUnits /\ (Fam(m) = "CMAC" => ~ m.all) /\ (A!A!GATE(st) # {} => may)
    BY DEF Piece
  <1>3. Does(k, j) /\ m.st = st /\ m.tag = tag /\ Counted(m, c) /\ ks = 0 /\ got = g /\ todo = s
    BY <1>2 DEF At
  <1>4. CASE A!Moved
    <2>1. Fam(m) = "GCM" => st # "SAV"
      BY DEF FinalStates
    <2>2. At(k, j, st, tag, c, g, s)' /\ Moved_(k, j)
      BY <1>2, <1>4, <2>1, MovedAt
    <2>3. m'.lbl = m.lbl /\ (m'.all <=> m.all) /\ may' = may /\ Fam(m') = Fam(m)
      BY <1>3, <2>2 DEF Moved_, Does, Fam
    <2> QED
      BY <1>2, <2>2, <2>3 DEF Piece
  <1>5. CASE Instruct
    <2>1. Final_(k, j, st, tag, c, g, x, t)
      BY <1>2, <1>3 DEF Final_
    <2>2. may' = may /\ (Dead(k, j)' \/ Finished(k, j, st, tag, c, g, x, t))
      BY <1>1, <1>5, <2>1, FinalStep
    <2>3. ASSUME Finished(k, j, st, tag, c, g, x, t)
          PROVE  PieceOver(k, j, next, u, d, w, t, l)'
      <3>1. Fam(m') = Fam(m)
        BY <1>3, <2>3 DEF Finished, Does, Fam
      <3> QED
        BY <1>1, <2>3, <3>1 DEF Finished, PieceOver, At
    <2>4. Finished(k, j, st, tag, c, g, x, t) => (A!A!Keyed(m) => c + 1 <= Limit(Fam(m)))
      BY DEF Finished
    <2> QED
      BY <2>2, <2>3, <2>4
  <1> QED
    BY <1>4, <1>5

\* The sequence is over, and did what it should.
Whole(k, j) ==
  /\ got = (IF k = "CMAC" THEN 0 ELSE j.text) /\ m.tag = A!Blocks(j.aad) + A!Blocks(j.text)
  /\ m.st \in IF j.dec THEN {"Success", "Failure"} ELSE IF k = "GCMSIV" THEN {"Enc", "ELB"} ELSE {"Success"}
Stream(k, j) ==
  LET n == A!Blocks(j.text) IN
  CASE A!A!Family[k] = "GCM" -> m.used = {(m.start + i) % CM : i \in 0..n}
    [] A!A!Family[k] = "GCMSIV" -> m.used = 0..n - 1
    [] A!A!Family[k] = "OCB" -> m.ctr = (j.text \div BlockUnits) + 1
    [] OTHER -> m.used = {}
Done(k, j) == Does(k, j) /\ todo = <<>> /\ may /\ Suits(k, j) /\ Whole(k, j) /\ Stream(k, j)

\* The locker is Ready and all of the sequence is ahead.
Fresh(k, j, t) ==
  /\ Does(k, j) /\ m.st = "Ready" /\ m.tag = 0 /\ m.used = {} /\ ~ m.any /\ ~ m.all /\ ks = 0 /\ got = 0 /\ todo = t
  /\ (k = "GCM_IV" => m.start = 1 /\ m.ctr = 1) /\ (Fam(m) = "GCMSIV" => m.ctr = 0)

\* A Machine that draws no nonce has used no counter when it is Ready.
LEMMA FreshCount ==
  ASSUME SoftwareAssumption, NEW k, NEW j, NEW t, Fresh(k, j, t), k \in {"GCM_IV", "GCMSIV", "CMAC"}
  PROVE  Counted(m, 0)
  <1>1. m.machine = k /\ m.used = {} /\ (k = "GCM_IV" => m.start = 1 /\ m.ctr = 1) /\ (Fam(m) = "GCMSIV" => m.ctr = 0) /\ k \in AEADs
    BY DEF Fresh, Does
  <1>2. CM \in Nat /\ CM >= 3 /\ MAX_BLOCKS \in Nat
    BY DEF SoftwareAssumption
  <1>3. Fam(m) = (CASE k = "GCM_IV" -> "GCM" [] k = "GCMSIV" -> "GCMSIV" [] k = "CMAC" -> "CMAC")
    BY <1>1 DEF Fam, A!A!Family
  <1>4. 0 <= Limit(Fam(m)) /\ 0..0 - 1 = {} /\ Taken(m.start, 0) = {}
    BY <1>2 DEF Limit, Taken
  <1>5. Nth(1, 0) = 1
    <2>1. 1 \in 0..CM - 1 /\ 0 \in 0..CM - 2
      BY <1>2
    <2>2. 1 % CM = 1
      BY <2>1, Left
    <2> QED
      BY <2>2 DEF Nth
  <1> QED
    BY <1>1, <1>2, <1>3, <1>4, <1>5 DEF Counted

\* A locker that is Ready survives a move.
LEMMA MovedFresh ==
  ASSUME SoftwareAssumption, NEW k, NEW j, NEW t, Fresh(k, j, t), A!Moved
  PROVE  Fresh(k, j, t)'
  <1>1. Does(k, j) /\ (Fam(m) = "GCMSIV" => m.ctr = 0) /\ m.st = "Ready"
    BY DEF Fresh
  <1>2. Moved_(k, j)
    BY <1>1, MoveStep
  <1>3. Fam(m') = Fam(m) /\ m'.ctr = m.ctr
    BY <1>1, <1>2 DEF Moved_, MovedOf, Does, Fam
  <1> QED
    BY <1>2, <1>3 DEF Fresh, Moved_

\* A State is entered, or the CC is moved before.
Turned(k, j, st, tag, c, g, s, to, x, e, t) ==
  \/ Dead(k, j)'
  \/ At(k, j, st, tag, c, g, s)' /\ Moved_(k, j)
  \/ At(k, j, to, tag, e, g, t)' /\ EnteredOf(m, m', to, x) /\ may' = may /\ (A!A!GATE(to) # {} => may)

\* From a place to the State that its next instruction enters.
LEMMA Turning ==
  ASSUME SoftwareAssumption, NEW k, NEW j, NEW st, NEW tag, NEW c, NEW g, NEW s, At(k, j, st, tag, c, g, s), Instruct \/ A!Moved,
         Fam(m) = "GCM" => st # "SAV", NEW to \in Names, NEW form \in Forms, NEW x \in Nat, NEW t \in Seqs, s = Then(A!Setst(to, form, x), t),
         Suits(k, j) => Allowed(to, form, x), A!A!GATE(to) \subseteq {Gate(j)}, NEW e,
         IF Fam(m) = "OCB" /\ to \in {"Absorb", "Enc", "Dec"} THEN e = 0 ELSE e = c /\ ~ (Fam(m) = "GCM" /\ to \in {"ETF", "DTF"})
  PROVE  Turned(k, j, st, tag, c, g, s, to, x, e, t)
  <1>1. CASE A!Moved
    BY <1>1, MovedAt DEF Turned
  <1>2. CASE Instruct
    <2>1. Does(k, j) /\ todo = Then(A!Setst(to, form, x), t) /\ Counted(m, c) /\ m.tag = tag /\ got = g
      BY DEF At
    <2>2. Dead(k, j)' \/ EntersTo(k, j, to, x, t)
      BY <1>2, <2>1, Entering
    <2>3. ASSUME EntersTo(k, j, to, x, t) PROVE At(k, j, to, tag, e, g, t)'
      BY <2>1, <2>3, Arrive
    <2> QED
      BY <2>2, <2>3 DEF Turned, EntersTo
  <1> QED
    BY <1>1, <1>2

\* A tag is given or compared, or the CC is moved before.
Closed(k, j, st, tag, c, g, s, t) ==
  \/ At(k, j, st, tag, c, g, s)' /\ Moved_(k, j)
  \/ /\ Does(k, j)' /\ EndOf(Fam(m), st, m'.st) /\ But(m', m, {"st", "out", "halted"}) /\ m'.tag = tag /\ Counted(m', c)
     /\ ks' = 0 /\ got' = g /\ todo' = t /\ may' = may

\* From a place before the tag to the end of its sequence.
LEMMA Closing ==
  ASSUME SoftwareAssumption, NEW k, NEW j, NEW st \in EndStates(Fam(m)), NEW tag, NEW c, NEW g, NEW s, At(k, j, st, tag, c, g, s), Instruct \/ A!Moved,
         NEW t \in Seqs, s = Then(A!Exec(EndForm(Fam(m), st), BlockUnits, 0), t), A!A!GATE(st) \subseteq {Gate(j)}, may
  PROVE  Closed(k, j, st, tag, c, g, s, t)
  <1>1. CASE A!Moved
    <2>1. Fam(m) \in {"GCM", "GCMSIV", "OCB", "CMAC"}
      BY Families DEF At, Does
    <2>2. st # "SAV"
      BY <2>1 DEF EndStates
    <2> QED
      BY <1>1, <2>2, MovedAt DEF Closed
  <1>2. CASE Instruct
    <2>1. Does(k, j) /\ todo = s /\ Counted(m, c) /\ m.tag = tag /\ got = g /\ ks = 0 /\ m.st = st
      BY DEF At
    <2>2. Ended(k, j, st, t)
      BY <1>2, <2>1, EndStep
    <2>3. But(m', m, {"st", "out", "halted"})
      BY <2>2 DEF Ended
    <2>4. m'.tag = m.tag /\ SameCount(m, m')
      BY <2>3 DEF But, AFields, SameCount
    <2>5. Counted(m', c)
      BY <2>1, <2>4, SameCounted
    <2> QED
      BY <2>1, <2>2, <2>4, <2>5 DEF Closed, Ended
  <1> QED
    BY <1>1, <1>2

-----------------------------------------------------------------------------
(* CMAC.                                                                   *)

CAll(j) == A!Blocks(j.text)
CBlocks(j) == A!Full(j.text) \div BlockUnits
CPhase(k, j) ==
  \/ At(k, j, "Ready", 0, 0, 0, CBegin(j)) /\ ~ m.any
  \/ At(k, j, "Absorb", 0, 0, 0, CFeed(j)) /\ (j.text = 0 => ~ m.any)
  \/ A!Full(j.text) > 0 /\ Window(k, j, "Absorb", A!Full(j.text), CLast(j), 0)
  \/ At(k, j, "Absorb", CBlocks(j), 0, 0, CLast(j)) /\ (j.text = 0 => ~ m.any)
  \/ j.text > 0 /\ Piece(k, j, "Last", CBlocks(j), 0, 0, CFinal(j))
  \/ At(k, j, "Last", CAll(j), 0, 0, COut(j)) /\ m.all
  \/ At(k, j, "Output", CAll(j), 0, 0, Tag("C")) /\ ~ j.dec /\ may
  \/ At(k, j, "Verify", CAll(j), 0, 0, Tag("B")) /\ j.dec /\ may
  \/ Done(k, j)

\* kl.setst of the Machine.
LEMMA CAllowed ==
  ASSUME SoftwareAssumption, m.machine = "CMAC"
  PROVE  /\ m.st = "Ready" => Allowed("Absorb", "A", 0)
         /\ \A x \in Nat : m.st = "Absorb" /\ x <= BlockUnits /\ (x = 0 => ~ m.any) => Allowed("Last", "B", x)
         /\ m.st = "Last" /\ m.all => Allowed("Output", "A", 0) /\ Allowed("Verify", "B", BlockUnits)
  <1>1. A!A!TRANS["CMAC"] = A!A!CmacTRANS /\ A!A!Family["CMAC"] = "CMAC" /\ A!A!SETF["CMAC"] = [B |-> {"Last", "Verify"}, C |-> {}]
    BY DEF A!A!TRANS, A!A!Family, A!A!SETF
  <1>2. /\ A!A!SetForm(m, "Absorb") = "A" /\ A!A!SetForm(m, "Last") = "B" /\ A!A!SetForm(m, "Output") = "A" /\ A!A!SetForm(m, "Verify") = "B"
    BY <1>1 DEF A!A!SetForm
  <1>3. m.st \in {"Ready", "Absorb", "Last"} => \A to : A!A!_leave(m, to)
    BY <1>1 DEF A!A!_leave
  <1>4. \A to, x : A!A!_enter_ok(m, to, x) <=> A!A!_enter_cmac(m, to, x)
    BY <1>1 DEF A!A!_enter_ok
  <1> QED
    BY <1>1, <1>2, <1>3, <1>4 DEF Allowed, A!A!_formok, A!A!_enter_cmac, A!A!CmacTRANS, A!A!FullTag

\* A step of a sequence of CMAC leads from a phase to a phase, or the operation does not suit.
LEMMA CStep ==
  ASSUME SoftwareAssumption, NEW k, k = "CMAC", NEW j, j \in A!Jobs(k), CPhase(k, j), Instruct \/ A!Moved
  PROVE  Dead(k, j)' \/ CPhase(k, j)'
  <1> DEFINE f == A!Full(j.text)
             a == CBlocks(j)
             b == CAll(j)
             t1 == CFeed(j)
             t2 == CLast(j)
             t3 == CFinal(j)
             t4 == COut(j)
             ver == Then(A!Setst("Verify", "B", BlockUnits), Tag("B"))
             tc == Tag("C")
             tb == Tag("B")
  <1>1. /\ f \in Nat /\ f % BlockUnits = 0 /\ a = f \div BlockUnits /\ a \in Nat /\ j.text \in Nat /\ j.text - f \in Nat /\ j.text - f <= BlockUnits
        /\ (j.text = 0 => f = 0 /\ a = 0 /\ b = 0 /\ j.text - f = 0) /\ (j.text # 0 => j.text - f # 0 /\ b = a + 1)
        /\ b \in Nat /\ j.aad = 0 /\ j.dec \in BOOLEAN /\ BlockUnits \in Nat \ {0, 1}
    <2>1. Lengths(j) /\ j.aad = 0 /\ j.dec \in BOOLEAN
      BY JobIs
    <2>2. j.text \in Nat
      BY <2>1 DEF Lengths
    <2>3. 0 \div BlockUnits = 0 /\ BlockUnits \in Nat \ {0, 1}
      BY DEF SoftwareAssumption
    <2>4. f \in Nat /\ f % BlockUnits = 0 /\ f <= j.text /\ j.text - f <= BlockUnits /\ (j.text = 0 => f = 0 /\ j.text - f = 0 /\ b = 0)
          /\ (j.text # 0 => j.text - f # 0 /\ b = a + 1) /\ a = f \div BlockUnits
      BY <2>2, Fulls DEF CBlocks, CAll
    <2> HIDE DEF f, b
    <2>5. a \in Nat
      BY <2>4, Units
    <2>6. b \in Nat
      BY <2>4, <2>2, <2>5
    <2> QED
      BY <2>1, <2>2, <2>3, <2>4, <2>5, <2>6
  <1>2. t1 \in Seqs /\ t2 \in Seqs /\ t3 \in Seqs /\ t4 \in Seqs /\ tb \in Seqs /\ tc \in Seqs /\ ver \in Seqs
    <2>1. Lengths(j)
      BY JobIs
    <2> QED
      BY <2>1, CSeqs, GSeqs, Tags DEF GVerify, Forms
  <1>3. /\ CBegin(j) = Then(A!Setst("Absorb", "A", 0), t1) /\ t1 = (IF f > 0 THEN Then(A!Exec("B", f, 0), t2) ELSE t2)
        /\ t2 = Then(A!Setst("Last", "B", j.text - f), t3) /\ t3 = (IF j.text > 0 THEN Then(A!Exec("B", BlockUnits, 0), t4) ELSE t4)
        /\ t4 = (IF j.dec THEN ver ELSE Then(A!Setst("Output", "A", 0), tc))
    BY DEF CBegin, CFeed, CLast, CFinal, COut, Start, GVerify
  <1>4. A!A!GATE("Absorb") = {} /\ A!A!GATE("Last") = {} /\ A!A!GATE("Output") = {0} /\ A!A!GATE("Verify") = {1}
    BY DEF A!A!GATE
  <1>5. Does(k, j) /\ m.machine = "CMAC" /\ Fam(m) = "CMAC"
    <2>1. Does(k, j)
      BY DEF CPhase, At, Window, Piece, Done
    <2> QED
      BY <2>1 DEF Does, Fam, A!A!Family
  <1> HIDE DEF f, a, b, t1, t2, t3, t4, tb, tc, ver
  <1>6. CPhase(k, j)' <=>
          \/ At(k, j, "Ready", 0, 0, 0, CBegin(j))' /\ ~ m'.any
          \/ At(k, j, "Absorb", 0, 0, 0, t1)' /\ (j.text = 0 => ~ m'.any)
          \/ f > 0 /\ Window(k, j, "Absorb", f, t2, 0)'
          \/ At(k, j, "Absorb", a, 0, 0, t2)' /\ (j.text = 0 => ~ m'.any)
          \/ j.text > 0 /\ Piece(k, j, "Last", a, 0, 0, t3)'
          \/ At(k, j, "Last", b, 0, 0, t4)' /\ m'.all
          \/ At(k, j, "Output", b, 0, 0, tc)' /\ ~ j.dec /\ may'
          \/ At(k, j, "Verify", b, 0, 0, tb)' /\ j.dec /\ may'
          \/ Done(k, j)'
    BY DEF CPhase, f, a, b, t1, t2, t3, t4, tb, tc
  <1>7. CASE At(k, j, "Ready", 0, 0, 0, CBegin(j)) /\ ~ m.any
    <2>1. Allowed("Absorb", "A", 0)
      BY <1>5, <1>7, CAllowed DEF At
    <2>2. Turned(k, j, "Ready", 0, 0, 0, CBegin(j), "Absorb", 0, 0, t1)
      BY <1>2, <1>3, <1>4, <1>5, <1>7, <2>1, Turning DEF Names, Forms
    <2> QED
      BY <1>6, <1>7, <2>2 DEF Turned, EnteredOf, Moved_
  <1>8. ASSUME f > 0, Window(k, j, "Absorb", f, t2, 0) PROVE Dead(k, j)' \/ CPhase(k, j)'
    <2>1. m.st = "Absorb"
      BY <1>8 DEF Window
    <2>2. A!A!Absorbs(m) /\ ~ A!A!Keyed(m)
      BY <1>5, <2>1 DEF A!A!Absorbs, A!A!Keyed, Fam
    <2>3. WindowTo(k, j, f, 0, a, 0)
      BY <1>1, <2>2 DEF WindowTo
    <2>4. Dead(k, j)' \/ (Aside /\ WindowOrAt(k, j, "Absorb", f, t2, 0, a, 0, Gives("Absorb", f))')
      BY <1>1, <1>2, <1>4, <1>8, <2>3, WindowThen
    <2>5. Gives("Absorb", f) = 0
      BY <1>4 DEF Gives
    <2> QED
      BY <1>1, <1>6, <1>8, <2>4, <2>5 DEF WindowOrAt
  <1>9. ASSUME At(k, j, "Absorb", a, 0, 0, t2), j.text = 0 => ~ m.any PROVE Dead(k, j)' \/ CPhase(k, j)'
    <2> DEFINE x == j.text - f
    <2>1. Allowed("Last", "B", x) /\ x \in Nat /\ (x = 0 <=> j.text = 0) /\ x <= BlockUnits
      BY <1>1, <1>5, <1>9, CAllowed DEF At
    <2>2. Turned(k, j, "Absorb", a, 0, 0, t2, "Last", x, 0, t3)
      <3> HIDE DEF x
      <3>1. t2 = Then(A!Setst("Last", "B", x), t3)
        BY <1>3 DEF x
      <3> QED
        BY <1>2, <1>4, <1>5, <1>9, <2>1, <3>1, Turning DEF Names, Forms
    <2> HIDE DEF x
    <2>3. ASSUME At(k, j, "Last", a, 0, 0, t3)', EnteredOf(m, m', "Last", x)  PROVE CPhase(k, j)'
      <3>1. m'.lbl = x /\ (m'.all <=> x = 0)
        BY <1>5, <2>3 DEF EnteredOf, A!A!Final
      <3>2. CASE j.text = 0
        <4>1. b = a /\ t3 = t4
          BY <1>1, <1>3, <3>2
        <4> QED
          BY <1>6, <2>1, <2>3, <3>1, <3>2, <4>1
      <3>3. CASE j.text # 0
        <4>1. x \in 1..BlockUnits /\ j.text > 0
          BY <1>1, <2>1, <3>3
        <4>2. Piece(k, j, "Last", a, 0, 0, t3)'
          BY <1>4, <2>3, <3>1, <4>1 DEF Piece
        <4> QED
          BY <1>6, <4>1, <4>2
      <3> QED
        BY <3>2, <3>3
    <2> QED
      BY <1>6, <1>9, <2>2, <2>3 DEF Turned, Moved_
  <1>10. CASE At(k, j, "Absorb", 0, 0, 0, t1) /\ (j.text = 0 => ~ m.any)
    <2>1. CASE f > 0
      <3>1. t1 = Then(A!Exec(Form("Absorb"), f, 0), t2) /\ 0 = Gives("Absorb", f)
        BY <1>3, <1>4, <2>1 DEF Form, Gives
      <3>2. Window(k, j, "Absorb", f, t2, 0)
        BY <1>1, <1>4, <1>10, <2>1, <3>1, AtWindow
      <3> QED
        BY <1>8, <2>1, <3>2
    <2>2. CASE ~ (f > 0)
      <3>1. t1 = t2 /\ a = 0
        BY <1>1, <1>3, <2>2 DEF SoftwareAssumption
      <3> QED
        BY <1>9, <1>10, <3>1
    <2> QED
      BY <2>1, <2>2
  <1>11. CASE j.text > 0 /\ Piece(k, j, "Last", a, 0, 0, t3)
    <2>1. m.st = "Last" /\ At(k, j, "Last", a, 0, 0, t3)
      BY <1>11 DEF Piece, At
    <2>2. A!A!Absorbs(m) /\ ~ A!A!Keyed(m) /\ NextOf(m) = "Last" /\ More_(m, 0, 1) = 0
      BY <1>5, <2>1 DEF A!A!Absorbs, A!A!Keyed, Fam, NextOf, More_, Grows
    <2>3. "Last" \in FinalStates(Fam(m)) /\ t3 = Then(A!Exec(FinalForm("Last"), BlockUnits, 0), t4)
      BY <1>3, <1>5, <1>11 DEF FinalStates, FinalForm
    <2>4. PICK l : PieceTo(k, j, "Last", a, 0, 0, 0, "Last", b, 0, 0, l)
      BY <1>1, <1>4, <1>11, <2>2 DEF PieceTo
    <2>5. \/ Dead(k, j)'
          \/ m'.lbl = m.lbl /\ Piece(k, j, "Last", a, 0, 0, t3)'
          \/ may' = may /\ PieceOver(k, j, "Last", b, 0, 0, t4, l)'
      BY <1>1, <1>2, <1>4, <1>11, <2>3, <2>4, PieceThen
    <2> QED
      BY <1>4, <1>5, <1>6, <1>11, <2>5 DEF PieceOver, At, Does, Fam, A!A!Family
  <1>12. CASE At(k, j, "Last", b, 0, 0, t4) /\ m.all
    <2>1. Allowed("Output", "A", 0) /\ Allowed("Verify", "B", BlockUnits)
      BY <1>5, <1>12, CAllowed DEF At
    <2>2. CASE j.dec
      <3>1. t4 = Then(A!Setst("Verify", "B", BlockUnits), tb)
        BY <1>3, <2>2 DEF ver, tb
      <3>2. Turned(k, j, "Last", b, 0, 0, t4, "Verify", BlockUnits, 0, tb)
        BY <1>1, <1>2, <1>3, <1>4, <1>5, <1>12, <2>1, <2>2, <3>1, Turning DEF Names, Forms, Gate
      <3> QED
        BY <1>4, <1>6, <1>12, <2>2, <3>2 DEF Turned, Moved_
    <2>3. CASE ~ j.dec
      <3>1. Turned(k, j, "Last", b, 0, 0, t4, "Output", 0, 0, tc)
        BY <1>1, <1>2, <1>3, <1>4, <1>5, <1>12, <2>1, <2>3, Turning DEF Names, Forms, Gate
      <3> QED
        BY <1>4, <1>6, <1>12, <2>3, <3>1 DEF Turned, Moved_
    <2> QED
      BY <2>2, <2>3
  <1>13. A!A!Family["CMAC"] = "CMAC" /\ A!Blocks(0) = 0 /\ b = A!Blocks(j.text) /\ <<>> \in Seqs
    BY Pieces, NoIns DEF A!A!Family, b, CAll
  <1>14. ASSUME Does(k, j)', m'.tag = b, Counted(m', 0), got' = 0, todo' = <<>>, may',
                m'.st \in IF j.dec THEN {"Success", "Failure"} ELSE {"Success"}
         PROVE  CPhase(k, j)'
    <2>1. m'.used = {}
      BY <1>14, <1>13 DEF Counted, Fam, Does
    <2>2. Stream(k, j)'
      BY <1>13, <2>1 DEF Stream
    <2>3. Whole(k, j)'
      BY <1>1, <1>13, <1>14 DEF Whole
    <2>4. Suits(k, j)
      BY <1>13 DEF Suits
    <2>5. Done(k, j)'
      BY <1>14, <2>2, <2>3, <2>4 DEF Done, Suits
    <2> QED
      BY <1>6, <2>5
  <1>15. CASE At(k, j, "Output", b, 0, 0, tc) /\ ~ j.dec /\ may
    <2>1. tc = Then(A!Exec("C", BlockUnits, 0), <<>>)
      BY DEF tc, Tag
    <2>2. Closed(k, j, "Output", b, 0, 0, tc, <<>>)
      BY <1>4, <1>5, <1>13, <1>15, <2>1, Closing DEF EndStates, EndForm, Gate
    <2> QED
      BY <1>5, <1>6, <1>14, <1>15, <2>2 DEF Closed, EndOf, Moved_
  <1>16. CASE At(k, j, "Verify", b, 0, 0, tb) /\ j.dec /\ may
    <2>1. tb = Then(A!Exec("B", BlockUnits, 0), <<>>)
      BY DEF tb, Tag
    <2>2. Closed(k, j, "Verify", b, 0, 0, tb, <<>>)
      BY <1>4, <1>5, <1>13, <1>16, <2>1, Closing DEF EndStates, EndForm, Gate
    <2> QED
      BY <1>5, <1>6, <1>14, <1>16, <2>2 DEF Closed, EndOf, Moved_
  <1>17. ~ Done(k, j)
    BY DEF Done, Instruct, A!SetstStep, A!ExecStep, A!Moved, A!More
  <1> QED
    BY <1>7, <1>8, <1>9, <1>10, <1>11, <1>12, <1>15, <1>16, <1>17 DEF CPhase, f, a, b, t1, t2, t3, t4, tb, tc

\* The lengths of an operation, in units and in blocks.
QText(j) == j.text \div BlockUnits
RText(j) == j.text % BlockUnits
FText(j) == j.text - RText(j)
BText(j) == A!Blocks(j.text)
BAad(j) == A!Blocks(j.aad)
Sizes(j) ==
  /\ BlockUnits \in Nat \ {0, 1} /\ j.text \in Nat /\ j.aad \in Nat /\ j.dec \in BOOLEAN
  /\ QText(j) \in Nat /\ RText(j) \in 0..BlockUnits - 1 /\ FText(j) \in Nat /\ FText(j) % BlockUnits = 0 /\ FText(j) \div BlockUnits = QText(j)
  /\ FText(j) + RText(j) = j.text /\ BText(j) \in Nat /\ BText(j) = (IF RText(j) = 0 THEN QText(j) ELSE QText(j) + 1)
  /\ BAad(j) \in Nat /\ (QText(j) = 0 <=> j.text < BlockUnits) /\ (j.text < BlockUnits => FText(j) = 0) /\ (j.text >= BlockUnits => FText(j) > 0)
  /\ A!pad16(j.aad) \in Nat /\ A!pad16(j.aad) % BlockUnits = 0 /\ A!pad16(j.aad) \div BlockUnits = BAad(j) /\ (j.aad = 0 => BAad(j) = 0)
  /\ A!pad16(j.text) \in Nat /\ A!pad16(j.text) % BlockUnits = 0 /\ A!pad16(j.text) \div BlockUnits = BText(j) /\ (j.text = 0 => BText(j) = 0)
  /\ (j.aad > 0 => A!pad16(j.aad) > 0) /\ (j.text > 0 => A!pad16(j.text) > 0)

\* The lengths of an operation that software asks for.
LEMMA Sizing ==
  ASSUME SoftwareAssumption, NEW k, NEW j \in A!Jobs(k)
  PROVE  Sizes(j) /\ Lengths(j)
  <1>1. Lengths(j) /\ j.text \in Nat /\ j.aad \in Nat /\ j.dec \in BOOLEAN /\ BlockUnits \in Nat \ {0, 1}
    BY JobIs DEF Lengths, SoftwareAssumption
  <1>2. QText(j) \in Nat /\ RText(j) \in 0..BlockUnits - 1 /\ j.text = BlockUnits * QText(j) + RText(j)
    BY <1>1, Units DEF QText, RText
  <1>3. /\ BText(j) = (IF RText(j) = 0 THEN QText(j) ELSE QText(j) + 1)
        /\ FText(j) \in Nat /\ FText(j) % BlockUnits = 0 /\ FText(j) \div BlockUnits = QText(j) /\ (QText(j) = 0 <=> j.text < BlockUnits)
        /\ A!pad16(j.text) \in Nat /\ A!pad16(j.text) % BlockUnits = 0 /\ A!pad16(j.text) \div BlockUnits = BText(j) /\ j.text <= A!pad16(j.text)
        /\ BText(j) \in Nat /\ (j.text = 0 => BText(j) = 0)
    BY <1>1, Pieces DEF QText, RText, FText, BText
  <1>4. /\ A!pad16(j.aad) \in Nat /\ A!pad16(j.aad) % BlockUnits = 0 /\ A!pad16(j.aad) \div BlockUnits = BAad(j) /\ j.aad <= A!pad16(j.aad)
        /\ BAad(j) \in Nat /\ (j.aad = 0 => BAad(j) = 0)
    BY <1>1, Pieces DEF BAad
  <1>5. FText(j) + RText(j) = j.text /\ (j.text < BlockUnits => FText(j) = 0) /\ (j.text >= BlockUnits => FText(j) > 0)
    <2>1. FText(j) = j.text - RText(j)
      BY DEF FText
    <2>2. QText(j) = 0 => BlockUnits * QText(j) = 0
      BY <1>1
    <2> QED
      BY <1>1, <1>2, <1>3, <2>1, <2>2
  <1>6. (j.aad > 0 => A!pad16(j.aad) > 0) /\ (j.text > 0 => A!pad16(j.text) > 0)
    BY <1>1, <1>3, <1>4
  <1> QED
    BY <1>1, <1>2, <1>3, <1>4, <1>5, <1>6 DEF Sizes

\* The two States that process text, and how many blocks are counted in them.
LEMMA TextStates ==
  ASSUME NEW j, j.dec \in BOOLEAN
  PROVE  /\ TextSt(j) \in {"Enc", "Dec"} /\ LastSt(j) \in {"ELB", "DLB"} /\ TextSt(j) \in Names /\ LastSt(j) \in Names
         /\ A!A!GATE(TextSt(j)) = {Gate(j)} /\ A!A!GATE(LastSt(j)) = {Gate(j)} /\ \A n : Gives(TextSt(j), n) = n
         /\ Form(TextSt(j)) = "A" /\ FinalForm(LastSt(j)) = "A"
         /\ (m.st = TextSt(j) \/ m.st = LastSt(j) => A!A!Keyed(m))
  BY DEF TextSt, LastSt, Names, A!A!GATE, Gate, Gives, Form, FinalForm, A!A!Keyed

-----------------------------------------------------------------------------
(* GCM-SIV.                                                                *)

STextTag(j) == IF j.dec THEN BAad(j) ELSE BAad(j) + BText(j)
SRestTag(j) == IF j.dec THEN BAad(j) + QText(j) ELSE BAad(j) + BText(j)
SPiece(j) == Then(A!Exec("A", BlockUnits, RText(j)), STail(j))
SPhase(k, j) ==
  \/ At(k, j, "Ready", 0, 0, 0, SBegin(j))
  \/ At(k, j, "SAV", 0, 0, 0, SSav(j))
  \/ At(k, j, "SAV2", 0, 0, 0, SAbsorb(j)) /\ j.dec
  \/ At(k, j, "Absorb", 0, 0, 0, SAad(j))
  \/ Window(k, j, "Absorb", A!pad16(j.aad), SText(j), 0)
  \/ At(k, j, "Absorb", BAad(j), 0, 0, SText(j))
  \/ Window(k, j, "Absorb", A!pad16(j.text), SSeal(j), BAad(j)) /\ ~ j.dec
  \/ At(k, j, "Absorb", BAad(j) + BText(j), 0, 0, SSeal(j)) /\ ~ j.dec
  \/ At(k, j, "ETF", BAad(j) + BText(j), 0, 0, STag(j)) /\ ~ j.dec /\ may
  \/ At(k, j, TextSt(j), STextTag(j), 0, 0, SBody(j)) /\ may /\ (j.dec \/ j.text # 0)
  \/ Window(k, j, TextSt(j), FText(j), SRest(j), STextTag(j))
  \/ At(k, j, TextSt(j), SRestTag(j), QText(j), FText(j), SRest(j)) /\ may /\ (j.dec \/ RText(j) # 0)
  \/ Piece(k, j, LastSt(j), SRestTag(j), QText(j), FText(j), SPiece(j)) /\ RText(j) # 0
  \/ At(k, j, "DTF", BAad(j) + BText(j), BText(j), j.text, Tag("B")) /\ j.dec /\ may
  \/ Done(k, j)

\* kl.setst of the Machine.
LEMMA SAllowed ==
  ASSUME SoftwareAssumption, m.machine = "GCMSIV"
  PROVE  /\ m.st = "Ready" => Allowed("SAV", "C", 0)
         /\ m.st = "SAV" => Allowed("SAV2", "C", 0)
         /\ m.st \in {"SAV", "SAV2"} => Allowed("Absorb", "A", 0)
         /\ m.st = "Absorb" => Allowed("ETF", "A", 0) /\ Allowed("Dec", "A", 0)
         /\ m.st = "Dec" => Allowed("DTF", "A", 0)
         /\ \A x \in 1..BlockUnits - 1 : (m.st = "Enc" => Allowed("ELB", "B", x)) /\ (m.st = "Dec" => Allowed("DLB", "B", x))
  <1>1. A!A!TRANS["GCMSIV"] = A!A!SivTRANS /\ A!A!Family["GCMSIV"] = "GCMSIV" /\ A!A!SETF["GCMSIV"] = [B |-> {"ELB", "DLB"}, C |-> {"SAV", "SAV2"}]
    BY DEF A!A!TRANS, A!A!Family, A!A!SETF
  <1>2. /\ A!A!SetForm(m, "SAV") = "C" /\ A!A!SetForm(m, "SAV2") = "C" /\ A!A!SetForm(m, "Absorb") = "A" /\ A!A!SetForm(m, "ETF") = "A"
        /\ A!A!SetForm(m, "Dec") = "A" /\ A!A!SetForm(m, "DTF") = "A" /\ A!A!SetForm(m, "ELB") = "B" /\ A!A!SetForm(m, "DLB") = "B"
    BY <1>1 DEF A!A!SetForm
  <1>3. m.st \in {"Ready", "SAV", "SAV2", "Absorb", "Enc", "Dec"} => \A to : A!A!_leave(m, to)
    BY <1>1 DEF A!A!_leave
  <1>4. \A to, x : A!A!_enter_ok(m, to, x) <=> A!A!_enter_gcmsiv(to, x)
    BY <1>1 DEF A!A!_enter_ok
  <1>5. BlockUnits \in Nat
    BY DEF SoftwareAssumption
  <1> QED
    BY <1>1, <1>2, <1>3, <1>4, <1>5 DEF Allowed, A!A!_formok, A!A!_enter_gcmsiv, A!A!SivTRANS

\* A step of a sequence of GCM-SIV leads from a phase to a phase, or the operation does not suit.
LEMMA SStep ==
  ASSUME SoftwareAssumption, NEW k, k = "GCMSIV", NEW j, j \in A!Jobs(k), SPhase(k, j), Instruct \/ A!Moved
  PROVE  Dead(k, j)' \/ SPhase(k, j)'
  <1> DEFINE a == BAad(j)
             b == BText(j)
             q == QText(j)
             s == RText(j)
             f == FText(j)
             p == A!pad16(j.aad)
             y == A!pad16(j.text)
             c == a + b
             h == STextTag(j)
             u == SRestTag(j)
             ts == TextSt(j)
             ls == LastSt(j)
             t0 == SBegin(j)
             t1 == SSav(j)
             t2 == SAbsorb(j)
             t3 == SAad(j)
             t4 == SText(j)
             t5 == SSeal(j)
             t6 == STag(j)
             t7 == SBody(j)
             t8 == SRest(j)
             t9 == SPiece(j)
             te == STail(j)
             tb == Tag("B")
  <1>1. /\ BlockUnits \in Nat \ {0, 1} /\ j.text \in Nat /\ j.aad \in Nat /\ j.dec \in BOOLEAN
        /\ q \in Nat /\ s \in 0..BlockUnits - 1 /\ f \in Nat /\ f % BlockUnits = 0 /\ f \div BlockUnits = q
        /\ f + s = j.text /\ b \in Nat /\ b = (IF s = 0 THEN q ELSE q + 1)
        /\ a \in Nat /\ (q = 0 <=> j.text < BlockUnits) /\ (j.text < BlockUnits => f = 0) /\ (j.text >= BlockUnits => f > 0)
        /\ p \in Nat /\ p % BlockUnits = 0 /\ p \div BlockUnits = a /\ (j.aad = 0 => a = 0)
        /\ y \in Nat /\ y % BlockUnits = 0 /\ y \div BlockUnits = b /\ (j.text = 0 => b = 0)
        /\ (j.aad > 0 => p > 0) /\ (j.text > 0 => y > 0)
    BY Sizing DEF Sizes
  <1>2. c \in Nat /\ c = a + b /\ h = (IF j.dec THEN a ELSE c) /\ u = (IF j.dec THEN a + q ELSE c) /\ h \in Nat /\ u \in Nat
    <2>1. a \in Nat /\ b \in Nat /\ q \in Nat
      BY <1>1
    <2> QED
      BY <2>1 DEF STextTag, SRestTag
  <1>3. /\ t1 \in Seqs /\ t2 \in Seqs /\ t3 \in Seqs /\ t4 \in Seqs /\ t5 \in Seqs /\ t6 \in Seqs /\ t7 \in Seqs /\ t8 \in Seqs
        /\ te \in Seqs /\ tb \in Seqs /\ t9 \in Seqs /\ <<>> \in Seqs
    <2>1. Lengths(j)
      BY Sizing
    <2>2. t1 \in Seqs /\ t2 \in Seqs /\ t3 \in Seqs /\ t4 \in Seqs /\ t5 \in Seqs /\ t6 \in Seqs /\ t7 \in Seqs /\ t8 \in Seqs
          /\ te \in Seqs /\ tb \in Seqs /\ <<>> \in Seqs
      BY <2>1, SSeqs, Tags, NoIns DEF Forms
    <2>3. A!Exec("A", BlockUnits, s) \in Ins
      BY <1>1, Execs DEF Forms
    <2>4. t9 = Then(A!Exec("A", BlockUnits, s), te)
      BY DEF SPiece
    <2> QED
      BY <2>2, <2>3, <2>4, Thens
  <1>4. /\ t0 = Then(A!Setst("SAV", "C", 0), t1) /\ t1 = (IF j.dec THEN Then(A!Setst("SAV2", "C", 0), t2) ELSE t2)
        /\ t2 = Then(A!Setst("Absorb", "A", 0), t3) /\ t3 = (IF j.aad > 0 THEN Then(A!Exec("B", p, 0), t4) ELSE t4)
        /\ t4 = (IF j.dec THEN Then(A!Setst("Dec", "A", 0), t7) ELSE IF j.text > 0 THEN Then(A!Exec("B", y, 0), t5) ELSE t5)
        /\ t5 = Then(A!Setst("ETF", "A", 0), t6) /\ t6 = Then(A!Exec("A", BlockUnits, 0), t7)
        /\ t7 = (IF j.text >= BlockUnits THEN Then(A!Exec("A", f, f), t8) ELSE t8)
        /\ t8 = (IF s # 0 THEN Then(A!Setst(ls, "B", s), t9) ELSE IF j.dec THEN Then(A!Setst("DTF", "A", 0), tb) ELSE <<>>)
        /\ t9 = Then(A!Exec("A", BlockUnits, s), te) /\ te = (IF j.dec THEN tb ELSE <<>>) /\ tb = Then(A!Exec("B", BlockUnits, 0), <<>>)
    <2>1. /\ t0 = Then(A!Setst("SAV", "C", 0), t1) /\ t1 = (IF j.dec THEN Then(A!Setst("SAV2", "C", 0), t2) ELSE t2)
          /\ t2 = Then(A!Setst("Absorb", "A", 0), t3) /\ t3 = (IF j.aad > 0 THEN Then(A!Exec("B", p, 0), t4) ELSE t4)
      BY DEF SBegin, SSav, SAbsorb, SAad, Start, Feed
    <2>2. /\ t4 = (IF j.dec THEN Then(A!Setst("Dec", "A", 0), t7) ELSE IF j.text > 0 THEN Then(A!Exec("B", y, 0), t5) ELSE t5)
          /\ t5 = Then(A!Setst("ETF", "A", 0), t6) /\ t6 = Then(A!Exec("A", BlockUnits, 0), t7)
      BY DEF SText, SSeal, STag, Start, Feed
    <2>3. t7 = (IF j.text >= BlockUnits THEN Then(A!Exec("A", f, f), t8) ELSE t8)
      BY DEF SBody, Body, FText, RText
    <2>4. te = (IF j.dec THEN tb ELSE <<>>) /\ tb = Then(A!Exec("B", BlockUnits, 0), <<>>) /\ t9 = Then(A!Exec("A", BlockUnits, s), te)
      BY DEF STail, Tag, SPiece
    <2>5. t8 = (IF s # 0 THEN Then(A!Setst(ls, "B", s), t9) ELSE IF j.dec THEN Then(A!Setst("DTF", "A", 0), tb) ELSE <<>>)
      <3>1. t8 = IF j.dec /\ s = 0 THEN Start("DTF", "A", tb) ELSE Rest(j.text, ls, te)
        BY DEF SRest, RText
      <3>2. Rest(j.text, ls, te) = IF s # 0 THEN Then(A!Setst(ls, "B", s), t9) ELSE te
        BY DEF Rest, RText, SPiece
      <3> HIDE DEF t8, ls, te, tb, t9, s
      <3> QED
        BY <1>1, <2>4, <3>1, <3>2 DEF Start
    <2> QED
      BY <2>1, <2>2, <2>3, <2>4, <2>5
  <1>5. /\ A!A!GATE("SAV") = {} /\ A!A!GATE("SAV2") = {} /\ A!A!GATE("Absorb") = {} /\ A!A!GATE("ETF") = {0} /\ A!A!GATE("DTF") = {1}
        /\ A!A!GATE("Dec") = {1} /\ (Gate(j) = IF j.dec THEN 1 ELSE 0) /\ ts = (IF j.dec THEN "Dec" ELSE "Enc") /\ ls = (IF j.dec THEN "DLB" ELSE "ELB")
    BY DEF A!A!GATE, Gate, TextSt, LastSt
  <1>6. /\ ts \in {"Enc", "Dec"} /\ ls \in {"ELB", "DLB"} /\ ts \in Names /\ ls \in Names /\ A!A!GATE(ts) = {Gate(j)} /\ A!A!GATE(ls) = {Gate(j)}
        /\ (\A n : Gives(ts, n) = n) /\ Form(ts) = "A" /\ FinalForm(ls) = "A" /\ (m.st = ts \/ m.st = ls => A!A!Keyed(m))
    <2>1. j.dec \in BOOLEAN
      BY <1>1
    <2> QED
      BY <2>1, TextStates
  <1>7. Does(k, j) /\ m.machine = "GCMSIV" /\ Fam(m) = "GCMSIV"
    <2>1. Does(k, j)
      BY DEF SPhase, At, Window, Piece, Done
    <2> QED
      BY <2>1 DEF Does, Fam, A!A!Family
  <1> HIDE DEF a, b, q, s, f, p, y, c, h, u, ts, ls, t0, t1, t2, t3, t4, t5, t6, t7, t8, t9, te, tb
  <1>8. SPhase(k, j)' <=>
          \/ At(k, j, "Ready", 0, 0, 0, t0)'
          \/ At(k, j, "SAV", 0, 0, 0, t1)'
          \/ At(k, j, "SAV2", 0, 0, 0, t2)' /\ j.dec
          \/ At(k, j, "Absorb", 0, 0, 0, t3)'
          \/ Window(k, j, "Absorb", p, t4, 0)'
          \/ At(k, j, "Absorb", a, 0, 0, t4)'
          \/ Window(k, j, "Absorb", y, t5, a)' /\ ~ j.dec
          \/ At(k, j, "Absorb", c, 0, 0, t5)' /\ ~ j.dec
          \/ At(k, j, "ETF", c, 0, 0, t6)' /\ ~ j.dec /\ may'
          \/ At(k, j, ts, h, 0, 0, t7)' /\ may' /\ (j.dec \/ j.text # 0)
          \/ Window(k, j, ts, f, t8, h)'
          \/ At(k, j, ts, u, q, f, t8)' /\ may' /\ (j.dec \/ s # 0)
          \/ Piece(k, j, ls, u, q, f, t9)' /\ s # 0
          \/ At(k, j, "DTF", c, b, j.text, tb)' /\ j.dec /\ may'
          \/ Done(k, j)'
    BY DEF SPhase, a, b, q, s, f, p, y, c, h, u, ts, ls, t0, t1, t2, t3, t4, t5, t6, t7, t8, t9, tb
  \* An operation that is over.
  <1>9. ASSUME Does(k, j)', m'.tag = c, Counted(m', b), got' = j.text, todo' = <<>>, may',
               m'.st \in IF j.dec THEN {"Success", "Failure"} ELSE {"Enc", "ELB"}
        PROVE  SPhase(k, j)'
    <2>1. A!A!Family["GCMSIV"] = "GCMSIV" /\ m'.machine = "GCMSIV"
      BY <1>9 DEF Does, A!A!Family
    <2>2. m'.used = 0..b - 1 /\ b <= CM
      BY <1>9, <2>1 DEF Counted, Fam, Limit
    <2>3. Stream(k, j)'
      BY <2>1, <2>2 DEF Stream, b, BText
    <2>4. Whole(k, j)'
      BY <1>9 DEF Whole, c, a, b, BAad, BText
    <2>5. Suits(k, j)
      BY <2>1, <2>2 DEF Suits, b, BText
    <2>6. Done(k, j)'
      BY <1>9, <2>3, <2>4, <2>5 DEF Done, Suits
    <2> QED
      BY <1>8, <2>6
  <1>10. Suits(k, j) => b <= Limit("GCMSIV")
    BY DEF Suits, Limit, b, BText, A!A!Family
  <1>11. A!A!Absorbs(m) <=> m.st \notin {"Enc", "ELB"}
    BY <1>7 DEF A!A!Absorbs, Fam
  <1>12. ~ Done(k, j)
    BY DEF Done, Instruct, A!SetstStep, A!ExecStep, A!Moved, A!More
  <1>13. CASE At(k, j, "Ready", 0, 0, 0, t0)
    <2>1. Allowed("SAV", "C", 0)
      BY <1>7, <1>13, SAllowed DEF At
    <2>2. Turned(k, j, "Ready", 0, 0, 0, t0, "SAV", 0, 0, t1)
      <3>1. At(k, j, "Ready", 0, 0, 0, t0) /\ "SAV" \in Names /\ "C" \in Forms /\ 0 \in Nat
        BY <1>13 DEF Names, Forms
      <3>2. t1 \in Seqs /\ t0 = Then(A!Setst("SAV", "C", 0), t1) /\ A!A!GATE("SAV") \subseteq {Gate(j)} /\ Fam(m) = "GCMSIV"
        BY <1>3, <1>4, <1>5, <1>7
      <3> QED
        BY <2>1, <3>1, <3>2, Turning
    <2> QED
      BY <1>8, <2>2 DEF Turned
  <1>14. CASE At(k, j, "SAV", 0, 0, 0, t1) /\ j.dec
    <2>1. Allowed("SAV2", "C", 0)
      BY <1>7, <1>14, SAllowed DEF At
    <2>2. Turned(k, j, "SAV", 0, 0, 0, t1, "SAV2", 0, 0, t2)
      <3>1. At(k, j, "SAV", 0, 0, 0, t1) /\ "SAV2" \in Names /\ "C" \in Forms /\ 0 \in Nat
        BY <1>14 DEF Names, Forms
      <3>2. t2 \in Seqs /\ t1 = Then(A!Setst("SAV2", "C", 0), t2)
        BY <1>3, <1>4, <1>14
      <3>3. A!A!GATE("SAV2") \subseteq {Gate(j)} /\ Fam(m) = "GCMSIV"
        BY <1>5, <1>7
      <3> QED
        BY <2>1, <3>1, <3>2, <3>3, Turning
    <2> QED
      BY <1>8, <1>14, <2>2 DEF Turned
  <1>15. CASE At(k, j, "SAV", 0, 0, 0, t1) /\ ~ j.dec
    <2>1. Allowed("Absorb", "A", 0) /\ t1 = t2
      BY <1>4, <1>7, <1>15, SAllowed DEF At
    <2>2. Turned(k, j, "SAV", 0, 0, 0, t1, "Absorb", 0, 0, t3)
      <3>1. At(k, j, "SAV", 0, 0, 0, t1) /\ "Absorb" \in Names /\ "A" \in Forms /\ 0 \in Nat
        BY <1>15 DEF Names, Forms
      <3>2. t3 \in Seqs /\ t1 = Then(A!Setst("Absorb", "A", 0), t3)
        BY <1>3, <1>4, <2>1
      <3>3. A!A!GATE("Absorb") \subseteq {Gate(j)} /\ Fam(m) = "GCMSIV"
        BY <1>5, <1>7
      <3> QED
        BY <2>1, <3>1, <3>2, <3>3, Turning
    <2> QED
      BY <1>8, <2>2 DEF Turned
  <1>16. CASE At(k, j, "SAV2", 0, 0, 0, t2) /\ j.dec
    <2>1. Allowed("Absorb", "A", 0)
      BY <1>7, <1>16, SAllowed DEF At
    <2>2. Turned(k, j, "SAV2", 0, 0, 0, t2, "Absorb", 0, 0, t3)
      <3>1. At(k, j, "SAV2", 0, 0, 0, t2) /\ "Absorb" \in Names /\ "A" \in Forms /\ 0 \in Nat
        BY <1>16 DEF Names, Forms
      <3>2. t3 \in Seqs /\ t2 = Then(A!Setst("Absorb", "A", 0), t3)
        BY <1>3, <1>4
      <3>3. A!A!GATE("Absorb") \subseteq {Gate(j)} /\ Fam(m) = "GCMSIV"
        BY <1>5, <1>7
      <3> QED
        BY <2>1, <3>1, <3>2, <3>3, Turning
    <2> QED
      BY <1>8, <1>16, <2>2 DEF Turned
  <1>17. ASSUME Window(k, j, "Absorb", p, t4, 0) PROVE Dead(k, j)' \/ SPhase(k, j)'
    <2>1. m.st = "Absorb"
      BY <1>17 DEF Window
    <2>2. A!A!Absorbs(m) /\ ~ A!A!Keyed(m)
      BY <1>7, <1>11, <2>1 DEF A!A!Keyed, Fam
    <2>3. WindowTo(k, j, p, 0, a, 0)
      BY <1>1, <2>2 DEF WindowTo
    <2>4. Dead(k, j)' \/ (Aside /\ WindowOrAt(k, j, "Absorb", p, t4, 0, a, 0, Gives("Absorb", p))')
      BY <1>1, <1>3, <1>5, <1>7, <1>17, <2>2, <2>3, WindowThen
    <2>5. Gives("Absorb", p) = 0
      BY <1>5 DEF Gives
    <2> QED
      BY <1>8, <2>4, <2>5 DEF WindowOrAt
  <1>18. ASSUME Window(k, j, "Absorb", y, t5, a), ~ j.dec PROVE Dead(k, j)' \/ SPhase(k, j)'
    <2>1. m.st = "Absorb"
      BY <1>18 DEF Window
    <2>2. A!A!Absorbs(m) /\ ~ A!A!Keyed(m)
      BY <1>7, <1>11, <2>1 DEF A!A!Keyed, Fam
    <2>3. WindowTo(k, j, y, a, c, 0)
      BY <1>1, <1>2, <2>2 DEF WindowTo
    <2>4. Dead(k, j)' \/ (Aside /\ WindowOrAt(k, j, "Absorb", y, t5, a, c, 0, Gives("Absorb", y))')
      BY <1>1, <1>3, <1>5, <1>7, <1>18, <2>2, <2>3, WindowThen
    <2>5. Gives("Absorb", y) = 0
      BY <1>5 DEF Gives
    <2> QED
      BY <1>8, <1>18, <2>4, <2>5 DEF WindowOrAt
  <1>19. ASSUME At(k, j, "Absorb", c, 0, 0, t5), ~ j.dec PROVE Dead(k, j)' \/ SPhase(k, j)'
    <2>1. Allowed("ETF", "A", 0)
      BY <1>7, <1>19, SAllowed DEF At
    <2>2. Turned(k, j, "Absorb", c, 0, 0, t5, "ETF", 0, 0, t6)
      <3>1. At(k, j, "Absorb", c, 0, 0, t5) /\ "ETF" \in Names /\ "A" \in Forms /\ 0 \in Nat
        BY <1>19 DEF Names, Forms
      <3>2. t6 \in Seqs /\ t5 = Then(A!Setst("ETF", "A", 0), t6)
        BY <1>3, <1>4
      <3>3. A!A!GATE("ETF") \subseteq {Gate(j)} /\ Fam(m) = "GCMSIV"
        BY <1>5, <1>7, <1>19
      <3> QED
        BY <2>1, <3>1, <3>2, <3>3, Turning
    <2> QED
      BY <1>5, <1>8, <1>19, <2>2 DEF Turned
  <1>20. ASSUME At(k, j, "Absorb", a, 0, 0, t4) PROVE Dead(k, j)' \/ SPhase(k, j)'
    <2>1. CASE j.dec
      <3>1. Allowed("Dec", "A", 0) /\ ts = "Dec" /\ h = a
        BY <1>2, <1>5, <1>7, <1>20, <2>1, SAllowed DEF At
      <3>2. Turned(k, j, "Absorb", a, 0, 0, t4, "Dec", 0, 0, t7)
        <4>1. At(k, j, "Absorb", a, 0, 0, t4) /\ "Dec" \in Names /\ "A" \in Forms /\ 0 \in Nat
          BY <1>20 DEF Names, Forms
        <4>2. t7 \in Seqs /\ t4 = Then(A!Setst("Dec", "A", 0), t7)
          BY <1>3, <1>4, <2>1
        <4>3. A!A!GATE("Dec") \subseteq {Gate(j)} /\ Fam(m) = "GCMSIV"
          BY <1>5, <1>7, <2>1
        <4> QED
          BY <3>1, <4>1, <4>2, <4>3, Turning
      <3> QED
        BY <1>5, <1>8, <2>1, <3>1, <3>2 DEF Turned
    <2>2. CASE ~ j.dec /\ j.text > 0
      <3>1. t4 = Then(A!Exec(Form("Absorb"), y, 0), t5) /\ 0 = Gives("Absorb", y)
        BY <1>4, <1>5, <2>2 DEF Form, Gives
      <3>2. Window(k, j, "Absorb", y, t5, a)
        BY <1>1, <1>5, <1>20, <2>2, <3>1, AtWindow
      <3> QED
        BY <1>18, <2>2, <3>2
    <2>3. CASE ~ j.dec /\ ~ (j.text > 0)
      <3>1. t4 = t5
        BY <1>4, <2>3
      <3>2. c = a
        <4>1. j.text = 0 /\ b = 0 /\ a \in Nat
          BY <1>1, <2>3
        <4> QED
          BY <1>2, <4>1
      <3> QED
        BY <1>19, <1>20, <2>3, <3>1, <3>2
    <2> QED
      BY <2>1, <2>2, <2>3
  <1>21. CASE At(k, j, "Absorb", 0, 0, 0, t3)
    <2>1. CASE j.aad > 0
      <3>1. t3 = Then(A!Exec(Form("Absorb"), p, 0), t4) /\ 0 = Gives("Absorb", p)
        BY <1>4, <1>5, <2>1 DEF Form, Gives
      <3>2. Window(k, j, "Absorb", p, t4, 0)
        BY <1>1, <1>5, <1>21, <2>1, <3>1, AtWindow
      <3> QED
        BY <1>17, <3>2
    <2>2. CASE ~ (j.aad > 0)
      <3>1. t3 = t4 /\ a = 0
        <4>1. j.aad \in Nat /\ (j.aad = 0 => a = 0)
          BY <1>1
        <4>2. t3 = t4
          BY <1>4, <2>2
        <4> QED
          BY <2>2, <4>1, <4>2
      <3> QED
        BY <1>20, <1>21, <3>1
    <2> QED
      BY <2>1, <2>2
  <1>22. ASSUME At(k, j, ts, u, q, f, t8), may, j.dec \/ s # 0 PROVE Dead(k, j)' \/ SPhase(k, j)'
    <2>1. CASE s # 0
      <3>1. Allowed(ls, "B", s)
        <4>1. s \in 1..BlockUnits - 1
          BY <1>1, <2>1
        <4> QED
          BY <1>5, <1>7, <1>22, <4>1, SAllowed DEF At
      <3>2. s \in Nat
        BY <1>1
      <3>3. Turned(k, j, ts, u, q, f, t8, ls, s, q, t9)
        BY <1>3, <1>4, <1>5, <1>6, <1>7, <1>22, <2>1, <3>1, <3>2, Turning DEF Forms
      <3>4. ASSUME At(k, j, ls, u, q, f, t9)', EnteredOf(m, m', ls, s), may' PROVE SPhase(k, j)'
        <4>1. m'.lbl \in 1..BlockUnits /\ Fam(m') = "GCMSIV"
          BY <1>1, <1>6, <1>7, <2>1, <3>4 DEF EnteredOf, A!A!Final, Fam
        <4>2. Piece(k, j, ls, u, q, f, t9)'
          BY <3>4, <4>1 DEF Piece
        <4> QED
          BY <1>8, <2>1, <4>2
      <3> QED
        BY <1>8, <1>22, <3>3, <3>4 DEF Turned, Moved_
    <2>2. CASE s = 0
      <3>1. j.dec /\ ts = "Dec" /\ t8 = Then(A!Setst("DTF", "A", 0), tb)
        BY <1>4, <1>5, <1>22, <2>2
      <3>2. u = c /\ q = b /\ f = j.text
        <4>1. s = 0 /\ a \in Nat /\ q \in Nat /\ f \in Nat
          BY <1>1, <2>2
        <4>2. f + s = j.text /\ b = (IF s = 0 THEN q ELSE q + 1)
          BY <1>1
        <4>3. c = a + b /\ u = a + q
          BY <1>2, <3>1
        <4> QED
          BY <4>1, <4>2, <4>3
      <3>3. Allowed("DTF", "A", 0)
        BY <1>7, <1>22, <3>1, SAllowed DEF At
      <3>4. Turned(k, j, ts, u, q, f, t8, "DTF", 0, q, tb)
        <4>1. At(k, j, ts, u, q, f, t8) /\ "DTF" \in Names /\ "A" \in Forms /\ 0 \in Nat
          BY <1>22 DEF Names, Forms
        <4>2. tb \in Seqs /\ t8 = Then(A!Setst("DTF", "A", 0), tb)
          BY <1>3, <3>1
        <4>3. A!A!GATE("DTF") \subseteq {Gate(j)} /\ Fam(m) = "GCMSIV"
          BY <1>5, <1>7, <3>1
        <4> QED
          BY <3>3, <4>1, <4>2, <4>3, Turning
      <3> QED
        BY <1>5, <1>8, <1>22, <3>1, <3>2, <3>4 DEF Turned, Moved_
    <2> QED
      BY <2>1, <2>2
  <1>23. ASSUME Window(k, j, ts, f, t8, h) PROVE Dead(k, j)' \/ SPhase(k, j)'
    <2>1. m.st = ts /\ may
      BY <1>6, <1>23 DEF Window
    <2>2. A!A!Keyed(m) /\ (A!A!Absorbs(m) <=> j.dec)
      BY <1>1, <1>5, <1>6, <1>11, <2>1
    <2>3. WindowTo(k, j, f, h, u, q)
      <3>1. Limit("GCMSIV") \in Nat
        BY DEF Limit, SoftwareAssumption
      <3>2. Suits(k, j) => q <= Limit(Fam(m))
        BY <1>1, <1>7, <1>10, <3>1
      <3>3. u = (IF A!A!Absorbs(m) THEN h + q ELSE h) /\ f \div BlockUnits = q
        BY <1>1, <1>2, <2>2
      <3> QED
        BY <2>2, <3>2, <3>3 DEF WindowTo
    <2>4. may' = may /\ (Dead(k, j)' \/ (Aside /\ WindowOrAt(k, j, ts, f, t8, h, u, q, Gives(ts, f))'))
      <3>1. f \in Nat /\ f % BlockUnits = 0 /\ h \in Nat /\ t8 \in Seqs /\ ts \in {"Absorb", "Enc", "Dec"} /\ A!A!GATE(ts) \subseteq {Gate(j)} /\ Fam(m) # "CMAC"
        BY <1>1, <1>2, <1>3, <1>6, <1>7
      <3>2. WindowFor(j, ts, f, t8, h)
        BY <3>1 DEF WindowFor
      <3> QED
        BY <1>23, <2>3, <3>2, WindowNext
    <2>5. Gives(ts, f) = f
      BY <1>6
    <2>6. ASSUME At(k, j, ts, u, q, f, t8)', ~ (j.dec \/ s # 0), may' PROVE SPhase(k, j)'
      <3>1. u = c /\ q = b /\ f = j.text
        <4>1. s = 0 /\ a \in Nat /\ q \in Nat /\ f \in Nat
          BY <1>1, <2>6
        <4>2. f + s = j.text /\ b = (IF s = 0 THEN q ELSE q + 1)
          BY <1>1
        <4>3. c = a + b /\ u = c
          BY <1>2, <2>6
        <4> QED
          BY <4>1, <4>2, <4>3
      <3>2. t8 = <<>> /\ ts = "Enc"
        BY <1>4, <1>5, <2>6
      <3> QED
        BY <1>9, <2>6, <3>1, <3>2 DEF At
    <2> QED
      BY <1>8, <2>1, <2>4, <2>5, <2>6 DEF WindowOrAt
  <1>24. CASE At(k, j, ts, h, 0, 0, t7) /\ may /\ (j.dec \/ j.text # 0)
    <2>1. CASE j.text >= BlockUnits
      <3>1. t7 = Then(A!Exec(Form(ts), f, f), t8) /\ f = Gives(ts, f) /\ f > 0
        BY <1>1, <1>4, <1>6, <2>1
      <3>2. Window(k, j, ts, f, t8, h)
        BY <1>1, <1>2, <1>24, <3>1, AtWindow
      <3> QED
        BY <1>23, <3>2
    <2>2. CASE j.text < BlockUnits
      <3>1. t7 = t8 /\ q = 0 /\ f = 0
        BY <1>1, <1>4, <2>2
      <3>2. u = h /\ (j.text # 0 => s # 0)
        <4>1. a \in Nat /\ f + s = j.text /\ s \in Nat
          BY <1>1
        <4> QED
          BY <1>2, <3>1, <4>1
      <3> QED
        BY <1>22, <1>24, <3>1, <3>2
    <2>3. j.text \in Nat /\ BlockUnits \in Nat
      BY <1>1
    <2> QED
      BY <2>1, <2>2, <2>3
  <1>25. CASE At(k, j, "ETF", c, 0, 0, t6) /\ ~ j.dec /\ may
    <2>1. Closed(k, j, "ETF", c, 0, 0, t6, t7)
      BY <1>3, <1>4, <1>5, <1>7, <1>25, Closing DEF EndStates, EndForm
    <2>2. ASSUME Does(k, j)', m'.st = "Enc", m'.tag = c, Counted(m', 0), ks' = 0, got' = 0, todo' = t7, may' PROVE SPhase(k, j)'
      <3>1. CASE j.text = 0
        <4>1. b = 0 /\ t7 = <<>>
          <5>1. s = 0 /\ b = 0 /\ ~ (j.text >= BlockUnits)
            BY <1>1, <3>1
          <5> QED
            BY <1>4, <1>25, <5>1
        <4> QED
          BY <1>9, <1>25, <2>2, <3>1, <4>1
      <3>2. CASE j.text # 0
        <4>1. At(k, j, ts, h, 0, 0, t7)'
          BY <1>2, <1>5, <1>25, <2>2 DEF At
        <4> QED
          BY <1>8, <2>2, <3>2, <4>1
      <3> QED
        BY <3>1, <3>2
    <2> QED
      BY <1>7, <1>8, <1>25, <2>1, <2>2 DEF Closed, EndOf, Moved_
  <1>26. CASE Piece(k, j, ls, u, q, f, t9) /\ s # 0
    <2>1. m.st = ls /\ may /\ At(k, j, ls, u, q, f, t9)
      BY <1>6, <1>26 DEF Piece, At
    <2>2. A!A!Keyed(m) /\ (A!A!Absorbs(m) <=> j.dec) /\ NextOf(m) = (IF j.dec THEN "DTF" ELSE "ELB") /\ More_(m, q, 1) = q + 1 /\ q + 1 = b
      <3>1. A!A!Keyed(m) /\ (A!A!Absorbs(m) <=> j.dec)
        BY <1>1, <1>5, <1>6, <1>11, <2>1
      <3>2. NextOf(m) = (IF j.dec THEN "DTF" ELSE "ELB") /\ More_(m, q, 1) = q + 1
        BY <1>5, <1>7, <2>1, <3>1 DEF NextOf, More_, Grows
      <3> QED
        BY <1>1, <1>26, <3>1, <3>2
    <2>3. PICK next : next = NextOf(m)
      OBVIOUS
    <2>4. PICK l : l = IF Fam(m) = "CMAC" \/ (Fam(m) = "OCB" /\ ls # "Last") THEN m.lbl ELSE 0
      OBVIOUS
    <2>5. PieceTo(k, j, ls, u, q, f, s, next, c, b, j.text, l)
      <3>1. c = (IF A!A!Absorbs(m) THEN u + 1 ELSE u)
        BY <1>1, <1>2, <1>26, <2>2
      <3>2. j.text = (IF A!A!GATE(ls) = {} THEN f ELSE f + s)
        BY <1>1, <1>6
      <3> QED
        BY <1>7, <1>10, <2>2, <2>3, <2>4, <3>1, <3>2 DEF PieceTo
    <2>6. \/ Dead(k, j)'
          \/ m'.lbl = m.lbl /\ Piece(k, j, ls, u, q, f, t9)'
          \/ may' = may /\ PieceOver(k, j, next, c, b, j.text, te, l)'
      <3>1. A!A!GATE(ls) \subseteq {Gate(j)}
        BY <1>6
      <3>2. u \in Nat /\ te \in Seqs /\ f \in Int /\ s \in Int
        BY <1>1, <1>2, <1>3
      <3>3. ls \in FinalStates(Fam(m)) /\ t9 = Then(A!Exec(FinalForm(ls), BlockUnits, s), te)
        BY <1>4, <1>6, <1>7 DEF FinalStates
      <3>4. Piece(k, j, ls, u, q, f, t9)
        BY <1>26
      <3> QED
        BY <2>5, <3>1, <3>2, <3>3, <3>4, PieceThen
    <2>7. ASSUME may', At(k, j, next, c, b, j.text, te)' PROVE SPhase(k, j)'
      <3>1. CASE j.dec
        BY <1>4, <1>8, <2>2, <2>3, <2>7, <3>1
      <3>2. CASE ~ j.dec
        BY <1>4, <1>9, <2>2, <2>3, <2>7, <3>2 DEF At
      <3> QED
        BY <3>1, <3>2
    <2> QED
      BY <1>8, <1>26, <2>1, <2>6, <2>7 DEF PieceOver
  <1>27. CASE At(k, j, "DTF", c, b, j.text, tb) /\ j.dec /\ may
    <2>1. Closed(k, j, "DTF", c, b, j.text, tb, <<>>)
      BY <1>3, <1>4, <1>5, <1>7, <1>27, Closing DEF EndStates, EndForm
    <2> QED
      BY <1>7, <1>8, <1>9, <1>27, <2>1 DEF Closed, EndOf, Moved_
  <1> QED
    BY <1>12, <1>13, <1>14, <1>15, <1>16, <1>17, <1>18, <1>19, <1>20, <1>21, <1>22, <1>23, <1>24, <1>25, <1>26, <1>27
       DEF SPhase, a, b, q, s, f, p, y, c, h, u, ts, ls, t0, t1, t2, t3, t4, t5, t6, t7, t8, t9, tb

-----------------------------------------------------------------------------
(* GCM.                                                                    *)

\* The IV is fed, from ks on.
Iv(k, j) ==
  /\ Does(k, j) /\ m.st = "SAV" /\ m.tag = 0 /\ m.used = {} /\ m.len = j.iv /\ m.base = 0 /\ m.cumul = ks
  /\ ks \in Nat /\ ks % BlockUnits = 0 /\ ks < j.iv /\ got = 0 /\ todo = GGiven(j)

\* One kl.exec over the IV.
LEMMA IvStep ==
  ASSUME SoftwareAssumption, NEW k, k = "GCM", NEW j, j \in A!Jobs(k), Iv(k, j), Instruct
  PROVE  Iv(k, j)' \/ At(k, j, "Absorb", 0, 0, 0, GAad(j))'
  <1> DEFINE n == A!pad16(j.iv)
             r == Quiet(m)
             t == GAad(j)
  <1>1. Does(k, j) /\ m.machine = "GCM" /\ DOMAIN m = AFields /\ Fam(m) = "GCM" /\ A!A!Family["GCM"] = "GCM"
    BY DEF Iv, Does, Fam, A!A!Family
  <1>2. /\ m.st = "SAV" /\ m.tag = 0 /\ m.used = {} /\ m.len = j.iv /\ m.base = 0 /\ m.cumul = ks
        /\ ks \in Nat /\ ks % BlockUnits = 0 /\ ks < j.iv /\ got = 0 /\ todo = Then(A!Exec("B", n, 0), t)
    BY DEF Iv, GGiven
  <1>3. Lengths(j) /\ j.iv \in Nat /\ n \in Nat /\ n % BlockUnits = 0 /\ j.iv <= n /\ t \in Seqs /\ BlockUnits \in Nat \ {0, 1} /\ CM \in Nat /\ CM >= 3
    <2>1. Lengths(j) /\ j.iv \in Nat
      BY JobIs DEF Lengths
    <2>2. n \in Nat /\ n % BlockUnits = 0 /\ j.iv <= n
      BY <2>1, Pieces
    <2>3. t \in Seqs
      BY <2>1, GSeqs
    <2>4. BlockUnits \in Nat \ {0, 1} /\ CM \in Nat /\ CM >= 3
      BY DEF SoftwareAssumption
    <2> QED
      BY <2>1, <2>2, <2>3, <2>4
  <1>4. A!A!MayRun(m) /\ A!A!EXF(m) = "B"
    BY <1>1, <1>2 DEF A!A!MayRun, A!A!GATE, A!A!EXF
  <1> HIDE DEF n, r, t
  <1>5. PICK h \in 0..BlockWindow, ok \in BOOLEAN, v \in A!A!_finalize(m) : Execs_("B", n, 0, t, h, v, ok)
    <2>1. m.st # "Invalid" /\ ks < n
      BY <1>2, <1>3
    <2> QED
      BY <1>2, <1>3, <2>1, Executing DEF Instruct, Forms
  <1>6. QuietOf(r, m)
    BY <1>1, Quiets DEF r
  <1>7. /\ DOMAIN r = AFields /\ r.machine = "GCM" /\ r.st = "SAV" /\ r.tag = 0 /\ r.used = {} /\ r.len = j.iv /\ r.base = 0 /\ r.cumul = ks
        /\ r.policy = m.policy
    BY <1>1, <1>2, <1>6 DEF QuietOf, But, AFields
  <1>8. m' = A!A!_vli(r, n, ks, h, v) /\ Goes(n, 0, t)
    <2>1. m' = A!A!_exec(r, n, ks, h, v, ok) /\ Goes(n, 0, t)
      BY <1>4, <1>5 DEF Execs_, r
    <2>2. A!A!_exec(r, n, ks, h, v, ok) = A!A!_vli(r, n, ks, h, v)
      BY <1>1, <1>7 DEF A!A!_exec, A!A!_exec_gcm
    <2> QED
      BY <2>1, <2>2
  <1>9. v \in 0..CM - 1
    BY <1>3, <1>5 DEF A!A!_finalize
  <1>10. A!A!Resumable(r, ks) /\ ~ (r.cumul >= r.len) /\ ~ (n % BlockUnits # 0 /\ r.cumul + n < r.len)
    BY <1>2, <1>3, <1>7 DEF A!A!Resumable
  <1>11. job' = job /\ may' = may /\ (m'.halted.pos # 0 => todo' = todo /\ ks' = m'.halted.pos) /\ (m'.halted.pos = 0 => todo' = t /\ ks' = 0)
         /\ (m'.out # "text" => got' = got)
    BY <1>8 DEF Goes
  <1>12. CASE h \in A!A!Halts(r, n, ks)
    <2>1. h \in ks + 1..n - 1 /\ h % BlockUnits = 0 /\ (r.base + h - ks) % BlockUnits = 0 /\ r.cumul + h - ks < r.len
      BY <1>12 DEF A!A!Halts
    <2>2. h \in Nat /\ ks < h /\ h < n /\ h < j.iv /\ (h - ks) % BlockUnits = 0
      <3>1. h \in Nat /\ ks < h /\ h < n
        BY <1>2, <1>3, <2>1
      <3>2. r.base + h - ks = h - ks /\ r.cumul + h - ks = h
        BY <1>2, <1>7, <3>1
      <3>3. (h - ks) % BlockUnits = 0 /\ h < j.iv
        BY <1>7, <2>1, <3>2
      <3> QED
        BY <3>1, <3>3
    <2> DEFINE amt == h - ks
               b == (0 + amt) % BlockUnits
               c == ks + amt
               e == r.fed + h - ks
               w == [r EXCEPT !.base = (@ + amt) % BlockUnits, !.cumul = @ + amt, !.fed = @ + h - ks]
    <2>3. amt < r.len - r.cumul /\ r.cumul + amt # r.len /\ amt = h - ks
      BY <1>2, <1>3, <1>7, <2>2
    <2>4. m' = [w EXCEPT !.halted = [n |-> n, pos |-> h]]
      <3> HIDE DEF amt, w
      <3>1. m' = A!A!Halt(w, n, h)
        BY <1>8, <1>10, <1>12, <2>3 DEF A!A!_vli, w
      <3> QED
        BY <2>2, <3>1 DEF A!A!Halt
    <2>5. w = [r EXCEPT !.base = b, !.cumul = c, !.fed = e]
      BY <1>7
    <2>6. b = 0 /\ c = h
      BY <1>2, <2>2
    <2> HIDE DEF b, c, e, w
    <2>7. But(w, r, {"base", "cumul", "fed"}) /\ w.base = 0 /\ w.cumul = h
      BY <1>7, <2>5, <2>6 DEF But, AFields
    <2>8. But(m', r, {"base", "cumul", "fed", "halted"}) /\ m'.base = 0 /\ m'.cumul = h /\ m'.halted = [n |-> n, pos |-> h]
      BY <2>4, <2>7 DEF But, AFields
    <2>9. DOMAIN m' = AFields /\ m'.machine = "GCM" /\ m'.st = "SAV" /\ m'.tag = 0 /\ m'.used = {} /\ m'.len = j.iv /\ m'.policy = m.policy
          /\ m'.out = r.out
      BY <1>7, <2>8 DEF But, AFields
    <2>10. m'.halted.pos = h /\ r.out = "nothing"
      BY <1>6, <2>8 DEF QuietOf
    <2>11. todo' = todo /\ ks' = h /\ got' = got
      BY <1>2, <1>11, <2>2, <2>9, <2>10
    <2>12. Does(k, j)'
      BY <1>1, <1>11, <2>9 DEF Does
    <2> QED
      BY <1>2, <2>2, <2>8, <2>9, <2>11, <2>12 DEF Iv, GGiven, n, t
  <1>13. CASE h \notin A!A!Halts(r, n, ks)
    <2> DEFINE w == [r EXCEPT !.st = "Absorb", !.start = v, !.ctr = v, !.len = 0, !.base = 0, !.cumul = 0, !.fed = 0, !.halted = Still]
    <2>1. ~ (n - ks < r.len - r.cumul) /\ r.cumul + (r.len - r.cumul) = r.len
      BY <1>2, <1>3, <1>7
    <2>2. (IF n - ks < r.len - r.cumul THEN n - ks ELSE r.len - r.cumul) = r.len - r.cumul
      BY <2>1
    <2>3. m' = w
      BY <1>8, <1>10, <1>13, <2>1, <2>2 DEF A!A!_vli, A!A!NotHalted, Still
    <2>4. /\ But(w, r, {"st", "start", "ctr", "len", "base", "cumul", "fed", "halted"})
          /\ w.st = "Absorb" /\ w.start = v /\ w.ctr = v /\ w.halted = Still
      BY <1>7 DEF But, AFields
    <2> HIDE DEF w
    <2>5. DOMAIN m' = AFields /\ m'.machine = "GCM" /\ m'.st = "Absorb" /\ m'.tag = 0 /\ m'.used = {} /\ m'.policy = m.policy
          /\ m'.out = r.out /\ m'.start = v /\ m'.ctr = v /\ m'.halted = Still
      BY <1>7, <2>3, <2>4 DEF But, AFields
    <2>6. m'.halted.pos = 0 /\ r.out = "nothing"
      BY <1>6, <2>5 DEF QuietOf, Still
    <2>7. todo' = t /\ ks' = 0 /\ got' = 0
      BY <1>2, <1>11, <2>5, <2>6
    <2>8. Does(k, j)'
      BY <1>1, <1>11, <2>5 DEF Does
    <2>9. Counted(m', 0)
      <3>1. Fam(m') = "GCM"
        BY <1>1, <2>5 DEF Fam
      <3>2. Nth(v, 0) = v
        <4>1. v % CM = v
          <5>1. 0 \in 0..CM - 2
            BY <1>3
          <5> QED
            BY <1>9, <5>1, Left
        <4> QED
          BY <1>9, <4>1 DEF Nth
      <3>3. Taken(v, 0) = {} /\ 0 <= Limit("GCM")
        BY <1>3 DEF Taken, Limit
      <3> QED
        BY <1>9, <2>5, <3>1, <3>2, <3>3 DEF Counted
    <2> QED
      BY <2>5, <2>7, <2>8, <2>9 DEF At, t
  <1> QED
    BY <1>12, <1>13

\* kl.setst of the Machines.
LEMMA GAllowed ==
  ASSUME SoftwareAssumption, m.machine \in {"GCM", "GCM_IV"}
  PROVE  /\ \A x \in Nat \ {0} : m.machine = "GCM" /\ m.st = "Ready" => Allowed("SAV", "B", x)
         /\ m.machine = "GCM_IV" /\ m.st = "Ready" => Allowed("Absorb", "A", 0)
         /\ m.st = "Absorb" => Allowed("Enc", "A", 0) /\ Allowed("Dec", "A", 0)
         /\ \A x \in 1..BlockUnits - 1 : (m.st = "Enc" => Allowed("ELB", "B", x)) /\ (m.st = "Dec" => Allowed("DLB", "B", x))
         /\ m.st = "Enc" \/ (m.st = "ELB" /\ m.lbl = 0) => Allowed("ETF", "C", 0)
         /\ m.st = "Dec" \/ (m.st = "DLB" /\ m.lbl = 0) => Allowed("DTF", "C", 0)
         /\ m.st = "DTF" => Allowed("Verify", "B", BlockUnits)
  <1>1. /\ A!A!TRANS["GCM"] = A!A!GcmTRANS \cup A!A!WithSAV /\ A!A!TRANS["GCM_IV"] = A!A!GcmTRANS \cup {<<"Ready", "Absorb">>, <<"SAV", "SAV">>}
        /\ A!A!Family[m.machine] = "GCM" /\ A!A!SETF["GCM"] = [B |-> {"SAV", "ELB", "DLB", "Verify"}, C |-> {"ETF", "DTF"}]
    BY DEF A!A!TRANS, A!A!Family, A!A!SETF
  <1>2. /\ A!A!SetForm(m, "SAV") = "B" /\ A!A!SetForm(m, "Absorb") = "A" /\ A!A!SetForm(m, "Enc") = "A" /\ A!A!SetForm(m, "Dec") = "A"
        /\ A!A!SetForm(m, "ELB") = "B" /\ A!A!SetForm(m, "DLB") = "B" /\ A!A!SetForm(m, "ETF") = "C" /\ A!A!SetForm(m, "DTF") = "C"
        /\ A!A!SetForm(m, "Verify") = "B"
    BY <1>1 DEF A!A!SetForm
  <1>3. m.st \in {"Ready", "Absorb", "Enc", "Dec", "DTF"} \/ (m.st \in {"ELB", "DLB"} /\ m.lbl = 0) => \A to : A!A!_leave(m, to)
    BY <1>1 DEF A!A!_leave
  <1>4. \A to, x : A!A!_enter_ok(m, to, x) <=> A!A!_enter_gcm(m, to, x)
    BY <1>1 DEF A!A!_enter_ok
  <1>5. BlockUnits \in Nat
    BY DEF SoftwareAssumption
  <1>6. m.machine = "GCM" \/ m.machine = "GCM_IV"
    OBVIOUS
  <1>7. \A to : <<m.st, to>> \in A!A!GcmTRANS => <<m.st, to>> \in A!A!TRANS[m.machine]
    BY <1>1, <1>6
  <1>8. /\ m.machine = "GCM" /\ m.st = "Ready" => <<m.st, "SAV">> \in A!A!TRANS[m.machine]
        /\ m.machine = "GCM_IV" /\ m.st = "Ready" => <<m.st, "Absorb">> \in A!A!TRANS[m.machine]
    BY <1>1 DEF A!A!WithSAV
  <1>9. \A x \in Nat \ {0} : m.machine = "GCM" /\ m.st = "Ready" => Allowed("SAV", "B", x)
    BY <1>2, <1>3, <1>4, <1>8 DEF Allowed, A!A!_formok, A!A!_enter_gcm
  <1>10. m.machine = "GCM_IV" /\ m.st = "Ready" => Allowed("Absorb", "A", 0)
    BY <1>2, <1>3, <1>4, <1>8 DEF Allowed, A!A!_formok, A!A!_enter_gcm
  <1>11. m.st = "Absorb" => Allowed("Enc", "A", 0) /\ Allowed("Dec", "A", 0)
    BY <1>2, <1>3, <1>4, <1>7 DEF Allowed, A!A!_formok, A!A!_enter_gcm, A!A!GcmTRANS
  <1>12. \A x \in 1..BlockUnits - 1 : (m.st = "Enc" => Allowed("ELB", "B", x)) /\ (m.st = "Dec" => Allowed("DLB", "B", x))
    BY <1>2, <1>3, <1>4, <1>5, <1>7 DEF Allowed, A!A!_formok, A!A!_enter_gcm, A!A!GcmTRANS
  <1>13. m.st = "Enc" \/ (m.st = "ELB" /\ m.lbl = 0) => Allowed("ETF", "C", 0)
    BY <1>2, <1>3, <1>4, <1>7 DEF Allowed, A!A!_formok, A!A!_enter_gcm, A!A!GcmTRANS
  <1>14. m.st = "Dec" \/ (m.st = "DLB" /\ m.lbl = 0) => Allowed("DTF", "C", 0)
    BY <1>2, <1>3, <1>4, <1>7 DEF Allowed, A!A!_formok, A!A!_enter_gcm, A!A!GcmTRANS
  <1>15. m.st = "DTF" => Allowed("Verify", "B", BlockUnits)
    BY <1>2, <1>3, <1>4, <1>7 DEF Allowed, A!A!_formok, A!A!_enter_gcm, A!A!GcmTRANS, A!A!FullTag
  <1> QED
    BY <1>9, <1>10, <1>11, <1>12, <1>13, <1>14, <1>15

\* The counter that masks the tag is taken too.
WithFirst(s, b) == {(s + i) % CM : i \in 0..b}

\* With it, all the counters of b blocks are taken.
LEMMA TakenAll ==
  ASSUME SoftwareAssumption, NEW s \in 0..CM - 1, NEW b \in Nat
  PROVE  Taken(s, b) \cup {s} = WithFirst(s, b)
  <1> DEFINE e(i) == (s + i) % CM
  <1>1. e(0) = s
    <2>1. s % CM = s
      <3>1. 0 \in 0..CM - 2
        BY DEF SoftwareAssumption
      <3> QED
        BY <3>1, Left
    <2> QED
      BY <2>1
  <1>2. Taken(s, b) = {e(i) : i \in 1..b} /\ WithFirst(s, b) = {e(i) : i \in 0..b}
    BY DEF Taken, WithFirst
  <1> HIDE DEF e
  <1>3. 0..b = {0} \cup 1..b
    OBVIOUS
  <1> QED
    BY <1>1, <1>2, <1>3

Sealed(k, j, st, t) ==
  /\ Does(k, j) /\ m.st = st /\ m.tag = BAad(j) + BText(j) /\ ks = 0 /\ got = j.text /\ todo = t /\ may /\ Suits(k, j)
  /\ m.used = WithFirst(m.start, BText(j))

\* The text is over, and the State of the tag is entered.
LEMMA Sealing ==
  ASSUME SoftwareAssumption, NEW k, NEW j, j \in A!Jobs(k), k \in {"GCM", "GCM_IV"}, NEW st, NEW c, c = BAad(j) + BText(j), NEW b, b = BText(j), NEW g, g = j.text,
         NEW s, At(k, j, st, c, b, g, s), st # "SAV", Instruct \/ A!Moved, NEW to \in {"ETF", "DTF"}, NEW t \in Seqs,
         s = Then(A!Setst(to, "C", 0), t), Allowed(to, "C", 0), A!A!GATE(to) \subseteq {Gate(j)}, A!A!GATE(to) # {}
  PROVE  \/ Dead(k, j)'
         \/ At(k, j, st, c, b, g, s)' /\ Moved_(k, j)
         \/ Sealed(k, j, to, t)'
  <1>1. /\ Does(k, j) /\ todo = Then(A!Setst(to, "C", 0), t) /\ Counted(m, b) /\ m.tag = c /\ got = g /\ Fam(m) = "GCM"
        /\ to \in Names /\ "C" \in Forms /\ A!A!Family[k] = "GCM"
    BY DEF At, Does, Fam, A!A!Family, Names, Forms
  <1>2. CASE A!Moved
    BY <1>2, MovedAt
  <1>3. CASE Instruct
    <2>1. Dead(k, j)' \/ EntersTo(k, j, to, 0, t)
      BY <1>1, <1>3, Entering
    <2>2. ASSUME EntersTo(k, j, to, 0, t) PROVE Sealed(k, j, to, t)'
      <3>1. /\ Does(k, j)' /\ EnteredOf(m, m', to, 0) /\ todo' = t /\ ks' = 0 /\ got' = got /\ may'
        BY <2>2 DEF EntersTo
      <3>2. m'.st = to /\ m'.tag = m.tag /\ m'.start = m.start /\ m'.used = m.used \cup {m.start}
        BY <1>1, <3>1 DEF EnteredOf
      <3>3. m.start \in 0..CM - 1 /\ m.used = Taken(m.start, b) /\ b \in Nat /\ b <= CM - 2
        BY <1>1 DEF Counted, Limit
      <3>4. m'.used = WithFirst(m'.start, b)
        BY <3>2, <3>3, TakenAll
      <3>5. Suits(k, j)
        BY <1>1, <3>3 DEF Suits, BText
      <3>6. Suits(k, j)'
        BY <3>5 DEF Suits
      <3> QED
        BY <1>1, <3>1, <3>2, <3>4, <3>6 DEF Sealed
    <2> QED
      BY <2>1, <2>2
  <1> QED
    BY <1>2, <1>3

\* The tag is given or compared; to compare it, a State is entered before.
LEMMA SealedMove ==
  ASSUME SoftwareAssumption, NEW k, NEW j, k \in {"GCM", "GCM_IV"}, NEW st, NEW t, Sealed(k, j, st, t), A!Moved
  PROVE  Sealed(k, j, st, t)'
  <1>1. Does(k, j) /\ Fam(m) = "GCM"
    BY DEF Sealed, Does, Fam, A!A!Family
  <1>2. Moved_(k, j)
    BY <1>1, MoveStep
  <1>3. Suits(k, j)'
    BY DEF Sealed, Suits
  <1> QED
    BY <1>2, <1>3 DEF Sealed, Moved_

\* kl.exec of the tag ends the sequence.
LEMMA SealedEnd ==
  ASSUME SoftwareAssumption, NEW k, NEW j, j \in A!Jobs(k), k \in {"GCM", "GCM_IV"}, NEW st, st = (IF j.dec THEN "Verify" ELSE "ETF"), NEW t,
         Sealed(k, j, st, t), t = Tag(IF j.dec THEN "B" ELSE "C"), Instruct
  PROVE  Done(k, j)'
  <1>1. /\ Does(k, j) /\ m.st = st /\ m.tag = BAad(j) + BText(j) /\ ks = 0 /\ got = j.text /\ todo = t /\ may /\ Suits(k, j)
        /\ m.used = WithFirst(m.start, BText(j)) /\ Fam(m) = "GCM" /\ j.dec \in BOOLEAN
    BY JobIs DEF Sealed, Does, Fam, A!A!Family
  <1>2. /\ st \in EndStates(Fam(m)) /\ A!A!GATE(st) \subseteq {Gate(j)} /\ todo = Then(A!Exec(EndForm(Fam(m), st), BlockUnits, 0), <<>>) /\ <<>> \in Seqs
    <2>1. st \in {"ETF", "Verify"} /\ (st = "Verify" <=> j.dec)
      BY <1>1
    <2>2. A!A!GATE(st) \subseteq {Gate(j)}
      BY <2>1 DEF A!A!GATE, Gate
    <2>3. EndForm(Fam(m), st) = IF j.dec THEN "B" ELSE "C"
      BY <1>1, <2>1 DEF EndForm
    <2>4. todo = Then(A!Exec(EndForm(Fam(m), st), BlockUnits, 0), <<>>)
      BY <1>1, <2>3 DEF Tag
    <2> QED
      BY <1>1, <2>1, <2>2, <2>4, NoIns DEF EndStates
  <1>3. Ended(k, j, st, <<>>)
    BY <1>1, <1>2, EndStep
  <1>4. Does(k, j)' /\ EndOf(Fam(m), st, m'.st) /\ But(m', m, {"st", "out", "halted"}) /\ ks' = 0 /\ got' = got /\ todo' = <<>> /\ may' = may
    BY <1>3 DEF Ended
  <1>5. m'.tag = m.tag /\ m'.used = m.used /\ m'.start = m.start
    BY <1>4 DEF But, AFields
  <1>6. m'.st \in IF j.dec THEN {"Success", "Failure"} ELSE {"Success"}
    BY <1>1, <1>4 DEF EndOf
  <1>7. Whole(k, j)'
    BY <1>1, <1>4, <1>5, <1>6 DEF Whole, BAad, BText
  <1>8. Stream(k, j)'
    <2>1. A!A!Family[k] = "GCM"
      BY DEF A!A!Family
    <2> QED
      BY <1>1, <1>5, <2>1 DEF Stream, BText, WithFirst
  <1>9. Suits(k, j)'
    BY <1>1 DEF Suits
  <1> QED
    BY <1>1, <1>4, <1>7, <1>8, <1>9 DEF Done

GPiece(j) == Then(A!Exec("A", BlockUnits, RText(j)), GTail(j))
GPhase(k, j) ==
  \/ Fresh(k, j, GBegin(k, j))
  \/ Iv(k, j) /\ k = "GCM"
  \/ At(k, j, "Absorb", 0, 0, 0, GAad(j))
  \/ Window(k, j, "Absorb", A!pad16(j.aad), GText(j), 0)
  \/ At(k, j, "Absorb", BAad(j), 0, 0, GText(j))
  \/ At(k, j, TextSt(j), BAad(j), 0, 0, GBody(j)) /\ may
  \/ Window(k, j, TextSt(j), FText(j), GRest(j), BAad(j))
  \/ At(k, j, TextSt(j), BAad(j) + QText(j), QText(j), FText(j), GRest(j)) /\ may
  \/ Piece(k, j, LastSt(j), BAad(j) + QText(j), QText(j), FText(j), GPiece(j)) /\ RText(j) # 0
  \/ At(k, j, LastSt(j), BAad(j) + BText(j), BText(j), j.text, GTail(j)) /\ may /\ m.lbl = 0
  \/ Sealed(k, j, "ETF", Tag("C")) /\ ~ j.dec
  \/ Sealed(k, j, "DTF", GVerify) /\ j.dec
  \/ Sealed(k, j, "Verify", Tag("B")) /\ j.dec
  \/ Done(k, j)

\* A step of a sequence of GCM leads from a phase to a phase, or the operation does not suit.
LEMMA GStep ==
  ASSUME SoftwareAssumption, NEW k, k \in {"GCM", "GCM_IV"}, NEW j, j \in A!Jobs(k), GPhase(k, j), Instruct \/ A!Moved
  PROVE  Dead(k, j)' \/ GPhase(k, j)'
  <1> DEFINE a == BAad(j)
             b == BText(j)
             q == QText(j)
             s == RText(j)
             f == FText(j)
             p == A!pad16(j.aad)
             c == a + b
             u == a + q
             ts == TextSt(j)
             ls == LastSt(j)
             t0 == GBegin(k, j)
             t3 == GAad(j)
             t4 == GText(j)
             t7 == GBody(j)
             t8 == GRest(j)
             t9 == GPiece(j)
             te == GTail(j)
             tv == GVerify
             tb == Tag("B")
             tc == Tag("C")
  <1>1. /\ BlockUnits \in Nat \ {0, 1} /\ j.text \in Nat /\ j.aad \in Nat /\ j.dec \in BOOLEAN
        /\ q \in Nat /\ s \in 0..BlockUnits - 1 /\ f \in Nat /\ f % BlockUnits = 0 /\ f \div BlockUnits = q
        /\ f + s = j.text /\ b \in Nat /\ b = (IF s = 0 THEN q ELSE q + 1)
        /\ a \in Nat /\ (q = 0 <=> j.text < BlockUnits) /\ (j.text < BlockUnits => f = 0) /\ (j.text >= BlockUnits => f > 0)
        /\ p \in Nat /\ p % BlockUnits = 0 /\ p \div BlockUnits = a /\ (j.aad = 0 => a = 0)
        /\ (j.aad > 0 => p > 0)
    BY Sizing DEF Sizes
  <1>2. c \in Nat /\ c = a + b /\ u = a + q /\ u \in Nat
    <2>1. a \in Nat /\ b \in Nat /\ q \in Nat
      BY <1>1
    <2> QED
      BY <2>1
  <1>3. /\ t3 \in Seqs /\ t4 \in Seqs /\ t7 \in Seqs /\ t8 \in Seqs /\ te \in Seqs /\ tv \in Seqs /\ tb \in Seqs /\ tc \in Seqs
        /\ t9 \in Seqs /\ GGiven(j) \in Seqs
    <2>1. Lengths(j)
      BY Sizing
    <2>2. /\ t3 \in Seqs /\ t4 \in Seqs /\ t7 \in Seqs /\ t8 \in Seqs /\ te \in Seqs /\ tv \in Seqs /\ tb \in Seqs /\ tc \in Seqs
          /\ GGiven(j) \in Seqs
      BY <2>1, GSeqs, Tags DEF Forms
    <2>3. A!Exec("A", BlockUnits, s) \in Ins
      BY <1>1, Execs DEF Forms
    <2>4. t9 = Then(A!Exec("A", BlockUnits, s), te)
      BY DEF GPiece
    <2> QED
      BY <2>2, <2>3, <2>4, Thens
  <1>4. /\ t0 = (IF k = "GCM" THEN Then(A!Setst("SAV", "B", j.iv), GGiven(j)) ELSE Then(A!Setst("Absorb", "A", 0), t3))
        /\ t3 = (IF j.aad > 0 THEN Then(A!Exec("B", p, 0), t4) ELSE t4) /\ t4 = Then(A!Setst(ts, "A", 0), t7)
        /\ t7 = (IF j.text >= BlockUnits THEN Then(A!Exec("A", f, f), t8) ELSE t8)
        /\ t8 = (IF s # 0 THEN Then(A!Setst(ls, "B", s), t9) ELSE te) /\ t9 = Then(A!Exec("A", BlockUnits, s), te)
        /\ te = (IF j.dec THEN Then(A!Setst("DTF", "C", 0), tv) ELSE Then(A!Setst("ETF", "C", 0), tc))
        /\ tv = Then(A!Setst("Verify", "B", BlockUnits), tb)
    <2>1. /\ t0 = (IF k = "GCM" THEN Then(A!Setst("SAV", "B", j.iv), GGiven(j)) ELSE Then(A!Setst("Absorb", "A", 0), t3))
          /\ t3 = (IF j.aad > 0 THEN Then(A!Exec("B", p, 0), t4) ELSE t4) /\ t4 = Then(A!Setst(ts, "A", 0), t7)
      BY DEF GBegin, GAad, GText, Start, Feed
    <2>2. t7 = (IF j.text >= BlockUnits THEN Then(A!Exec("A", f, f), t8) ELSE t8)
      BY DEF GBody, Body, FText, RText
    <2>3. t8 = (IF s # 0 THEN Then(A!Setst(ls, "B", s), t9) ELSE te) /\ t9 = Then(A!Exec("A", BlockUnits, s), te)
      BY DEF GRest, Rest, RText, GPiece
    <2>4. /\ te = (IF j.dec THEN Then(A!Setst("DTF", "C", 0), tv) ELSE Then(A!Setst("ETF", "C", 0), tc))
          /\ tv = Then(A!Setst("Verify", "B", BlockUnits), tb)
      BY DEF GTail, GVerify, Start
    <2> QED
      BY <2>1, <2>2, <2>3, <2>4
  <1>5. /\ A!A!GATE("SAV") = {} /\ A!A!GATE("Absorb") = {} /\ A!A!GATE("ETF") = {0} /\ A!A!GATE("DTF") = {1} /\ A!A!GATE("Verify") = {1}
        /\ (Gate(j) = IF j.dec THEN 1 ELSE 0) /\ ts = (IF j.dec THEN "Dec" ELSE "Enc") /\ ls = (IF j.dec THEN "DLB" ELSE "ELB")
    BY DEF A!A!GATE, Gate, TextSt, LastSt
  <1>6. /\ ts \in {"Enc", "Dec"} /\ ls \in {"ELB", "DLB"} /\ ts \in Names /\ ls \in Names /\ A!A!GATE(ts) = {Gate(j)} /\ A!A!GATE(ls) = {Gate(j)}
        /\ (\A n : Gives(ts, n) = n) /\ Form(ts) = "A" /\ FinalForm(ls) = "A" /\ (m.st = ts \/ m.st = ls => A!A!Keyed(m))
    <2>1. j.dec \in BOOLEAN
      BY <1>1
    <2> QED
      BY <2>1, TextStates
  <1>7. Does(k, j) /\ m.machine = k /\ Fam(m) = "GCM" /\ (k = "CMAC" <=> FALSE)
    <2>1. Does(k, j)
      BY DEF GPhase, At, Window, Piece, Done, Sealed, Fresh, Iv
    <2> QED
      BY <2>1 DEF Does, Fam, A!A!Family
  <1> HIDE DEF a, b, q, s, f, p, c, u, ts, ls, t0, t3, t4, t7, t8, t9, te, tv, tb, tc
  <1>8. GPhase(k, j)' <=>
          \/ Fresh(k, j, t0)'
          \/ Iv(k, j)' /\ k = "GCM"
          \/ At(k, j, "Absorb", 0, 0, 0, t3)'
          \/ Window(k, j, "Absorb", p, t4, 0)'
          \/ At(k, j, "Absorb", a, 0, 0, t4)'
          \/ At(k, j, ts, a, 0, 0, t7)' /\ may'
          \/ Window(k, j, ts, f, t8, a)'
          \/ At(k, j, ts, u, q, f, t8)' /\ may'
          \/ Piece(k, j, ls, u, q, f, t9)' /\ s # 0
          \/ At(k, j, ls, c, b, j.text, te)' /\ may' /\ m'.lbl = 0
          \/ Sealed(k, j, "ETF", tc)' /\ ~ j.dec
          \/ Sealed(k, j, "DTF", tv)' /\ j.dec
          \/ Sealed(k, j, "Verify", tb)' /\ j.dec
          \/ Done(k, j)'
    BY DEF GPhase, a, b, q, s, f, p, c, u, ts, ls, t0, t3, t4, t7, t8, t9, te, tv, tb, tc
  <1>9. Suits(k, j) => b <= Limit(Fam(m))
    BY <1>7 DEF Suits, Limit, b, BText, Fam
  <1>10. A!A!Absorbs(m)
    BY <1>7 DEF A!A!Absorbs, Fam
  <1>11. ~ Done(k, j)
    BY DEF Done, Instruct, A!SetstStep, A!ExecStep, A!Moved, A!More
  <1>12. CASE Fresh(k, j, t0) /\ k = "GCM"
    <2>1. CASE A!Moved
      BY <1>8, <1>12, <2>1, MovedFresh
    <2>2. CASE Instruct
      <3>1. m.st = "Ready" /\ todo = Then(A!Setst("SAV", "B", j.iv), GGiven(j)) /\ m.tag = 0 /\ m.used = {} /\ got = 0 /\ j.iv \in Nat \ {0}
        <4>1. j.iv \in Nat \ {0}
          BY <1>12, JobIs DEF Lengths
        <4> QED
          BY <1>4, <1>12, <4>1 DEF Fresh
      <3>2. Allowed("SAV", "B", j.iv)
        BY <1>7, <1>12, <3>1, GAllowed
      <3>3. Dead(k, j)' \/ EntersTo(k, j, "SAV", j.iv, GGiven(j))
        BY <1>3, <1>5, <1>7, <2>2, <3>1, <3>2, Entering DEF Names, Forms
      <3>4. ASSUME EntersTo(k, j, "SAV", j.iv, GGiven(j)) PROVE Iv(k, j)'
        <4>1. Does(k, j)' /\ EnteredOf(m, m', "SAV", j.iv) /\ todo' = GGiven(j) /\ ks' = 0 /\ got' = 0
          BY <3>1, <3>4 DEF EntersTo
        <4>2. m'.st = "SAV" /\ m'.tag = 0 /\ m'.used = {} /\ m'.len = j.iv /\ m'.base = 0 /\ m'.cumul = 0
          BY <3>1, <4>1 DEF EnteredOf
        <4>3. 0 % BlockUnits = 0 /\ 0 \in Nat /\ 0 < j.iv
          BY <1>1, <3>1
        <4> QED
          BY <4>1, <4>2, <4>3 DEF Iv
      <3> QED
        BY <1>8, <1>12, <3>3, <3>4
    <2> QED
      BY <2>1, <2>2
  <1>13. CASE Iv(k, j) /\ k = "GCM"
    <2>1. CASE A!Moved
      <3>1. m.st = "SAV"
        BY <1>13 DEF Iv
      <3>2. Moved_(k, j)
        BY <1>7, <2>1, MoveStep
      <3>3. m'.len = m.len /\ m'.base = m.base /\ m'.cumul = m.cumul
        BY <1>7, <3>1, <3>2 DEF Moved_, MovedOf
      <3>4. Iv(k, j)'
        BY <1>13, <3>2, <3>3 DEF Iv, Moved_
      <3> QED
        BY <1>8, <1>13, <3>4
    <2>2. CASE Instruct
      <3>1. Iv(k, j)' \/ At(k, j, "Absorb", 0, 0, 0, t3)'
        BY <1>13, <2>2, IvStep DEF t3
      <3> QED
        BY <1>8, <1>13, <3>1
    <2> QED
      BY <2>1, <2>2
  <1>14. CASE Fresh(k, j, t0) /\ k = "GCM_IV"
    <2>1. Counted(m, 0)
      BY <1>14, FreshCount
    <2>2. At(k, j, "Ready", 0, 0, 0, t0) /\ Allowed("Absorb", "A", 0)
      BY <1>7, <1>14, <2>1, GAllowed DEF Fresh, At
    <2>3. CASE A!Moved
      BY <1>8, <1>14, <2>3, MovedFresh
    <2>4. CASE Instruct
      <3>1. Turned(k, j, "Ready", 0, 0, 0, t0, "Absorb", 0, 0, t3)
        <4>1. At(k, j, "Ready", 0, 0, 0, t0) /\ "Absorb" \in Names /\ "A" \in Forms /\ 0 \in Nat
          BY <2>2 DEF Names, Forms
        <4>2. t3 \in Seqs /\ t0 = Then(A!Setst("Absorb", "A", 0), t3)
          BY <1>3, <1>4, <1>14
        <4>3. A!A!GATE("Absorb") \subseteq {Gate(j)} /\ Fam(m) = "GCM" /\ m.st = "Ready"
          BY <1>5, <1>7, <2>2 DEF At
        <4> QED
          BY <2>2, <4>1, <4>2, <4>3, Turning
      <3>2. ~ At(k, j, "Ready", 0, 0, 0, t0)' \/ m'.st = "Ready"
        BY DEF At
      <3>3. m'.st # "Ready"
        <4>1. Does(k, j) /\ todo = Then(A!Setst("Absorb", "A", 0), t3)
          BY <1>4, <1>7, <1>14 DEF Fresh
        <4>2. Dead(k, j)' \/ EntersTo(k, j, "Absorb", 0, t3)
          BY <1>3, <1>5, <2>2, <2>4, <4>1, Entering DEF Names, Forms
        <4> QED
          BY <4>2 DEF Dead, EntersTo, EnteredOf, A!A!Invalid
      <3> QED
        BY <1>8, <3>1, <3>2, <3>3 DEF Turned
    <2> QED
      BY <2>3, <2>4
  <1>15. ASSUME Window(k, j, "Absorb", p, t4, 0) PROVE Dead(k, j)' \/ GPhase(k, j)'
    <2>1. m.st = "Absorb"
      BY <1>15 DEF Window
    <2>2. A!A!Absorbs(m) /\ ~ A!A!Keyed(m)
      BY <1>7, <1>10, <2>1 DEF A!A!Keyed, Fam
    <2>3. WindowTo(k, j, p, 0, a, 0)
      BY <1>1, <2>2 DEF WindowTo
    <2>4. Dead(k, j)' \/ (Aside /\ WindowOrAt(k, j, "Absorb", p, t4, 0, a, 0, Gives("Absorb", p))')
      BY <1>1, <1>3, <1>5, <1>7, <1>15, <2>2, <2>3, WindowThen
    <2>5. Gives("Absorb", p) = 0
      BY <1>5 DEF Gives
    <2> QED
      BY <1>8, <2>4, <2>5 DEF WindowOrAt
  <1>16. ASSUME At(k, j, "Absorb", a, 0, 0, t4) PROVE Dead(k, j)' \/ GPhase(k, j)'
    <2>1. Allowed(ts, "A", 0)
      BY <1>5, <1>7, <1>16, GAllowed DEF At
    <2>2. Turned(k, j, "Absorb", a, 0, 0, t4, ts, 0, 0, t7)
      BY <1>3, <1>4, <1>6, <1>7, <1>16, <2>1, Turning DEF Forms
    <2> QED
      BY <1>6, <1>8, <2>2 DEF Turned
  <1>17. CASE At(k, j, "Absorb", 0, 0, 0, t3)
    <2>1. CASE j.aad > 0
      <3>1. t3 = Then(A!Exec(Form("Absorb"), p, 0), t4) /\ 0 = Gives("Absorb", p)
        BY <1>4, <1>5, <2>1 DEF Form, Gives
      <3>2. Window(k, j, "Absorb", p, t4, 0)
        BY <1>1, <1>5, <1>17, <2>1, <3>1, AtWindow
      <3> QED
        BY <1>15, <3>2
    <2>2. CASE ~ (j.aad > 0)
      <3>1. t3 = t4 /\ a = 0
        BY <1>1, <1>4, <2>2
      <3> QED
        BY <1>16, <1>17, <3>1
    <2> QED
      BY <2>1, <2>2
  <1>18. ASSUME NEW st \in {ts, ls}, At(k, j, st, c, b, j.text, te), may, st = ls => m.lbl = 0,
               At(k, j, st, c, b, j.text, te)' /\ Moved_(k, j) => GPhase(k, j)'
         PROVE  Dead(k, j)' \/ GPhase(k, j)'
    <2>1. CASE j.dec
      <3>1. te = Then(A!Setst("DTF", "C", 0), tv) /\ Allowed("DTF", "C", 0) /\ st # "SAV"
        BY <1>4, <1>5, <1>7, <1>18, <2>1, GAllowed DEF At
      <3>2. \/ Dead(k, j)'
            \/ At(k, j, st, c, b, j.text, te)' /\ Moved_(k, j)
            \/ Sealed(k, j, "DTF", tv)'
        BY <1>3, <1>5, <1>18, <2>1, <3>1, Sealing DEF c, b, a
      <3> QED
        BY <1>8, <1>18, <2>1, <3>2
    <2>2. CASE ~ j.dec
      <3>1. te = Then(A!Setst("ETF", "C", 0), tc) /\ Allowed("ETF", "C", 0) /\ st # "SAV"
        BY <1>4, <1>5, <1>7, <1>18, <2>2, GAllowed DEF At
      <3>2. \/ Dead(k, j)'
            \/ At(k, j, st, c, b, j.text, te)' /\ Moved_(k, j)
            \/ Sealed(k, j, "ETF", tc)'
        BY <1>3, <1>5, <1>18, <2>2, <3>1, Sealing DEF c, b, a
      <3> QED
        BY <1>8, <1>18, <2>2, <3>2
    <2> QED
      BY <2>1, <2>2
  <1>19. CASE At(k, j, ls, c, b, j.text, te) /\ may /\ m.lbl = 0
    <2>1. At(k, j, ls, c, b, j.text, te)' /\ Moved_(k, j) => GPhase(k, j)'
      BY <1>8, <1>19 DEF Moved_
    <2> QED
      BY <1>18, <1>19, <2>1
  <1>20. ASSUME At(k, j, ts, u, q, f, t8), may PROVE Dead(k, j)' \/ GPhase(k, j)'
    <2>1. CASE s # 0
      <3>1. Allowed(ls, "B", s)
        <4>1. s \in 1..BlockUnits - 1
          BY <1>1, <2>1
        <4> QED
          BY <1>5, <1>7, <1>20, <4>1, GAllowed DEF At
      <3>2. s \in Nat
        BY <1>1
      <3>3. Turned(k, j, ts, u, q, f, t8, ls, s, q, t9)
        BY <1>3, <1>4, <1>5, <1>6, <1>7, <1>20, <2>1, <3>1, <3>2, Turning DEF Forms
      <3>4. ASSUME At(k, j, ls, u, q, f, t9)', EnteredOf(m, m', ls, s), may' PROVE GPhase(k, j)'
        <4>1. m'.lbl \in 1..BlockUnits /\ Fam(m') = "GCM"
          BY <1>1, <1>6, <1>7, <2>1, <3>4 DEF EnteredOf, A!A!Final, Fam
        <4>2. Piece(k, j, ls, u, q, f, t9)'
          BY <3>4, <4>1 DEF Piece
        <4> QED
          BY <1>8, <2>1, <4>2
      <3> QED
        BY <1>8, <1>20, <3>3, <3>4 DEF Turned, Moved_
    <2>2. CASE s = 0
      <3>1. u = c /\ q = b /\ f = j.text /\ t8 = te
        <4>1. s = 0 /\ a \in Nat /\ q \in Nat /\ f \in Nat
          BY <1>1, <2>2
        <4>2. f + s = j.text /\ b = (IF s = 0 THEN q ELSE q + 1)
          BY <1>1
        <4>3. c = a + b /\ u = a + q
          BY <1>2
        <4>4. t8 = te
          BY <1>4, <2>2
        <4> QED
          BY <4>1, <4>2, <4>3, <4>4
      <3>2. At(k, j, ts, c, b, j.text, te)' /\ Moved_(k, j) => GPhase(k, j)'
        BY <1>8, <1>20, <3>1 DEF Moved_
      <3>3. ts # ls
        BY <1>5
      <3> QED
        BY <1>18, <1>20, <3>1, <3>2, <3>3
    <2> QED
      BY <2>1, <2>2
  <1>21. ASSUME Window(k, j, ts, f, t8, a) PROVE Dead(k, j)' \/ GPhase(k, j)'
    <2>1. m.st = ts /\ may
      BY <1>6, <1>21 DEF Window
    <2>2. A!A!Keyed(m)
      BY <1>6, <2>1
    <2>3. WindowTo(k, j, f, a, u, q)
      <3>1. Limit("GCM") \in Int
        BY DEF Limit, SoftwareAssumption
      <3>2. Suits(k, j) => q <= Limit(Fam(m))
        BY <1>1, <1>7, <1>9, <3>1
      <3>3. u = a + q /\ f \div BlockUnits = q
        BY <1>1, <1>2
      <3> QED
        BY <1>10, <2>2, <3>2, <3>3 DEF WindowTo
    <2>4. may' = may /\ (Dead(k, j)' \/ (Aside /\ WindowOrAt(k, j, ts, f, t8, a, u, q, Gives(ts, f))'))
      <3>1. WindowFor(j, ts, f, t8, a)
        BY <1>1, <1>3, <1>6, <1>7 DEF WindowFor
      <3> QED
        BY <1>21, <2>3, <3>1, WindowNext
    <2>5. Gives(ts, f) = f
      BY <1>6
    <2> QED
      BY <1>8, <2>1, <2>4, <2>5 DEF WindowOrAt
  <1>22. CASE At(k, j, ts, a, 0, 0, t7) /\ may
    <2>1. CASE j.text >= BlockUnits
      <3>1. t7 = Then(A!Exec(Form(ts), f, f), t8) /\ f = Gives(ts, f) /\ f > 0
        BY <1>1, <1>4, <1>6, <2>1
      <3>2. Window(k, j, ts, f, t8, a)
        BY <1>1, <1>2, <1>22, <3>1, AtWindow
      <3> QED
        BY <1>21, <3>2
    <2>2. CASE j.text < BlockUnits
      <3>1. t7 = t8 /\ q = 0 /\ f = 0
        BY <1>1, <1>4, <2>2
      <3>2. u = a
        <4>1. a \in Nat
          BY <1>1
        <4> QED
          BY <1>2, <3>1, <4>1
      <3> QED
        BY <1>20, <1>22, <3>1, <3>2
    <2>3. j.text \in Nat /\ BlockUnits \in Nat
      BY <1>1
    <2> QED
      BY <2>1, <2>2, <2>3
  <1>23. CASE Piece(k, j, ls, u, q, f, t9) /\ s # 0
    <2>1. m.st = ls /\ may /\ At(k, j, ls, u, q, f, t9)
      BY <1>6, <1>23 DEF Piece, At
    <2>2. A!A!Keyed(m) /\ NextOf(m) = ls /\ More_(m, q, 1) = q + 1 /\ q + 1 = b
      <3>1. A!A!Keyed(m)
        BY <1>6, <2>1
      <3>2. NextOf(m) = ls /\ More_(m, q, 1) = q + 1
        BY <1>5, <1>7, <2>1, <3>1 DEF NextOf, More_, Grows
      <3> QED
        BY <1>1, <1>23, <3>1, <3>2
    <2>3. PieceTo(k, j, ls, u, q, f, s, ls, c, b, j.text, 0)
      <3>1. c = (IF A!A!Absorbs(m) THEN u + 1 ELSE u)
        BY <1>1, <1>2, <1>10, <2>2
      <3>2. j.text = (IF A!A!GATE(ls) = {} THEN f ELSE f + s)
        BY <1>1, <1>6
      <3> QED
        BY <1>7, <1>9, <2>2, <3>1, <3>2 DEF PieceTo
    <2>4. \/ Dead(k, j)'
          \/ m'.lbl = m.lbl /\ Piece(k, j, ls, u, q, f, t9)'
          \/ may' = may /\ PieceOver(k, j, ls, c, b, j.text, te, 0)'
      <3>1. A!A!GATE(ls) \subseteq {Gate(j)}
        BY <1>6
      <3>2. u \in Nat /\ te \in Seqs /\ f \in Int /\ s \in Int
        BY <1>1, <1>2, <1>3
      <3>3. ls \in FinalStates(Fam(m)) /\ t9 = Then(A!Exec(FinalForm(ls), BlockUnits, s), te)
        BY <1>4, <1>6, <1>7 DEF FinalStates
      <3>4. Piece(k, j, ls, u, q, f, t9)
        BY <1>23
      <3> QED
        BY <2>3, <3>1, <3>2, <3>3, <3>4, PieceThen
    <2> QED
      BY <1>8, <1>23, <2>1, <2>4 DEF PieceOver
  <1>24. CASE Sealed(k, j, "ETF", tc) /\ ~ j.dec
    <2>1. Instruct => Done(k, j)'
      BY <1>24, SealedEnd DEF tc
    <2> QED
      BY <1>8, <1>24, <2>1, SealedMove
  <1>25. CASE Sealed(k, j, "Verify", tb) /\ j.dec
    <2>1. Instruct => Done(k, j)'
      BY <1>25, SealedEnd DEF tb
    <2> QED
      BY <1>8, <1>25, <2>1, SealedMove
  <1>26. CASE Sealed(k, j, "DTF", tv) /\ j.dec
    <2>1. m.st = "DTF" /\ todo = Then(A!Setst("Verify", "B", BlockUnits), tb) /\ may /\ Suits(k, j)
      BY <1>4, <1>26 DEF Sealed
    <2>2. Allowed("Verify", "B", BlockUnits)
      BY <1>7, <2>1, GAllowed
    <2>3. CASE Instruct
      <3>1. Dead(k, j)' \/ EntersTo(k, j, "Verify", BlockUnits, tb)
        BY <1>1, <1>3, <1>5, <1>7, <1>26, <2>1, <2>2, <2>3, Entering DEF Names, Forms
      <3>2. ASSUME EntersTo(k, j, "Verify", BlockUnits, tb) PROVE Sealed(k, j, "Verify", tb)'
        <4>1. Does(k, j)' /\ EnteredOf(m, m', "Verify", BlockUnits) /\ todo' = tb /\ ks' = 0 /\ got' = got /\ may'
          BY <2>1, <3>2 DEF EntersTo
        <4>2. m'.st = "Verify" /\ m'.tag = m.tag /\ m'.used = m.used /\ m'.start = m.start
          BY <4>1 DEF EnteredOf
        <4>3. Suits(k, j)'
          BY <2>1 DEF Suits
        <4> QED
          BY <1>26, <4>1, <4>2, <4>3 DEF Sealed
      <3> QED
        BY <1>8, <1>26, <3>1, <3>2
    <2> QED
      BY <1>8, <1>26, <2>3, SealedMove
  <1> QED
    BY <1>11, <1>12, <1>13, <1>14, <1>15, <1>16, <1>17, <1>19, <1>20, <1>21, <1>22, <1>23, <1>24, <1>25, <1>26
       DEF GPhase, a, b, q, s, f, p, c, u, ts, ls, t0, t3, t4, t7, t8, t9, te, tv, tb, tc

-----------------------------------------------------------------------------
(* OCB.                                                                    *)

QAad(j) == j.aad \div BlockUnits
RAad(j) == j.aad % BlockUnits
FAad(j) == j.aad - RAad(j)
AadSizes(j) ==
  /\ QAad(j) \in Nat /\ RAad(j) \in 0..BlockUnits - 1 /\ FAad(j) \in Nat /\ FAad(j) % BlockUnits = 0 /\ FAad(j) \div BlockUnits = QAad(j)
  /\ BAad(j) = (IF RAad(j) = 0 THEN QAad(j) ELSE QAad(j) + 1) /\ (j.aad < BlockUnits => QAad(j) = 0) /\ (j.aad >= BlockUnits => FAad(j) > 0)

\* The lengths of the associated data.
LEMMA AadSizing ==
  ASSUME SoftwareAssumption, NEW k, NEW j \in A!Jobs(k)
  PROVE  AadSizes(j)
  <1>1. j.aad \in Nat /\ BlockUnits \in Nat \ {0, 1}
    BY JobIs DEF Lengths, SoftwareAssumption
  <1>2. QAad(j) \in Nat /\ RAad(j) \in 0..BlockUnits - 1 /\ j.aad = BlockUnits * QAad(j) + RAad(j)
    BY <1>1, Units DEF QAad, RAad
  <1>3. /\ BAad(j) = (IF RAad(j) = 0 THEN QAad(j) ELSE QAad(j) + 1)
        /\ FAad(j) \in Nat /\ FAad(j) % BlockUnits = 0 /\ FAad(j) \div BlockUnits = QAad(j) /\ (QAad(j) = 0 <=> j.aad < BlockUnits)
    BY <1>1, Pieces DEF QAad, RAad, FAad, BAad
  <1>4. j.aad >= BlockUnits => FAad(j) > 0
    BY <1>1, <1>2, <1>3 DEF FAad
  <1> QED
    BY <1>2, <1>3, <1>4 DEF AadSizes

\* Between kl.setst to SAV and kl.setst to Absorb; the nonce is fed, or not yet.
Nonce(k, j, t) ==
  Does(k, j) /\ m.st = "SAV" /\ m.tag = 0 /\ m.len = j.iv /\ ks = 0 /\ got = 0 /\ todo = t

\* kl.exec over the nonce of OCB.
LEMMA NonceStep ==
  ASSUME SoftwareAssumption, NEW k, k = "OCB", NEW j, j \in A!Jobs(k), Nonce(k, j, OGiven(j)), Instruct
  PROVE  Nonce(k, j, OAbsorb(j))' /\ m'.hasN
  <1> DEFINE r == Quiet(m)
             t == OAbsorb(j)
             v == [r EXCEPT !.hasN = TRUE, !.given = TRUE]
  <1>1. Does(k, j) /\ m.machine = "OCB" /\ DOMAIN m = AFields /\ Fam(m) = "OCB" /\ A!A!Family["OCB"] = "OCB"
    BY DEF Nonce, Does, Fam, A!A!Family
  <1>2. m.st = "SAV" /\ m.tag = 0 /\ m.len = j.iv /\ ks = 0 /\ got = 0 /\ todo = Then(A!Exec("B", BlockUnits, 0), t)
    BY DEF Nonce, OGiven
  <1>3. j.iv \in Nat /\ j.iv < BlockUnits /\ t \in Seqs /\ BlockUnits \in Nat \ {0, 1}
    <2>1. Lengths(j) /\ j.iv \in Nat /\ j.iv < BlockUnits
      BY JobIs DEF Lengths
    <2> QED
      BY <2>1, OSeqs DEF SoftwareAssumption
  <1>4. A!A!MayRun(m) /\ A!A!EXF(m) = "B"
    BY <1>1, <1>2 DEF A!A!MayRun, A!A!GATE, A!A!EXF
  <1> HIDE DEF r, t
  <1>5. PICK h \in 0..BlockWindow, ok \in BOOLEAN, s \in A!A!_finalize(m) : Execs_("B", BlockUnits, 0, t, h, s, ok)
    <2>1. m.st # "Invalid" /\ ks < BlockUnits /\ ks \in Nat /\ BlockUnits \in Nat
      BY <1>2, <1>3
    <2> QED
      BY <1>2, <1>3, <2>1, Executing DEF Instruct, Forms
  <1>6. QuietOf(r, m)
    BY <1>1, Quiets DEF r
  <1>7. DOMAIN r = AFields /\ r.machine = "OCB" /\ r.st = "SAV" /\ r.tag = 0 /\ r.len = j.iv /\ r.policy = m.policy /\ r.out = "nothing" /\ r.halted = Still
    BY <1>1, <1>2, <1>6 DEF QuietOf, But, AFields
  <1>8. m' = v /\ Goes(BlockUnits, 0, t)
    <2>1. m' = A!A!_exec(r, BlockUnits, ks, h, s, ok) /\ Goes(BlockUnits, 0, t)
      BY <1>4, <1>5 DEF Execs_, r
    <2>2. A!A!_exec(r, BlockUnits, ks, h, s, ok) = A!A!_exec_ocb(r, BlockUnits, ks, h, ok)
      BY <1>1, <1>7 DEF A!A!_exec
    <2>3. ~ (BlockUnits < r.len)
      BY <1>3, <1>7
    <2>4. A!A!_exec_ocb(r, BlockUnits, ks, h, ok) = v
      BY <1>7, <2>3 DEF A!A!_exec_ocb
    <2> QED
      BY <2>1, <2>2, <2>4
  <1>9. But(v, r, {"hasN", "given"}) /\ v.hasN
    BY <1>7 DEF But, AFields
  <1> HIDE DEF v
  <1>10. DOMAIN m' = AFields /\ m'.machine = "OCB" /\ m'.st = "SAV" /\ m'.tag = 0 /\ m'.len = j.iv /\ m'.policy = m.policy /\ m'.out = "nothing"
         /\ m'.halted = Still /\ m'.hasN
    BY <1>7, <1>8, <1>9 DEF But, AFields
  <1>11. m'.halted.pos = 0
    BY <1>10 DEF Still
  <1>12. todo' = t /\ ks' = 0 /\ got' = 0 /\ job' = job /\ may' = may
    BY <1>2, <1>8, <1>10, <1>11 DEF Goes
  <1>13. Does(k, j)'
    BY <1>1, <1>10, <1>12 DEF Does
  <1> QED
    BY <1>10, <1>12, <1>13 DEF Nonce, t

\* The text ends at the end of a block: kl.exec of Form D goes on to the tag.
LEMMA FormD ==
  ASSUME SoftwareAssumption, NEW k, k \in {"OCB", "OCB_NONCE"}, NEW j, j \in A!Jobs(k), NEW tag, NEW c, NEW g, NEW s,
         At(k, j, LastSt(j), tag, c, g, s), m.lbl = 0, may, NEW t \in Seqs, s = Then(A!Exec("D", 0, 0), t), Instruct
  PROVE  At(k, j, NextSt(j), tag, c, g, t)' /\ may'
  <1> DEFINE r == Quiet(m)
             e == NextSt(j)
             v == [r EXCEPT !.st = e]
  <1>1. Does(k, j) /\ DOMAIN m = AFields /\ Fam(m) = "OCB" /\ m.st = LastSt(j) /\ m.tag = tag /\ Counted(m, c) /\ ks = 0 /\ got = g /\ todo = s
    BY DEF At, Does, Fam, A!A!Family
  <1>2. /\ LastSt(j) \in {"ELB", "DLB"} /\ e = (IF LastSt(j) = "ELB" THEN "ETF" ELSE "Verify") /\ e \in {"ETF", "Verify"}
        /\ A!A!GATE(LastSt(j)) = {Gate(j)}
    BY JobIs, TextStates DEF LastSt, NextSt
  <1>3. A!A!MayRun(m) /\ A!A!EXF(m) = "D"
    BY <1>1, <1>2 DEF A!A!MayRun, A!A!EXF, Does, Fam
  <1> HIDE DEF r, e
  <1>4. PICK h \in 0..BlockWindow, ok \in BOOLEAN, x \in A!A!_finalize(m) : Execs_("D", 0, 0, t, h, x, ok)
    <2>1. m.st # "Invalid" /\ ks \in Nat /\ 0 \in Nat /\ 0 \in Int
      BY <1>1, <1>2
    <2> QED
      BY <1>1, <2>1, Executing DEF Instruct, Forms
  <1>5. QuietOf(r, m)
    BY <1>1, Quiets DEF r
  <1>6. DOMAIN r = AFields /\ r.machine = m.machine /\ r.st = m.st /\ r.lbl = 0
    BY <1>1, <1>5 DEF QuietOf, But, AFields
  <1>7. m' = v /\ Goes(0, 0, t)
    <2>1. m' = A!A!_exec(r, 0, ks, h, x, ok) /\ Goes(0, 0, t)
      BY <1>3, <1>4 DEF Execs_, r
    <2>2. A!A!_exec(r, 0, ks, h, x, ok) = A!A!_exec_ocb(r, 0, ks, h, ok)
      BY <1>1, <1>6 DEF A!A!_exec, Fam
    <2>3. A!A!_exec_ocb(r, 0, ks, h, ok) = v
      BY <1>1, <1>2, <1>6 DEF A!A!_exec_ocb
    <2> QED
      BY <2>1, <2>2, <2>3
  <1>8. But(v, r, {"st"}) /\ v.st = e
    BY <1>6 DEF But, AFields
  <1> HIDE DEF v
  <1>9. But(m', m, {"st", "out", "halted"}) /\ m'.st = e /\ m'.halted = Still /\ m'.out = "nothing"
    BY <1>5, <1>7, <1>8 DEF QuietOf, But, AFields
  <1>10. DOMAIN m' = AFields /\ m'.machine = m.machine /\ m'.policy = m.policy /\ m'.tag = m.tag /\ SameCount(m, m')
    BY <1>9 DEF But, AFields, SameCount
  <1>11. m'.halted.pos = 0 /\ Counted(m', c)
    BY <1>1, <1>9, <1>10, SameCounted DEF Still
  <1>12. todo' = t /\ ks' = 0 /\ got' = g /\ job' = job /\ may' = may
    BY <1>1, <1>7, <1>9, <1>11 DEF Goes
  <1>13. Does(k, j)'
    BY <1>1, <1>2, <1>9, <1>10, <1>12 DEF Does
  <1> QED
    BY <1>1, <1>9, <1>10, <1>11, <1>12, <1>13 DEF At, e

\* kl.setst of the Machines.
LEMMA OAllowed ==
  ASSUME SoftwareAssumption, m.machine \in {"OCB", "OCB_NONCE"}
  PROVE  /\ \A x \in 1..BlockUnits - 1 : m.machine = "OCB" /\ m.st = "Ready" => Allowed("SAV", "B", x)
         /\ m.machine = "OCB" /\ m.st = "SAV" /\ m.hasN => Allowed("Absorb", "B", BlockUnits)
         /\ m.machine = "OCB_NONCE" /\ m.st = "Ready" => Allowed("Absorb", "B", BlockUnits)
         /\ \A x \in 0..BlockUnits - 1 : m.st = "Absorb" => Allowed("Last", "B", x)
         /\ m.st = "Last" /\ m.lbl = 0 => Allowed("Enc", "A", 0) /\ Allowed("Dec", "A", 0)
         /\ \A x \in 0..BlockUnits - 1 : (m.st = "Enc" => Allowed("ELB", "B", x)) /\ (m.st = "Dec" => Allowed("DLB", "B", x))
         /\ m.st = "ELB" /\ m.lbl = 0 => (Allowed("ETF", "A", 0) <=> m.ctr <= MAX_BLOCKS)
         /\ m.st = "DLB" /\ m.lbl = 0 => (Allowed("Verify", "A", 0) <=> m.ctr <= MAX_BLOCKS)
  <1>1. /\ A!A!TRANS["OCB"] = A!A!OcbTRANS \cup A!A!WithSAV /\ A!A!TRANS["OCB_NONCE"] = A!A!OcbTRANS \cup {<<"Ready", "Absorb">>}
        /\ A!A!Family[m.machine] = "OCB" /\ A!A!SETF["OCB"] = [B |-> {"SAV", "Absorb", "Last", "ELB", "DLB"}, C |-> {}]
    BY DEF A!A!TRANS, A!A!Family, A!A!SETF
  <1>2. /\ A!A!SetForm(m, "SAV") = "B" /\ A!A!SetForm(m, "Absorb") = "B" /\ A!A!SetForm(m, "Enc") = "A" /\ A!A!SetForm(m, "Dec") = "A"
        /\ A!A!SetForm(m, "ELB") = "B" /\ A!A!SetForm(m, "DLB") = "B" /\ A!A!SetForm(m, "ETF") = "A" /\ A!A!SetForm(m, "Last") = "B"
        /\ A!A!SetForm(m, "Verify") = "A"
    BY <1>1 DEF A!A!SetForm
  <1>3. m.st \in {"Ready", "SAV", "Absorb", "Enc", "Dec", "ELB", "DLB"} \/ (m.st = "Last" /\ m.lbl = 0) => \A to : A!A!_leave(m, to)
    BY <1>1 DEF A!A!_leave
  <1>4. \A to, x : A!A!_enter_ok(m, to, x) <=> A!A!_enter_ocb(m, to, x)
    BY <1>1 DEF A!A!_enter_ok
  <1>5. BlockUnits \in Nat
    BY DEF SoftwareAssumption
  <1>6. m.machine = "OCB" \/ m.machine = "OCB_NONCE"
    OBVIOUS
  <1>7. \A to : <<m.st, to>> \in A!A!OcbTRANS => <<m.st, to>> \in A!A!TRANS[m.machine]
    BY <1>1, <1>6
  <1>8. /\ m.machine = "OCB" /\ m.st = "Ready" => <<m.st, "SAV">> \in A!A!TRANS[m.machine]
        /\ m.machine = "OCB" /\ m.st = "SAV" => <<m.st, "Absorb">> \in A!A!TRANS[m.machine]
        /\ m.machine = "OCB_NONCE" /\ m.st = "Ready" => <<m.st, "Absorb">> \in A!A!TRANS[m.machine]
    BY <1>1 DEF A!A!WithSAV
  <1>9. \A x \in 1..BlockUnits - 1 : m.machine = "OCB" /\ m.st = "Ready" => Allowed("SAV", "B", x)
    BY <1>2, <1>3, <1>4, <1>5, <1>8 DEF Allowed, A!A!_formok, A!A!_enter_ocb
  <1>10. m.machine = "OCB" /\ m.st = "SAV" /\ m.hasN => Allowed("Absorb", "B", BlockUnits)
    BY <1>2, <1>3, <1>4, <1>8 DEF Allowed, A!A!_formok, A!A!_enter_ocb, A!A!FullTag, A!A!Final
  <1>11. m.machine = "OCB_NONCE" /\ m.st = "Ready" => Allowed("Absorb", "B", BlockUnits)
    BY <1>2, <1>3, <1>4, <1>8 DEF Allowed, A!A!_formok, A!A!_enter_ocb, A!A!FullTag, A!A!Final
  <1>12. \A x \in 0..BlockUnits - 1 : m.st = "Absorb" => Allowed("Last", "B", x)
    BY <1>2, <1>3, <1>4, <1>5, <1>7 DEF Allowed, A!A!_formok, A!A!_enter_ocb, A!A!OcbTRANS, A!A!Final
  <1>13. m.st = "Last" /\ m.lbl = 0 => Allowed("Enc", "A", 0) /\ Allowed("Dec", "A", 0)
    BY <1>2, <1>3, <1>4, <1>7 DEF Allowed, A!A!_formok, A!A!_enter_ocb, A!A!OcbTRANS, A!A!Final
  <1>14. \A x \in 0..BlockUnits - 1 : (m.st = "Enc" => Allowed("ELB", "B", x)) /\ (m.st = "Dec" => Allowed("DLB", "B", x))
    BY <1>2, <1>3, <1>4, <1>5, <1>7 DEF Allowed, A!A!_formok, A!A!_enter_ocb, A!A!OcbTRANS, A!A!Final
  <1>15. m.st = "ELB" /\ m.lbl = 0 => (Allowed("ETF", "A", 0) <=> m.ctr <= MAX_BLOCKS)
    BY <1>2, <1>3, <1>4, <1>7 DEF Allowed, A!A!_formok, A!A!_enter_ocb, A!A!OcbTRANS, A!A!Final
  <1>16. m.st = "DLB" /\ m.lbl = 0 => (Allowed("Verify", "A", 0) <=> m.ctr <= MAX_BLOCKS)
    BY <1>2, <1>3, <1>4, <1>7 DEF Allowed, A!A!_formok, A!A!_enter_ocb, A!A!OcbTRANS, A!A!Final
  <1> QED
    BY <1>9, <1>10, <1>11, <1>12, <1>13, <1>14, <1>15, <1>16

AadFits(j) == BAad(j) <= MAX_BLOCKS
OPhase(k, j) ==
  \/ Fresh(k, j, OBegin(k, j))
  \/ Nonce(k, j, OGiven(j)) /\ k = "OCB"
  \/ Nonce(k, j, OAbsorb(j)) /\ k = "OCB" /\ m.hasN
  \/ At(k, j, "Absorb", 0, 0, 0, OAad(j))
  \/ Window(k, j, "Absorb", FAad(j), OLast(j), 0)
  \/ At(k, j, "Absorb", QAad(j), QAad(j), 0, OLast(j))
  \/ Piece(k, j, "Last", QAad(j), QAad(j), 0, OPiece(j)) /\ RAad(j) # 0
  \/ At(k, j, "Last", BAad(j), QAad(j), 0, OText(j)) /\ m.lbl = 0 /\ AadFits(j)
  \/ At(k, j, TextSt(j), BAad(j), 0, 0, OBody(j)) /\ may /\ AadFits(j)
  \/ Window(k, j, TextSt(j), FText(j), ORest(j), BAad(j)) /\ AadFits(j)
  \/ At(k, j, TextSt(j), BAad(j) + QText(j), QText(j), FText(j), ORest(j)) /\ may /\ AadFits(j)
  \/ Piece(k, j, LastSt(j), BAad(j) + QText(j), QText(j), FText(j), OFinal(j)) /\ RText(j) # 0 /\ AadFits(j)
  \/ At(k, j, LastSt(j), BAad(j) + QText(j), QText(j), FText(j), OFinal(j)) /\ RText(j) = 0 /\ m.lbl = 0 /\ may /\ AadFits(j)
  \/ At(k, j, NextSt(j), BAad(j) + BText(j), QText(j), j.text, OTag(j)) /\ may /\ Suits(k, j)
  \/ Done(k, j)

\* A step of a sequence of OCB leads from a phase to a phase, or the operation does not suit.
LEMMA OStep ==
  ASSUME SoftwareAssumption, NEW k, k \in {"OCB", "OCB_NONCE"}, NEW j, j \in A!Jobs(k), OPhase(k, j), Instruct \/ A!Moved
  PROVE  Dead(k, j)' \/ OPhase(k, j)'
  <1> DEFINE a == BAad(j)
             b == BText(j)
             q == QText(j)
             s == RText(j)
             f == FText(j)
             w == QAad(j)
             x == RAad(j)
             y == FAad(j)
             c == a + b
             u == a + q
             ts == TextSt(j)
             ls == LastSt(j)
             ns == NextSt(j)
             t0 == OBegin(k, j)
             t1 == OGiven(j)
             t2 == OAbsorb(j)
             t3 == OAad(j)
             t4 == OLast(j)
             t5 == OPiece(j)
             t6 == OText(j)
             t7 == OBody(j)
             t8 == ORest(j)
             t9 == OFinal(j)
             te == OTag(j)
             fits == AadFits(j)
  <1>1. /\ BlockUnits \in Nat \ {0, 1} /\ j.text \in Nat /\ j.aad \in Nat /\ j.dec \in BOOLEAN /\ MAX_BLOCKS \in Nat
        /\ q \in Nat /\ s \in 0..BlockUnits - 1 /\ f \in Nat /\ f % BlockUnits = 0 /\ f \div BlockUnits = q
        /\ f + s = j.text /\ b \in Nat /\ b = (IF s = 0 THEN q ELSE q + 1)
        /\ a \in Nat /\ (q = 0 <=> j.text < BlockUnits) /\ (j.text < BlockUnits => f = 0) /\ (j.text >= BlockUnits => f > 0)
        /\ w \in Nat /\ x \in 0..BlockUnits - 1 /\ y \in Nat /\ y % BlockUnits = 0 /\ y \div BlockUnits = w
        /\ a = (IF x = 0 THEN w ELSE w + 1) /\ (j.aad < BlockUnits => w = 0) /\ (j.aad >= BlockUnits => y > 0)
    BY Sizing, AadSizing DEF Sizes, AadSizes, SoftwareAssumption
  <1>2. c \in Nat /\ c = a + b /\ u = a + q /\ u \in Nat /\ s \in Nat /\ x \in Nat
    <2>1. a \in Nat /\ b \in Nat /\ q \in Nat /\ BlockUnits \in Nat
      BY <1>1
    <2>2. s \in Nat /\ x \in Nat
      BY <1>1
    <2> QED
      BY <2>1, <2>2
  <1>3. /\ t1 \in Seqs /\ t2 \in Seqs /\ t3 \in Seqs /\ t4 \in Seqs /\ t5 \in Seqs /\ t6 \in Seqs /\ t7 \in Seqs /\ t8 \in Seqs /\ t9 \in Seqs /\ te \in Seqs
    <2>1. Lengths(j)
      BY Sizing
    <2> QED
      BY <2>1, OSeqs
  <1>4. /\ t0 = (IF k = "OCB" THEN Then(A!Setst("SAV", "B", j.iv), t1) ELSE t2) /\ t1 = Then(A!Exec("B", BlockUnits, 0), t2)
        /\ t2 = Then(A!Setst("Absorb", "B", BlockUnits), t3) /\ t3 = (IF j.aad >= BlockUnits THEN Then(A!Exec("B", y, 0), t4) ELSE t4)
        /\ t4 = Then(A!Setst("Last", "B", x), t5) /\ t5 = (IF x # 0 THEN Then(A!Exec("B", BlockUnits, 0), t6) ELSE t6)
        /\ t6 = Then(A!Setst(ts, "A", 0), t7) /\ t7 = (IF j.text >= BlockUnits THEN Then(A!Exec("A", f, f), t8) ELSE t8)
        /\ t8 = Then(A!Setst(ls, "B", s), t9)
        /\ t9 = (IF s # 0 THEN Then(A!Exec("A", BlockUnits, s), te)
                 ELSE IF j.via THEN Then(A!Setst(ns, "A", 0), te) ELSE Then(A!Exec("D", 0, 0), te))
    <2>1. /\ t0 = (IF k = "OCB" THEN Then(A!Setst("SAV", "B", j.iv), t1) ELSE t2) /\ t1 = Then(A!Exec("B", BlockUnits, 0), t2)
          /\ t2 = Then(A!Setst("Absorb", "B", BlockUnits), t3) /\ t3 = (IF j.aad >= BlockUnits THEN Then(A!Exec("B", y, 0), t4) ELSE t4)
      BY DEF OBegin, OGiven, OAbsorb, OAad, FAad, RAad
    <2>2. t4 = Then(A!Setst("Last", "B", x), t5) /\ t5 = (IF x # 0 THEN Then(A!Exec("B", BlockUnits, 0), t6) ELSE t6)
      BY DEF OLast, OPiece, RAad
    <2>3. t6 = Then(A!Setst(ts, "A", 0), t7) /\ t7 = (IF j.text >= BlockUnits THEN Then(A!Exec("A", f, f), t8) ELSE t8)
      BY DEF OText, OBody, Body, Start, FText, RText
    <2>4. /\ t8 = Then(A!Setst(ls, "B", s), t9)
          /\ t9 = (IF s # 0 THEN Then(A!Exec("A", BlockUnits, s), te)
                   ELSE IF j.via THEN Then(A!Setst(ns, "A", 0), te) ELSE Then(A!Exec("D", 0, 0), te))
      BY DEF ORest, OFinal, Start, RText
    <2> QED
      BY <2>1, <2>2, <2>3, <2>4
  <1>5. /\ A!A!GATE("SAV") = {} /\ A!A!GATE("Absorb") = {} /\ A!A!GATE("Last") = {} /\ A!A!GATE(ns) = {Gate(j)}
        /\ ts = (IF j.dec THEN "Dec" ELSE "Enc") /\ ls = (IF j.dec THEN "DLB" ELSE "ELB") /\ ns = (IF j.dec THEN "Verify" ELSE "ETF")
        /\ (a <= MAX_BLOCKS <=> fits) /\ ns \in Names /\ te = Then(A!Exec(IF j.dec THEN "B" ELSE "C", BlockUnits, 0), <<>>)
    BY DEF A!A!GATE, Gate, TextSt, LastSt, NextSt, AadFits, Names, OTag, Tag
  <1>6. /\ ts \in {"Enc", "Dec"} /\ ls \in {"ELB", "DLB"} /\ ts \in Names /\ ls \in Names /\ A!A!GATE(ts) = {Gate(j)} /\ A!A!GATE(ls) = {Gate(j)}
        /\ (\A n : Gives(ts, n) = n) /\ Form(ts) = "A" /\ FinalForm(ls) = "A" /\ (m.st = ts \/ m.st = ls => A!A!Keyed(m))
    <2>1. j.dec \in BOOLEAN
      BY <1>1
    <2> QED
      BY <2>1, TextStates
  <1>7. Does(k, j) /\ m.machine = k /\ Fam(m) = "OCB" /\ A!A!Family[k] = "OCB"
    <2>1. Does(k, j)
      BY DEF OPhase, At, Window, Piece, Done, Fresh, Nonce
    <2> QED
      BY <2>1 DEF Does, Fam, A!A!Family
  <1>8. (Suits(k, j) <=> b <= MAX_BLOCKS /\ fits /\ (j.via /\ s = 0 => b < MAX_BLOCKS)) /\ (Suits(k, j)' <=> Suits(k, j)) /\ Limit(Fam(m)) = MAX_BLOCKS
    BY <1>7 DEF Suits, Limit, BText, BAad, RText, AadFits
  <1> HIDE DEF a, b, q, s, f, w, x, y, c, u, ts, ls, ns, t0, t1, t2, t3, t4, t5, t6, t7, t8, t9, te, fits
  <1>9. OPhase(k, j)' <=>
          \/ Fresh(k, j, t0)'
          \/ Nonce(k, j, t1)' /\ k = "OCB"
          \/ Nonce(k, j, t2)' /\ k = "OCB" /\ m'.hasN
          \/ At(k, j, "Absorb", 0, 0, 0, t3)'
          \/ Window(k, j, "Absorb", y, t4, 0)'
          \/ At(k, j, "Absorb", w, w, 0, t4)'
          \/ Piece(k, j, "Last", w, w, 0, t5)' /\ x # 0
          \/ At(k, j, "Last", a, w, 0, t6)' /\ m'.lbl = 0 /\ fits
          \/ At(k, j, ts, a, 0, 0, t7)' /\ may' /\ fits
          \/ Window(k, j, ts, f, t8, a)' /\ fits
          \/ At(k, j, ts, u, q, f, t8)' /\ may' /\ fits
          \/ Piece(k, j, ls, u, q, f, t9)' /\ s # 0 /\ fits
          \/ At(k, j, ls, u, q, f, t9)' /\ s = 0 /\ m'.lbl = 0 /\ may' /\ fits
          \/ At(k, j, ns, c, q, j.text, te)' /\ may' /\ Suits(k, j)
          \/ Done(k, j)'
    BY <1>8 DEF OPhase, a, b, q, s, f, w, x, y, c, u, ts, ls, ns, t0, t1, t2, t3, t4, t5, t6, t7, t8, t9, te, fits, AadFits, BAad
  <1>10. A!A!Absorbs(m)
    BY <1>7 DEF A!A!Absorbs, Fam
  <1>11. ~ Done(k, j)
    BY DEF Done, Instruct, A!SetstStep, A!ExecStep, A!Moved, A!More
  <1>12. CASE Fresh(k, j, t0) /\ k = "OCB"
    <2>1. CASE A!Moved
      BY <1>9, <1>12, <2>1, MovedFresh
    <2>2. CASE Instruct
      <3>1. m.st = "Ready" /\ todo = Then(A!Setst("SAV", "B", j.iv), t1) /\ m.tag = 0 /\ got = 0 /\ j.iv \in 1..BlockUnits - 1 /\ j.iv \in Nat
        <4>1. j.iv \in Nat /\ j.iv > 0 /\ j.iv < BlockUnits
          BY <1>12, JobIs DEF Lengths
        <4>2. j.iv \in 1..BlockUnits - 1
          BY <1>1, <4>1
        <4> QED
          BY <1>4, <1>12, <4>1, <4>2 DEF Fresh
      <3>2. Allowed("SAV", "B", j.iv)
        BY <1>7, <1>12, <3>1, OAllowed
      <3>3. Dead(k, j)' \/ EntersTo(k, j, "SAV", j.iv, t1)
        BY <1>3, <1>5, <1>7, <2>2, <3>1, <3>2, Entering DEF Names, Forms
      <3>4. ASSUME EntersTo(k, j, "SAV", j.iv, t1) PROVE Nonce(k, j, t1)'
        <4>1. Does(k, j)' /\ EnteredOf(m, m', "SAV", j.iv) /\ todo' = t1 /\ ks' = 0 /\ got' = 0
          BY <3>1, <3>4 DEF EntersTo
        <4>2. m'.st = "SAV" /\ m'.tag = 0 /\ m'.len = j.iv
          BY <3>1, <4>1 DEF EnteredOf
        <4> QED
          BY <4>1, <4>2 DEF Nonce
      <3> QED
        BY <1>9, <1>12, <3>3, <3>4
    <2> QED
      BY <2>1, <2>2
  <1>13. ASSUME NEW t, Nonce(k, j, t), k = "OCB", A!Moved PROVE Nonce(k, j, t)' /\ m'.hasN
    <2>1. Moved_(k, j)
      BY <1>7, <1>13, MoveStep
    <2>2. m'.len = m.len /\ (m'.hasN <=> m.len # 0)
      BY <1>7, <2>1 DEF Moved_, MovedOf
    <2>3. m.len = j.iv /\ j.iv # 0
      <3>1. j.iv \in Nat /\ j.iv > 0
        BY <1>13, JobIs DEF Lengths
      <3> QED
        BY <1>13, <3>1 DEF Nonce
    <2> QED
      BY <1>13, <2>1, <2>2, <2>3 DEF Nonce, Moved_
  <1>14. CASE Nonce(k, j, t1) /\ k = "OCB"
    <2>1. CASE A!Moved
      BY <1>9, <1>13, <1>14, <2>1
    <2>2. CASE Instruct
      <3>1. Nonce(k, j, t2)' /\ m'.hasN
        BY <1>14, <2>2, NonceStep DEF t1, t2
      <3> QED
        BY <1>9, <1>14, <3>1
    <2> QED
      BY <2>1, <2>2
  <1>15. ASSUME m.tag = 0, got = 0, todo = t2, Instruct, Allowed("Absorb", "B", BlockUnits) PROVE Dead(k, j)' \/ OPhase(k, j)'
    <2>1. Dead(k, j)' \/ EntersTo(k, j, "Absorb", BlockUnits, t3)
      <3>1. "Absorb" \in Names /\ "B" \in Forms /\ BlockUnits \in Nat /\ t3 \in Seqs
        BY <1>1, <1>3 DEF Names, Forms
      <3>2. todo = Then(A!Setst("Absorb", "B", BlockUnits), t3) /\ A!A!GATE("Absorb") \subseteq {Gate(j)} /\ Does(k, j)
        BY <1>4, <1>5, <1>7, <1>15
      <3> QED
        BY <1>15, <3>1, <3>2, Entering
    <2>2. EntersTo(k, j, "Absorb", BlockUnits, t3) => At(k, j, "Absorb", 0, 0, 0, t3)'
      BY <1>7, <1>15, Arrive
    <2> QED
      BY <1>9, <2>1, <2>2
  <1>16. CASE Nonce(k, j, t2) /\ k = "OCB" /\ m.hasN
    <2>1. CASE A!Moved
      BY <1>9, <1>13, <1>16, <2>1
    <2>2. CASE Instruct
      <3>1. Allowed("Absorb", "B", BlockUnits)
        BY <1>7, <1>16, OAllowed DEF Nonce
      <3> QED
        BY <1>15, <1>16, <2>2, <3>1 DEF Nonce
    <2> QED
      BY <2>1, <2>2
  <1>17. CASE Fresh(k, j, t0) /\ k = "OCB_NONCE"
    <2>1. CASE A!Moved
      BY <1>9, <1>17, <2>1, MovedFresh
    <2>2. CASE Instruct
      <3>1. m.st = "Ready" /\ m.tag = 0 /\ got = 0 /\ todo = t2
        BY <1>4, <1>17 DEF Fresh
      <3>2. Allowed("Absorb", "B", BlockUnits)
        BY <1>7, <1>17, <3>1, OAllowed
      <3> QED
        BY <1>15, <2>2, <3>1, <3>2
    <2> QED
      BY <2>1, <2>2
  <1>18. ASSUME Window(k, j, "Absorb", y, t4, 0) PROVE Dead(k, j)' \/ OPhase(k, j)'
    <2>1. m.st = "Absorb"
      BY <1>18 DEF Window
    <2>2. A!A!Absorbs(m) /\ A!A!Keyed(m)
      BY <1>7, <1>10, <2>1 DEF A!A!Keyed, Fam
    <2>3. WindowTo(k, j, y, 0, w, w)
      <3>1. Suits(k, j) => w <= MAX_BLOCKS
        BY <1>1, <1>5, <1>8
      <3>2. y \div BlockUnits = w /\ 0 + w = w
        BY <1>1
      <3> QED
        BY <1>8, <2>2, <3>1, <3>2 DEF WindowTo
    <2>4. Dead(k, j)' \/ (Aside /\ WindowOrAt(k, j, "Absorb", y, t4, 0, w, w, Gives("Absorb", y))')
      BY <1>1, <1>3, <1>5, <1>7, <1>18, <2>3, WindowThen
    <2>5. Gives("Absorb", y) = 0
      BY <1>5 DEF Gives
    <2> QED
      BY <1>9, <2>4, <2>5 DEF WindowOrAt
  <1>19. ASSUME At(k, j, "Absorb", w, w, 0, t4) PROVE Dead(k, j)' \/ OPhase(k, j)'
    <2>1. Allowed("Last", "B", x)
      <3>1. m.st = "Absorb"
        BY <1>19 DEF At
      <3> QED
        BY <1>1, <1>7, <3>1, OAllowed
    <2>2. Turned(k, j, "Absorb", w, w, 0, t4, "Last", x, w, t5)
      <3>1. At(k, j, "Absorb", w, w, 0, t4) /\ "Last" \in Names /\ "B" \in Forms /\ x \in Nat
        BY <1>2, <1>19 DEF Names, Forms
      <3>2. t5 \in Seqs /\ t4 = Then(A!Setst("Last", "B", x), t5) /\ A!A!GATE("Last") \subseteq {Gate(j)} /\ Fam(m) = "OCB"
        BY <1>3, <1>4, <1>5, <1>7
      <3> QED
        BY <2>1, <3>1, <3>2, Turning
    <2>3. ASSUME At(k, j, "Last", w, w, 0, t5)', EnteredOf(m, m', "Last", x) PROVE OPhase(k, j)'
      <3>1. m'.lbl = x /\ m'.machine = k
        BY <1>7, <2>3 DEF EnteredOf, A!A!Final
      <3>2. CASE x # 0
        <4>1. m'.lbl \in 1..BlockUnits /\ Fam(m') = "OCB" /\ A!A!GATE("Last") = {}
          BY <1>1, <1>5, <1>7, <3>1, <3>2 DEF Fam
        <4>2. Piece(k, j, "Last", w, w, 0, t5)'
          BY <2>3, <4>1 DEF Piece
        <4> QED
          BY <1>9, <3>2, <4>2
      <3>3. CASE x = 0
        <4>1. t5 = t6 /\ a = w
          BY <1>1, <1>4, <3>3
        <4>2. fits
          <5>1. w <= Limit(Fam(m))
            BY <1>19 DEF At, Counted
          <5> QED
            BY <1>5, <1>8, <4>1, <5>1
        <4> QED
          BY <1>9, <2>3, <3>1, <3>3, <4>1, <4>2
      <3> QED
        BY <3>2, <3>3
    <2> QED
      BY <1>9, <2>2, <2>3 DEF Turned
  <1>20. CASE At(k, j, "Absorb", 0, 0, 0, t3)
    <2>1. CASE j.aad >= BlockUnits
      <3>1. t3 = Then(A!Exec(Form("Absorb"), y, 0), t4) /\ 0 = Gives("Absorb", y) /\ y > 0
        BY <1>1, <1>4, <1>5, <2>1 DEF Form, Gives
      <3>2. Window(k, j, "Absorb", y, t4, 0)
        BY <1>1, <1>5, <1>20, <3>1, AtWindow
      <3> QED
        BY <1>18, <3>2
    <2>2. CASE j.aad < BlockUnits
      <3>1. t3 = t4 /\ w = 0
        BY <1>1, <1>4, <2>2
      <3> QED
        BY <1>19, <1>20, <3>1
    <2>3. j.aad \in Nat /\ BlockUnits \in Nat
      BY <1>1
    <2> QED
      BY <2>1, <2>2, <2>3
  <1>21. CASE Piece(k, j, "Last", w, w, 0, t5) /\ x # 0
    <2>1. m.st = "Last"
      BY <1>21 DEF Piece, At
    <2>2. A!A!Keyed(m) /\ NextOf(m) = "Last" /\ More_(m, w, 1) = w
      <3>1. A!A!Keyed(m)
        BY <1>7, <2>1 DEF A!A!Keyed, Fam
      <3>2. NextOf(m) = "Last" /\ More_(m, w, 1) = w
        BY <1>7, <2>1 DEF NextOf, More_, Grows, A!A!Final
      <3> QED
        BY <3>1, <3>2
    <2>3. PieceTo(k, j, "Last", w, w, 0, 0, "Last", a, w, 0, 0)
      <3>1. a = (IF A!A!Absorbs(m) THEN w + 1 ELSE w)
        BY <1>1, <1>10, <1>21
      <3>2. 0 = (IF A!A!GATE("Last") = {} THEN 0 ELSE 0 + 0)
        OBVIOUS
      <3>3. Suits(k, j) => w + 1 <= MAX_BLOCKS
        BY <1>1, <1>5, <1>8, <1>21
      <3>4. 0 = (IF Fam(m) = "CMAC" \/ (Fam(m) = "OCB" /\ "Last" # "Last") THEN m.lbl ELSE 0)
        BY <1>7
      <3> QED
        BY <1>8, <2>2, <3>1, <3>2, <3>3, <3>4 DEF PieceTo
    <2>4. \/ Dead(k, j)'
          \/ m'.lbl = m.lbl /\ Piece(k, j, "Last", w, w, 0, t5)'
          \/ may' = may /\ PieceOver(k, j, "Last", a, w, 0, t6, 0)' /\ (A!A!Keyed(m) => w + 1 <= Limit(Fam(m)))
      <3>1. A!A!GATE("Last") \subseteq {Gate(j)} /\ 0 \in Int
        BY <1>5
      <3>2. w \in Nat /\ t6 \in Seqs
        BY <1>1, <1>3
      <3>3. "Last" \in FinalStates(Fam(m)) /\ t5 = Then(A!Exec(FinalForm("Last"), BlockUnits, 0), t6)
        BY <1>4, <1>7, <1>21 DEF FinalStates, FinalForm
      <3>4. Piece(k, j, "Last", w, w, 0, t5)
        BY <1>21
      <3> QED
        BY <2>3, <3>1, <3>2, <3>3, <3>4, PieceThen
    <2>5. w + 1 <= Limit(Fam(m)) => fits
      BY <1>1, <1>5, <1>8, <1>21
    <2> QED
      BY <1>9, <1>21, <2>2, <2>4, <2>5 DEF PieceOver
  <1>22. CASE At(k, j, "Last", a, w, 0, t6) /\ m.lbl = 0 /\ fits
    <2>1. Allowed(ts, "A", 0)
      <3>1. m.st = "Last" /\ m.lbl = 0
        BY <1>22 DEF At
      <3>2. Allowed("Enc", "A", 0) /\ Allowed("Dec", "A", 0)
        BY <1>7, <3>1, OAllowed
      <3> QED
        BY <1>5, <3>2
    <2>2. Turned(k, j, "Last", a, w, 0, t6, ts, 0, 0, t7)
      <3>1. ts \in {"Absorb", "Enc", "Dec"} /\ A!A!GATE(ts) \subseteq {Gate(j)} /\ 0 \in Nat /\ "A" \in Forms
        BY <1>6 DEF Forms
      <3> QED
        BY <1>3, <1>4, <1>6, <1>7, <1>22, <2>1, <3>1, Turning
    <2>3. A!A!GATE(ts) # {}
      BY <1>6
    <2>4. Moved_(k, j) => m'.lbl = m.lbl
      BY DEF Moved_
    <2> QED
      BY <1>9, <1>22, <2>2, <2>3, <2>4 DEF Turned
  <1>23. ASSUME At(k, j, ts, u, q, f, t8), may, fits PROVE Dead(k, j)' \/ OPhase(k, j)'
    <2>1. Allowed(ls, "B", s)
      <3>1. m.st = ts
        BY <1>23 DEF At
      <3> QED
        BY <1>1, <1>5, <1>7, <3>1, OAllowed
    <2>2. Turned(k, j, ts, u, q, f, t8, ls, s, q, t9)
      <3>1. ~ (ls \in {"Absorb", "Enc", "Dec"}) /\ A!A!GATE(ls) \subseteq {Gate(j)} /\ "B" \in Forms
        BY <1>6 DEF Forms
      <3> QED
        BY <1>2, <1>3, <1>4, <1>6, <1>7, <1>23, <2>1, <3>1, Turning
    <2>3. ASSUME At(k, j, ls, u, q, f, t9)', EnteredOf(m, m', ls, s), may' PROVE OPhase(k, j)'
      <3>1. m'.lbl = s /\ Fam(m') = "OCB"
        BY <1>6, <1>7, <2>3 DEF EnteredOf, A!A!Final, Fam
      <3>2. CASE s # 0
        <4>1. m'.lbl \in 1..BlockUnits
          BY <1>1, <3>1, <3>2
        <4>2. Piece(k, j, ls, u, q, f, t9)'
          BY <2>3, <3>1, <4>1 DEF Piece
        <4> QED
          BY <1>9, <1>23, <3>2, <4>2
      <3>3. CASE s = 0
        BY <1>9, <1>23, <2>3, <3>1, <3>3
      <3> QED
        BY <3>2, <3>3
    <2>4. Moved_(k, j) => may' = may
      BY DEF Moved_
    <2> QED
      BY <1>9, <1>23, <2>2, <2>3, <2>4 DEF Turned
  <1>24. ASSUME Window(k, j, ts, f, t8, a), fits PROVE Dead(k, j)' \/ OPhase(k, j)'
    <2>1. m.st = ts /\ may
      BY <1>6, <1>24 DEF Window
    <2>2. A!A!Keyed(m)
      BY <1>6, <2>1
    <2>3. WindowTo(k, j, f, a, u, q)
      <3>1. Suits(k, j) => q <= Limit(Fam(m))
        BY <1>1, <1>8
      <3>2. u = a + q /\ f \div BlockUnits = q
        BY <1>1, <1>2
      <3> QED
        BY <1>10, <2>2, <3>1, <3>2 DEF WindowTo
    <2>4. may' = may /\ (Dead(k, j)' \/ (Aside /\ WindowOrAt(k, j, ts, f, t8, a, u, q, Gives(ts, f))'))
      <3>1. WindowFor(j, ts, f, t8, a)
        BY <1>1, <1>3, <1>6, <1>7 DEF WindowFor
      <3> QED
        BY <1>24, <2>3, <3>1, WindowNext
    <2>5. Gives(ts, f) = f
      BY <1>6
    <2> QED
      BY <1>9, <1>24, <2>1, <2>4, <2>5 DEF WindowOrAt
  <1>25. CASE At(k, j, ts, a, 0, 0, t7) /\ may /\ fits
    <2>1. CASE j.text >= BlockUnits
      <3>1. t7 = Then(A!Exec(Form(ts), f, f), t8) /\ f = Gives(ts, f) /\ f > 0
        BY <1>1, <1>4, <1>6, <2>1
      <3>2. Window(k, j, ts, f, t8, a)
        BY <1>1, <1>2, <1>25, <3>1, AtWindow
      <3> QED
        BY <1>24, <1>25, <3>2
    <2>2. CASE j.text < BlockUnits
      <3>1. t7 = t8 /\ q = 0 /\ f = 0
        BY <1>1, <1>4, <2>2
      <3>2. u = a
        <4>1. a \in Nat
          BY <1>1
        <4> QED
          BY <1>2, <3>1, <4>1
      <3> QED
        BY <1>23, <1>25, <3>1, <3>2
    <2>3. j.text \in Nat /\ BlockUnits \in Nat
      BY <1>1
    <2> QED
      BY <2>1, <2>2, <2>3
  <1>26. CASE Piece(k, j, ls, u, q, f, t9) /\ s # 0 /\ fits
    <2>1. m.st = ls /\ may
      BY <1>6, <1>26 DEF Piece, At
    <2>2. A!A!Keyed(m) /\ NextOf(m) = ns /\ More_(m, q, 1) = q /\ q + 1 = b
      <3>1. A!A!Keyed(m)
        BY <1>6, <2>1
      <3>2. NextOf(m) = ns /\ More_(m, q, 1) = q
        BY <1>5, <1>7, <2>1 DEF NextOf, More_, Grows, A!A!Final
      <3> QED
        BY <1>1, <1>26, <3>1, <3>2
    <2>3. PICK l : l = m.lbl
      OBVIOUS
    <2>4. PieceTo(k, j, ls, u, q, f, s, ns, c, q, j.text, l)
      <3>1. c = (IF A!A!Absorbs(m) THEN u + 1 ELSE u)
        BY <1>1, <1>2, <1>10, <2>2
      <3>2. j.text = (IF A!A!GATE(ls) = {} THEN f ELSE f + s)
        BY <1>1, <1>6
      <3>3. ls # "Last"
        BY <1>6
      <3> QED
        BY <1>7, <1>8, <2>2, <2>3, <3>1, <3>2, <3>3 DEF PieceTo
    <2>5. \/ Dead(k, j)'
          \/ m'.lbl = m.lbl /\ Piece(k, j, ls, u, q, f, t9)'
          \/ may' = may /\ PieceOver(k, j, ns, c, q, j.text, te, l)' /\ (A!A!Keyed(m) => q + 1 <= Limit(Fam(m)))
      <3>1. A!A!GATE(ls) \subseteq {Gate(j)}
        BY <1>6
      <3>2. u \in Nat /\ te \in Seqs /\ f \in Int /\ s \in Int
        BY <1>1, <1>2, <1>3
      <3>3. ls \in FinalStates(Fam(m)) /\ t9 = Then(A!Exec(FinalForm(ls), BlockUnits, s), te)
        BY <1>4, <1>6, <1>7, <1>26 DEF FinalStates
      <3>4. Piece(k, j, ls, u, q, f, t9)
        BY <1>26
      <3> QED
        BY <2>4, <3>1, <3>2, <3>3, <3>4, PieceThen
    <2> QED
      BY <1>8, <1>9, <1>26, <2>1, <2>2, <2>5 DEF PieceOver
  <1>27. CASE At(k, j, ls, u, q, f, t9) /\ s = 0 /\ m.lbl = 0 /\ may /\ fits
    <2>1. m.st = ls /\ m.ctr = q + 1 /\ q <= MAX_BLOCKS /\ u = c /\ q = b /\ f = j.text /\ todo = t9
      <3>1. m.st = ls /\ Counted(m, q) /\ todo = t9
        BY <1>27 DEF At
      <3>2. m.ctr = q + 1 /\ q <= MAX_BLOCKS
        BY <1>7, <1>8, <3>1 DEF Counted
      <3>3. q = b /\ f = j.text
        <4>1. s = 0 /\ f \in Nat /\ f + s = j.text /\ b = (IF s = 0 THEN q ELSE q + 1)
          BY <1>1, <1>27
        <4> QED
          BY <4>1
      <3> QED
        BY <1>2, <3>1, <3>2, <3>3
    <2>2. A!Moved => OPhase(k, j)'
      <3>1. A!Moved => At(k, j, ls, u, q, f, t9)' /\ Moved_(k, j)
        BY <1>7, <1>27, MovedAt
      <3> QED
        BY <1>9, <1>27, <3>1 DEF Moved_
    <2>3. CASE Instruct /\ j.via
      <3>1. t9 = Then(A!Setst(ns, "A", 0), te)
        BY <1>4, <1>27, <2>3
      <3>2. Allowed(ns, "A", 0) <=> q + 1 <= MAX_BLOCKS
        BY <1>5, <1>7, <1>27, <2>1, OAllowed
      <3>3. Suits(k, j) <=> Allowed(ns, "A", 0)
        BY <1>1, <1>8, <1>27, <2>1, <2>3, <3>2
      <3>4. Dead(k, j)' \/ EntersTo(k, j, ns, 0, te)
        BY <1>3, <1>5, <1>7, <2>1, <2>3, <3>1, <3>3, Entering DEF Forms
      <3>5. CASE Suits(k, j)
        <4>1. EntersTo(k, j, ns, 0, te) => At(k, j, ns, c, q, j.text, te)' /\ may'
          <5>1. Counted(m, q) /\ m.tag = c /\ got = j.text /\ ~ (ns \in {"Absorb", "Enc", "Dec"})
            BY <1>5, <1>27, <2>1 DEF At
          <5>2. EntersTo(k, j, ns, 0, te) => At(k, j, ns, c, q, j.text, te)'
            BY <1>7, <5>1, Arrive
          <5>3. EntersTo(k, j, ns, 0, te) => may'
            BY <1>5 DEF EntersTo
          <5> QED
            BY <5>2, <5>3
        <4> QED
          BY <1>9, <3>4, <3>5, <4>1
      <3>6. CASE ~ Suits(k, j)
        <4>1. Sets(ns, "A", 0, te)
          BY <1>3, <1>5, <1>7, <2>1, <2>3, <3>1, Setting DEF Does, Instruct, Forms
        <4>2. Lost /\ job' = job /\ may' = may
          BY <3>3, <3>6, <4>1 DEF Sets
        <4> QED
          BY <1>7, <3>6, <4>2, Dies
      <3> QED
        BY <3>5, <3>6
    <2>4. CASE Instruct /\ ~ j.via
      <3>1. t9 = Then(A!Exec("D", 0, 0), te)
        BY <1>4, <1>27, <2>4
      <3>2. At(k, j, LastSt(j), u, q, f, t9)
        BY <1>27 DEF ls
      <3>3. At(k, j, NextSt(j), u, q, f, te)' /\ may'
        BY <1>3, <1>27, <2>4, <3>1, <3>2, FormD
      <3>4. At(k, j, ns, c, q, j.text, te)'
        BY <2>1, <3>3 DEF ns
      <3>5. Suits(k, j)
        BY <1>8, <1>27, <2>1, <2>4
      <3> QED
        BY <1>9, <3>3, <3>4, <3>5
    <2> QED
      BY <2>2, <2>3, <2>4
  <1>28. CASE At(k, j, ns, c, q, j.text, te) /\ may /\ Suits(k, j)
    <2>1. Closed(k, j, ns, c, q, j.text, te, <<>>)
      <3>1. ns \in EndStates(Fam(m)) /\ EndForm(Fam(m), ns) = (IF j.dec THEN "B" ELSE "C")
        BY <1>5, <1>7 DEF EndStates, EndForm
      <3>2. te = Then(A!Exec(EndForm(Fam(m), ns), BlockUnits, 0), <<>>) /\ A!A!GATE(ns) \subseteq {Gate(j)} /\ <<>> \in Seqs
        BY <1>5, <3>1, NoIns
      <3> QED
        BY <1>28, <3>1, <3>2, Closing
    <2>2. At(k, j, ns, c, q, j.text, te)' /\ Moved_(k, j) => OPhase(k, j)'
      BY <1>9, <1>28 DEF Moved_
    <2>3. ASSUME Does(k, j)', EndOf(Fam(m), ns, m'.st), m'.tag = c, Counted(m', q), got' = j.text, todo' = <<>>, may' = may PROVE Done(k, j)'
      <3>1. m'.machine = k /\ Fam(m') = "OCB"
        BY <1>7, <2>3 DEF Does, Fam
      <3>2. m'.ctr = q + 1
        BY <2>3, <3>1 DEF Counted
      <3>3. m'.st \in IF j.dec THEN {"Success", "Failure"} ELSE {"Success"}
        BY <1>5, <1>7, <2>3 DEF EndOf
      <3>4. Whole(k, j)'
        BY <1>2, <1>7, <2>3, <3>3 DEF Whole, a, b, BAad, BText
      <3>5. Stream(k, j)'
        BY <1>7, <3>2 DEF Stream, q, QText
      <3> QED
        BY <1>8, <1>28, <2>3, <3>4, <3>5 DEF Done
    <2> QED
      BY <1>9, <2>1, <2>2, <2>3 DEF Closed
  <1> QED
    BY <1>11, <1>12, <1>14, <1>16, <1>17, <1>18, <1>19, <1>20, <1>21, <1>22, <1>23, <1>24, <1>25, <1>26, <1>27, <1>28
       DEF OPhase, a, b, q, s, f, w, x, y, c, u, ts, ls, ns, t0, t1, t2, t3, t4, t5, t6, t7, t8, t9, te, fits

-----------------------------------------------------------------------------
(* No phase but the last is at the end of its sequence.                    *)

Some == {s \in Seqs : s # <<>>}

\* A sequence that begins with an instruction is not over.
LEMMA Somes == ASSUME NEW i \in Ins, NEW t \in Seqs PROVE Then(i, t) \in Some
  BY Thens DEF Some

\* Nor is one that begins with kl.setst.
LEMMA SomeStart == ASSUME NEW to \in Names, NEW form \in Forms, NEW t \in Seqs PROVE Start(to, form, t) \in Some
  BY Setsts, Somes DEF Start

\* Nor is one that ends with a tag.
LEMMA SomeTag == ASSUME SoftwareAssumption, NEW form \in Forms PROVE Tag(form) \in Some
  <1>1. A!Exec(form, BlockUnits, 0) \in Ins
    BY Execs DEF SoftwareAssumption
  <1> QED
    BY <1>1, NoIns, Somes DEF Tag

\* Parts of a message, and what comes then.
LEMMA SomeParts ==
  ASSUME SoftwareAssumption, NEW n \in Nat, NEW t \in Seqs
  PROVE  /\ t \in Some => Feed(n, t) \in Some /\ Body(n, t) \in Some
         /\ \A last \in Names : t \in Some \/ n % BlockUnits # 0 => Rest(n, last, t) \in Some
         /\ n >= BlockUnits => Body(n, t) \in Some
         /\ n > 0 => Feed(n, t) \in Some
  <1>1. n % BlockUnits \in Nat /\ n - (n % BlockUnits) \in Int /\ BlockUnits \in Int /\ A!pad16(n) \in Nat
    <2>1. n % BlockUnits \in 0..BlockUnits - 1 /\ BlockUnits \in Nat
      BY Units DEF SoftwareAssumption
    <2>2. A!pad16(n) \in Nat
      BY Pieces
    <2> QED
      BY <2>1, <2>2
  <1>2. A!Exec("B", A!pad16(n), 0) \in Ins /\ A!Exec("A", n - (n % BlockUnits), n - (n % BlockUnits)) \in Ins /\ A!Exec("A", BlockUnits, n % BlockUnits) \in Ins
    BY <1>1, Execs DEF Forms
  <1>3. (t \in Some \/ n > 0 => Feed(n, t) \in Some) /\ (t \in Some \/ n >= BlockUnits => Body(n, t) \in Some)
    BY <1>2, Somes DEF Feed, Body
  <1>4. ASSUME NEW last \in Names, t \in Some \/ n % BlockUnits # 0
        PROVE  Rest(n, last, t) \in Some
    <2>1. A!Setst(last, "B", n % BlockUnits) \in Ins
      BY <1>1, Setsts DEF Forms
    <2>2. Then(A!Exec("A", BlockUnits, n % BlockUnits), t) \in Seqs
      BY <1>2, Thens
    <2> QED
      BY <1>4, <2>1, <2>2, Somes DEF Rest
  <1> QED
    BY <1>3, <1>4

\* No place of GCM is at the end.
LEMMA GSome ==
  ASSUME SoftwareAssumption, NEW j, Lengths(j)
  PROVE  /\ GVerify \in Some /\ GTail(j) \in Some /\ GRest(j) \in Some /\ GBody(j) \in Some
         /\ GText(j) \in Some /\ GAad(j) \in Some /\ GGiven(j) \in Some /\ \A k : GBegin(k, j) \in Some
         /\ GPiece(j) \in Some
  <1>1. BlockUnits \in Int /\ j.iv \in Nat /\ j.aad \in Nat /\ j.text \in Nat
    BY DEF SoftwareAssumption, Lengths
  <1>2. GVerify \in Seqs /\ GTail(j) \in Seqs /\ GRest(j) \in Seqs /\ GBody(j) \in Seqs /\ GText(j) \in Seqs /\ GAad(j) \in Seqs /\ GGiven(j) \in Seqs
    BY GSeqs
  <1>3. GVerify \in Some
    <2>1. A!Setst("Verify", "B", BlockUnits) \in Ins /\ Tag("B") \in Seqs
      BY <1>1, Setsts, Tags DEF Names, Forms
    <2> QED
      BY <2>1, Somes DEF GVerify
  <1>4. GTail(j) \in Some
    <2>1. Tag("C") \in Seqs
      BY Tags DEF Forms
    <2> QED
      BY <1>2, <2>1, SomeStart DEF GTail, Names, Forms
  <1>5. GRest(j) \in Some
    BY <1>1, <1>2, <1>4, SomeParts DEF GRest, LastSt, Names
  <1>6. GBody(j) \in Some
    BY <1>1, <1>2, <1>5, SomeParts DEF GBody
  <1>7. GText(j) \in Some
    BY <1>2, SomeStart DEF GText, TextSt, Names, Forms
  <1>8. GAad(j) \in Some
    BY <1>1, <1>2, <1>7, SomeParts DEF GAad
  <1>9. A!Exec("B", A!pad16(j.iv), 0) \in Ins /\ A!Setst("SAV", "B", j.iv) \in Ins
    <2>1. A!pad16(j.iv) \in Nat
      BY <1>1, Pieces
    <2> QED
      BY <1>1, <2>1, Execs, Setsts DEF Forms, Names
  <1>10. GGiven(j) \in Some
    BY <1>2, <1>9, Somes DEF GGiven
  <1>11. ASSUME NEW k PROVE GBegin(k, j) \in Some
    <2>1. Start("Absorb", "A", GAad(j)) \in Some
      BY <1>2, SomeStart DEF Names, Forms
    <2>2. Then(A!Setst("SAV", "B", j.iv), GGiven(j)) \in Some
      BY <1>2, <1>9, Somes
    <2> QED
      BY <2>1, <2>2 DEF GBegin
  <1>12. GPiece(j) \in Some
    <2>1. RText(j) \in Int
      BY <1>1, Units DEF RText
    <2>2. A!Exec("A", BlockUnits, RText(j)) \in Ins
      BY <1>1, <2>1, Execs DEF Forms
    <2> QED
      BY <1>2, <2>2, Somes DEF GPiece
  <1> QED
    BY <1>3, <1>4, <1>5, <1>6, <1>7, <1>8, <1>10, <1>11, <1>12

\* No place of GCM-SIV is at the end.
LEMMA SSome ==
  ASSUME SoftwareAssumption, NEW j, Lengths(j), j.dec \in BOOLEAN
  PROVE  /\ j.dec => STail(j) \in Some
         /\ j.dec \/ RText(j) # 0 => SRest(j) \in Some
         /\ j.dec \/ j.text # 0 => SBody(j) \in Some
         /\ STag(j) \in Some /\ SSeal(j) \in Some /\ SText(j) \in Some /\ SAad(j) \in Some /\ SAbsorb(j) \in Some
         /\ SSav(j) \in Some /\ SBegin(j) \in Some
  <1>1. BlockUnits \in Int /\ j.iv \in Nat /\ j.aad \in Nat /\ j.text \in Nat
    BY DEF SoftwareAssumption, Lengths
  <1>2. /\ STail(j) \in Seqs /\ SRest(j) \in Seqs /\ SBody(j) \in Seqs /\ STag(j) \in Seqs /\ SSeal(j) \in Seqs
        /\ SText(j) \in Seqs /\ SAad(j) \in Seqs /\ SAbsorb(j) \in Seqs /\ SSav(j) \in Seqs
    BY SSeqs
  <1>3. j.dec => STail(j) \in Some
    BY SomeTag DEF STail, Forms
  <1>4. j.dec \/ RText(j) # 0 => SRest(j) \in Some
    <2>1. Start("DTF", "A", Tag("B")) \in Some
      BY Tags, SomeStart DEF Names, Forms
    <2>2. LastSt(j) \in Names
      BY DEF LastSt, Names
    <2>3. STail(j) \in Some \/ j.text % BlockUnits # 0 => Rest(j.text, LastSt(j), STail(j)) \in Some
      BY <1>1, <1>2, <2>2, SomeParts
    <2> QED
      BY <1>3, <2>1, <2>3 DEF SRest, RText
  <1>5. j.dec \/ j.text # 0 => SBody(j) \in Some
    <2>1. j.text >= BlockUnits => SBody(j) \in Some
      BY <1>1, <1>2, SomeParts DEF SBody
    <2>2. SRest(j) \in Some => SBody(j) \in Some
      BY <1>1, <1>2, SomeParts DEF SBody
    <2>3. j.text # 0 /\ ~ (j.text >= BlockUnits) => RText(j) # 0
      <3>1. /\ RText(j) \in 0..BlockUnits - 1 /\ j.text = BlockUnits * (j.text \div BlockUnits) + RText(j)
            /\ j.text \div BlockUnits \in Nat
        BY <1>1, Units DEF RText
      <3> DEFINE q == j.text \div BlockUnits
      <3> HIDE DEF q
      <3>2. q \in Nat /\ j.text = BlockUnits * q + RText(j)
        BY <3>1 DEF q
      <3>3. BlockUnits \in Nat \ {0}
        BY DEF SoftwareAssumption
      <3>4. q # 0 => BlockUnits * q >= BlockUnits
        BY <3>2, <3>3
      <3> QED
        BY <1>1, <3>1, <3>2, <3>3, <3>4
    <2> QED
      BY <1>4, <2>1, <2>2, <2>3
  <1>6. STag(j) \in Some
    <2>1. A!Exec("A", BlockUnits, 0) \in Ins
      BY <1>1, Execs DEF Forms
    <2> QED
      BY <1>2, <2>1, Somes DEF STag
  <1>7. SSeal(j) \in Some
    BY <1>2, SomeStart DEF SSeal, Names, Forms
  <1>8. SText(j) \in Some
    <2>1. Start("Dec", "A", SBody(j)) \in Some
      BY <1>2, SomeStart DEF Names, Forms
    <2>2. Feed(j.text, SSeal(j)) \in Some
      BY <1>1, <1>2, <1>7, SomeParts
    <2> QED
      BY <2>1, <2>2 DEF SText
  <1>9. SAad(j) \in Some
    BY <1>1, <1>2, <1>8, SomeParts DEF SAad
  <1>10. SAbsorb(j) \in Some
    BY <1>2, SomeStart DEF SAbsorb, Names, Forms
  <1>11. SSav(j) \in Some
    <2>1. Start("SAV2", "C", SAbsorb(j)) \in Some
      BY <1>2, SomeStart DEF Names, Forms
    <2> QED
      BY <1>10, <2>1 DEF SSav
  <1>12. SBegin(j) \in Some
    BY <1>2, SomeStart DEF SBegin, Names, Forms
  <1> QED
    BY <1>3, <1>4, <1>5, <1>6, <1>7, <1>8, <1>9, <1>10, <1>11, <1>12

\* No place of OCB is at the end.
LEMMA OSome ==
  ASSUME SoftwareAssumption, NEW j, Lengths(j)
  PROVE  /\ OTag(j) \in Some /\ OFinal(j) \in Some /\ ORest(j) \in Some /\ OBody(j) \in Some /\ OText(j) \in Some
         /\ OPiece(j) \in Some /\ OLast(j) \in Some /\ OAad(j) \in Some /\ OAbsorb(j) \in Some /\ OGiven(j) \in Some
         /\ \A k : OBegin(k, j) \in Some
  <1>1. j.text \in Nat
    BY DEF Lengths
  <1>2. OTag(j) \in Some
    BY SomeTag DEF OTag, Forms
  <1>3. /\ OTag(j) \in Seqs /\ OFinal(j) \in Seqs /\ ORest(j) \in Seqs /\ OBody(j) \in Seqs /\ OText(j) \in Seqs
        /\ OPiece(j) \in Seqs /\ OLast(j) \in Seqs /\ OAad(j) \in Seqs /\ OAbsorb(j) \in Seqs /\ OGiven(j) \in Seqs
    BY OSeqs
  <1>4. OFinal(j) \in Some
    BY <1>3, OIns, Somes DEF OFinal, Start
  <1>5. ORest(j) \in Some
    BY <1>3, OIns, Somes DEF ORest
  <1>6. OBody(j) \in Some
    BY <1>1, <1>3, <1>5, SomeParts DEF OBody
  <1>7. OText(j) \in Some
    BY <1>3, OIns, Somes DEF OText, Start
  <1>8. OPiece(j) \in Some
    BY <1>3, <1>7, OIns, Somes DEF OPiece
  <1>9. OLast(j) \in Some
    BY <1>3, OIns, Somes DEF OLast
  <1>10. OAad(j) \in Some
    BY <1>3, <1>9, OIns, Somes DEF OAad
  <1>11. OAbsorb(j) \in Some
    BY <1>3, OIns, Somes DEF OAbsorb
  <1>12. OGiven(j) \in Some
    BY <1>3, OIns, Somes DEF OGiven
  <1>13. ASSUME NEW k PROVE OBegin(k, j) \in Some
    BY <1>3, <1>11, OIns, Somes DEF OBegin
  <1> QED
    BY <1>2, <1>4, <1>5, <1>6, <1>7, <1>8, <1>9, <1>10, <1>11, <1>12, <1>13

\* No place of CMAC is at the end.
LEMMA CSome ==
  ASSUME SoftwareAssumption, NEW j, Lengths(j)
  PROVE  COut(j) \in Some /\ CFinal(j) \in Some /\ CLast(j) \in Some /\ CFeed(j) \in Some /\ CBegin(j) \in Some
  <1>1. COut(j) \in Seqs /\ CFinal(j) \in Seqs /\ CLast(j) \in Seqs /\ CFeed(j) \in Seqs
        /\ A!Exec("B", BlockUnits, 0) \in Ins /\ A!Setst("Last", "B", j.text - A!Full(j.text)) \in Ins /\ A!Exec("B", A!Full(j.text), 0) \in Ins
    BY CSeqs
  <1>2. COut(j) \in Some
    <2>1. GVerify \in Some /\ Tag("C") \in Seqs
      BY GSome, Tags DEF Forms
    <2> QED
      BY <2>1, SomeStart DEF COut, Names, Forms
  <1>3. CFinal(j) \in Some
    BY <1>1, <1>2, Somes DEF CFinal
  <1>4. CLast(j) \in Some
    BY <1>1, Somes DEF CLast
  <1>5. CFeed(j) \in Some
    BY <1>1, <1>4, Somes DEF CFeed
  <1>6. CBegin(j) \in Some
    BY <1>1, SomeStart DEF CBegin, Names, Forms
  <1> QED
    BY <1>2, <1>3, <1>4, <1>5, <1>6

-----------------------------------------------------------------------------
(* All of the AEAD and MAC Machines.                                       *)

Phase(k, j) ==
  \/ k = "CMAC" /\ CPhase(k, j)
  \/ k = "GCMSIV" /\ SPhase(k, j)
  \/ k \in {"GCM", "GCM_IV"} /\ GPhase(k, j)
  \/ k \in {"OCB", "OCB_NONCE"} /\ OPhase(k, j)

\* Every phase is one of an operation that goes on, and there is more to do in each but the last.
LEMMA CPhaseIs ==
  ASSUME SoftwareAssumption, NEW k, k = "CMAC", NEW j, j \in A!Jobs(k), CPhase(k, j)
  PROVE  Does(k, j) /\ (todo = <<>> => Done(k, j))
  <1>1. Lengths(j)
    BY JobIs
  <1>2. COut(j) # <<>> /\ CFinal(j) # <<>> /\ CLast(j) # <<>> /\ CFeed(j) # <<>> /\ CBegin(j) # <<>> /\ Tag("B") # <<>> /\ Tag("C") # <<>>
    BY <1>1, CSome, SomeTag DEF Some, Forms
  <1>3. A!Full(j.text) > 0 => Then(A!Exec("B", A!Full(j.text), 0), CLast(j)) # <<>>
    BY <1>1, CSeqs, Somes DEF Some
  <1>4. \A st, tag, c, g, t : At(k, j, st, tag, c, g, t) => Does(k, j) /\ todo = t
    BY DEF At
  <1>5. A!A!GATE("Absorb") = {}
    BY DEF A!A!GATE
  <1>6. \A n, t, a : Window(k, j, "Absorb", n, t, a) => Does(k, j) /\ todo = Then(A!Exec("B", n, 0), t)
    BY <1>5 DEF Window
  <1> QED
    BY <1>2, <1>3, <1>4, <1>6 DEF CPhase, Piece, Done

\* A window of text, and a final piece.
LEMMA WindowIs ==
  ASSUME SoftwareAssumption, NEW k, NEW j, NEW st, NEW n \in Int, NEW t \in Seqs, NEW a, Window(k, j, st, n, t, a)
  PROVE  Does(k, j) /\ todo # <<>>
  <1> DEFINE f == IF st = "Absorb" THEN "B" ELSE "A"
             x == IF A!A!GATE(st) = {} THEN 0 ELSE n
  <1>1. Does(k, j) /\ todo = Then(A!Exec(f, n, x), t)
    BY DEF Window
  <1>2. A!Exec(f, n, x) \in Ins
    BY Execs DEF Forms
  <1> QED
    BY <1>1, <1>2, Thens

\* The same of GCM-SIV.
LEMMA SPhaseIs ==
  ASSUME SoftwareAssumption, NEW k, k = "GCMSIV", NEW j, j \in A!Jobs(k), SPhase(k, j)
  PROVE  Does(k, j) /\ (todo = <<>> => Done(k, j))
  <1>1. Lengths(j) /\ Sizes(j) /\ j.dec \in BOOLEAN
    BY JobIs, Sizing
  <1>2. /\ j.dec \/ RText(j) # 0 => SRest(j) # <<>>
        /\ j.dec \/ j.text # 0 => SBody(j) # <<>>
        /\ STag(j) # <<>> /\ SSeal(j) # <<>> /\ SText(j) # <<>> /\ SAad(j) # <<>> /\ SAbsorb(j) # <<>>
        /\ SSav(j) # <<>> /\ SBegin(j) # <<>> /\ Tag("B") # <<>>
    BY <1>1, SSome, SomeTag DEF Some, Forms
  <1>3. STail(j) \in Seqs /\ SRest(j) \in Seqs /\ SText(j) \in Seqs /\ SSeal(j) \in Seqs
    BY <1>1, SSeqs
  <1>4. A!pad16(j.aad) \in Int /\ A!pad16(j.text) \in Int /\ FText(j) \in Int /\ RText(j) \in Int /\ BlockUnits \in Int
    BY <1>1 DEF Sizes
  <1>5. SPiece(j) # <<>>
    <2>1. A!Exec("A", BlockUnits, RText(j)) \in Ins
      BY <1>4, Execs DEF Forms
    <2> QED
      BY <1>3, <2>1, Thens DEF SPiece
  <1>6. CASE Window(k, j, "Absorb", A!pad16(j.aad), SText(j), 0)
    BY <1>3, <1>4, <1>6, WindowIs
  <1>7. CASE Window(k, j, "Absorb", A!pad16(j.text), SSeal(j), BAad(j))
    BY <1>3, <1>4, <1>7, WindowIs
  <1>8. CASE Window(k, j, TextSt(j), FText(j), SRest(j), STextTag(j))
    BY <1>3, <1>4, <1>8, WindowIs
  <1>9. CASE Done(k, j)
    BY <1>9 DEF Done
  <1>10. \A st, tag, c, g, t : At(k, j, st, tag, c, g, t) => Does(k, j) /\ todo = t
    BY DEF At
  <1> QED
    BY <1>2, <1>5, <1>6, <1>7, <1>8, <1>9, <1>10 DEF SPhase, Piece

\* The same of GCM.
LEMMA GPhaseIs ==
  ASSUME SoftwareAssumption, NEW k, k \in {"GCM", "GCM_IV"}, NEW j, j \in A!Jobs(k), GPhase(k, j)
  PROVE  Does(k, j) /\ (todo = <<>> => Done(k, j))
  <1>1. Lengths(j) /\ Sizes(j)
    BY JobIs, Sizing
  <1>2. /\ GVerify # <<>> /\ GTail(j) # <<>> /\ GRest(j) # <<>> /\ GBody(j) # <<>> /\ GText(j) # <<>> /\ GAad(j) # <<>> /\ GGiven(j) # <<>>
        /\ GBegin(k, j) # <<>> /\ GPiece(j) # <<>> /\ Tag("B") # <<>> /\ Tag("C") # <<>>
    BY <1>1, GSome, SomeTag DEF Some, Forms
  <1>3. GRest(j) \in Seqs /\ GText(j) \in Seqs
    BY <1>1, GSeqs
  <1>4. A!pad16(j.aad) \in Int /\ FText(j) \in Int
    BY <1>1 DEF Sizes
  <1>5. CASE Window(k, j, "Absorb", A!pad16(j.aad), GText(j), 0)
    BY <1>3, <1>4, <1>5, WindowIs
  <1>6. CASE Window(k, j, TextSt(j), FText(j), GRest(j), BAad(j))
    BY <1>3, <1>4, <1>6, WindowIs
  <1>7. CASE Done(k, j)
    BY <1>7 DEF Done
  <1>8. /\ \A st, tag, c, g, t : At(k, j, st, tag, c, g, t) => Does(k, j) /\ todo = t
        /\ \A st, t : Sealed(k, j, st, t) => Does(k, j) /\ todo = t
        /\ \A t : Fresh(k, j, t) => Does(k, j) /\ todo = t
        /\ Iv(k, j) => Does(k, j) /\ todo = GGiven(j)
    BY DEF At, Sealed, Fresh, Iv
  <1> QED
    BY <1>2, <1>5, <1>6, <1>7, <1>8 DEF GPhase, Piece

\* The same of OCB.
LEMMA OPhaseIs ==
  ASSUME SoftwareAssumption, NEW k, k \in {"OCB", "OCB_NONCE"}, NEW j, j \in A!Jobs(k), OPhase(k, j)
  PROVE  Does(k, j) /\ (todo = <<>> => Done(k, j))
  <1>1. Lengths(j) /\ Sizes(j) /\ AadSizes(j)
    BY JobIs, Sizing, AadSizing
  <1>2. /\ OTag(j) # <<>> /\ OFinal(j) # <<>> /\ ORest(j) # <<>> /\ OBody(j) # <<>> /\ OText(j) # <<>>
        /\ OPiece(j) # <<>> /\ OLast(j) # <<>> /\ OAad(j) # <<>> /\ OAbsorb(j) # <<>> /\ OGiven(j) # <<>>
        /\ OBegin(k, j) # <<>>
    BY <1>1, OSome DEF Some
  <1>3. OLast(j) \in Seqs /\ ORest(j) \in Seqs
    BY <1>1, OSeqs
  <1>4. FAad(j) \in Int /\ FText(j) \in Int
    BY <1>1 DEF Sizes, AadSizes
  <1>5. CASE Window(k, j, "Absorb", FAad(j), OLast(j), 0)
    BY <1>3, <1>4, <1>5, WindowIs
  <1>6. CASE Window(k, j, TextSt(j), FText(j), ORest(j), BAad(j))
    BY <1>3, <1>4, <1>6, WindowIs
  <1>7. CASE Done(k, j)
    BY <1>7 DEF Done
  <1>8. /\ \A st, tag, c, g, t : At(k, j, st, tag, c, g, t) => Does(k, j) /\ todo = t
        /\ \A t : Fresh(k, j, t) => Does(k, j) /\ todo = t
        /\ \A t : Nonce(k, j, t) => Does(k, j) /\ todo = t
    BY DEF At, Fresh, Nonce
  <1> QED
    BY <1>2, <1>5, <1>6, <1>7, <1>8 DEF OPhase, Piece

\* The same of every Machine.
LEMMA PhaseIs ==
  ASSUME SoftwareAssumption, NEW k, NEW j, j \in A!Jobs(k), Phase(k, j)
  PROVE  Does(k, j) /\ (todo = <<>> => Done(k, j))
  BY CPhaseIs, SPhaseIs, GPhaseIs, OPhaseIs DEF Phase

-----------------------------------------------------------------------------
(* The beginning of an operation.                                          *)

\* kl.setst to Ready leaves a locker that has used nothing.
LEMMA ReadyIs ==
  ASSUME NEW r, NEW k, r.machine = k
  PROVE  LET v == A!A!Ready(r) IN
         /\ DOMAIN v = AFields /\ v.machine = k /\ v.policy = r.policy /\ v.st = "Ready" /\ v.tag = 0 /\ v.used = {} /\ ~ v.any /\ ~ v.all
         /\ (k = "GCM_IV" => v.start = 1 /\ v.ctr = 1) /\ (A!A!Family[k] = "GCMSIV" => v.ctr = 0)
  <1> DEFINE i == A!A!Invalid(k)
             f == A!A!Family[k]
             a == IF f = "CMAC" THEN 0 ELSE r.lbl
             b == IF k = "OCB_NONCE" THEN r.len ELSE 0
             c == IF k = "GCM_IV" THEN 1 ELSE r.start
             d == CASE k = "GCM_IV" -> 1 [] k = "GCM" -> r.ctr [] f \in {"GCMSIV", "OCB", "CMAC"} -> 0
             tw == r.twice
             po == r.policy
  <1>1. DOMAIN i = AFields /\ i.machine = k /\ i.tag = 0 /\ i.used = {} /\ ~ i.any /\ ~ i.all
    BY DEF A!A!Invalid, AFields
  <1>2. A!A!Ready(r) = [i EXCEPT !.policy = po, !.st = "Ready", !.twice = tw, !.lbl = a, !.len = b, !.start = c, !.ctr = d]
    BY DEF A!A!Ready
  <1>3. (k = "GCM_IV" => c = 1 /\ d = 1) /\ (f = "GCMSIV" => d = 0)
    <2>1. k = "GCM_IV" => f = "GCM"
      BY DEF A!A!Family
    <2>2. f = "GCMSIV" => k # "GCM_IV" /\ k # "GCM"
      BY DEF A!A!Family
    <2> HIDE DEF f
    <2> QED
      BY <2>1, <2>2
  <1> HIDE DEF i, a, b, c, d, f, tw, po
  <1> DEFINE v == [i EXCEPT !.policy = po, !.st = "Ready", !.twice = tw, !.lbl = a, !.len = b, !.start = c, !.ctr = d]
  <1>4. /\ DOMAIN v = AFields /\ v.machine = k /\ v.policy = po /\ v.st = "Ready" /\ v.tag = 0 /\ v.used = {} /\ ~ v.any /\ ~ v.all
        /\ v.start = c /\ v.ctr = d
    BY <1>1 DEF AFields
  <1> HIDE DEF v
  <1>5. A!A!Ready(r) = v /\ r.policy = po /\ A!A!Family[k] = f
    BY <1>2 DEF v, po, f
  <1> QED
    BY <1>3, <1>4, <1>5

\* A locker that is Ready, of a Machine k.
ReadyFor(v, k) ==
  /\ DOMAIN v = AFields /\ v.machine = k /\ v.st = "Ready" /\ v.tag = 0 /\ v.used = {} /\ ~ v.any /\ ~ v.all
  /\ (k = "GCM_IV" => v.start = 1 /\ v.ctr = 1) /\ (A!A!Family[k] = "GCMSIV" => v.ctr = 0)

\* A fresh sequence is at its first phase.
LEMMA BegunIs ==
  ASSUME SoftwareAssumption, NEW k \in AEADs, NEW j \in A!Jobs(k), Fresh(k, j, A!Program(k, j))
  PROVE  Phase(k, j)
  <1>1. Lengths(j) /\ k \in {"GCM", "GCM_IV", "GCMSIV", "OCB", "OCB_NONCE", "CMAC"}
    BY JobIs DEF SoftwareAssumption
  <1>2. CASE k \in {"GCM", "GCM_IV"}
    BY <1>1, <1>2, GPrograms DEF Phase, GPhase
  <1>3. CASE k \in {"OCB", "OCB_NONCE"}
    BY <1>1, <1>3, OPrograms DEF Phase, OPhase
  <1>4. CASE k \in {"GCMSIV", "CMAC"}
    <2>1. Counted(m, 0)
      BY <1>4, FreshCount
    <2>2. \A t : Fresh(k, j, t) => At(k, j, "Ready", 0, 0, 0, t) /\ ~ m.any
      BY <2>1 DEF Fresh, At
    <2>3. k = "GCMSIV" => Fresh(k, j, SBegin(j))
      BY <1>1, SPrograms
    <2>4. k = "CMAC" => Fresh(k, j, CBegin(j))
      BY <1>1, CPrograms
    <2> QED
      BY <1>4, <2>2, <2>3, <2>4 DEF Phase, SPhase, CPhase
  <1> QED
    BY <1>1, <1>2, <1>3, <1>4

\* Of an operation of the Machine k: it has begun, it goes on, or it came to no end.
Doing(k, j) == Fresh(k, j, A!Program(k, j)) \/ Phase(k, j) \/ Dead(k, j)
AEADInv == \E k \in AEADs : \E j \in A!Jobs(k) : Doing(k, j)

\* A locker that is Ready, with the program of an operation ahead, is fresh.
LEMMA BegunFresh ==
  ASSUME NEW k \in AEADs, NEW j \in A!Jobs(k), ReadyFor(m, k), job = j, may <=> Gate(j) \in m.policy, ks = 0, got = 0, todo = A!Program(k, j)
  PROVE  Fresh(k, j, A!Program(k, j))
  <1>1. "Ready" # "Invalid"
    OBVIOUS
  <1> QED
    BY <1>1 DEF ReadyFor, Fresh, Does, Fam

\* Software begins with an operation that is fresh.
LEMMA AEADInit ==
  ASSUME SoftwareAssumption, A!Init
  PROVE  AEADInv
  <1>1. PICK k \in AEADs, p \in SUBSET {0, 1} : m = A!A!Ready([A!A!Invalid(k) EXCEPT !.policy = p, !.len = 1])
    BY DEF A!Init, A!A!Init
  <1> DEFINE r == [A!A!Invalid(k) EXCEPT !.policy = p, !.len = 1]
  <1>2. r.machine = k
    BY DEF A!A!Invalid
  <1> HIDE DEF r
  <1>3. ReadyFor(A!A!Ready(r), k)
    BY <1>2, ReadyIs DEF ReadyFor
  <1>4. ReadyFor(m, k) /\ m.machine = k
    <2>1. m = A!A!Ready(r)
      BY <1>1 DEF r
    <2> QED
      BY <1>3, <2>1 DEF ReadyFor
  <1>5. job \in A!Jobs(k) /\ todo = A!Program(k, job) /\ ks = 0 /\ got = 0 /\ may = A!Permits(m.policy, job)
    BY <1>4 DEF A!Init
  <1>6. may <=> Gate(job) \in m.policy
    BY <1>5 DEF A!Permits, Gate
  <1>7. PICK j \in A!Jobs(k) : j = job
    BY <1>5
  <1>8. Fresh(k, j, A!Program(k, j))
    BY <1>4, <1>5, <1>6, <1>7, BegunFresh
  <1> QED
    BY <1>8 DEF AEADInv, Doing

\* The next operation is fresh too, however the last one ended.
LEMMA AEADBegins ==
  ASSUME SoftwareAssumption, NEW k \in AEADs, m.machine = k, NEW j \in A!Jobs(k), A!Begin(j)
  PROVE  Fresh(k, j, A!Program(k, j))'
  <1>1. ReadyFor(m', k)
    <2> DEFINE r == IF m.st = "Invalid" THEN [m EXCEPT !.policy = {1}, !.len = 1] ELSE m
    <2>1. r.machine = k
      OBVIOUS
    <2>2. m' = A!A!Ready(r)
      BY DEF A!Begin
    <2> HIDE DEF r
    <2>3. ReadyFor(A!A!Ready(r), k)
      BY <2>1, ReadyIs DEF ReadyFor
    <2> QED
      BY <2>2, <2>3
  <1>2. job' = j /\ todo' = A!Program(k, j) /\ ks' = 0 /\ got' = 0 /\ (may' <=> Gate(j) \in m'.policy)
    BY DEF A!Begin, A!Permits, Gate
  <1> QED
    BY <1>1, <1>2 DEF ReadyFor, Fresh, Does, Fam

\* What is Invalid stays so until the next operation.
LEMMA StaysDead ==
  ASSUME SoftwareAssumption, NEW k, NEW j, Dead(k, j), Instruct \/ A!Moved
  PROVE  Dead(k, j)'
  <1>1. m = A!A!Invalid(k) /\ m.st = "Invalid"
    BY DEF Dead, A!A!Invalid
  <1>2. ~ A!Moved
    BY <1>1 DEF A!Moved, A!A!Move
  <1>3. A!SetstStep => m' = m /\ job' = job /\ may' = may
    BY <1>1 DEF A!SetstStep, A!A!setst
  <1>4. ASSUME NEW h, NEW ok, A!ExecStep(h, ok)
        PROVE  m' = m /\ job' = job /\ may' = may
    BY <1>1, <1>4 DEF A!ExecStep, A!A!exec
  <1>5. m' = m /\ job' = job /\ may' = may
    BY <1>2, <1>3, <1>4 DEF Instruct
  <1> QED
    BY <1>5 DEF Dead, Suits

\* An instruction or a move leads on.
LEMMA MovedBegun ==
  ASSUME SoftwareAssumption, NEW k \in AEADs, NEW j \in A!Jobs(k), Doing(k, j), Instruct \/ A!Moved
  PROVE  Doing(k, j)'
  <1>1. CASE Dead(k, j)
    BY <1>1, StaysDead DEF Doing
  <1>2. CASE Phase(k, j)
    <2>1. CASE k = "CMAC"
      <3>1. CPhase(k, j)
        BY <1>2, <2>1 DEF Phase
      <3>2. Dead(k, j)' \/ CPhase(k, j)'
        BY <2>1, <3>1, CStep
      <3> QED
        BY <2>1, <3>2 DEF Phase, Doing
    <2>2. CASE k = "GCMSIV"
      <3>1. SPhase(k, j)
        BY <1>2, <2>2 DEF Phase
      <3>2. Dead(k, j)' \/ SPhase(k, j)'
        BY <2>2, <3>1, SStep
      <3> QED
        BY <2>2, <3>2 DEF Phase, Doing
    <2>3. CASE k \in {"GCM", "GCM_IV"}
      <3>1. GPhase(k, j)
        BY <1>2, <2>3 DEF Phase
      <3>2. Dead(k, j)' \/ GPhase(k, j)'
        BY <2>3, <3>1, GStep
      <3> QED
        BY <2>3, <3>2 DEF Phase, Doing
    <2>4. CASE k \in {"OCB", "OCB_NONCE"}
      <3>1. OPhase(k, j)
        BY <1>2, <2>4 DEF Phase
      <3>2. Dead(k, j)' \/ OPhase(k, j)'
        BY <2>4, <3>1, OStep
      <3> QED
        BY <2>4, <3>2 DEF Phase, Doing
    <2> QED
      BY <1>2, <2>1, <2>2, <2>3, <2>4 DEF Phase
  <1> QED
    BY <1>1, <1>2, BegunIs DEF Doing

\* What holds of an operation in all of its phases.
LEMMA DoingIs ==
  ASSUME SoftwareAssumption, NEW k \in AEADs, NEW j \in A!Jobs(k), Doing(k, j)
  PROVE  m.machine = k /\ job = j /\ (Dead(k, j) \/ (Does(k, j) /\ (todo = <<>> => Done(k, j))))
  <1>1. Dead(k, j) => m.machine = k /\ job = j
    BY DEF Dead, A!A!Invalid
  <1>2. Does(k, j) => m.machine = k /\ job = j
    BY DEF Does
  <1> QED
    BY <1>1, <1>2, BegunIs, PhaseIs DEF Doing

\* The invariant is inductive.
LEMMA AEADNext ==
  ASSUME SoftwareAssumption, AEADInv, A!Next
  PROVE  AEADInv'
  <1>1. PICK k \in AEADs : \E j \in A!Jobs(k) : Doing(k, j)
    BY DEF AEADInv
  <1>2. PICK j \in A!Jobs(k) : Doing(k, j)
    BY <1>1
  <1>3. m.machine = k
    BY <1>2, DoingIs
  <1>4. CASE Instruct \/ A!Moved
    <2>1. Doing(k, j)'
      BY <1>2, <1>4, MovedBegun
    <2> QED
      BY <2>1 DEF AEADInv
  <1>5. CASE \E i \in A!Jobs(m.machine) : A!Begin(i)
    <2>1. PICK i \in A!Jobs(k) : A!Begin(i)
      BY <1>3, <1>5
    <2>2. Fresh(k, i, A!Program(k, i))'
      BY <1>3, <2>1, AEADBegins
    <2> QED
      BY <2>2 DEF AEADInv, Doing
  <1> QED
    BY <1>4, <1>5 DEF A!Next, Instruct

\* It implies the three properties.
LEMMA AEADHolds ==
  ASSUME SoftwareAssumption, AEADInv
  PROVE  m.machine \in AEADs /\ A!SequenceIsAccepted /\ A!SequenceIsWhole /\ A!SameKeystream
  <1>1. PICK k \in AEADs : \E j \in A!Jobs(k) : Doing(k, j)
    BY DEF AEADInv
  <1>2. PICK j \in A!Jobs(k) : Doing(k, j)
    BY <1>1
  <1>3. m.machine = k /\ job = j /\ (Dead(k, j) \/ (Does(k, j) /\ (todo = <<>> => Done(k, j))))
    BY <1>2, DoingIs
  <1>4. Dead(k, j) => m.st = "Invalid" /\ ~ A!Fits
    BY <1>3, FitsIs DEF Dead, A!A!Invalid
  <1>5. Does(k, j) => m.st # "Invalid"
    BY DEF Does
  <1>6. Done(k, j) => A!Fits /\ Whole(k, j) /\ Stream(k, j)
    BY <1>3, FitsIs DEF Done
  <1>7. A!SequenceIsAccepted
    BY <1>3, <1>4, <1>5, <1>6 DEF A!SequenceIsAccepted, A!More
  <1>8. ~ A!More /\ m.st # "Invalid" => Whole(k, j) /\ Stream(k, j)
    BY <1>3, <1>4, <1>6 DEF A!More
  <1>9. A!SequenceIsWhole
    BY <1>3, <1>8 DEF A!SequenceIsWhole, Whole
  <1>10. A!SameKeystream
    BY <1>3, <1>8 DEF A!SameKeystream, Stream
  <1> QED
    BY <1>3, <1>7, <1>9, <1>10

-----------------------------------------------------------------------------
(* The locker of a hash Machine.                                           *)

HFields == {"machine", "policy", "full", "st", "lbl", "bb", "cum", "outl", "S", "kk", "sealed", "ksealed", "haskey", "halted", "fed",
            "got", "mseal", "kseal", "kset", "out"}
HBut(v, r, F) == DOMAIN v = HFields /\ \A f \in HFields \ F : v[f] = r[f]
HQuiet(r) == [r EXCEPT !.out = "nothing", !.halted = Still]

\* A locker before an instruction.
LEMMA HQuiets == ASSUME NEW r, DOMAIN r = HFields PROVE HBut(HQuiet(r), r, {"out", "halted"}) /\ HQuiet(r).halted = Still
  BY DEF HQuiet, HBut, HFields

\* What absorbing a bits does to a hash that holds bb bits of a block.
KeyBlock(r, a) == IF r.machine = "BLAKE2_KEY" /\ r.cum = 0 /\ a > 0 THEN 4 ELSE 0
Ends(r, p) == IF H!H!hold(r) /\ p > 0 THEN ((p - 1) % 4) + 1 ELSE p % 4
Taking_(r, v, a) ==
  /\ v.cum = r.cum + a + KeyBlock(r, a) /\ v.bb = Ends(r, r.bb + a) /\ v.S \in Int
  /\ 4 * v.S + v.bb = 4 * r.S + r.bb + a + KeyBlock(r, a)

\* Feeding a bits to the hash.
LEMMA Absorbs_ ==
  ASSUME NEW r, DOMAIN r = HFields, r.S \in Int, r.bb \in Nat, r.cum \in Nat, NEW a \in Nat
  PROVE  HBut(H!H!_vli(r, a), r, {"cum", "S", "bb"}) /\ Taking_(r, H!H!_vli(r, a), a)
  <1> DEFINE k == r.machine = "BLAKE2_KEY" /\ r.cum = 0 /\ a > 0
             p == r.bb + a
             h == H!H!hold(r)
             x == (IF k THEN 1 ELSE 0)
             y == (IF h THEN H!H!HMAX(p - 1, 0) ELSE p) \div 4
             z == IF h /\ p > 0 THEN ((p - 1) % 4) + 1 ELSE p % 4
             v == [r EXCEPT !.cum = @ + a + (IF k THEN 4 ELSE 0), !.S = @ + x + y, !.bb = z]
  <1>1. H!H!_vli(r, a) = v
    BY DEF H!H!_vli, BYTE, BYTES
  <1>2. p \in Nat /\ x \in {0, 1} /\ KeyBlock(r, a) = 4 * x
    BY DEF KeyBlock
  <1>3. z = Ends(r, p)
    BY DEF Ends
  <1>4. y \in Int /\ z \in Int /\ 4 * y + z = p
    <2>1. CASE h /\ p > 0
      <3>1. y = (p - 1) \div 4 /\ z = ((p - 1) % 4) + 1
        BY <1>2, <2>1 DEF H!H!HMAX
      <3> DEFINE q == p - 1
      <3>2. q \in Nat
        BY <1>2, <2>1
      <3>3. 4 * (q \div 4) + (q % 4) = q /\ q \div 4 \in Int /\ q % 4 \in Int
        BY <3>2
      <3> HIDE DEF y, z, p
      <3> QED
        BY <1>2, <3>1, <3>3
    <2>2. CASE h /\ ~ (p > 0)
      <3>1. p = 0 /\ y = 0 /\ z = 0
        BY <1>2, <2>2 DEF H!H!HMAX
      <3> QED
        BY <3>1
    <2>3. CASE ~ h
      BY <1>2, <2>3
    <2> QED
      BY <2>1, <2>2, <2>3
  <1> HIDE DEF x, y, z, p, h
  <1>5. /\ DOMAIN v = HFields /\ v.cum = r.cum + a + (IF k THEN 4 ELSE 0) /\ v.S = r.S + x + y /\ v.bb = z
        /\ HBut(v, r, {"cum", "S", "bb"})
    BY DEF HFields, HBut
  <1>6. (IF k THEN 4 ELSE 0) = KeyBlock(r, a)
    BY DEF KeyBlock
  <1> HIDE DEF v, k
  <1>7. v.S \in Int /\ 4 * v.S + v.bb = 4 * r.S + r.bb + a + KeyBlock(r, a)
    <2>1. r.bb + a = p
      BY DEF p
    <2> QED
      BY <1>2, <1>4, <1>5, <2>1
  <1>8. r.bb + a = p
    BY DEF p
  <1> QED
    BY <1>1, <1>3, <1>5, <1>6, <1>7, <1>8 DEF Taking_

\* What the hash holds of what it was fed: v is in the middle of a message.
Held(v) ==
  /\ v.S \in Int /\ v.bb \in {0, 2, 4} /\ (v.bb = 4 => H!H!hold(v)) /\ v.fed \in Nat /\ v.cum \in Nat /\ (v.cum = 0 <=> v.fed = 0)
  /\ 4 * v.S + v.bb = H!H!Before(v) + v.fed /\ v.got = 0
\* v is r, which was fed a bits more.
Fed_(r, v, a, F) == HBut(v, r, {"cum", "S", "bb", "fed"} \cup F) /\ v.fed = r.fed + a /\ Held(v) /\ v.bb = Ends(r, r.bb + a)

\* What is held after a bits more.
LEMMA FedMore ==
  ASSUME NEW r, DOMAIN r = HFields, Held(r), NEW a \in Nat, a % 2 = 0, NEW v, NEW F,
         "machine" \notin F, "got" \notin F, "cum" \notin F, "S" \notin F, "bb" \notin F, "fed" \notin F,
         HBut(v, H!H!_vli(r, a), {"fed"} \cup F), v.fed = r.fed + a
  PROVE  Fed_(r, v, a, F)
  <1> DEFINE u == H!H!_vli(r, a)
  <1>1. r.S \in Int /\ r.bb \in Nat /\ r.cum \in Nat /\ r.fed \in Nat
    BY DEF Held
  <1>2. HBut(u, r, {"cum", "S", "bb"}) /\ Taking_(r, u, a)
    BY <1>1, Absorbs_
  <1> HIDE DEF u
  <1>3. HBut(v, u, {"fed"} \cup F)
    BY DEF u
  <1>4. /\ v.machine = r.machine /\ v.got = r.got /\ v.cum = u.cum /\ v.S = u.S /\ v.bb = u.bb
        /\ HBut(v, r, {"cum", "S", "bb", "fed"} \cup F)
    BY <1>2, <1>3 DEF HBut, HFields
  <1>5. H!H!hold(v) <=> H!H!hold(r)
    BY <1>4 DEF H!H!hold
  <1>6. v.bb = Ends(r, r.bb + a) /\ v.bb \in {0, 2, 4} /\ (v.bb = 4 => H!H!hold(v))
    <2>1. v.bb = Ends(r, r.bb + a)
      BY <1>2, <1>4 DEF Taking_
    <2>2. r.bb \in {0, 2, 4}
      BY DEF Held
    <2> DEFINE p == r.bb + a
    <2>3. p \in Nat /\ p % 2 = 0
      BY <2>2
    <2> HIDE DEF p
    <2>4. Ends(r, p) \in {0, 2, 4} /\ (Ends(r, p) = 4 => H!H!hold(r))
      BY <2>3 DEF Ends
    <2> QED
      BY <1>5, <2>1, <2>4 DEF p
  <1>7. v.cum \in Nat /\ (v.cum = 0 <=> v.fed = 0) /\ v.fed \in Nat
    <2>1. v.cum = r.cum + a + KeyBlock(r, a) /\ KeyBlock(r, a) \in {0, 4} /\ (a = 0 => KeyBlock(r, a) = 0)
      BY <1>2, <1>4 DEF Taking_, KeyBlock
    <2>2. r.cum = 0 <=> r.fed = 0
      BY DEF Held
    <2> QED
      BY <1>1, <2>1, <2>2
  <1>8. v.S \in Int /\ 4 * v.S + v.bb = H!H!Before(v) + v.fed
    <2>1. v.S \in Int /\ 4 * v.S + v.bb = 4 * r.S + r.bb + a + KeyBlock(r, a) /\ 4 * r.S + r.bb = H!H!Before(r) + r.fed /\ (r.cum = 0 <=> r.fed = 0)
      BY <1>2, <1>4 DEF Taking_, Held
    <2>2. (H!H!hmac(v) <=> H!H!hmac(r)) /\ (H!H!hmac(r) => r.machine # "BLAKE2_KEY")
      BY <1>4 DEF H!H!hmac
    <2>3. H!H!Before(v) = H!H!Before(r) + KeyBlock(r, a) /\ H!H!Before(r) \in Int /\ KeyBlock(r, a) \in Int
      BY <1>1, <1>4, <2>1, <2>2 DEF H!H!Before, KeyBlock, BYTE, BYTES
    <2> DEFINE x == H!H!Before(r)
               y == KeyBlock(r, a)
               z == H!H!Before(v)
    <2> HIDE DEF x, y, z
    <2>4. 4 * v.S + v.bb = 4 * r.S + r.bb + a + y /\ 4 * r.S + r.bb = x + r.fed /\ z = x + y /\ x \in Int /\ y \in Int
      BY <2>1, <2>3 DEF x, y, z
    <2>5. 4 * v.S + v.bb = z + v.fed
      BY <1>1, <2>4
    <2> QED
      BY <2>1, <2>5 DEF z
  <1>9. v.got = 0
    BY <1>4 DEF Held
  <1> QED
    BY <1>4, <1>6, <1>7, <1>8, <1>9 DEF Fed_, Held

\* Reading a bits of an output, in a window that has lim bits from at on.
Amount(r, lim, halt, b) ==
  LET stop == IF ~ halt THEN lim ELSE IF b THEN 2 ELSE 4 - r.bb
      rest == IF r.outl # 0 THEN H!H!HMIN(lim, r.outl) ELSE lim
  IN H!H!HMIN(stop, IF b THEN H!H!HMIN(rest, r.lbl) ELSE rest)
Over_(r, a) == r.outl # 0 /\ a = r.outl
Stopped(lim, at, a) == IF (at * 2 + a) \div 2 < at + (lim \div 2) THEN [n |-> at + (lim \div 2), pos |-> (at * 2 + a) \div 2] ELSE Still
Reads(r, v, lim, at, a, b) ==
  /\ HBut(v, r, {"S", "bb", "lbl", "got", "out", "outl", "st", "halted"})
  /\ v.got = r.got + a /\ v.bb = (r.bb + a) % 4 /\ v.lbl = (IF b THEN r.lbl - a ELSE r.lbl)
  /\ v.outl = (IF r.outl = 0 THEN 0 ELSE r.outl - a)
  /\ v.st = (IF Over_(r, a) THEN "Success" ELSE r.st)
  /\ v.halted = IF Over_(r, a) \/ (b /\ a = r.lbl) THEN r.halted ELSE Stopped(lim, at, a)

\* kl.exec of an output reads a window.
LEMMA Reading ==
  ASSUME NEW r, DOMAIN r = HFields, r.outl \in Int, NEW lim \in Nat, NEW at \in Nat, NEW halt \in BOOLEAN, NEW b \in BOOLEAN,
         ~ (at # 0 /\ r.bb # 0 /\ ~ b), NEW a, a = Amount(r, lim, halt, b), a \in Int
  PROVE  Reads(r, H!H!_exec_out(r, lim, at, halt, b), lim, at, a, b)
  <1> DEFINE x == r.S + (r.bb + a) \div 4
             y == (r.bb + a) % 4
             z == IF b THEN r.lbl - a ELSE r.lbl
             g == r.got + a
             o == IF r.outl = 0 THEN 0 ELSE r.outl - a
             w == at + (lim \div 2)
             t == [r EXCEPT !.S = x, !.bb = y, !.lbl = z, !.got = g, !.out = "text"]
             v == H!H!_exec_out(r, lim, at, halt, b)
  <1>1. v = IF Over_(r, a) THEN [t EXCEPT !.outl = 0, !.st = "Success"]
            ELSE IF b /\ a = r.lbl THEN [t EXCEPT !.outl = IF @ = 0 THEN 0 ELSE @ - a]
            ELSE [H!H!Halt(t, w, at, a) EXCEPT !.outl = IF @ = 0 THEN 0 ELSE @ - a]
    BY DEF H!H!_exec_out, Amount, Over_, BYTE, BYTES
  <1> HIDE DEF v, x, y, z, g
  <1>2. /\ DOMAIN t = HFields /\ t.bb = y /\ t.lbl = z /\ t.got = g /\ t.outl = r.outl /\ t.st = r.st /\ t.halted = r.halted
        /\ HBut(t, r, {"S", "bb", "lbl", "got", "out"})
    BY DEF HFields, HBut
  <1> HIDE DEF t
  <1>3. /\ H!H!Halt(t, w, at, a) = [t EXCEPT !.halted = Stopped(lim, at, a)]
    BY DEF H!H!Halt, Stopped, Still, H!H!NotHalted, BYTE
  <1> DEFINE s == Stopped(lim, at, a)
  <1>4. v = IF Over_(r, a) THEN [t EXCEPT !.outl = 0, !.st = "Success"]
            ELSE IF b /\ a = r.lbl THEN [t EXCEPT !.outl = o]
            ELSE [[t EXCEPT !.halted = s] EXCEPT !.outl = o]
    <2>1. [t EXCEPT !.outl = IF @ = 0 THEN 0 ELSE @ - a] = [t EXCEPT !.outl = o]
      BY <1>2
    <2> DEFINE u == [t EXCEPT !.halted = s]
    <2>2. u.outl = r.outl
      BY <1>2 DEF HFields
    <2>3. [u EXCEPT !.outl = IF @ = 0 THEN 0 ELSE @ - a] = [u EXCEPT !.outl = o]
      BY <2>2
    <2> QED
      BY <1>1, <1>3, <2>1, <2>3
  <1>5. Over_(r, a) => o = 0
    BY DEF Over_
  <1> HIDE DEF o, s
  <1>6. CASE Over_(r, a)
    <2>1. v = [t EXCEPT !.outl = 0, !.st = "Success"]
      BY <1>4, <1>6
    <2>2. /\ DOMAIN v = HFields /\ v.bb = y /\ v.lbl = z /\ v.got = g /\ v.outl = 0 /\ v.st = "Success" /\ v.halted = r.halted
          /\ HBut(v, r, {"S", "bb", "lbl", "got", "out", "outl", "st", "halted"})
      BY <1>2, <2>1 DEF HFields, HBut
    <2> QED
      BY <1>5, <1>6, <2>2 DEF Reads, y, z, g, o, v
  <1>7. CASE ~ Over_(r, a) /\ b /\ a = r.lbl
    <2>1. v = [t EXCEPT !.outl = o]
      BY <1>4, <1>7
    <2>2. /\ DOMAIN v = HFields /\ v.bb = y /\ v.lbl = z /\ v.got = g /\ v.outl = o /\ v.st = r.st /\ v.halted = r.halted
          /\ HBut(v, r, {"S", "bb", "lbl", "got", "out", "outl", "st", "halted"})
      BY <1>2, <2>1 DEF HFields, HBut
    <2> QED
      BY <1>7, <2>2 DEF Reads, y, z, g, o, v
  <1>8. CASE ~ Over_(r, a) /\ ~ (b /\ a = r.lbl)
    <2>1. v = [[t EXCEPT !.halted = s] EXCEPT !.outl = o]
      BY <1>4, <1>8
    <2>2. /\ DOMAIN v = HFields /\ v.bb = y /\ v.lbl = z /\ v.got = g /\ v.outl = o /\ v.st = r.st /\ v.halted = s
          /\ HBut(v, r, {"S", "bb", "lbl", "got", "out", "outl", "st", "halted"})
      BY <1>2, <2>1 DEF HFields, HBut
    <2> QED
      BY <1>8, <2>2 DEF Reads, y, z, g, o, s, v
  <1> QED
    BY <1>6, <1>7, <1>8 DEF v

\* The lockers of a message: those of the Machine, the policy and the tag that it began with.
Same_(v, w) == DOMAIN v = HFields /\ v.machine = w.machine /\ v.policy = w.policy /\ v.full = w.full /\ v.kk = 0 /\ v.ksealed = FALSE

\* A locker stays one of the message.
LEMMA StaysSame ==
  ASSUME NEW r, NEW v, NEW w, Same_(r, w), NEW F, HBut(v, r, F), "machine" \notin F, "policy" \notin F, "full" \notin F, "kk" \notin F,
         "ksealed" \notin F
  PROVE  Same_(v, w)
  BY DEF Same_, HBut, HFields

\* Entering the States.
LEMMA QuietSet ==
  ASSUME DOMAIN m = HFields, m.st \notin {"Invalid", "Inert"}, NEW imm, NEW form, NEW x, H!H!setst(imm, form, x)
  PROVE  m' = H!H!_setst(HQuiet(m), imm, form, x)
  BY DEF H!H!setst, H!H!inert, HQuiet, Still, H!H!NotHalted

Runs(form, n, at, halt, ok) == m' = IF H!H!MayRun(m) THEN H!H!_exec(HQuiet(m), form, n, at, halt, ok) ELSE H!H!inv(m)

\* kl.exec runs, or the locker is lost.
LEMMA QuietRun ==
  ASSUME DOMAIN m = HFields, m.st \notin {"Invalid", "Inert"}, NEW form, NEW n, NEW at, NEW halt, NEW ok, H!H!exec(form, n, at, halt, ok)
  PROVE  Runs(form, n, at, halt, ok)
  BY DEF H!H!exec, H!H!inert, HQuiet, Still, H!H!NotHalted, Runs

\* A locker whose CC failed.
LEMMA InertIs ==
  ASSUME NEW k
  PROVE  LET v == H!H!Inert(k, "Invalid") IN
         /\ DOMAIN v = HFields /\ v.machine = k /\ v.st = "Invalid" /\ v.halted = Still /\ v.out = "nothing" /\ v.sealed = FALSE /\ v.ksealed = FALSE
         /\ v.got = 0
  BY DEF H!H!Inert, HFields, Still, H!H!NotHalted

-----------------------------------------------------------------------------
(* kl.setst of a hash Machine.                                             *)

\* v is r in another State, with nothing put out.
Enters_(r, v, st, F) == HBut(v, r, {"st", "out", "halted"} \cup F) /\ v.st = st
KeyFields == {"haskey", "ksealed", "bb", "cum", "kset", "kseal"}

\* The key of an HMAC is to be fed.
LEMMA ToSetKey ==
  ASSUME NEW r, DOMAIN r = HFields, r.st = "Ready", r.machine = "HMAC_NIK"
  PROVE  LET v == H!H!_setst(HQuiet(r), "setkey", "A", 0) IN
         Enters_(r, v, "SetKey", KeyFields) /\ v.bb = 0 /\ v.cum = 0 /\ v.ksealed = FALSE
  <1> DEFINE q == HQuiet(r)
             v == H!H!_setst(q, "setkey", "A", 0)
  <1>1. HBut(q, r, {"out", "halted"})
    BY HQuiets
  <1> HIDE DEF q
  <1>2. v = H!H!enter_setkey(q)
    BY <1>1 DEF H!H!_setst, HBut, HFields, H!H!hold
  <1>3. Enters_(r, H!H!enter_setkey(q), "SetKey", KeyFields) /\ H!H!enter_setkey(q).bb = 0 /\ H!H!enter_setkey(q).cum = 0 /\ H!H!enter_setkey(q).ksealed = FALSE
    BY <1>1 DEF H!H!enter_setkey, HBut, HFields, Enters_, KeyFields
  <1> HIDE DEF v
  <1>4. Enters_(r, v, "SetKey", KeyFields) /\ v.bb = 0 /\ v.cum = 0 /\ v.ksealed = FALSE
    BY <1>2, <1>3
  <1> QED
    BY <1>4 DEF v, q

MessageFields == {"lbl", "cum", "bb", "S", "fed", "got"}

\* The message is to be fed.
LEMMA ToAbsorb ==
  ASSUME NEW r, DOMAIN r = HFields, (r.st = "Ready" /\ r.machine # "HMAC_NIK") \/ (r.st = "SetKey" /\ r.cum = 4 /\ r.haskey)
  PROVE  LET v == H!H!_setst(HQuiet(r), "absorb", "A", 0) IN Enters_(r, v, "Absorb", MessageFields) /\ Held(v) /\ v.fed = 0
  <1> DEFINE q == HQuiet(r)
             v == H!H!_setst(q, "absorb", "A", 0)
             n == IF H!H!hmac(q) THEN 1 ELSE 0
             u == [q EXCEPT !.st = "Absorb", !.lbl = BYTE * BYTES, !.cum = 0, !.bb = 0, !.S = n, !.fed = 0, !.got = 0]
  <1>1. HBut(q, r, {"out", "halted"})
    BY HQuiets
  <1> HIDE DEF q
  <1>2. q.st = r.st /\ q.machine = r.machine /\ q.cum = r.cum /\ (q.haskey <=> r.haskey)
    BY <1>1 DEF HBut, HFields
  <1>3. v = H!H!absorb(q, "A")
    BY <1>2 DEF H!H!_setst, H!H!leave_setkey, BYTE, BYTES
  <1>4. v = u
    BY <1>2, <1>3 DEF H!H!absorb
  <1> HIDE DEF v, n
  <1>5. Enters_(r, u, "Absorb", MessageFields) /\ u.cum = 0 /\ u.bb = 0 /\ u.S = n /\ u.fed = 0 /\ u.got = 0 /\ u.machine = r.machine
    BY <1>1 DEF HBut, HFields, Enters_, MessageFields
  <1> HIDE DEF u
  <1>6. n \in {0, 1} /\ H!H!Before(u) = 4 * n
    BY <1>2, <1>5 DEF n, H!H!Before, H!H!hmac, BYTE, BYTES
  <1>7. Held(u)
    BY <1>5, <1>6 DEF Held
  <1> QED
    BY <1>4, <1>5, <1>7 DEF v, q

\* Its final piece is announced.
LEMMA ToLast ==
  ASSUME NEW r, DOMAIN r = HFields, r.st = "Absorb", NEW form \in {"A", "B"}, NEW x \in 0..4
  PROVE  LET v == H!H!_setst(HQuiet(r), "last", form, x) IN
         IF x % 2 # 0 /\ H!H!hold(r) THEN v = H!H!inv(r) ELSE Enters_(r, v, "Last", {"lbl"}) /\ v.lbl = x
  <1> DEFINE q == HQuiet(r)
             v == H!H!_setst(q, "last", form, x)
             u == [q EXCEPT !.st = "Last", !.lbl = x]
  <1>1. HBut(q, r, {"out", "halted"})
    BY HQuiets
  <1> HIDE DEF q
  <1>2. q.st = "Absorb" /\ q.machine = r.machine
    BY <1>1 DEF HBut, HFields
  <1>3. (H!H!hold(q) <=> H!H!hold(r)) /\ H!H!inv(q) = H!H!inv(r)
    BY <1>2 DEF H!H!hold, H!H!inv
  <1>4. ~ (x > 4)
    OBVIOUS
  <1>5. v = IF x % 2 # 0 /\ H!H!hold(r) THEN H!H!inv(r) ELSE u
    BY <1>2, <1>3, <1>4 DEF H!H!_setst, BYTE, BYTES
  <1> HIDE DEF v
  <1>6. Enters_(r, u, "Last", {"lbl"}) /\ u.lbl = x
    BY <1>1 DEF HBut, HFields, Enters_
  <1> QED
    BY <1>5, <1>6 DEF v, q

\* The output of a message that is over.
OutFields == {"bb", "lbl", "S", "cum", "outl"}
NoTag(r) == 0 \notin r.policy /\ (H!H!hmac(r) \/ r.machine = "BLAKE2_KEY")

\* A digest or a tag is to be read.
LEMMA ToOutput ==
  ASSUME NEW r, DOMAIN r = HFields, r.st = "Absorb" \/ (r.st = "Last" /\ r.lbl = 0), r.kk = 0, NEW form \in {"A", "B"}, NEW x \in {0, 4}
  PROVE  LET v == H!H!_setst(HQuiet(r), "output", form, x) IN
         IF NoTag(r) THEN v = H!H!inv(r)
         ELSE Enters_(r, v, "Output", OutFields) /\ v.bb = 0 /\ v.lbl = 0 /\ v.outl = IF x # 0 THEN x ELSE IF H!H!xof(r) THEN 0 ELSE 4
  <1> DEFINE q == HQuiet(r)
             v == H!H!_setst(q, "output", form, x)
             o == IF x # 0 THEN x ELSE IF H!H!xof(r) THEN 0 ELSE 4
             u == [q EXCEPT !.st = "Output", !.bb = 0, !.lbl = 0, !.S = 0, !.cum = 0, !.outl = o]
  <1>1. HBut(q, r, {"out", "halted"})
    BY HQuiets
  <1> HIDE DEF q
  <1>2. q.st = r.st /\ q.machine = r.machine /\ q.policy = r.policy /\ q.lbl = r.lbl /\ q.kk = 0
    BY <1>1 DEF HBut, HFields
  <1>3. (NoTag(q) <=> NoTag(r)) /\ H!H!inv(q) = H!H!inv(r) /\ (H!H!xof(q) <=> H!H!xof(r))
    BY <1>2 DEF H!H!hmac, NoTag, H!H!inv, H!H!xof
  <1>4. v = H!H!output(q, "Output", form, x)
    BY <1>2 DEF H!H!_setst
  <1>5. x % 2 = 0 /\ ~ (x > 4) /\ ~ (q.kk > 0)
    BY <1>2
  <1>6. v = IF NoTag(r) THEN H!H!inv(r) ELSE u
    <2>1. H!H!output(q, "Output", form, x) =
            IF NoTag(q) THEN H!H!inv(q)
            ELSE [q EXCEPT !.st = "Output", !.bb = 0, !.lbl = 0, !.S = 0, !.cum = 0, !.outl = IF x # 0 THEN x ELSE IF H!H!xof(q) THEN 0 ELSE 4]
      BY <1>2, <1>5 DEF H!H!output, NoTag, BYTE, BYTES
    <2> QED
      BY <1>3, <1>4, <2>1
  <1> HIDE DEF v, o
  <1>7. Enters_(r, u, "Output", OutFields) /\ u.bb = 0 /\ u.lbl = 0 /\ u.outl = o
    BY <1>1 DEF HBut, HFields, Enters_, OutFields
  <1> QED
    BY <1>6, <1>7 DEF v, q, o

\* A tag is to be compared.
LEMMA ToVerify ==
  ASSUME NEW r, DOMAIN r = HFields, r.st = "Absorb" \/ (r.st = "Last" /\ r.lbl = 0), r.ksealed = FALSE
  PROVE  LET v == H!H!_setst(HQuiet(r), "verify", "B", 4) IN
         IF r.sealed \/ ~ H!H!hmac(r) \/ 1 \notin r.policy \/ ~ r.full THEN v = H!H!inv(r)
         ELSE Enters_(r, v, "Verify", OutFields)
  <1> DEFINE q == HQuiet(r)
             v == H!H!_setst(q, "verify", "B", 4)
             u == [q EXCEPT !.st = "Verify", !.bb = 0, !.lbl = 0, !.S = 0, !.cum = 0]
             c == ~ H!H!hmac(r) \/ 1 \notin r.policy \/ ~ r.full
  <1>1. HBut(q, r, {"out", "halted"})
    BY HQuiets
  <1> HIDE DEF q
  <1>2. q.st = r.st /\ q.machine = r.machine /\ q.policy = r.policy /\ q.lbl = r.lbl /\ q.full = r.full /\ q.sealed = r.sealed /\ q.ksealed = FALSE
    BY <1>1 DEF HBut, HFields
  <1>3. (H!H!hmac(q) <=> H!H!hmac(r)) /\ H!H!inv(q) = H!H!inv(r)
    BY <1>2 DEF H!H!hmac, H!H!inv
  <1>4. v = IF ~ r.sealed THEN H!H!verify(q, "B", 4) ELSE H!H!inv(q)
    BY <1>2 DEF H!H!_setst
  <1>5. H!H!verify(q, "B", 4) = IF c THEN H!H!inv(q) ELSE u
    <2>1. H!H!HMIN(4, 4) = 4 /\ 4 % 2 = 0
      BY DEF H!H!HMIN
    <2>2. (H!H!HMIN(4, 4) # (IF r.full THEN 4 ELSE 4 - 2)) <=> ~ r.full
      BY <2>1
    <2> QED
      BY <1>2, <1>3, <2>1, <2>2 DEF H!H!verify, BYTE, BYTES
  <1>6. v = IF r.sealed \/ c THEN H!H!inv(r) ELSE u
    BY <1>3, <1>4, <1>5
  <1> HIDE DEF v
  <1>7. Enters_(r, u, "Verify", OutFields)
    BY <1>1 DEF HBut, HFields, Enters_, OutFields
  <1> QED
    BY <1>6, <1>7 DEF v, q

\* A read in bits is announced.
LEMMA ToBits ==
  ASSUME NEW r, DOMAIN r = HFields, r.st \in {"Output", "Bits"}, r.ksealed = FALSE, NEW x \in Nat, x # 0
  PROVE  LET v == H!H!_setst(HQuiet(r), "bits", "B", x) IN
         IF r.sealed THEN v = H!H!inv(r) ELSE Enters_(r, v, "Bits", {"lbl"}) /\ v.lbl = x
  <1> DEFINE q == HQuiet(r)
             v == H!H!_setst(q, "bits", "B", x)
             u == [q EXCEPT !.st = "Bits", !.lbl = x]
  <1>1. HBut(q, r, {"out", "halted"})
    BY HQuiets
  <1> HIDE DEF q
  <1>2. q.st = r.st /\ q.machine = r.machine /\ q.sealed = r.sealed /\ q.ksealed = FALSE
    BY <1>1 DEF HBut, HFields
  <1>3. H!H!inv(q) = H!H!inv(r)
    BY <1>2 DEF H!H!inv
  <1>4. v = IF ~ r.sealed THEN H!H!bits(q, "B", x) ELSE H!H!inv(q)
    BY <1>2 DEF H!H!_setst
  <1>5. H!H!bits(q, "B", x) = u
    BY <1>2 DEF H!H!bits
  <1>6. v = IF r.sealed THEN H!H!inv(r) ELSE u
    BY <1>3, <1>4, <1>5
  <1> HIDE DEF v
  <1>7. Enters_(r, u, "Bits", {"lbl"}) /\ u.lbl = x
    BY <1>1 DEF HBut, HFields, Enters_
  <1> QED
    BY <1>6, <1>7 DEF v, q

\* The locker is to be used for another message.
LEMMA ToReady ==
  ASSUME NEW r, DOMAIN r = HFields
  PROVE  LET v == H!H!_setst(HQuiet(r), "ready", "A", 0) IN
         /\ DOMAIN v = HFields /\ v.machine = r.machine /\ v.policy = r.policy /\ v.full = r.full /\ v.kk = r.kk /\ v.ksealed = r.ksealed
         /\ v.st = "Ready" /\ v.sealed = FALSE
  <1> DEFINE q == HQuiet(r)
             v == H!H!_setst(q, "ready", "A", 0)
  <1>1. HBut(q, r, {"out", "halted"})
    BY HQuiets
  <1> HIDE DEF q
  <1>2. v = H!H!ready(q)
    BY DEF H!H!_setst
  <1>3. /\ q.machine = r.machine /\ q.policy = r.policy /\ q.full = r.full /\ q.kk = r.kk /\ q.ksealed = r.ksealed
    BY <1>1 DEF HBut, HFields
  <1> DEFINE i == H!H!Inert(q.machine, "Ready")
             hk == q.haskey \/ q.machine = "HMAC_KIP"
             u == [i EXCEPT !.policy = q.policy, !.full = q.full, !.kk = q.kk, !.ksealed = q.ksealed, !.haskey = hk, !.kseal = q.kseal, !.kset = q.kset]
  <1>4. H!H!ready(q) = u
    BY DEF H!H!ready
  <1>5. DOMAIN i = HFields /\ i.machine = q.machine /\ i.st = "Ready" /\ i.sealed = FALSE
    BY DEF H!H!Inert, HFields
  <1> HIDE DEF v, i, hk
  <1>6. /\ DOMAIN u = HFields /\ u.machine = q.machine /\ u.policy = q.policy /\ u.full = q.full /\ u.kk = q.kk /\ u.ksealed = q.ksealed
        /\ u.st = "Ready" /\ u.sealed = FALSE
    BY <1>5 DEF HFields
  <1> QED
    BY <1>2, <1>3, <1>4, <1>6 DEF v, q

\* v is r in State st, which still is a locker of w.
Enters(r, v, w, st) == Same_(v, w) /\ v.st = st /\ v.sealed = r.sealed

\* A State entered for a key.
LEMMA KeyEnters ==
  ASSUME NEW r, NEW v, NEW w, NEW st, Same_(r, w), Enters_(r, v, st, KeyFields), v.ksealed = FALSE
  PROVE  Enters(r, v, w, st) /\ v.fed = r.fed /\ v.got = r.got
  BY DEF Enters, Same_, Enters_, HBut, HFields, KeyFields

\* A State entered for a message.
LEMMA MessageEnters ==
  ASSUME NEW r, NEW v, NEW w, NEW st, Same_(r, w), Enters_(r, v, st, MessageFields)
  PROVE  Enters(r, v, w, st)
  BY DEF Enters, Same_, Enters_, HBut, HFields, MessageFields

\* A State entered for an output.
LEMMA OutEnters ==
  ASSUME NEW r, NEW v, NEW w, NEW st, Same_(r, w), Enters_(r, v, st, OutFields)
  PROVE  Enters(r, v, w, st) /\ v.fed = r.fed /\ v.got = r.got
  BY DEF Enters, Same_, Enters_, HBut, HFields, OutFields

\* A State entered with a length.
LEMMA LengthEnters ==
  ASSUME NEW r, NEW v, NEW w, NEW st, Same_(r, w), Enters_(r, v, st, {"lbl"})
  PROVE  /\ Enters(r, v, w, st) /\ v.fed = r.fed /\ v.got = r.got
         /\ v.S = r.S /\ v.bb = r.bb /\ v.cum = r.cum /\ v.outl = r.outl
  BY DEF Enters, Same_, Enters_, HBut, HFields

\* The kinds of a Machine are those of any of its lockers.
LEMMA Kinds ==
  ASSUME NEW v, NEW w, v.machine = w.machine
  PROVE  /\ (H!H!hold(v) <=> H!H!hold(w)) /\ (H!H!hmac(v) <=> H!H!hmac(w)) /\ (H!H!xof(v) <=> H!H!xof(w)) /\ H!H!inv(v) = H!H!Inert(w.machine, "Invalid")
         /\ (v.policy = w.policy => (NoTag(v) <=> NoTag(w)))
  BY DEF H!H!hold, H!H!hmac, H!H!xof, H!H!inv, NoTag

-----------------------------------------------------------------------------
(* Messages and plans.                                                     *)

HJob(j) ==
  /\ j.nbits \in Nat /\ j.plan \in {"multi", "chunks", "export", "last", "last0"} /\ j.secret \in {"none", "open", "sealed"}
  /\ j.read \in {"all", "digest", "bits", "key", "verify"} /\ j.size \in Nat /\ j.size > 0
  /\ (j.plan # "last" => j.nbits % 2 = 0) /\ (j.secret # "none" => j.plan \in {"multi", "last"} /\ j.nbits = 0)

\* The messages that software asks for.
LEMMA HJobs ==
  ASSUME SoftwareAssumption, NEW j \in H!Jobs
  PROVE  HJob(j)
  <1>1. HashWindow \in Nat /\ MaxBits \in Nat
    BY DEF SoftwareAssumption
  <1>2. /\ j.nbits \in 0..MaxBits /\ j.size \in 1..HashWindow /\ j.plan \in {"multi", "chunks", "export", "last", "last0"}
        /\ j.secret \in {"none", "open", "sealed"} /\ j.read \in {"all", "digest", "bits", "key", "verify"}
    BY DEF H!Jobs
  <1>3. (j.plan # "last" => j.nbits % 2 = 0) /\ (j.secret # "none" => j.plan \in {"multi", "last"} /\ j.nbits = 0)
    BY DEF H!Jobs, BYTE
  <1>4. j.nbits \in Nat /\ j.size \in Nat /\ j.size > 0
    BY <1>1, <1>2
  <1> QED
    BY <1>2, <1>3, <1>4 DEF HJob

\* The bytes that go in before the final piece, and its bits.
HWhole(j) == H!Whole(j.nbits - H!Lb(j))
Round(n) == ((n + 1) \div 2) * 2
SecretBits(j) == IF j.secret = "none" THEN 0 ELSE SEALABLE * 2
HParts(j) ==
  /\ H!Lb(j) \in 0..4 /\ HWhole(j) \in Nat /\ j.nbits = 2 * HWhole(j) + H!Lb(j) /\ H!Lb(j) % 2 = j.nbits % 2
  /\ (H!Lb(j) = 0 <=> j.plan # "last" \/ j.nbits = 0) /\ Round(j.nbits) = 2 * HWhole(j) + Round(H!Lb(j)) /\ (j.nbits % 2 = 0 => Round(H!Lb(j)) = H!Lb(j))
  /\ SecretBits(j) \in Nat /\ H!Bits(j) = j.nbits + SecretBits(j) /\ (j.secret # "none" => j.nbits = 0) /\ SecretBits(j) % 2 = 0

\* The parts of a message make up the message.
LEMMA HPieces ==
  ASSUME SoftwareAssumption, NEW j, HJob(j)
  PROVE  HParts(j)
  <1>1. j.nbits \in Nat /\ (j.plan # "last" => j.nbits % 2 = 0) /\ (j.secret # "none" => j.nbits = 0)
    BY DEF HJob
  <1> DEFINE n == j.nbits
             l == H!Lb(j)
  <1>2. l = IF j.plan = "last" /\ n > 0 THEN ((n - 1) % 4) + 1 ELSE 0
    BY DEF H!Lb, BYTE, BYTES
  <1>3. H!Whole(n - l) = (n - l) \div 2
    BY DEF H!Whole, BYTE
  <1>4. l \in 0..4 /\ (n - l) % 2 = 0 /\ (l = 0 <=> j.plan # "last" \/ n = 0) /\ n - l \in Nat
    <2>1. CASE j.plan = "last" /\ n > 0
      <3>1. l = ((n - 1) % 4) + 1
        BY <1>2, <2>1
      <3> HIDE DEF l, n
      <3>2. n \in Nat
        BY <1>1 DEF n
      <3> QED
        BY <2>1, <3>1, <3>2
    <2>2. CASE ~ (j.plan = "last" /\ n > 0)
      <3>1. l = 0 /\ n % 2 = 0
        BY <1>1, <1>2, <2>2
      <3> QED
        BY <1>1, <2>2, <3>1
    <2> QED
      BY <2>1, <2>2
  <1> DEFINE w == (n - l) \div 2
  <1>5. HWhole(j) = w
    BY <1>3 DEF HWhole
  <1> HIDE DEF l
  <1>6. w \in Nat /\ n = 2 * w + l
    BY <1>1, <1>4
  <1> HIDE DEF w
  <1>7. l % 2 = n % 2 /\ Round(n) = 2 * w + Round(l) /\ (n % 2 = 0 => Round(l) = l)
    BY <1>4, <1>6 DEF Round
  <1>8. SecretBits(j) \in Nat /\ H!Bits(j) = n + SecretBits(j) /\ SecretBits(j) % 2 = 0
    BY <1>1 DEF SoftwareAssumption, SecretBits, H!Bits, BYTE
  <1> QED
    BY <1>1, <1>4, <1>5, <1>6, <1>7, <1>8 DEF HParts, l

-----------------------------------------------------------------------------
(* Where a plan is.                                                        *)

OddFits == job.nbits % 2 # 0 => ~ H!H!hold(was)
TagFits == ~ NoTag(was)
VerifyFits == H!H!hmac(was) /\ 1 \in was.policy /\ was.full
SecretFits == job.secret # "none" => ~ H!H!hmac(was) \/ was.full
KeyFits == job.secret = "sealed" => job.read = "key" /\ ~ key.src_out /\ (key.n > 2 \/ key.n >= SEALABLE)

\* What Fits says of a message and a plan.
LEMMA HFitsIs ==
  H!Fits <=> OddFits /\ (job.read # "verify" => TagFits) /\ (job.read = "verify" => VerifyFits) /\ SecretFits /\ KeyFits
  BY DEF H!Fits, OddFits, TagFits, NoTag, VerifyFits, SecretFits, KeyFits, H!D, BYTE, BYTES

HDead == m = H!H!Inert(was.machine, "Invalid") /\ ~ H!Fits
Total(j, w) ==
  LET n == H!Bits(j) IN (IF H!H!hmac(w) \/ (w.machine = "BLAKE2_KEY" /\ n > 0) THEN 4 ELSE 0) + (IF H!H!xof(w) THEN n ELSE Round(n))
SealIs == m.sealed <=> job.secret = "sealed"
InPlan(st) == Same_(m, was) /\ m.st = st /\ SealIs /\ SecretFits

HBegin == pc = "begin" /\ m = was /\ Same_(m, was) /\ m.st = "Ready" /\ m.sealed = FALSE /\ win = H!NoWindow /\ got = 0
HSetKey(n) == Same_(m, was) /\ m.machine = "HMAC_NIK" /\ m.st = "SetKey" /\ m.cum = n /\ m.sealed = FALSE /\ win = H!NoWindow /\ got = 0
HSecret ==
  /\ pc = "secret" /\ Same_(m, was) /\ m.st = "Absorb" /\ Held(m) /\ m.fed = 0 /\ m.sealed = FALSE /\ job.secret # "none"
  /\ left = 0 /\ win = H!NoWindow /\ got = 0
HFeed ==
  /\ pc = "feed" /\ InPlan("Absorb") /\ Held(m) /\ got = 0 /\ left \in 0..HWhole(job)
  /\ \/ win = H!NoWindow
     \/ win.n \in Nat /\ win.ks \in Nat /\ 0 < win.ks /\ win.ks < win.n /\ win.n <= left /\ m.bb \in {0, 4}
  /\ m.fed = SecretBits(job) + 2 * (HWhole(job) - left + win.ks)
HFinal ==
  /\ pc = "final" /\ InPlan("Last") /\ OddFits /\ Held(m) /\ m.lbl = H!Lb(job) /\ m.lbl # 0 /\ win = H!NoWindow /\ got = 0
  /\ m.fed = SecretBits(job) + 2 * HWhole(job)
HFed ==
  /\ pc = "fed" /\ InPlan("Last") /\ OddFits /\ m.lbl = 0 /\ win = H!NoWindow /\ got = 0 /\ m.got = 0
  /\ m.S \in Int /\ 4 * m.S + m.bb = Total(job, was)
HReads(st) == InPlan(st) /\ pc = job.read /\ OddFits /\ sum = Total(job, was)
Bound == m.outl = IF H!H!xof(was) THEN 0 ELSE 4 - m.got
HAll ==
  /\ HReads("Output") /\ job.read = "all" /\ TagFits /\ m.bb = 0 /\ Bound /\ m.got = 2 * win.ks
  /\ win = H!NoWindow \/ (H!H!xof(was) /\ win.n = job.size /\ win.ks \in Nat /\ 0 < win.ks /\ win.ks < win.n)
HDigest ==
  /\ job.read = "digest" /\ TagFits /\ win = H!NoWindow /\ m.got = got
  /\ \/ HReads("Output") /\ got \in {0, 2} /\ m.outl = 4 - got
     \/ HReads("Success") /\ got = 4 /\ KeyFits
HBits ==
  /\ job.read = "bits" /\ TagFits
  /\ \/ HReads("Output") /\ m.got = got /\ win = H!NoWindow /\ got \in Nat /\ Bound /\ (~ H!H!xof(was) => got < 4)
     \/ /\ HReads("Bits") /\ KeyFits /\ m.lbl \in Nat /\ m.got = got + 2 * win.ks /\ got \in Nat /\ Bound /\ (~ H!H!xof(was) => m.got < 4)
        /\ win = H!NoWindow \/ (win.n \in Nat /\ win.ks \in Nat /\ m.lbl # 0 /\ 0 < win.ks /\ win.ks < win.n)
     \/ HReads("Success") /\ got = 4 /\ m.got = 4 /\ KeyFits /\ win = H!NoWindow
HKey == HReads("Output") /\ job.read = "key" /\ TagFits /\ m.got = 0 /\ Bound
HVerify == HReads("Verify") /\ job.read = "verify" /\ VerifyFits /\ KeyFits
Ended_ ==
  /\ Same_(m, was) /\ m.st \in {"Success", "Failure", "Output"} /\ H!Fits
  /\ m.st \in {"Success", "Output"} /\ job.read \in {"all", "digest", "bits"} =>
       got = m.got /\ got = (IF job.read = "all" THEN H!Size(job) ELSE 2) * 2
HStop == pc = "stop" /\ (Ended_ \/ (Same_(m, was) /\ m.st = "PrivViolation"))

HPhase ==
  \/ HBegin \/ (pc = "setkey" /\ HSetKey(0) /\ m.bb = 0) \/ (pc = "keyed" /\ HSetKey(4) /\ m.haskey) \/ HSecret \/ HFeed \/ HFinal \/ HFed
  \/ HAll \/ HDigest \/ HBits \/ HKey \/ HVerify \/ HStop
HFrame == was.machine \in Hashes /\ job \in H!Jobs /\ key.n \in Nat /\ DOMAIN key = {"n", "src_out", "st", "key"}
HashInv == HFrame /\ (HDead \/ HPhase)

-----------------------------------------------------------------------------
(* The steps of a plan.                                                    *)

\* A plan that does not fit may fail.
LEMMA HDies ==
  ASSUME m.machine = was.machine, m' = H!H!inv(m), was' = was, ~ H!Fits, ~ H!Fits'
  PROVE  HDead'
  BY DEF HDead, H!H!inv

\* Whether a message fits depends on what a plan leaves.
Kept == was' = was /\ job' = job /\ key'.n = key.n /\ key'.src_out = key.src_out

\* Steps of a plan do not change whether it fits.
LEMMA FitsKept ==
  ASSUME Kept
  PROVE  H!Fits' <=> H!Fits
  BY DEF Kept, H!Fits, H!H!hold, H!H!hmac

\* Nor whether it failed because it does not.
LEMMA DeadKept ==
  ASSUME Kept, m' = H!H!Inert(was.machine, "Invalid"), ~ H!Fits
  PROVE  HDead'
  BY FitsKept DEF HDead, Kept

\* The key of an HMAC is fed.
LEMMA HSetKeys ==
  ASSUME SoftwareAssumption, HFrame, HPhase, H!SetKey
  PROVE  HPhase'
  <1>1. CASE pc = "begin" /\ m.machine = "HMAC_NIK" /\ H!H!setst("setkey", "A", 0) /\ pc' = "setkey" /\ H!Same
    <2>1. HBegin
      BY <1>1 DEF HPhase, HSecret, HFeed, HFinal, HFed, HAll, HDigest, HBits, HKey, HVerify, HStop, HReads
    <2>2. DOMAIN m = HFields /\ m.st = "Ready" /\ Same_(m, was) /\ m.sealed = FALSE /\ win = H!NoWindow /\ got = 0
      BY <2>1 DEF HBegin, Same_
    <2>3. m' = H!H!_setst(HQuiet(m), "setkey", "A", 0)
      BY <1>1, <2>2, QuietSet
    <2>4. Enters_(m, m', "SetKey", KeyFields) /\ m'.bb = 0 /\ m'.cum = 0 /\ m'.ksealed = FALSE
      BY <1>1, <2>2, <2>3, ToSetKey
    <2>5. Same_(m', was) /\ m'.st = "SetKey" /\ m'.sealed = m.sealed
      <3>1. Enters(m, m', was, "SetKey")
        BY <2>2, <2>4, KeyEnters
      <3> QED
        BY <3>1 DEF Enters
    <2>6. m'.machine = "HMAC_NIK"
      BY <1>1, <2>2, <2>5 DEF Same_
    <2> QED
      BY <1>1, <2>2, <2>4, <2>5, <2>6 DEF HPhase, HSetKey, H!Same
  <1>2. CASE pc = "setkey" /\ H!H!exec("B", H!D, 0, FALSE, TRUE) /\ pc' = "keyed" /\ H!Same
    <2>1. HSetKey(0) /\ m.bb = 0
      BY <1>2 DEF HPhase, HBegin, HSecret, HFeed, HFinal, HFed, HAll, HDigest, HBits, HKey, HVerify, HStop, HReads
    <2>2. DOMAIN m = HFields /\ m.st = "SetKey" /\ Same_(m, was) /\ m.sealed = FALSE /\ win = H!NoWindow /\ got = 0 /\ m.cum = 0 /\ m.machine = "HMAC_NIK"
      BY <2>1 DEF HSetKey, Same_
    <2> DEFINE q == HQuiet(m)
    <2>3. HBut(q, m, {"out", "halted"})
      BY <2>2, HQuiets
    <2>4. H!D = 2 /\ BYTE = 2 /\ BYTE * BYTES = 4
      BY DEF H!D, BYTE, BYTES
    <2>5. m' = H!H!_exec(q, "B", 2, 0, FALSE, TRUE)
      <3>1. H!H!MayRun(m)
        BY <2>2 DEF H!H!MayRun, H!H!GATE
      <3>2. H!H!exec("B", 2, 0, FALSE, TRUE)
        BY <1>2, <2>4
      <3>3. Runs("B", 2, 0, FALSE, TRUE)
        BY <2>2, <3>2, QuietRun
      <3> QED
        BY <3>1, <3>3 DEF Runs
    <2> HIDE DEF q
    <2>6. q.st = "SetKey" /\ q.cum = 0 /\ q.bb = 0
      BY <2>1, <2>2, <2>3 DEF HBut, HFields
    <2>7. m' = H!H!_setkey(q, 2, 0)
      BY <2>5, <2>6 DEF H!H!_exec
    <2> DEFINE a == H!H!HMIN((2 - 0) * BYTE, BYTE * BYTES - q.cum)
               b == q.cum + a = BYTE * BYTES
               x == (q.bb + a) % (BYTE * BYTES)
               y == q.cum + a
               z == q.kset + a
    <2>8. a = 4 /\ b /\ y = 4
      BY <2>4, <2>6 DEF H!H!HMIN
    <2>9. m' = [q EXCEPT !.bb = x, !.cum = y, !.kset = z, !.haskey = b]
      <3>1. ~ ((0 # 0 /\ q.bb # 0) \/ q.cum >= BYTE * BYTES)
        BY <2>4, <2>6
      <3> QED
        BY <2>7, <3>1 DEF H!H!_setkey
    <2> HIDE DEF a, b, x, y, z
    <2>10. HBut(m', m, {"out", "halted", "bb", "cum", "kset", "haskey"}) /\ m'.cum = 4 /\ m'.haskey
      BY <2>3, <2>8, <2>9 DEF HBut, HFields
    <2>11. Same_(m', was)
      BY <2>2, <2>10, StaysSame
    <2>12. m'.machine = "HMAC_NIK" /\ m'.st = "SetKey" /\ m'.sealed = FALSE
      BY <2>2, <2>10 DEF HBut, HFields
    <2> QED
      BY <1>2, <2>2, <2>10, <2>11, <2>12 DEF HPhase, HSetKey, H!Same
  <1> QED
    BY <1>1, <1>2 DEF H!SetKey

\* The phase of a plan from where it is.
LEMMA HPhaseIs ==
  ASSUME HPhase
  PROVE  /\ pc = "begin" => HBegin
         /\ pc = "setkey" => HSetKey(0) /\ m.bb = 0
         /\ pc = "keyed" => HSetKey(4) /\ m.haskey
         /\ pc = "secret" => HSecret
         /\ pc = "feed" => HFeed
         /\ pc = "final" => HFinal
         /\ pc = "fed" => HFed
         /\ pc = "all" => HAll
         /\ pc = "digest" => HDigest
         /\ pc = "bits" => HBits
         /\ pc = "key" => HKey
         /\ pc = "verify" => HVerify
         /\ pc = "stop" => HStop
  BY DEF HPhase, HBegin, HSecret, HFeed, HFinal, HFed, HAll, HDigest, HBits, HKey, HVerify, HStop, HReads, HFrame, HJob

\* What is held does not depend on the other fields.
LEMMA HeldOn ==
  ASSUME NEW r, NEW v, NEW F, Held(r), HBut(v, r, F), {"S", "bb", "fed", "cum", "got", "machine"} \cap F = {}
  PROVE  Held(v)
  <1>1. v.S = r.S /\ v.bb = r.bb /\ v.fed = r.fed /\ v.cum = r.cum /\ v.got = r.got /\ v.machine = r.machine
    BY DEF HBut, HFields
  <1>2. (H!H!hold(v) <=> H!H!hold(r)) /\ H!H!Before(v) = H!H!Before(r)
    BY <1>1 DEF H!H!hold, H!H!hmac, H!H!Before
  <1> QED
    BY <1>1, <1>2 DEF Held

\* The message is begun.
LEMMA HAbsorb ==
  ASSUME SoftwareAssumption, HFrame, HPhase, H!Absorb
  PROVE  HPhase'
  <1>1. HJob(job) /\ HParts(job)
    BY HJobs, HPieces DEF HFrame
  <1>2. Same_(m, was) /\ m.sealed = FALSE /\ win = H!NoWindow /\ got = 0 /\ ((m.st = "Ready" /\ m.machine # "HMAC_NIK") \/ (m.st = "SetKey" /\ m.cum = 4 /\ m.haskey))
    <2>1. CASE pc = "begin"
      BY <2>1, HPhaseIs DEF H!Absorb, HBegin
    <2>2. CASE pc = "keyed"
      BY <2>2, HPhaseIs DEF H!Absorb, HSetKey
    <2> QED
      BY <2>1, <2>2 DEF H!Absorb
  <1>3. DOMAIN m = HFields /\ m.st \notin {"Invalid", "Inert"}
    BY <1>2 DEF Same_
  <1>4. m' = H!H!_setst(HQuiet(m), "absorb", "A", 0)
    BY <1>3, QuietSet DEF H!Absorb
  <1>5. Enters_(m, m', "Absorb", MessageFields) /\ Held(m') /\ m'.fed = 0
    BY <1>2, <1>3, <1>4, ToAbsorb
  <1>6. Same_(m', was) /\ m'.st = "Absorb" /\ m'.sealed = FALSE
    BY <1>2, <1>5, MessageEnters DEF Enters
  <1>7. left' = HWhole(job) /\ HWhole(job) \in Nat
    BY <1>1 DEF H!Absorb, HWhole, HParts
  <1>8. job' = job /\ was' = was /\ win' = H!NoWindow /\ win'.ks = 0 /\ got' = 0
    BY <1>2 DEF H!Absorb, H!NoWindow
  <1>9. CASE job.secret = "none"
    <2>1. SecretBits(job) = 0
      BY <1>9 DEF SecretBits
    <2>2. pc' = "feed"
      BY <1>9 DEF H!Absorb
    <2>3. (InPlan("Absorb"))'
      BY <1>6, <1>8, <1>9 DEF InPlan, SealIs, SecretFits
    <2>4. PICK w : w = HWhole(job)
      OBVIOUS
    <2>5. PICK s : s = SecretBits(job)
      OBVIOUS
    <2>6. HWhole(job') = w /\ SecretBits(job') = s
      BY <1>8, <2>4, <2>5
    <2>7. m'.fed = s + 2 * (w - left' + win'.ks) /\ left' \in 0..w
      BY <1>5, <1>7, <1>8, <2>1, <2>4, <2>5
    <2>8. HFeed'
      BY <1>5, <1>8, <2>2, <2>3, <2>6, <2>7 DEF HFeed
    <2> QED
      BY <2>8 DEF HPhase
  <1>10. CASE job.secret # "none"
    <2>1. left' = 0
      BY <1>1, <1>7, <1>10 DEF HParts
    <2>2. pc' = "secret"
      BY <1>10 DEF H!Absorb
    <2>3. HSecret'
      BY <1>5, <1>6, <1>8, <1>10, <2>1, <2>2 DEF HSecret
    <2> QED
      BY <2>3 DEF HPhase
  <1> QED
    BY <1>9, <1>10

\* A secret is fed as the message, open or sealed.
LEMMA HSecrets ==
  ASSUME SoftwareAssumption, HFrame, HPhase, NEW fits \in BOOLEAN, H!Secret(fits)
  PROVE  HPhase' \/ HDead'
  <1>1. HJob(job) /\ HParts(job)
    BY HJobs, HPieces DEF HFrame
  <1>2. pc = "secret" /\ HSecret
    BY HPhaseIs DEF H!Secret
  <1>3. Same_(m, was) /\ m.st = "Absorb" /\ Held(m) /\ m.fed = 0 /\ m.sealed = FALSE /\ job.secret # "none" /\ left = 0 /\ win = H!NoWindow /\ got = 0
    BY <1>2 DEF HSecret
  <1>4. DOMAIN m = HFields
    BY <1>3 DEF Same_
  <1>5. job' = job /\ was' = was /\ win' = win /\ got' = got /\ left' = left /\ key' = key /\ pc' = IF ~ fits THEN "stop" ELSE "feed"
    BY DEF H!Secret, H!Same
  <1> DEFINE q == HQuiet(m)
             sealed == job.secret = "sealed"
             n == SEALABLE
  <1>6. HBut(q, m, {"out", "halted"})
    BY <1>4, HQuiets
  <1>7. q = [m EXCEPT !.out = "nothing", !.halted = H!H!NotHalted]
    BY DEF HQuiet, Still, H!H!NotHalted
  <1>8. m' = IF H!H!hmac(m) /\ ~ m.full THEN H!H!inv(m)
             ELSE IF ~ fits THEN [q EXCEPT !.st = "PrivViolation"]
             ELSE [H!H!_vli(q, n * BYTE) EXCEPT !.fed = @ + n * BYTE, !.sealed = H!H!Seal(@, sealed), !.mseal = @ \/ sealed]
    <2>1. ~ H!H!inert(m) /\ ~ (n < n) /\ m.st # "SetKey"
      BY <1>3 DEF H!H!inert, SoftwareAssumption
    <2>2. H!H!derive(n, TRUE, FALSE, sealed, fits)
      BY DEF H!Secret
    <2> HIDE DEF sealed
    <2> QED
      BY <1>3, <1>7, <2>1, <2>2 DEF H!H!derive
  <1>9. CASE H!H!hmac(m) /\ ~ m.full
    <2>1. ~ SecretFits /\ ~ H!Fits
      BY <1>3, <1>9, HFitsIs DEF SecretFits, Same_, H!H!hmac
    <2>2. ~ H!Fits' /\ m' = H!H!inv(m) /\ m.machine = was.machine
      BY <1>3, <1>5, <1>8, <1>9, <2>1, FitsKept DEF Kept, Same_
    <2> QED
      BY <1>5, <2>1, <2>2, HDies
  <1>10. CASE ~ (H!H!hmac(m) /\ ~ m.full) /\ ~ fits
    <2>1. m' = [q EXCEPT !.st = "PrivViolation"]
      BY <1>8, <1>10
    <2> HIDE DEF q
    <2>2. HBut(m', m, {"out", "halted", "st"}) /\ m'.st = "PrivViolation"
      BY <1>6, <2>1 DEF HBut, HFields
    <2>3. Same_(m', was)
      BY <1>3, <2>2, StaysSame
    <2>4. HStop'
      BY <1>5, <1>10, <2>2, <2>3 DEF HStop
    <2> QED
      BY <2>4 DEF HPhase
  <1>11. CASE ~ (H!H!hmac(m) /\ ~ m.full) /\ fits
    <2> DEFINE a == n * BYTE
               u == H!H!_vli(q, a)
               x == u.fed + a
               y == H!H!Seal(u.sealed, sealed)
               z == u.mseal \/ sealed
    <2>1. m' = [u EXCEPT !.fed = x, !.sealed = y, !.mseal = z]
      BY <1>8, <1>11
    <2>2. a \in Nat /\ a % 2 = 0 /\ a = 2 * SEALABLE
      BY DEF SoftwareAssumption, BYTE
    <2> HIDE DEF q, a, sealed
    <2>3. DOMAIN q = HFields /\ Held(q) /\ q.fed = 0 /\ q.sealed = FALSE /\ Same_(q, was) /\ q.st = "Absorb"
      <3>1. DOMAIN q = HFields /\ q.fed = 0 /\ q.sealed = FALSE /\ q.st = "Absorb"
        BY <1>3, <1>6 DEF HBut, HFields
      <3>2. Same_(q, was)
        BY <1>3, <1>6, StaysSame
      <3>3. Held(q)
        BY <1>3, <1>6, HeldOn
      <3> QED
        BY <3>1, <3>2, <3>3
    <2>4. HBut(u, q, {"cum", "S", "bb"})
      BY <2>2, <2>3, Absorbs_ DEF Held
    <2> HIDE DEF u, x, y, z
    <2>5. u.fed = 0 /\ u.sealed = FALSE
      BY <2>3, <2>4 DEF HBut, HFields
    <2>6. DOMAIN u = HFields
      BY <2>4 DEF HBut
    <2>7. HBut(m', u, {"fed"} \cup {"sealed", "mseal"}) /\ m'.fed = x /\ m'.sealed = y
      BY <2>1, <2>6 DEF HBut, HFields
    <2>8. x = a /\ y = sealed
      BY <2>2, <2>5 DEF x, y, H!H!Seal, sealed
    <2>9. m'.fed = q.fed + a
      BY <2>2, <2>3, <2>7, <2>8
    <2>10. Fed_(q, m', a, {"sealed", "mseal"})
      BY <2>2, <2>3, <2>7, <2>9, FedMore DEF u
    <2>11. Same_(m', was) /\ m'.st = "Absorb" /\ Held(m')
      BY <2>3, <2>10 DEF Fed_, Same_, HBut, HFields
    <2>12. HWhole(job) = 0 /\ SecretBits(job) = a
      BY <1>1, <1>3, <2>2 DEF HParts, SecretBits
    <2>13. SecretFits
      BY <1>3, <1>11 DEF SecretFits, Same_, H!H!hmac
    <2>14. (InPlan("Absorb"))'
      BY <1>5, <2>7, <2>8, <2>11, <2>13 DEF InPlan, SealIs, SecretFits, sealed
    <2>15. HWhole(job') = 0 /\ SecretBits(job') = a /\ win'.ks = 0 /\ left' = 0 /\ m'.fed = a
      BY <1>3, <1>5, <2>7, <2>8, <2>12 DEF H!NoWindow
    <2>16. m'.fed = a + 2 * (0 - left' + win'.ks) /\ left' \in 0..0
      BY <2>2, <2>15
    <2>17. HFeed'
      BY <1>3, <1>5, <1>11, <2>11, <2>14, <2>15, <2>16 DEF HFeed
    <2> QED
      BY <2>17 DEF HPhase
  <1> QED
    BY <1>9, <1>10, <1>11

\* A window of n bytes is fed from at on, up to a halt.
Upto(r, n, at, halt) == IF halt THEN H!H!UpToHalt(r, (n - at) * 2) ELSE (n - at) * 2
Takes(r, v, n, at, a) ==
  /\ Fed_(r, v, a, {"halted"}) /\ a > 0 /\ a % 2 = 0 /\ at + (a \div 2) <= n
  /\ v.halted = (IF at + (a \div 2) < n THEN [n |-> n, pos |-> at + (a \div 2)] ELSE Still)
  /\ at + (a \div 2) < n => v.bb \in {0, 4}

\* kl.exec over a window of the message, up to a halt.
LEMMA Feeding ==
  ASSUME NEW r, DOMAIN r = HFields, Held(r), NEW n \in Nat, NEW at \in Nat, at < n, at # 0 => r.bb \in {0, 4}, NEW halt \in BOOLEAN,
         NEW a, a = Upto(r, n, at, halt)
  PROVE  Takes(r, H!H!_absorb(r, n, at, halt), n, at, a)
  <1>1. r.bb \in {0, 2, 4} /\ (r.bb = 4 => H!H!hold(r)) /\ r.S \in Int /\ r.bb \in Nat /\ r.cum \in Nat /\ r.fed \in Nat
    BY DEF Held
  <1> DEFINE lim == (n - at) * 2
             b == 4 - (IF r.bb = 4 THEN 0 ELSE r.bb)
  <1>2. lim \in Nat /\ lim > 0 /\ lim % 2 = 0 /\ b \in {2, 4} /\ b = 4 - (IF r.bb = 4 THEN 0 ELSE r.bb)
    BY <1>1
  <1>3. a = IF halt /\ ~ (lim < b) THEN b ELSE lim
    <2>1. H!H!UpToHalt(r, lim) = IF lim < b THEN lim ELSE b
      BY DEF H!H!UpToHalt, H!H!HMIN, BYTE, BYTES
    <2>2. a = IF halt THEN H!H!UpToHalt(r, lim) ELSE lim
      BY DEF Upto
    <2> HIDE DEF lim, b
    <2> QED
      BY <2>1, <2>2
  <1>4. n = at + (lim \div 2)
    OBVIOUS
  <1> HIDE DEF b, lim
  <1>5. a \in Nat /\ a % 2 = 0 /\ a > 0 /\ a <= lim /\ (a < lim => a = b)
    BY <1>2, <1>3
  <1> DEFINE e == at + (a \div 2)
             u == H!H!_vli(r, a)
             h == IF e < n THEN [n |-> n, pos |-> e] ELSE Still
             t == [u EXCEPT !.halted = h]
             f == u.fed + a
             v == H!H!_absorb(r, n, at, halt)
  <1>6. e \in Nat /\ e > at /\ e <= n /\ (e < n => a = b) /\ (~ (e < n) => a = lim)
    <2> DEFINE c == a \div 2
    <2>1. c \in Nat /\ c > 0 /\ a = 2 * c
      BY <1>5
    <2> DEFINE d == lim \div 2
    <2>2. d \in Nat /\ lim = 2 * d /\ n = at + d
      BY <1>2, <1>4
    <2> HIDE DEF c, d
    <2>3. e = at + c
      BY DEF c, e
    <2> HIDE DEF e
    <2> QED
      BY <1>5, <2>1, <2>2, <2>3
  <1>7. (at * 2 + a) \div 2 = e
    BY <1>5
  <1> HIDE DEF e
  <1>8. H!H!Halt(u, n, at, a) = t
    BY <1>7 DEF H!H!Halt, Still, H!H!NotHalted, BYTE
  <1>9. HBut(u, r, {"cum", "S", "bb"})
    BY <1>1, <1>5, Absorbs_
  <1> HIDE DEF u
  <1>10. DOMAIN u = HFields /\ u.fed = r.fed
    BY <1>9 DEF HBut, HFields
  <1>11. t.halted = h /\ t.fed = u.fed /\ DOMAIN t = HFields
    BY <1>10 DEF HFields
  <1>12. v = [t EXCEPT !.fed = f]
    <2>1. ~ (at # 0 /\ ~ (r.bb = 0 \/ (H!H!hold(r) /\ r.bb = 4)))
      BY <1>1
    <2> DEFINE g == IF t.halted.pos > 0 THEN (t.halted.pos - at) * 2 ELSE lim
    <2>2. v = [t EXCEPT !.fed = @ + g]
      <3>1. lim = (n - at) * BYTE /\ BYTE = 2 /\ BYTE * BYTES = 4
        BY DEF lim, BYTE, BYTES
      <3>2. a = IF halt THEN H!H!UpToHalt(r, lim) ELSE lim
        BY DEF Upto, lim
      <3> HIDE DEF lim
      <3>3. v = [H!H!Halt(u, n, at, a) EXCEPT !.fed = @ + (IF H!H!Halt(u, n, at, a).halted.pos > 0 THEN (H!H!Halt(u, n, at, a).halted.pos - at) * BYTE ELSE lim)]
        BY <2>1, <3>1, <3>2 DEF H!H!_absorb, u
      <3> HIDE DEF v, t
      <3> QED
        BY <1>8, <3>1, <3>3
    <2>3. g = a
      <3>1. CASE e < n
        <4>1. t.halted.pos = e
          BY <1>11, <3>1
        <4>2. (e - at) * 2 = a /\ e > 0
          BY <1>5, <1>6 DEF e
        <4> HIDE DEF t
        <4> QED
          BY <4>1, <4>2
      <3>2. CASE ~ (e < n)
        <4>1. t.halted.pos = 0
          BY <1>11, <3>2 DEF Still
        <4> HIDE DEF t
        <4> QED
          BY <1>6, <3>2, <4>1
      <3> QED
        BY <3>1, <3>2
    <2> HIDE DEF g, v
    <2>4. [t EXCEPT !.fed = @ + g] = [t EXCEPT !.fed = f]
      <3>1. t.fed + g = f
        BY <1>11, <2>3
      <3> HIDE DEF t, f
      <3> QED
        BY <3>1
    <2> QED
      BY <2>2, <2>4
  <1> HIDE DEF h, f, v
  <1>13. HBut(v, u, {"fed"} \cup {"halted"}) /\ v.halted = h /\ v.fed = f
    BY <1>10, <1>12 DEF HBut, HFields
  <1>14. f = r.fed + a
    BY <1>10 DEF f
  <1>15. Fed_(r, v, a, {"halted"})
    BY <1>5, <1>13, <1>14, FedMore DEF u
  <1>16. e < n => v.bb \in {0, 4}
    <2>1. SUFFICES ASSUME e < n PROVE v.bb \in {0, 4}
      OBVIOUS
    <2>2. v.bb = Ends(r, r.bb + a) /\ a = b
      BY <1>6, <1>15, <2>1 DEF Fed_
    <2>3. r.bb + a \in {4, 8} /\ (r.bb + a = 8 => H!H!hold(r))
      BY <1>1, <1>2, <2>2
    <2> DEFINE p == r.bb + a
    <2> HIDE DEF p
    <2>4. Ends(r, p) \in {0, 4}
      BY <2>3 DEF p, Ends
    <2> QED
      BY <2>2, <2>4 DEF p
  <1> QED
    BY <1>5, <1>6, <1>13, <1>15, <1>16 DEF Takes, v, h, e

\* The message is fed in windows, or in chunks.
LEMMA HRun ==
  ASSUME SoftwareAssumption, HFrame, HPhase, NEW n \in Nat, NEW halt \in BOOLEAN, H!run(n, halt)
  PROVE  HPhase'
  <1>1. HJob(job) /\ HParts(job)
    BY HJobs, HPieces DEF HFrame
  <1>2. pc = "feed" /\ HFeed
    BY HPhaseIs DEF H!run
  <1>3. /\ Same_(m, was) /\ m.st = "Absorb" /\ Held(m) /\ got = 0 /\ SealIs /\ SecretFits
        /\ m.fed = SecretBits(job) + 2 * (HWhole(job) - left + win.ks)
    BY <1>2 DEF HFeed, InPlan
  <1> DEFINE at == win.ks
  <1>4. at \in Nat /\ at < n /\ n <= left /\ left \in Nat /\ left <= HWhole(job) /\ (at # 0 => m.bb \in {0, 4}) /\ HWhole(job) \in Nat /\ SecretBits(job) \in Nat
    <2>1. left \in Nat /\ left <= HWhole(job) /\ HWhole(job) \in Nat /\ SecretBits(job) \in Nat
      BY <1>1, <1>2 DEF HFeed, HParts
    <2>2. CASE win = H!NoWindow
      <3>1. win.n = 0 /\ at = 0
        BY <2>2 DEF H!NoWindow
      <3> QED
        BY <2>1, <3>1 DEF H!run
    <2>3. CASE win # H!NoWindow
      <3>1. win.n \in Nat /\ at \in Nat /\ 0 < at /\ at < win.n /\ win.n <= left /\ m.bb \in {0, 4}
        BY <1>2, <2>3 DEF HFeed
      <3>2. n = win.n
        BY <3>1 DEF H!run
      <3> QED
        BY <2>1, <3>1, <3>2
    <2> QED
      BY <2>2, <2>3
  <1>5. job' = job /\ was' = was /\ got' = got /\ key' = key /\ pc' = pc
    BY DEF H!run
  <1>6. DOMAIN m = HFields
    BY <1>3 DEF Same_
  <1> DEFINE q == HQuiet(m)
             a == Upto(q, n, at, halt)
  <1>7. HBut(q, m, {"out", "halted"})
    BY <1>6, HQuiets
  <1>8. m' = H!H!_exec(q, "B", n, at, halt, TRUE)
    <2>1. H!H!MayRun(m)
      BY <1>3 DEF H!H!MayRun, H!H!GATE
    <2>2. H!H!exec("B", n, at, halt, TRUE)
      BY DEF H!run
    <2>3. Runs("B", n, at, halt, TRUE)
      BY <1>3, <1>6, <2>2, QuietRun
    <2> QED
      BY <2>1, <2>3 DEF Runs
  <1> HIDE DEF q, at
  <1>9. DOMAIN q = HFields /\ q.st = "Absorb" /\ q.bb = m.bb /\ Held(q) /\ Same_(q, was) /\ q.sealed = m.sealed /\ q.fed = m.fed
    <2>1. DOMAIN q = HFields /\ q.st = "Absorb" /\ q.bb = m.bb /\ q.sealed = m.sealed /\ q.fed = m.fed
      BY <1>3, <1>7 DEF HBut, HFields
    <2>2. Same_(q, was)
      BY <1>3, <1>7, StaysSame
    <2>3. Held(q)
      BY <1>3, <1>7, HeldOn
    <2> QED
      BY <2>1, <2>2, <2>3
  <1>10. m' = H!H!_absorb(q, n, at, halt)
    <2>1. ~ (at >= n)
      BY <1>4
    <2> QED
      BY <1>8, <1>9, <2>1 DEF H!H!_exec
  <1> HIDE DEF a
  <1>11. Takes(q, m', n, at, a)
    <2>1. a = Upto(q, n, at, halt)
      BY DEF a
    <2> QED
      BY <1>4, <1>9, <1>10, <2>1, Feeding
  <1> DEFINE e == at + (a \div 2)
  <1>12. /\ HBut(m', q, {"cum", "S", "bb", "fed"} \cup {"halted"}) /\ m'.fed = m.fed + a /\ Held(m') /\ a > 0 /\ a % 2 = 0 /\ e <= n
         /\ m'.halted = (IF e < n THEN [n |-> n, pos |-> e] ELSE Still) /\ (e < n => m'.bb \in {0, 4}) /\ a \in Int
    <2>1. a \in Int
      BY <1>4, <1>9 DEF a, Upto, H!H!UpToHalt, H!H!HMIN, Held, BYTE, BYTES
    <2> QED
      BY <1>9, <1>11, <2>1 DEF Takes, Fed_
  <1>13. a = 2 * (a \div 2) /\ a \div 2 \in Nat /\ a \div 2 > 0
    BY <1>12
  <1>14. Same_(m', was) /\ m'.st = "Absorb" /\ m'.sealed = m.sealed
    BY <1>9, <1>12 DEF Same_, HBut, HFields
  <1>15. (InPlan("Absorb"))'
    BY <1>3, <1>5, <1>14 DEF InPlan, SealIs, SecretFits
  <1> DEFINE c == a \div 2
  <1>16. e = at + c
    OBVIOUS
  <1> HIDE DEF e, c
  <1>17. a = 2 * c /\ c \in Nat /\ c > 0
    BY <1>13 DEF c
  <1> DEFINE w == HWhole(job)
             s == SecretBits(job)
  <1>18. HWhole(job') = w /\ SecretBits(job') = s
    BY <1>5
  <1>19. w \in Nat /\ s \in Nat /\ left <= w /\ m'.fed = s + 2 * (w - left + at) + a
    BY <1>3, <1>4, <1>12 DEF at
  <1> HIDE DEF w, s
  <1>20. CASE e < n
    <2>1. m'.halted = [n |-> n, pos |-> e]
      BY <1>12, <1>20
    <2>2. m'.halted.pos # 0 /\ m'.halted.pos = e /\ e \in Nat /\ 0 < e
      BY <1>4, <1>16, <1>17, <2>1
    <2>3. win' = [n |-> n, ks |-> e] /\ left' = left
      BY <2>2 DEF H!run, H!Resume
    <2>4. win'.n = n /\ win'.ks = e
      BY <2>3
    <2>5. win'.n \in Nat /\ win'.ks \in Nat /\ 0 < win'.ks /\ win'.ks < win'.n /\ win'.n <= left' /\ left' \in 0..w
      BY <1>4, <1>19, <1>20, <2>2, <2>3, <2>4
    <2>6. m'.fed = s + 2 * (w - left' + win'.ks)
      BY <1>4, <1>16, <1>17, <1>19, <2>3, <2>4
    <2>7. HFeed'
      BY <1>2, <1>3, <1>5, <1>12, <1>15, <1>18, <1>20, <2>5, <2>6 DEF HFeed
    <2> QED
      BY <2>7 DEF HPhase
  <1>21. CASE ~ (e < n)
    <2>1. m'.halted.pos = 0
      BY <1>12, <1>21 DEF Still
    <2>2. win' = H!NoWindow /\ left' = left - n /\ e = n
      <3>1. e \in Int /\ e <= n
        BY <1>4, <1>12, <1>16, <1>17
      <3> QED
        BY <1>21, <2>1, <3>1 DEF H!run
    <2>3. win'.ks = 0
      BY <2>2 DEF H!NoWindow
    <2>4. m'.fed = s + 2 * (w - left' + win'.ks) /\ left' \in 0..w
      BY <1>4, <1>16, <1>17, <1>19, <2>2, <2>3
    <2>5. HFeed'
      BY <1>2, <1>3, <1>5, <1>12, <1>15, <1>18, <2>2, <2>4 DEF HFeed
    <2> QED
      BY <2>5 DEF HPhase
  <1> QED
    BY <1>20, <1>21

\* The locker is moved while the message is fed.
LEMMA HExport ==
  ASSUME HFrame, HPhase, H!Export
  PROVE  HPhase'
  <1>1. pc = "feed" /\ HFeed /\ H!H!import_ /\ UNCHANGED pc /\ H!Same
    BY HPhaseIs DEF H!Export
  <1>2. Same_(m, was) /\ m.st = "Absorb" /\ Held(m) /\ SealIs /\ SecretFits
    BY <1>1 DEF HFeed, InPlan
  <1>3. m' = [m EXCEPT !.out = "nothing"]
    BY <1>1, <1>2 DEF H!H!import_, H!H!meta_ok, Same_
  <1>4. HBut(m', m, {"out"})
    BY <1>2, <1>3 DEF Same_, HBut, HFields
  <1>5. Same_(m', was)
    BY <1>2, <1>4, StaysSame
  <1>6. Held(m')
    BY <1>2, <1>4, HeldOn
  <1>7. m'.st = "Absorb" /\ m'.sealed = m.sealed /\ m'.fed = m.fed /\ m'.bb = m.bb
    BY <1>2, <1>4 DEF HBut, HFields
  <1>8. (InPlan("Absorb"))'
    BY <1>1, <1>2, <1>5, <1>7 DEF InPlan, SealIs, SecretFits, H!Same
  <1> DEFINE w == HWhole(job)
             s == SecretBits(job)
  <1>9. HWhole(job') = w /\ SecretBits(job') = s
    BY <1>1 DEF H!Same
  <1>10. /\ m.fed = s + 2 * (w - left + win.ks) /\ left \in 0..w
         /\ win = H!NoWindow \/ (win.n \in Nat /\ win.ks \in Nat /\ 0 < win.ks /\ win.ks < win.n /\ win.n <= left /\ m.bb \in {0, 4})
    BY <1>1 DEF HFeed
  <1> HIDE DEF w, s
  <1>11. pc' = pc /\ left' = left /\ win' = win /\ got' = got
    BY <1>1 DEF H!Same
  <1>12. got = 0
    BY <1>1 DEF HFeed
  <1>13. HFeed'
    BY <1>1, <1>6, <1>7, <1>8, <1>9, <1>10, <1>11, <1>12 DEF HFeed
  <1> QED
    BY <1>13 DEF HPhase

\* A plan that feeds no final piece, or an empty one, has fed all of the message.
LEMMA AllFed ==
  ASSUME SoftwareAssumption, HFrame, HFeed, left = 0, H!Lb(job) = 0
  PROVE  /\ win = H!NoWindow /\ 4 * m.S + m.bb = Total(job, was) /\ (job.nbits % 2 = 0) /\ m.got = 0
         /\ m.fed = SecretBits(job) + 2 * HWhole(job)
  <1>1. HJob(job) /\ HParts(job)
    BY HJobs, HPieces DEF HFrame
  <1>2. Same_(m, was) /\ Held(m) /\ m.fed = SecretBits(job) + 2 * (HWhole(job) - left + win.ks)
    BY DEF HFeed, InPlan
  <1>3. win = H!NoWindow
    BY DEF HFeed
  <1>4. win.ks = 0
    BY <1>3 DEF H!NoWindow
  <1> DEFINE w == HWhole(job)
             s == SecretBits(job)
             n == H!Bits(job)
  <1>5. w \in Nat /\ s \in Nat /\ s % 2 = 0 /\ n = job.nbits + s /\ job.nbits = 2 * w
    BY <1>1 DEF HParts
  <1>6. m.fed = s + 2 * (w - left + win.ks)
    BY <1>2
  <1> HIDE DEF w, s, n
  <1>7. m.fed = s + 2 * w /\ m.fed = n /\ n \in Nat /\ job.nbits % 2 = 0 /\ n % 2 = 0
    BY <1>4, <1>5, <1>6
  <1>8. Round(n) = n
    BY <1>7 DEF Round
  <1>9. m.machine = was.machine
    BY <1>2 DEF Same_
  <1>10. Total(job, was) = H!H!Before(m) + n
    <2>1. (H!H!hmac(m) <=> H!H!hmac(was)) /\ (H!H!xof(m) <=> H!H!xof(was)) /\ H!H!Before(m) = IF H!H!hmac(was) \/ (was.machine = "BLAKE2_KEY" /\ n > 0) THEN 4 ELSE 0
      BY <1>7, <1>9 DEF H!H!hmac, H!H!xof, H!H!Before, BYTE, BYTES
    <2>2. Total(job, was) = (IF H!H!hmac(was) \/ (was.machine = "BLAKE2_KEY" /\ n > 0) THEN 4 ELSE 0) + (IF H!H!xof(was) THEN n ELSE Round(n))
      BY DEF Total, n
    <2> QED
      BY <1>8, <2>1, <2>2
  <1>11. 4 * m.S + m.bb = H!H!Before(m) + m.fed /\ m.got = 0
    BY <1>2 DEF Held
  <1> QED
    BY <1>3, <1>7, <1>10, <1>11 DEF w, s

\* The final piece is announced, where the Machine takes it.
LEMMA HAnnounce ==
  ASSUME SoftwareAssumption, HFrame, HPhase, pc = "feed", left = 0, job.plan \in {"last", "last0"},
         H!H!setst("last", IF H!Lb(job) # 0 THEN "B" ELSE "A", H!Lb(job)), pc' = (IF H!Lb(job) # 0 THEN "final" ELSE "fed"), H!Same
  PROVE  HPhase' \/ HDead'
  <1>1. HJob(job) /\ HParts(job)
    BY HJobs, HPieces DEF HFrame
  <1>2. HFeed
    BY HPhaseIs
  <1>3. Same_(m, was) /\ m.st = "Absorb" /\ Held(m) /\ SealIs /\ SecretFits /\ got = 0 /\ m.fed = SecretBits(job) + 2 * (HWhole(job) - left + win.ks)
    BY <1>2 DEF HFeed, InPlan
  <1>4. win = H!NoWindow /\ win.ks = 0
    BY <1>2 DEF HFeed, H!NoWindow
  <1>5. DOMAIN m = HFields
    BY <1>3 DEF Same_
  <1>6. PICK x : x = H!Lb(job)
    OBVIOUS
  <1>7. x \in 0..4 /\ x % 2 = job.nbits % 2
    BY <1>1, <1>6 DEF HParts
  <1> DEFINE form == IF x # 0 THEN "B" ELSE "A"
  <1>8. form \in {"A", "B"}
    OBVIOUS
  <1>9. H!H!setst("last", form, x)
    BY <1>6
  <1> HIDE DEF form
  <1>10. m' = H!H!_setst(HQuiet(m), "last", form, x)
    BY <1>3, <1>5, <1>9, QuietSet
  <1>11. IF x % 2 # 0 /\ H!H!hold(m) THEN m' = H!H!inv(m) ELSE Enters_(m, m', "Last", {"lbl"}) /\ m'.lbl = x
    BY <1>3, <1>5, <1>7, <1>8, <1>10, ToLast
  <1>12. H!H!hold(m) <=> H!H!hold(was)
    BY <1>3 DEF Same_, H!H!hold
  <1>13. CASE x % 2 # 0 /\ H!H!hold(m)
    <2>1. ~ H!Fits
      BY <1>7, <1>12, <1>13, HFitsIs DEF OddFits
    <2>2. Kept
      BY DEF Kept, H!Same
    <2>3. m' = H!H!inv(m) /\ m.machine = was.machine
      BY <1>3, <1>11, <1>13 DEF Same_
    <2>4. ~ H!Fits'
      BY <2>1, <2>2, FitsKept
    <2> QED
      BY <2>1, <2>2, <2>3, <2>4, HDies DEF Kept
  <1>14. CASE ~ (x % 2 # 0 /\ H!H!hold(m))
    <2>1. OddFits
      BY <1>7, <1>12, <1>14 DEF OddFits
    <2>2. Enters_(m, m', "Last", {"lbl"}) /\ m'.lbl = x
      BY <1>11, <1>14
    <2>3. Enters(m, m', was, "Last") /\ m'.fed = m.fed /\ m'.got = m.got /\ m'.S = m.S /\ m'.bb = m.bb /\ m'.cum = m.cum
      BY <1>3, <2>2, LengthEnters
    <2>4. (InPlan("Last"))' /\ OddFits'
      BY <1>3, <2>1, <2>3 DEF InPlan, SealIs, SecretFits, Enters, OddFits, H!Same
    <2>5. job' = job /\ was' = was /\ win' = H!NoWindow /\ got' = 0
      BY <1>3, <1>4 DEF H!Same
    <2>6. CASE x # 0
      <3>1. Held(m')
        <4>1. HBut(m', m, {"st", "out", "halted"} \cup {"lbl"})
          BY <2>2 DEF Enters_
        <4>2. {"S", "bb", "fed", "cum", "got", "machine"} \cap ({"st", "out", "halted"} \cup {"lbl"}) = {}
          OBVIOUS
        <4> QED
          BY <1>3, <4>1, <4>2, HeldOn
      <3>2. HWhole(job) \in Nat
        BY <1>1 DEF HParts
      <3>3. m'.fed = SecretBits(job) + 2 * HWhole(job)
        BY <1>3, <1>4, <2>3, <3>2
      <3>4. H!Lb(job') = x /\ SecretBits(job') = SecretBits(job) /\ HWhole(job') = HWhole(job)
        BY <1>6, <2>5
      <3>5. pc' = "final"
        BY <1>6, <2>6
      <3>6. HFinal'
        BY <2>2, <2>4, <2>5, <2>6, <3>1, <3>3, <3>4, <3>5 DEF HFinal
      <3> QED
        BY <3>6 DEF HPhase
    <2>7. CASE x = 0
      <3>1. 4 * m.S + m.bb = Total(job, was) /\ m.got = 0
        BY <1>2, <1>6, <2>7, AllFed
      <3>2. pc' = "fed"
        BY <1>6, <2>7
      <3>3. Total(job', was') = Total(job, was)
        BY <2>5
      <3>4. m'.S \in Int /\ 4 * m'.S + m'.bb = Total(job', was')
        BY <1>3, <2>3, <3>1, <3>3 DEF Held
      <3>5. HFed'
        BY <2>2, <2>3, <2>4, <2>5, <2>7, <3>1, <3>2, <3>4 DEF HFed
      <3> QED
        BY <3>5 DEF HPhase
    <2> QED
      BY <2>6, <2>7
  <1> QED
    BY <1>13, <1>14

\* The final piece is fed.
LEMMA HLast ==
  ASSUME SoftwareAssumption, HFrame, HPhase, pc = "final", H!H!exec("B", (H!Lb(job) + BYTE - 1) \div BYTE, 0, FALSE, TRUE), pc' = "fed", H!Same
  PROVE  HPhase'
  <1>1. HJob(job) /\ HParts(job)
    BY HJobs, HPieces DEF HFrame
  <1>2. HFinal
    BY HPhaseIs
  <1>3. /\ Same_(m, was) /\ m.st = "Last" /\ Held(m) /\ SealIs /\ SecretFits /\ OddFits /\ m.lbl = H!Lb(job) /\ m.lbl # 0 /\ got = 0 /\ win = H!NoWindow
        /\ m.fed = SecretBits(job) + 2 * HWhole(job)
    BY <1>2 DEF HFinal, InPlan
  <1>4. PICK x : x = H!Lb(job)
    OBVIOUS
  <1>5. x \in 1..4 /\ x % 2 = job.nbits % 2
    BY <1>1, <1>3, <1>4 DEF HParts
  <1>6. DOMAIN m = HFields
    BY <1>3 DEF Same_
  <1> DEFINE q == HQuiet(m)
             n == (x + 1) \div 2
             a == IF H!H!hold(was) \/ H!H!xof(was) THEN x ELSE Round(x)
  <1>7. HBut(q, m, {"out", "halted"})
    BY <1>6, HQuiets
  <1>8. n \in Nat /\ n > 0 /\ 2 * n = Round(x) /\ Round(x) >= x /\ Round(x) \in Nat
    BY <1>5 DEF Round
  <1>9. m' = H!H!_exec(q, "B", n, 0, FALSE, TRUE)
    <2>1. H!H!MayRun(m)
      BY <1>3 DEF H!H!MayRun, H!H!GATE
    <2>2. (x + BYTE - 1) \div BYTE = n
      <3>1. x + 2 - 1 = x + 1
        BY <1>5
      <3> QED
        BY <3>1 DEF BYTE
    <2>3. H!H!exec("B", n, 0, FALSE, TRUE)
      BY <1>4, <2>2
    <2>4. Runs("B", n, 0, FALSE, TRUE)
      BY <1>3, <1>6, <2>3, QuietRun
    <2> QED
      BY <2>1, <2>4 DEF Runs
  <1>10. (H!H!hold(m) <=> H!H!hold(was)) /\ (H!H!xof(m) <=> H!H!xof(was)) /\ (H!H!hmac(m) <=> H!H!hmac(was)) /\ m.machine = was.machine
    BY <1>3 DEF Same_, H!H!hold, H!H!xof, H!H!hmac
  <1> HIDE DEF q, n, a
  <1>11. DOMAIN q = HFields /\ q.st = "Last" /\ q.lbl = x /\ q.fed = m.fed /\ q.cum = m.cum /\ q.S = m.S /\ q.bb = m.bb /\ q.machine = m.machine
    BY <1>3, <1>4, <1>7 DEF HBut, HFields
  <1>12. (H!H!hold(q) <=> H!H!hold(was)) /\ (H!H!xof(q) <=> H!H!xof(was))
    BY <1>10, <1>11 DEF H!H!hold, H!H!xof
  <1>13. m.S \in Int /\ m.bb \in Nat /\ m.cum \in Nat /\ m.fed \in Nat /\ (m.cum = 0 <=> m.fed = 0) /\ m.got = 0 /\ 4 * m.S + m.bb = H!H!Before(m) + m.fed
    BY <1>3 DEF Held
  <1>14. a \in Nat /\ a > 0
    BY <1>5, <1>8 DEF a
  <1> DEFINE u == H!H!_vli(q, a)
             f == u.fed + q.lbl
             c == u.cum + q.lbl - a
  <1>15. m' = [u EXCEPT !.lbl = 0, !.fed = f, !.cum = c]
    <2>1. m' = H!H!_last(q, n, 0)
      <3>1. ~ (0 >= n) /\ q.lbl # 0
        BY <1>5, <1>8, <1>11
      <3> QED
        BY <1>9, <1>11, <3>1 DEF H!H!_exec
    <2>2. ~ (n * BYTE < q.lbl)
      BY <1>5, <1>8, <1>11 DEF BYTE
    <2>3. (IF H!H!hold(q) \/ H!H!xof(q) THEN q.lbl ELSE ((q.lbl + BYTE - 1) \div BYTE) * BYTE) = a
      <3>1. x + 2 - 1 = x + 1
        BY <1>5
      <3> QED
        BY <1>11, <1>12, <3>1 DEF a, Round, BYTE
    <2>4. H!H!_last(q, n, 0) = [H!H!_vli(q, a) EXCEPT !.lbl = 0, !.fed = @ + q.lbl, !.cum = @ + q.lbl - a]
      BY <2>2, <2>3 DEF H!H!_last
    <2> HIDE DEF u
    <2>5. H!H!_vli(q, a) = u
      BY DEF u
    <2> QED
      BY <2>1, <2>4, <2>5
  <1>16. HBut(u, q, {"cum", "S", "bb"}) /\ Taking_(q, u, a)
    BY <1>11, <1>13, <1>14, Absorbs_
  <1> HIDE DEF u, f, c
  <1>17. HBut(m', u, {"lbl", "fed", "cum"}) /\ m'.lbl = 0
    BY <1>15, <1>16 DEF HBut, HFields
  <1>18. HBut(m', m, {"out", "halted", "lbl", "fed", "cum", "S", "bb"}) /\ m'.S = u.S /\ m'.bb = u.bb
    BY <1>7, <1>16, <1>17 DEF HBut, HFields
  <1>19. Same_(m', was)
    BY <1>3, <1>18, StaysSame
  <1>20. m'.st = "Last" /\ m'.got = 0 /\ m'.sealed = m.sealed
    BY <1>3, <1>13, <1>18 DEF HBut, HFields
  <1> DEFINE k == KeyBlock(q, a)
             w == HWhole(job)
             s == SecretBits(job)
             b == H!Bits(job)
  <1>21. 4 * m'.S + m'.bb = 4 * m.S + m.bb + a + k
    BY <1>11, <1>16, <1>18 DEF Taking_
  <1>22. w \in Nat /\ s = 0 /\ b = 2 * w + x /\ job.nbits = b /\ Round(b) = 2 * w + Round(x) /\ (b % 2 = 0 => Round(x) = x)
    <2>1. job.nbits # 0
      <3>1. H!Lb(job) = 0 <=> job.plan # "last" \/ job.nbits = 0
        BY <1>1 DEF HParts
      <3>2. H!Lb(job) # 0
        BY <1>3
      <3> QED
        BY <3>1, <3>2
    <2>2. job.secret = "none"
      BY <1>1, <2>1 DEF HParts
    <2>3. SecretBits(job) = 0
      BY <2>2 DEF SecretBits
    <2> QED
      BY <1>1, <1>4, <1>5, <2>3 DEF HParts
  <1>23. k = IF m.machine = "BLAKE2_KEY" /\ m.fed = 0 THEN 4 ELSE 0
    BY <1>11, <1>13, <1>14 DEF KeyBlock
  <1>24. m.fed = 2 * w
    BY <1>3, <1>22
  <1>25. H!H!Before(m) = IF H!H!hmac(was) \/ (was.machine = "BLAKE2_KEY" /\ m.fed > 0) THEN 4 ELSE 0
    BY <1>10 DEF H!H!Before, BYTE, BYTES
  <1>26. H!H!hmac(was) => was.machine # "BLAKE2_KEY"
    BY DEF H!H!hmac
  <1>27. Total(job, was) = (IF H!H!hmac(was) \/ (was.machine = "BLAKE2_KEY" /\ b > 0) THEN 4 ELSE 0) + (IF H!H!xof(was) THEN b ELSE Round(b))
    BY DEF Total
  <1>28. 2 * w + a = IF H!H!xof(was) THEN b ELSE Round(b)
    <2>1. H!H!hold(was) => b % 2 = 0
      BY <1>3, <1>5, <1>22 DEF OddFits
    <2> HIDE DEF w, b
    <2> QED
      BY <1>5, <1>8, <1>22, <2>1 DEF a
  <1> HIDE DEF k, w, s, b
  <1>29. b > 0
    BY <1>5, <1>22
  <1>30. 4 * m'.S + m'.bb = Total(job, was)
    <2> DEFINE y == H!H!Before(m)
               z == IF H!H!xof(was) THEN b ELSE Round(b)
    <2>1. y + k = IF H!H!hmac(was) \/ (was.machine = "BLAKE2_KEY" /\ b > 0) THEN 4 ELSE 0
      BY <1>10, <1>13, <1>23, <1>25, <1>26, <1>29
    <2>2. Total(job, was) = y + k + z /\ y \in Int /\ k \in Int
      BY <1>23, <1>25, <1>27, <2>1
    <2>3. 2 * w + a = z
      BY <1>28
    <2>4. 4 * m.S + m.bb = y + m.fed
      BY <1>13
    <2> HIDE DEF y, z
    <2> QED
      BY <1>13, <1>14, <1>21, <1>22, <1>24, <2>2, <2>3, <2>4
  <1>31. job' = job /\ was' = was /\ win' = win /\ got' = got
    BY DEF H!Same
  <1>32. (InPlan("Last"))' /\ OddFits'
    BY <1>3, <1>19, <1>20, <1>31 DEF InPlan, SealIs, SecretFits, OddFits
  <1>33. Total(job', was') = Total(job, was)
    BY <1>31
  <1>34. HFed'
    <2>1. m'.S \in Int
      BY <1>16, <1>18 DEF Taking_
    <2> QED
      BY <2>1, <1>3, <1>17, <1>18, <1>20, <1>30, <1>31, <1>32, <1>33 DEF HFed
  <1> QED
    BY <1>34 DEF HPhase

\* The message is over: what a plan has fed, and where the output begins.
LEMMA FedIs ==
  ASSUME SoftwareAssumption, HFrame, HPhase, H!Output
  PROVE  /\ Same_(m, was) /\ SealIs /\ SecretFits /\ OddFits /\ win = H!NoWindow /\ got = 0 /\ m.got = 0
         /\ (m.st = "Absorb" \/ (m.st = "Last" /\ m.lbl = 0)) /\ m.S \in Int /\ 4 * m.S + m.bb = Total(job, was)
  <1>1. CASE pc = "fed"
    BY <1>1, HPhaseIs DEF HFed, InPlan
  <1>2. CASE pc = "feed"
    <2>1. HFeed /\ left = 0 /\ job.plan \notin {"last", "last0"}
      BY <1>2, HPhaseIs DEF H!Output
    <2>2. H!Lb(job) = 0
      BY <2>1 DEF H!Lb
    <2>3. win = H!NoWindow /\ 4 * m.S + m.bb = Total(job, was) /\ job.nbits % 2 = 0 /\ m.got = 0
      BY <2>1, <2>2, AllFed
    <2> QED
      BY <2>1, <2>3 DEF HFeed, InPlan, OddFits, Held
  <1> QED
    BY <1>1, <1>2 DEF H!Output

\* The output begins: as much has been fed as the message has, in every plan.
LEMMA HOutput ==
  ASSUME SoftwareAssumption, HFrame, HPhase, H!Output
  PROVE  HPhase' \/ HDead'
  <1>1. /\ Same_(m, was) /\ SealIs /\ SecretFits /\ OddFits /\ win = H!NoWindow /\ got = 0 /\ m.got = 0
        /\ (m.st = "Absorb" \/ (m.st = "Last" /\ m.lbl = 0)) /\ m.S \in Int /\ 4 * m.S + m.bb = Total(job, was)
    BY FedIs
  <1>2. DOMAIN m = HFields /\ m.machine = was.machine /\ m.policy = was.policy /\ m.full = was.full /\ m.kk = 0 /\ m.ksealed = FALSE /\ m.st \notin {"Invalid", "Inert"}
    BY <1>1 DEF Same_
  <1>3. HJob(job)
    BY HJobs DEF HFrame
  <1>4. /\ job' = job /\ was' = was /\ key' = key /\ left' = left /\ win' = win /\ got' = got /\ pc' = job.read /\ sum' = Total(job, was)
    <2>1. sum' = m.S * 4 + m.bb
      BY DEF H!Output, BYTE, BYTES
    <2>2. sum' = Total(job, was)
      BY <1>1, <2>1
    <2> QED
      BY <2>2 DEF H!Output
  <1>5. Kept
    BY <1>4 DEF Kept
  <1>6. Total(job', was') = Total(job, was)
    BY <1>4
  <1>7. CASE job.read = "verify"
    <2>1. H!H!setst("verify", "B", 4)
      BY <1>7 DEF H!Output, BYTE, BYTES
    <2>2. m' = H!H!_setst(HQuiet(m), "verify", "B", 4)
      BY <1>2, <2>1, QuietSet
    <2>3. IF m.sealed \/ ~ H!H!hmac(m) \/ 1 \notin m.policy \/ ~ m.full THEN m' = H!H!inv(m) ELSE Enters_(m, m', "Verify", OutFields)
      BY <1>1, <1>2, <2>2, ToVerify
    <2>4. H!H!hmac(m) <=> H!H!hmac(was)
      BY <1>2 DEF H!H!hmac
    <2>5. CASE m.sealed \/ ~ VerifyFits
      <3>1. m' = H!H!inv(m)
        BY <1>2, <2>3, <2>4, <2>5 DEF VerifyFits
      <3>2. ~ H!Fits
        BY <1>1, <1>7, <2>5, HFitsIs DEF SealIs, KeyFits
      <3>3. ~ H!Fits'
        BY <1>5, <3>2, FitsKept
      <3> QED
        BY <1>2, <1>4, <3>1, <3>2, <3>3, HDies
    <2>6. CASE ~ m.sealed /\ VerifyFits
      <3>1. Enters_(m, m', "Verify", OutFields)
        BY <1>2, <2>3, <2>4, <2>6 DEF VerifyFits
      <3>2. Enters(m, m', was, "Verify")
        BY <1>1, <3>1, OutEnters
      <3>3. (InPlan("Verify"))' /\ OddFits' /\ VerifyFits' /\ KeyFits'
        BY <1>1, <1>4, <2>6, <3>2 DEF InPlan, SealIs, SecretFits, OddFits, VerifyFits, KeyFits, Enters
      <3>4. HVerify'
        BY <1>4, <1>6, <1>7, <3>3 DEF HVerify, HReads
      <3> QED
        BY <3>4 DEF HPhase
    <2> QED
      BY <2>5, <2>6
  <1>8. CASE job.read # "verify"
    <2> DEFINE x == H!Xs
               form == IF x # 0 THEN "B" ELSE "A"
    <2>1. x = (IF job.read = "digest" THEN 4 ELSE 0) /\ x \in {0, 4}
      BY DEF H!Xs, H!D, BYTE, BYTES
    <2>2. form \in {"A", "B"}
      OBVIOUS
    <2>3. H!H!setst("output", form, x)
      BY <1>8 DEF H!Output
    <2> HIDE DEF x, form
    <2>4. m' = H!H!_setst(HQuiet(m), "output", form, x)
      BY <1>2, <2>3, QuietSet
    <2>5. IF NoTag(m) THEN m' = H!H!inv(m)
          ELSE Enters_(m, m', "Output", OutFields) /\ m'.bb = 0 /\ m'.lbl = 0 /\ m'.outl = IF x # 0 THEN x ELSE IF H!H!xof(m) THEN 0 ELSE 4
      BY <1>1, <1>2, <2>1, <2>2, <2>4, ToOutput
    <2>6. (NoTag(m) <=> NoTag(was)) /\ (H!H!xof(m) <=> H!H!xof(was))
      BY <1>2, Kinds
    <2>7. CASE NoTag(was)
      <3>1. ~ H!Fits
        BY <1>8, <2>7, HFitsIs DEF TagFits
      <3>2. ~ H!Fits'
        BY <1>5, <3>1, FitsKept
      <3> QED
        BY <1>2, <1>4, <2>5, <2>6, <2>7, <3>1, <3>2, HDies
    <2>8. CASE ~ NoTag(was)
      <3>1. Enters_(m, m', "Output", OutFields) /\ m'.bb = 0 /\ m'.lbl = 0 /\ m'.outl = IF x # 0 THEN x ELSE IF H!H!xof(was) THEN 0 ELSE 4
        BY <2>5, <2>6, <2>8
      <3>2. Enters(m, m', was, "Output") /\ m'.got = 0
        BY <1>1, <3>1, OutEnters
      <3>3. (InPlan("Output"))' /\ OddFits' /\ TagFits'
        BY <1>1, <1>4, <2>8, <3>2 DEF InPlan, SealIs, SecretFits, OddFits, TagFits, Enters
      <3>4. (HReads("Output"))'
        BY <1>4, <1>6, <3>3 DEF HReads
      <3>5. job' = job /\ was' = was /\ win' = H!NoWindow /\ win'.ks = 0 /\ got' = 0
        BY <1>1, <1>4 DEF H!NoWindow
      <3>6. job.read # "digest" => Bound'
        BY <2>1, <3>1, <3>2, <3>5 DEF Bound
      <3>7. CASE job.read = "all"
        <4>1. HAll'
          BY <3>1, <3>2, <3>3, <3>4, <3>5, <3>6, <3>7 DEF HAll
        <4> QED
          BY <4>1 DEF HPhase
      <3>8. CASE job.read = "digest"
        <4>1. m'.outl = 4
          BY <2>1, <3>1, <3>8
        <4>2. HDigest'
          BY <3>2, <3>3, <3>4, <3>5, <3>8, <4>1 DEF HDigest
        <4> QED
          BY <4>2 DEF HPhase
      <3>9. CASE job.read = "bits"
        <4>1. HBits'
          BY <3>2, <3>3, <3>4, <3>5, <3>6, <3>9 DEF HBits
        <4> QED
          BY <4>1 DEF HPhase
      <3>10. CASE job.read = "key"
        <4>1. HKey'
          BY <3>2, <3>3, <3>4, <3>5, <3>6, <3>10 DEF HKey
        <4> QED
          BY <4>1 DEF HPhase
      <3> QED
        BY <1>3, <1>8, <3>7, <3>8, <3>9, <3>10 DEF HJob
    <2> QED
      BY <2>7, <2>8
  <1> QED
    BY <1>7, <1>8

\* A tag is compared.
LEMMA HVerdict ==
  ASSUME HFrame, HPhase, NEW ok \in BOOLEAN, H!Verdict(ok)
  PROVE  HPhase'
  <1>1. HVerify /\ pc = "verify"
    BY HPhaseIs DEF H!Verdict
  <1>2. Same_(m, was) /\ m.st = "Verify" /\ VerifyFits /\ KeyFits /\ SecretFits /\ OddFits /\ job.read = "verify"
    BY <1>1 DEF HVerify, HReads, InPlan
  <1>3. DOMAIN m = HFields /\ m.machine = was.machine /\ m.policy = was.policy /\ m.full = was.full
    BY <1>2 DEF Same_
  <1>4. m.full /\ 1 \in m.policy
    BY <1>2, <1>3 DEF VerifyFits
  <1>5. H!D = 2 /\ BYTE = 2 /\ BYTE * BYTES = 4
    BY DEF H!D, BYTE, BYTES
  <1> DEFINE q == HQuiet(m)
  <1>6. HBut(q, m, {"out", "halted"})
    BY <1>3, HQuiets
  <1>7. m' = H!H!_exec(q, "B", 2, 0, FALSE, ok)
    <2>1. H!H!MayRun(m)
      BY <1>2, <1>4 DEF H!H!MayRun, H!H!GATE
    <2>2. H!H!exec("B", 2, 0, FALSE, ok)
      BY <1>5 DEF H!Verdict
    <2>3. Runs("B", 2, 0, FALSE, ok)
      BY <1>2, <1>3, <2>2, QuietRun
    <2> QED
      BY <2>1, <2>3 DEF Runs
  <1> HIDE DEF q
  <1>8. q.st = "Verify" /\ q.full
    BY <1>2, <1>4, <1>6 DEF HBut, HFields
  <1> DEFINE s == IF ok THEN "Success" ELSE "Failure"
  <1>9. m' = [q EXCEPT !.st = s, !.out = "verdict"]
    BY <1>5, <1>7, <1>8 DEF H!H!_exec
  <1> HIDE DEF s
  <1>10. HBut(m', m, {"st", "out", "halted"}) /\ m'.st = s
    BY <1>6, <1>9 DEF HBut, HFields
  <1>11. Same_(m', was)
    BY <1>2, <1>10, StaysSame
  <1>12. H!Fits
    BY <1>2, HFitsIs
  <1>13. Kept /\ pc' = "stop" /\ job' = job
    BY DEF Kept, H!Same, H!Verdict
  <1>14. H!Fits'
    BY <1>12, <1>13, FitsKept
  <1>15. Ended_'
    BY <1>2, <1>10, <1>11, <1>13, <1>14 DEF Ended_, s, Kept
  <1>16. HStop'
    BY <1>13, <1>15 DEF HStop
  <1> QED
    BY <1>16 DEF HPhase

\* Reading a window of n bytes from at on.
Out_(r, v, n, at, a) ==
  LET b == r.st = "Bits" IN
  /\ HBut(v, r, {"S", "bb", "lbl", "got", "out", "outl", "st", "halted"})
  /\ v.got = r.got + a /\ v.bb = (r.bb + a) % 4 /\ v.lbl = (IF b THEN r.lbl - a ELSE r.lbl)
  /\ v.outl = (IF r.outl = 0 THEN 0 ELSE r.outl - a)
  /\ v.st = (IF Over_(r, a) THEN "Success" ELSE r.st)
  /\ v.halted = IF Over_(r, a) \/ (b /\ a = r.lbl) THEN Still ELSE Stopped((n - at) * 2, at, a)
Moves(n, at, halt, a) == a \in Int /\ a = Amount(m, (n - at) * 2, halt, m.st = "Bits")
MayRead(n, at) ==
  /\ Same_(m, was) /\ m.st \in {"Output", "Bits"} /\ TagFits /\ n \in Nat /\ at \in Nat /\ at < n /\ m.outl \in Int
  /\ ~ (at # 0 /\ m.bb # 0 /\ m.st = "Output") /\ (m.st = "Bits" => m.lbl # 0)
IsRead(n, at, a) == IF m.sealed THEN m' = H!H!inv(m) ELSE Out_(m, m', n, at, a)

\* kl.exec of an output reads a window, or the message is sealed.
LEMMA Reader ==
  ASSUME NEW n, NEW at, MayRead(n, at), NEW halt \in BOOLEAN, H!H!exec("C", n, at, halt, TRUE), NEW a, Moves(n, at, halt, a)
  PROVE  IsRead(n, at, a)
  <1>1. DOMAIN m = HFields /\ m.machine = was.machine /\ m.policy = was.policy /\ m.ksealed = FALSE
    BY DEF MayRead, Same_
  <1>2. m.st \in {"Output", "Bits"} /\ TagFits /\ n \in Nat /\ at \in Nat /\ at < n /\ m.outl \in Int /\ ~ (at # 0 /\ m.bb # 0 /\ m.st = "Output") /\ (m.st = "Bits" => m.lbl # 0)
    BY DEF MayRead
  <1> DEFINE q == HQuiet(m)
             b == m.st = "Bits"
             lim == (n - at) * 2
  <1>3. HBut(q, m, {"out", "halted"}) /\ q.halted = Still
    BY <1>1, HQuiets
  <1>4. m' = H!H!_exec(q, "C", n, at, halt, TRUE)
    <2>1. H!H!hmac(m) => 0 \in m.policy
      BY <1>1, <1>2 DEF TagFits, NoTag, H!H!hmac
    <2>2. H!H!MayRun(m)
      BY <1>2, <2>1 DEF H!H!MayRun, H!H!GATE
    <2>3. Runs("C", n, at, halt, TRUE)
      BY <1>1, <1>2, QuietRun
    <2> QED
      BY <2>2, <2>3 DEF Runs
  <1> HIDE DEF q
  <1>5. /\ DOMAIN q = HFields /\ q.st = m.st /\ q.sealed = m.sealed /\ q.ksealed = FALSE /\ q.lbl = m.lbl /\ q.bb = m.bb /\ q.outl = m.outl
        /\ q.machine = m.machine /\ q.got = m.got
    BY <1>1, <1>3 DEF HBut, HFields
  <1>6. H!H!inv(q) = H!H!inv(m)
    BY <1>5 DEF H!H!inv
  <1>7. ~ (at >= n) /\ lim \in Nat
    BY <1>2
  <1>8. CASE m.sealed
    <2>1. ~ H!H!NoSecret(q)
      BY <1>5, <1>8 DEF H!H!NoSecret
    <2>2. m' = H!H!inv(m)
      BY <1>4, <1>5, <1>6, <1>2, <2>1 DEF H!H!_exec
    <2> QED
      BY <1>8, <2>2 DEF IsRead
  <1>9. CASE ~ m.sealed
    <2>1. H!H!NoSecret(q)
      BY <1>5, <1>9 DEF H!H!NoSecret
    <2>2. b \in BOOLEAN /\ (b <=> q.st = "Bits")
      BY <1>5
    <2>3. m' = H!H!_exec_out(q, lim, at, halt, q.st = "Bits")
      <3>1. lim = (n - at) * BYTE
        BY DEF BYTE
      <3> HIDE DEF lim
      <3> QED
        BY <1>4, <1>5, <1>7, <1>2, <2>1, <3>1 DEF H!H!_exec
    <2>4. (q.st = "Bits") = b
      BY <1>5
    <2>5. m' = H!H!_exec_out(q, lim, at, halt, b)
      BY <2>3, <2>4
    <2>6. a = Amount(q, lim, halt, b) /\ a \in Int
      <3>1. a = Amount(m, lim, halt, b) /\ a \in Int
        BY DEF Moves
      <3> HIDE DEF lim, b
      <3> QED
        BY <1>5, <3>1 DEF Amount
    <2>7. ~ (at # 0 /\ q.bb # 0 /\ ~ b)
      BY <1>5, <1>2
    <2> HIDE DEF lim, b
    <2>8. Reads(q, m', lim, at, a, b)
      BY <1>5, <1>7, <1>2, <2>2, <2>5, <2>6, <2>7, Reading
    <2>9. Over_(q, a) <=> Over_(m, a)
      BY <1>5 DEF Over_
    <2>10. HBut(m', m, {"S", "bb", "lbl", "got", "out", "outl", "st", "halted"})
      BY <1>3, <2>8 DEF Reads, HBut, HFields
    <2>11. /\ m'.got = m.got + a /\ m'.bb = (m.bb + a) % 4 /\ m'.lbl = (IF b THEN m.lbl - a ELSE m.lbl)
           /\ m'.outl = (IF m.outl = 0 THEN 0 ELSE m.outl - a)
           /\ m'.st = (IF Over_(m, a) THEN "Success" ELSE m.st)
           /\ m'.halted = IF Over_(m, a) \/ (b /\ a = m.lbl) THEN Still ELSE Stopped(lim, at, a)
      BY <1>3, <1>5, <2>8, <2>9 DEF Reads
    <2> QED
      BY <1>9, <2>10, <2>11 DEF IsRead, Out_, b, lim
  <1> QED
    BY <1>8, <1>9 DEF IsRead

\* A sealed message gives nothing but a key.
LEMMA SealedDies ==
  ASSUME Same_(m, was), SealIs, m.sealed, job.read # "key", m' = H!H!inv(m), Kept
  PROVE  HDead'
  <1>1. ~ H!Fits
    BY HFitsIs DEF SealIs, KeyFits
  <1>2. ~ H!Fits'
    BY <1>1, FitsKept
  <1> QED
    BY <1>1, <1>2, HDies DEF Same_, Kept

\* What stays while an output is read.
LEMMA OutSame ==
  ASSUME NEW r, NEW v, NEW w, NEW n, NEW at, NEW a, Same_(r, w), Out_(r, v, n, at, a)
  PROVE  Same_(v, w) /\ v.sealed = r.sealed
  BY DEF Same_, Out_, HBut, HFields

\* All of the output is read, in windows.
LEMMA HOutAll ==
  ASSUME SoftwareAssumption, HFrame, HPhase, NEW halt \in BOOLEAN, H!out_all(halt)
  PROVE  HPhase' \/ HDead'
  <1>1. HAll
    BY HPhaseIs DEF H!out_all
  <1>2. /\ Same_(m, was) /\ m.st = "Output" /\ SealIs /\ SecretFits /\ OddFits /\ TagFits /\ sum = Total(job, was) /\ job.read = "all"
        /\ m.bb = 0 /\ Bound /\ m.got = 2 * win.ks
    BY <1>1 DEF HAll, HReads, InPlan
  <1>3. HJob(job)
    BY HJobs DEF HFrame
  <1>4. (H!H!xof(m) <=> H!H!xof(was))
    BY <1>2 DEF Same_, H!H!xof
  <1> DEFINE x == H!H!xof(was)
             n == H!Size(job)
             at == win.ks
             lim == (n - at) * 2
             b == m.st = "Bits"
             a == Amount(m, lim, halt, b)
  <1>5. n = (IF x THEN job.size ELSE 2) /\ n \in Nat /\ n > 0
    <2>1. n = IF x THEN job.size ELSE 2
      BY <1>4 DEF H!Size, H!D, BYTE, BYTES
    <2> QED
      BY <1>3, <2>1 DEF HJob
  <1>6. (win = H!NoWindow /\ at = 0) \/ (x /\ win.n = n /\ at \in Nat /\ 0 < at /\ at < n)
    BY <1>1, <1>5 DEF HAll, H!NoWindow
  <1>7. at \in Nat /\ at < n /\ (~ x => at = 0)
    BY <1>5, <1>6
  <1>8. m.outl = IF x THEN 0 ELSE 4
    BY <1>2, <1>7 DEF Bound
  <1>9. job' = job /\ was' = was /\ key' = key /\ left' = left /\ sum' = sum
    BY DEF H!out_all
  <1>10. ~ b
    BY <1>2
  <1> HIDE DEF n, at, x
  <1>11. lim \in Nat /\ lim > 0 /\ lim % 2 = 0 /\ lim \div 2 = n - at
    BY <1>5, <1>7
  <1>12. a = (IF x THEN IF halt /\ ~ (lim < 4) THEN 4 ELSE lim ELSE 4) /\ (~ x => lim = 4)
    <2>1. CASE x
      <3>1. m.outl = 0
        BY <1>8, <2>1
      <3> HIDE DEF lim, b
      <3> QED
        BY <1>2, <1>10, <1>11, <2>1, <3>1 DEF Amount, H!H!HMIN
    <2>2. CASE ~ x
      <3>1. m.outl = 4
        BY <1>8, <2>2
      <3>2. lim = 4
        BY <1>5, <1>7, <2>2
      <3> HIDE DEF lim, b
      <3> QED
        BY <1>2, <1>10, <1>11, <2>2, <3>1, <3>2 DEF Amount, H!H!HMIN
    <2> QED
      BY <2>1, <2>2
  <1>13. IF m.sealed THEN m' = H!H!inv(m) ELSE Out_(m, m', n, at, a)
    <2>1. H!H!exec("C", n, at, halt, TRUE)
      BY DEF H!out_all, n, at
    <2>2. m.outl \in Int
      BY <1>8
    <2>3. Moves(n, at, halt, a)
      <3>1. a \in Int
        BY <1>11, <1>12
      <3> QED
        BY <3>1 DEF Moves
    <2>4. MayRead(n, at)
      BY <1>2, <1>5, <1>7, <2>2 DEF MayRead
    <2> HIDE DEF a, lim, b
    <2>5. IsRead(n, at, a)
      BY <2>1, <2>3, <2>4, Reader
    <2> QED
      BY <2>5 DEF IsRead
  <1> HIDE DEF b, a
  <1>14. CASE m.sealed
    BY <1>2, <1>9, <1>13, <1>14, SealedDies DEF Kept
  <1>15. CASE ~ m.sealed
    <2>1. Out_(m, m', n, at, a)
      BY <1>13, <1>15
    <2>2. Same_(m', was) /\ m'.sealed = m.sealed
      BY <1>2, <2>1, OutSame
    <2>3. KeyFits /\ H!Fits
      BY <1>2, <1>15, HFitsIs DEF SealIs, KeyFits
    <2>4. H!Fits'
      BY <1>9, <2>3, FitsKept DEF Kept
    <2>5. /\ m'.got = m.got + a /\ m'.bb = a % 4 /\ m'.outl = (IF m.outl = 0 THEN 0 ELSE m.outl - a)
          /\ m'.st = (IF Over_(m, a) THEN "Success" ELSE "Output")
          /\ m'.halted = IF Over_(m, a) THEN Still ELSE Stopped(lim, at, a)
      <3>1. a \in Int
        BY <1>11, <1>12
      <3>2. (m.bb + a) % 4 = a % 4
        BY <1>2, <3>1
      <3> QED
        BY <1>2, <2>1, <3>2 DEF Out_
    <2>6. Over_(m, a) <=> ~ x
      BY <1>8, <1>11, <1>12 DEF Over_
    <2>7. m'.got = 2 * at + a /\ got' = at * 2 + m'.got - m.got
      BY <1>2, <2>5 DEF at, H!out_all, BYTE
    <2> DEFINE e == (at * 2 + a) \div 2
    <2>8. CASE x /\ e < n
      <3>1. a = 4
        <4>1. a = lim => e = n
          BY <1>5, <1>7, <1>11
        <4> QED
          BY <1>5, <1>12, <2>8, <4>1
      <3>2. m'.halted = [n |-> n, pos |-> e]
        <4>1. at + (lim \div 2) = n
          BY <1>5, <1>7, <1>11
        <4>2. m'.halted = Stopped(lim, at, a)
          BY <2>5, <2>6, <2>8
        <4> HIDE DEF lim, e
        <4>3. at + (lim \div 2) = n /\ (at * 2 + a) \div 2 = e
          BY <4>1 DEF lim, e
        <4> QED
          BY <2>8, <4>2, <4>3 DEF Stopped
      <3>3. e \in Nat /\ e = at + 2
        BY <1>7, <3>1
      <3> HIDE DEF e
      <3>4. m'.halted.pos = e /\ e # 0 /\ m'.st = "Output"
        BY <1>7, <2>5, <2>6, <2>8, <3>2, <3>3
      <3>5. win' = H!Resume(n, e) /\ pc' = pc
        BY <3>4 DEF H!out_all, n
      <3>6. win'.n = n /\ win'.ks = e
        BY <3>5 DEF H!Resume
      <3>7. m'.got = 2 * win'.ks /\ m'.bb = 0 /\ Bound'
        BY <1>7, <1>8, <1>9, <2>5, <2>7, <2>8, <3>1, <3>3, <3>6 DEF Bound, x
      <3>8. (HReads("Output"))' /\ TagFits'
        <4>1. pc = "all"
          BY DEF H!out_all
        <4>2. Total(job', was') = Total(job, was)
          BY <1>9
        <4> QED
          BY <1>2, <1>9, <2>2, <3>4, <3>5, <4>1, <4>2 DEF HReads, InPlan, SealIs, SecretFits, OddFits, TagFits
      <3>9. H!H!xof(was') /\ win'.n = job'.size /\ win'.ks \in Nat /\ 0 < win'.ks /\ win'.ks < win'.n
        BY <1>5, <1>7, <1>9, <2>8, <3>3, <3>6 DEF x
      <3>10. HAll'
        BY <1>2, <1>9, <3>7, <3>8, <3>9 DEF HAll
      <3> QED
        BY <3>10 DEF HPhase
    <2>9. CASE ~ (x /\ e < n)
      <3>1. m'.halted = Still
        <4>1. CASE ~ x
          BY <2>5, <2>6, <4>1
        <4>2. CASE x
          <5>1. at + (lim \div 2) = n
            BY <1>5, <1>7, <1>11
          <5>2. m'.halted = Stopped(lim, at, a)
            BY <2>5, <2>6, <4>2
          <5> HIDE DEF lim, e
          <5>3. at + (lim \div 2) = n /\ (at * 2 + a) \div 2 = e
            BY <5>1 DEF lim, e
          <5> QED
            BY <2>9, <4>2, <5>2, <5>3 DEF Stopped
        <4> QED
          BY <4>1, <4>2
      <3>2. a = lim
        <4>1. CASE ~ x
          BY <1>12, <4>1
        <4>2. CASE x
          <5>1. ~ (e < n)
            BY <2>9, <4>2
          <5>2. a = 4 /\ ~ (lim < 4) => e = at + 2 /\ e \in Int
            BY <1>7
          <5> HIDE DEF e
          <5> QED
            BY <1>5, <1>7, <1>11, <1>12, <4>2, <5>1, <5>2
        <4> QED
          BY <4>1, <4>2
      <3>3. m'.got = 2 * n /\ got' = m'.got
        BY <1>2, <1>5, <1>7, <1>11, <2>7, <3>2 DEF at
      <3>4. win' = H!NoWindow /\ pc' = "stop"
        BY <3>1 DEF H!out_all, Still
      <3>5. H!Size(job)' = n
        BY <1>5, <1>9, <2>2 DEF H!Size, H!D, BYTE, BYTES, H!H!xof, Same_, x
      <3>6. (IF job.read = "all" THEN H!Size(job) ELSE 2)' = n
        BY <1>2, <1>9, <3>5
      <3>7. got' = (IF job.read = "all" THEN H!Size(job) ELSE 2)' * 2
        BY <1>5, <3>3, <3>6
      <3>8. Ended_'
        <4>1. m'.st \in {"Success", "Failure", "Output"}
          BY <2>5
        <4>2. Same_(m', was')
          BY <1>9, <2>2
        <4> QED
          BY <2>4, <3>3, <3>7, <4>1, <4>2 DEF Ended_
      <3>9. HStop'
        BY <3>4, <3>8 DEF HStop
      <3> QED
        BY <3>9 DEF HPhase
    <2> QED
      BY <2>8, <2>9
  <1> QED
    BY <1>14, <1>15

\* A digest is read in halves.
LEMMA HDigests ==
  ASSUME SoftwareAssumption, HFrame, HPhase, H!digest
  PROVE  HPhase' \/ HDead'
  <1>1. HDigest /\ pc = "digest"
    BY HPhaseIs DEF H!digest
  <1>2. HJob(job)
    BY HJobs DEF HFrame
  <1>3. /\ Same_(m, was) /\ SealIs /\ SecretFits /\ OddFits /\ TagFits /\ sum = Total(job, was) /\ job.read = "digest"
        /\ win = H!NoWindow /\ m.got = got
        /\ (m.st = "Output" /\ got \in {0, 2} /\ m.outl = 4 - got) \/ (m.st = "Success" /\ got = 4 /\ KeyFits)
    BY <1>1 DEF HDigest, HReads, InPlan
  <1> DEFINE n == H!H!HMIN(job.size, 2 - (got \div 2))
  <1>4. H!H!HMIN(job.size, H!D - H!Whole(got)) = n
    BY DEF H!D, H!Whole, BYTE, BYTES
  <1>5. job' = job /\ was' = was /\ key' = key /\ win' = win /\ sum' = sum /\ left' = left
    BY DEF H!digest
  <1>6. job.size \in Nat /\ job.size > 0
    BY <1>2 DEF HJob
  <1>7. CASE m.st = "Success"
    <2>1. got = 4 /\ KeyFits
      BY <1>3, <1>7
    <2>2. ~ (n > 0)
      BY <1>6, <2>1 DEF H!H!HMIN
    <2> HIDE DEF n
    <2>3. m' = m /\ got' = got /\ pc' = "stop"
      BY <1>4, <2>2 DEF H!digest
    <2>4. H!Fits
      BY <1>3, <2>1, HFitsIs
    <2>5. H!Fits'
      BY <1>5, <2>4, FitsKept DEF Kept
    <2>6. Ended_'
      BY <1>3, <1>5, <1>7, <2>1, <2>3, <2>5 DEF Ended_
    <2>7. HStop'
      BY <2>3, <2>6 DEF HStop
    <2> QED
      BY <2>7 DEF HPhase
  <1>8. CASE m.st = "Output"
    <2>1. got \in {0, 2} /\ m.outl = 4 - got
      BY <1>3, <1>8
    <2>2. n \in {1, 2} /\ n * 2 <= 4 - got
      BY <1>6, <2>1 DEF H!H!HMIN
    <2> HIDE DEF n
    <2>3. H!H!exec("C", n, 0, FALSE, TRUE) /\ got' = got + n * 2 /\ pc' = pc
      <3>1. n > 0
        BY <2>2
      <3> QED
        BY <1>4, <1>8, <3>1 DEF H!digest, BYTE
    <2> DEFINE lim == (n - 0) * 2
               a == Amount(m, lim, FALSE, m.st = "Bits")
    <2>4. a = 2 * n
      <3>1. lim \in Nat /\ lim <= m.outl /\ m.outl \in Int /\ m.outl # 0 /\ lim = 2 * n
        BY <2>1, <2>2
      <3> HIDE DEF lim
      <3> QED
        BY <1>8, <3>1 DEF Amount, H!H!HMIN
    <2> HIDE DEF a, lim
    <2>5. Moves(n, 0, FALSE, a)
      <3>1. a \in Int
        BY <2>2, <2>4
      <3> QED
        BY <3>1 DEF Moves, a, lim
    <2>6. MayRead(n, 0)
      BY <1>3, <1>8, <2>1, <2>2 DEF MayRead
    <2>7. IsRead(n, 0, a)
      BY <2>3, <2>5, <2>6, Reader
    <2>8. CASE m.sealed
      BY <1>3, <1>5, <2>7, <2>8, SealedDies DEF Kept, IsRead
    <2>9. CASE ~ m.sealed
      <3>1. Out_(m, m', n, 0, a)
        BY <2>7, <2>9 DEF IsRead
      <3>2. Same_(m', was) /\ m'.sealed = m.sealed
        BY <1>3, <3>1, OutSame
      <3>3. KeyFits
        BY <1>3, <2>9 DEF SealIs, KeyFits
      <3>4. a = 2 * n
        BY <2>4
      <3>5. m'.got = m.got + a /\ m'.outl = (IF m.outl = 0 THEN 0 ELSE m.outl - a) /\ m'.st = (IF m.outl # 0 /\ a = m.outl THEN "Success" ELSE "Output")
        BY <1>8, <3>1 DEF Out_, Over_
      <3>6. m'.got = got'
        BY <1>3, <2>2, <2>3, <3>4, <3>5
      <3>7. Total(job', was') = Total(job, was)
        BY <1>5
      <3>8. pc' = "digest" /\ SealIs' /\ SecretFits' /\ OddFits' /\ TagFits' /\ KeyFits' /\ win' = H!NoWindow /\ sum' = Total(job', was') /\ Same_(m', was')
        BY <1>1, <1>3, <1>5, <2>3, <3>2, <3>3, <3>7 DEF SealIs, SecretFits, OddFits, TagFits, KeyFits
      <3>9. (got' = 4 /\ m'.st = "Success") \/ (got' \in {0, 2} /\ m'.outl = 4 - got' /\ m'.st = "Output")
        BY <2>1, <2>2, <2>3, <3>4, <3>5
      <3>10. (HReads("Output"))' \/ (HReads("Success"))'
        BY <1>3, <1>5, <3>8, <3>9 DEF HReads, InPlan
      <3>11. HDigest'
        <4>1. CASE got' = 4 /\ m'.st = "Success"
          <5>1. (HReads("Success"))'
            BY <1>3, <1>5, <3>8, <4>1 DEF HReads, InPlan
          <5> QED
            BY <1>3, <1>5, <3>6, <3>8, <4>1, <5>1 DEF HDigest
        <4>2. CASE got' \in {0, 2} /\ m'.outl = 4 - got' /\ m'.st = "Output"
          <5>1. (HReads("Output"))'
            BY <1>3, <1>5, <3>8, <4>2 DEF HReads, InPlan
          <5> QED
            BY <1>3, <1>5, <3>6, <3>8, <4>2, <5>1 DEF HDigest
        <4> QED
          BY <3>9, <4>1, <4>2
      <3> QED
        BY <3>11 DEF HPhase
    <2> QED
      BY <2>8, <2>9
  <1> QED
    BY <1>3, <1>7, <1>8

\* The next read in bits is announced, a window of it is read, or there is no more.
Announces == (m.st = "Output" \/ (m.st = "Bits" /\ m.lbl = 0)) /\ H!H!setst("bits", "B", job.size) /\ UNCHANGED <<pc, win, got>>

\* The next read in bits is announced.
LEMMA HAnnounces ==
  ASSUME SoftwareAssumption, HFrame, HPhase, pc = "bits", Announces, UNCHANGED <<job, left, key, sum, was>>
  PROVE  HPhase' \/ HDead'
  <1>1. HBits
    BY HPhaseIs
  <1>2. HJob(job)
    BY HJobs DEF HFrame
  <1>3. m.st \in {"Output", "Bits"}
    BY DEF Announces
  <1>4. /\ Same_(m, was) /\ SealIs /\ SecretFits /\ OddFits /\ TagFits /\ sum = Total(job, was) /\ job.read = "bits"
        /\ win = H!NoWindow /\ m.got = got /\ got \in Nat /\ Bound /\ (~ H!H!xof(was) => got < 4)
    <2>1. CASE m.st = "Output"
      BY <1>1, <2>1 DEF HBits, HReads, InPlan
    <2>2. CASE m.st = "Bits" /\ m.lbl = 0
      <3>1. win = H!NoWindow /\ win.ks = 0
        BY <1>1, <2>2 DEF HBits, HReads, InPlan, H!NoWindow
      <3> QED
        BY <1>1, <2>2, <3>1 DEF HBits, HReads, InPlan
    <2> QED
      BY <2>1, <2>2 DEF Announces
  <1>5. job.size \in Nat /\ job.size > 0
    BY <1>2 DEF HJob
  <1>6. DOMAIN m = HFields /\ m.ksealed = FALSE
    BY <1>4 DEF Same_
  <1> DEFINE x == job.size
  <1>7. m' = H!H!_setst(HQuiet(m), "bits", "B", x)
    <2>1. H!H!setst("bits", "B", x)
      BY DEF Announces
    <2> QED
      BY <1>3, <1>6, <2>1, QuietSet
  <1>8. IF m.sealed THEN m' = H!H!inv(m) ELSE Enters_(m, m', "Bits", {"lbl"}) /\ m'.lbl = x
    <2>1. x \in Nat /\ x # 0
      BY <1>5
    <2> HIDE DEF x
    <2> QED
      BY <1>3, <1>6, <1>7, <2>1, ToBits
  <1>9. CASE m.sealed
    BY <1>4, <1>8, <1>9, SealedDies DEF Kept
  <1>10. CASE ~ m.sealed
    <2>1. Enters_(m, m', "Bits", {"lbl"}) /\ m'.lbl = x
      BY <1>8, <1>10
    <2>2. Enters(m, m', was, "Bits") /\ m'.got = m.got /\ m'.outl = m.outl
      BY <1>4, <2>1, LengthEnters
    <2>3. KeyFits
      BY <1>4, <1>10 DEF SealIs, KeyFits
    <2>4. Total(job', was') = Total(job, was)
      OBVIOUS
    <2>5. pc' = pc /\ win' = win /\ got' = got
      BY DEF Announces
    <2>6. (HReads("Bits"))' /\ TagFits' /\ KeyFits'
      BY <1>4, <2>2, <2>3, <2>4, <2>5 DEF HReads, InPlan, Enters, SealIs, SecretFits, OddFits, TagFits, KeyFits
    <2>7. win'.ks = 0 /\ m'.got = got' /\ got' \in Nat
      BY <1>4, <2>2, <2>5 DEF H!NoWindow
    <2>8. Bound'
      BY <1>4, <2>2 DEF Bound
    <2>9. m'.lbl \in Nat /\ m'.got = got' + 2 * win'.ks /\ (~ H!H!xof(was') => m'.got < 4)
      BY <1>4, <1>5, <2>1, <2>5, <2>7
    <2>10. HBits'
      BY <1>4, <2>5, <2>6, <2>7, <2>8, <2>9 DEF HBits
    <2> QED
      BY <2>10 DEF HPhase
  <1> QED
    BY <1>9, <1>10

\* How much a window of bits reads, and where it stands then.
BitsOf(a, lim, outl, lbl, halt) ==
  /\ a \in Nat /\ a > 0 /\ a <= lbl /\ (outl # 0 => a <= outl)
  /\ a \in {2, lim} \/ a = lbl \/ (outl # 0 /\ a = outl)
  /\ a <= lim

\* A window of bits is not empty, and not longer than what was announced.
LEMMA BitsRead ==
  ASSUME m.st = "Bits", m.lbl \in Nat, m.lbl # 0, m.outl \in Nat, NEW lim \in Nat, lim > 0, lim % 2 = 0, NEW halt \in BOOLEAN,
         NEW a, a = Amount(m, lim, halt, m.st = "Bits")
  PROVE  BitsOf(a, lim, m.outl, m.lbl, halt)
  <1> DEFINE rest == IF m.outl # 0 THEN (IF lim < m.outl THEN lim ELSE m.outl) ELSE lim
             t == IF rest < m.lbl THEN rest ELSE m.lbl
             stop == IF ~ halt THEN lim ELSE 2
  <1>1. a = IF stop < t THEN stop ELSE t
    BY DEF Amount, H!H!HMIN
  <1>2. rest \in Nat /\ rest > 0 /\ rest <= lim /\ (m.outl # 0 => rest <= m.outl) /\ (rest = lim \/ (m.outl # 0 /\ rest = m.outl))
    OBVIOUS
  <1> HIDE DEF rest
  <1>3. t \in Nat /\ t > 0 /\ t <= rest /\ t <= m.lbl /\ t \in {rest, m.lbl}
    BY <1>2
  <1>4. stop \in {2, lim} /\ stop \in Nat /\ stop > 0
    OBVIOUS
  <1> HIDE DEF t, stop
  <1>5. a \in {stop, t} /\ a <= t /\ a \in Nat /\ a > 0
    BY <1>1, <1>3, <1>4
  <1> QED
    BY <1>2, <1>3, <1>4, <1>5 DEF BitsOf

ReadsBits(kl, halt) ==
  /\ m.st = "Bits" /\ m.lbl # 0 /\ (win.n # 0 => kl = win.n)
  /\ H!H!exec("C", kl, win.ks, halt, TRUE)
  /\ IF m'.halted.pos # 0 THEN win' = H!Resume(kl, m'.halted.pos) /\ got' = got
     ELSE win' = H!NoWindow /\ got' = got + win.ks * BYTE + m.lbl - m'.lbl
  /\ UNCHANGED pc

\* A window of bits is read.
LEMMA HReadsBits ==
  ASSUME SoftwareAssumption, HFrame, HPhase, pc = "bits", NEW kl \in Nat, kl > 0, NEW halt \in BOOLEAN, ReadsBits(kl, halt),
         UNCHANGED <<job, left, key, sum, was>>
  PROVE  HPhase'
  <1>1. HBits /\ m.st = "Bits" /\ m.lbl # 0 /\ (win.n # 0 => kl = win.n)
    BY HPhaseIs DEF ReadsBits
  <1> DEFINE at == win.ks
             x == H!H!xof(was)
  <1>2. /\ Same_(m, was) /\ SealIs /\ SecretFits /\ OddFits /\ TagFits /\ sum = Total(job, was) /\ job.read = "bits" /\ KeyFits
        /\ m.lbl \in Nat /\ m.got = got + 2 * at /\ got \in Nat /\ Bound /\ (~ x => m.got < 4)
        /\ (win = H!NoWindow \/ (win.n \in Nat /\ at \in Nat /\ 0 < at /\ at < win.n))
    BY <1>1 DEF HBits, HReads, InPlan
  <1>3. at \in Nat /\ at < kl
    BY <1>1, <1>2 DEF H!NoWindow
  <1>4. m.outl = (IF x THEN 0 ELSE 4 - m.got) /\ m.outl \in Nat /\ (~ x => m.outl > 0) /\ m.got \in Nat
    BY <1>2, <1>3 DEF Bound
  <1>5. ~ m.sealed
    BY <1>2 DEF KeyFits, SealIs
  <1> HIDE DEF at, x
  <1> DEFINE lim == (kl - at) * 2
             a == Amount(m, lim, halt, m.st = "Bits")
  <1>6. lim \in Nat /\ lim > 0 /\ lim % 2 = 0 /\ lim \div 2 = kl - at
    BY <1>3
  <1>7. BitsOf(a, lim, m.outl, m.lbl, halt)
    <2> HIDE DEF lim
    <2> QED
      BY <1>1, <1>2, <1>4, <1>6, BitsRead
  <1>8. Out_(m, m', kl, at, a)
    <2>1. H!H!exec("C", kl, at, halt, TRUE)
      BY DEF ReadsBits, at
    <2>2. Moves(kl, at, halt, a)
      <3>1. a \in Int
        BY <1>7 DEF BitsOf
      <3> QED
        BY <3>1 DEF Moves
    <2>3. MayRead(kl, at)
      BY <1>1, <1>2, <1>3, <1>4 DEF MayRead
    <2> HIDE DEF a, lim
    <2>4. IsRead(kl, at, a)
      BY <2>1, <2>2, <2>3, Reader
    <2> QED
      BY <1>5, <2>4 DEF IsRead
  <1>9. Same_(m', was) /\ m'.sealed = m.sealed
    BY <1>2, <1>8, OutSame
  <1> HIDE DEF a
  <1>10. a \in Nat /\ a > 0 /\ a <= m.lbl /\ (m.outl # 0 => a <= m.outl) /\ a <= lim /\ (a \in {2, lim} \/ a = m.lbl \/ (m.outl # 0 /\ a = m.outl))
    BY <1>7 DEF BitsOf
  <1> DEFINE over == m.outl # 0 /\ a = m.outl
             e == (at * 2 + a) \div 2
  <1>11. /\ m'.got = m.got + a /\ m'.lbl = m.lbl - a
         /\ m'.outl = (IF m.outl = 0 THEN 0 ELSE m.outl - a)
         /\ m'.st = (IF over THEN "Success" ELSE "Bits")
         /\ m'.halted = IF over \/ a = m.lbl THEN Still ELSE Stopped(lim, at, a)
    BY <1>1, <1>8 DEF Out_, Over_
  <1>12. at + (lim \div 2) = kl
    BY <1>3, <1>6
  <1>13. job' = job /\ was' = was /\ pc' = pc /\ sum' = sum /\ key' = key
    BY DEF ReadsBits
  <1>14. Total(job', was') = Total(job, was)
    BY <1>13
  <1>15. SealIs' /\ SecretFits' /\ OddFits' /\ TagFits' /\ KeyFits' /\ sum' = Total(job', was') /\ Same_(m', was') /\ job'.read = "bits" /\ pc' = job'.read
    BY <1>1, <1>2, <1>9, <1>13, <1>14 DEF SealIs, SecretFits, OddFits, TagFits, KeyFits
  <1>16. m'.lbl \in Nat /\ m'.got \in Nat /\ m'.got = got + 2 * at + a
    BY <1>2, <1>4, <1>10, <1>11
  <1>17. ~ over => Bound' /\ (~ H!H!xof(was') => m'.got < 4)
    <2>1. SUFFICES ASSUME ~ over PROVE Bound' /\ (~ H!H!xof(was') => m'.got < 4)
      OBVIOUS
    <2>2. CASE x
      <3>1. m'.outl = 0
        BY <1>4, <1>11, <2>2
      <3> QED
        BY <1>13, <2>2, <3>1 DEF Bound, x
    <2>3. CASE ~ x
      <3>1. m'.outl = 4 - m'.got /\ m'.got < 4
        BY <1>4, <1>10, <1>11, <2>1, <2>3
      <3> QED
        BY <1>13, <2>3, <3>1 DEF Bound, x
    <2> QED
      BY <2>2, <2>3
  <1>18. CASE over
    <2>1. m'.halted.pos = 0 /\ m'.st = "Success" /\ m'.got = 4
      BY <1>4, <1>11, <1>18 DEF Still
    <2>2. win' = H!NoWindow /\ got' = got + at * 2 + m.lbl - m'.lbl
      BY <2>1 DEF ReadsBits, at, BYTE
    <2>3. got' = 4
      BY <1>2, <1>3, <1>10, <1>11, <1>16, <2>1, <2>2
    <2>4. (HReads("Success"))'
      BY <1>15, <2>1 DEF HReads, InPlan
    <2>5. HBits'
      BY <1>15, <2>1, <2>2, <2>3, <2>4 DEF HBits
    <2> QED
      BY <2>5 DEF HPhase
  <1>19. CASE ~ over
    <2>1. (HReads("Bits"))'
      BY <1>11, <1>15, <1>19 DEF HReads, InPlan
    <2>2. CASE a # m.lbl /\ e < kl
      <3>1. m'.halted = [n |-> kl, pos |-> e]
        <4>1. m'.halted = Stopped(lim, at, a)
          BY <1>11, <1>19, <2>2
        <4> HIDE DEF lim, e
        <4>2. at + (lim \div 2) = kl /\ (at * 2 + a) \div 2 = e
          BY <1>12 DEF e, lim
        <4> QED
          BY <2>2, <4>1, <4>2 DEF Stopped
      <3>2. a % 2 = 0
        <4> HIDE DEF lim, e
        <4> QED
          BY <1>6, <1>10, <1>19, <2>2
      <3>3. e = at + (a \div 2) /\ 2 * (a \div 2) = a /\ a \div 2 \in Nat /\ a \div 2 > 0
        BY <1>3, <1>10, <3>2
      <3> DEFINE c == a \div 2
      <3>4. e = at + c /\ 2 * c = a /\ c \in Nat /\ c > 0
        BY <3>3
      <3> HIDE DEF c, e, lim
      <3>5. m'.halted.pos = e /\ e # 0 /\ e \in Nat /\ 0 < e /\ e < kl
        BY <1>3, <2>2, <3>1, <3>4
      <3>6. win' = [n |-> kl, ks |-> e] /\ got' = got
        BY <3>5 DEF ReadsBits, H!Resume
      <3>7. win'.n = kl /\ win'.ks = e
        BY <3>6
      <3>8. m'.lbl # 0
        BY <1>2, <1>10, <1>11, <2>2
      <3>9. m'.got = got' + 2 * win'.ks
        BY <1>2, <1>3, <1>16, <3>4, <3>6, <3>7
      <3>10. HBits'
        BY <1>2, <1>15, <1>16, <1>17, <1>19, <2>1, <3>5, <3>6, <3>7, <3>8, <3>9 DEF HBits
      <3> QED
        BY <3>10 DEF HPhase
    <2>3. CASE ~ (a # m.lbl /\ e < kl)
      <3>1. m'.halted = Still
        <4>1. CASE a = m.lbl
          BY <1>11, <4>1
        <4>2. CASE a # m.lbl
          <5>1. m'.halted = Stopped(lim, at, a)
            BY <1>11, <1>19, <4>2
          <5> HIDE DEF lim, e
          <5>2. at + (lim \div 2) = kl /\ (at * 2 + a) \div 2 = e
            BY <1>12 DEF e, lim
          <5> QED
            BY <2>3, <4>2, <5>1, <5>2 DEF Stopped
        <4> QED
          BY <4>1, <4>2
      <3> HIDE DEF e, lim
      <3>2. m'.halted.pos = 0
        BY <3>1 DEF Still
      <3>3. win' = H!NoWindow /\ got' = got + at * 2 + m.lbl - m'.lbl
        BY <3>2 DEF ReadsBits, at, BYTE
      <3>4. got' = m'.got
        BY <1>2, <1>3, <1>10, <1>11, <1>16, <3>3
      <3>5. win'.ks = 0
        BY <3>3 DEF H!NoWindow
      <3>6. m'.got = got' + 2 * win'.ks /\ got' \in Nat
        BY <1>16, <3>4, <3>5
      <3>7. HBits'
        BY <1>15, <1>16, <1>17, <1>19, <2>1, <3>3, <3>6 DEF HBits
      <3> QED
        BY <3>7 DEF HPhase
    <2> QED
      BY <2>2, <2>3
  <1> QED
    BY <1>18, <1>19

\* There are no more bits.
LEMMA HBitsEnd ==
  ASSUME HFrame, HPhase, pc = "bits", m.st \notin {"Output", "Bits"}, pc' = "stop", UNCHANGED <<m, win, got, job, left, key, sum, was>>
  PROVE  HPhase'
  <1>1. HBits
    BY HPhaseIs
  <1>2. /\ Same_(m, was) /\ m.st = "Success" /\ SecretFits /\ OddFits /\ TagFits /\ job.read = "bits" /\ got = 4 /\ m.got = 4 /\ KeyFits
    BY <1>1 DEF HBits, HReads, InPlan
  <1>3. H!Fits
    BY <1>2, HFitsIs
  <1>4. H!Fits'
    BY <1>3, FitsKept DEF Kept
  <1>5. Ended_'
    BY <1>2, <1>4 DEF Ended_
  <1>6. HStop'
    BY <1>5 DEF HStop
  <1> QED
    BY <1>6 DEF HPhase

\* A step of a read in bits.
LEMMA HReadBits ==
  ASSUME SoftwareAssumption, HFrame, HPhase, NEW kl \in Nat, kl > 0, NEW halt \in BOOLEAN, H!read_bits(kl, halt)
  PROVE  HPhase' \/ HDead'
  <1>1. pc = "bits" /\ UNCHANGED <<job, left, key, sum, was>>
    BY DEF H!read_bits
  <1>2. CASE Announces
    BY <1>1, <1>2, HAnnounces
  <1>3. CASE ReadsBits(kl, halt)
    BY <1>1, <1>3, HReadsBits
  <1>4. CASE m.st \notin {"Output", "Bits"} /\ pc' = "stop" /\ UNCHANGED <<m, win, got>>
    BY <1>1, <1>4, HBitsEnd
  <1> QED
    BY <1>2, <1>3, <1>4 DEF H!read_bits, Announces, ReadsBits

\* What the key field keeps.
LEMMA KeyKept ==
  ASSUME HFrame, NEW fits \in BOOLEAN, H!derive_out(fits)
  PROVE  Kept /\ DOMAIN key' = {"n", "src_out", "st", "key"}
  <1>1. DOMAIN key = {"n", "src_out", "st", "key"} /\ "n" \in DOMAIN key /\ "src_out" \in DOMAIN key
    BY DEF HFrame
  <1> DEFINE a == H!Answer(key, H!D, ~ H!H!NoSecret(m), fits)
             x == IF m.mseal \/ m.kseal THEN "sealed" ELSE "open"
             y == IF H!D < key.n \/ key.src_out THEN "Invalid" ELSE IF a = "refused" THEN "PrivViolation" ELSE key.st
  <1>2. key' = IF m.st # "Output" THEN key ELSE IF a = "ok" THEN [key EXCEPT !.key = x] ELSE [key EXCEPT !.st = y]
    <2>1. key' = IF m.st # "Output" THEN key
                 ELSE CASE a = "ok" -> [key EXCEPT !.key = x]
                        [] OTHER -> [key EXCEPT !.st = IF H!D < key.n \/ key.src_out THEN "Invalid" ELSE IF a = "refused" THEN "PrivViolation" ELSE @]
      BY DEF H!derive_out
    <2> HIDE DEF a, x
    <2> QED
      BY <2>1
  <1> HIDE DEF a, x, y
  <1>3. DOMAIN key' = {"n", "src_out", "st", "key"} /\ key'.n = key.n /\ key'.src_out = key.src_out
    <2>1. CASE m.st # "Output"
      BY <1>1, <1>2, <2>1
    <2>2. CASE m.st = "Output" /\ a = "ok"
      BY <1>1, <1>2, <2>2
    <2>3. CASE m.st = "Output" /\ a # "ok"
      BY <1>1, <1>2, <2>3
    <2> QED
      BY <2>1, <2>2, <2>3
  <1> QED
    BY <1>3 DEF Kept, H!derive_out

\* The output becomes a key, where the key field has room and is as secret.
LEMMA HDerive ==
  ASSUME SoftwareAssumption, HFrame, HPhase, NEW fits \in BOOLEAN, H!derive_out(fits)
  PROVE  HPhase' \/ HDead'
  <1>1. HKey
    BY HPhaseIs DEF H!derive_out
  <1>2. /\ Same_(m, was) /\ m.st = "Output" /\ SealIs /\ SecretFits /\ OddFits /\ TagFits /\ job.read = "key" /\ m.got = 0 /\ Bound
    BY <1>1 DEF HKey, HReads, InPlan
  <1>3. Kept /\ pc' = "stop"
    BY KeyKept DEF H!derive_out
  <1>4. DOMAIN m = HFields /\ m.machine = was.machine /\ m.ksealed = FALSE
    BY <1>2 DEF Same_
  <1>5. m.outl \in Int
    BY <1>2 DEF Bound
  <1>6. key.n \in Nat /\ SEALABLE \in Nat
    BY DEF HFrame, SoftwareAssumption
  <1> DEFINE sealed == ~ H!H!NoSecret(m)
             a == H!Answer(key, 2, sealed, fits)
             n == key.n
  <1>7. sealed <=> m.sealed
    BY <1>4 DEF H!H!NoSecret
  <1>8. a = IF sealed /\ key.src_out THEN "srcinv" ELSE IF 2 < n THEN "refused"
            ELSE IF sealed /\ n < SEALABLE THEN "srcinv" ELSE IF sealed /\ ~ fits THEN "refused" ELSE "ok"
    BY DEF H!Answer
  <1>9. H!H!derive_out(n, a)
    BY DEF H!derive_out, H!D, BYTE, BYTES
  <1> HIDE DEF a, sealed
  <1>10. m' = IF a = "srcinv" THEN H!H!inv(m) ELSE IF a = "refused" THEN HQuiet(m)
              ELSE HQuiet(H!H!_exec_out(m, n * 2, 0, FALSE, FALSE))
    BY <1>2, <1>9 DEF H!H!derive_out, H!H!inert, HQuiet, Still, H!H!NotHalted, BYTE
  <1>11. CASE a = "srcinv"
    <2>1. m.sealed /\ (key.src_out \/ (~ (2 < n) /\ n < SEALABLE))
      BY <1>7, <1>8, <1>11
    <2>2. ~ KeyFits
      BY <1>2, <1>6, <2>1 DEF KeyFits, SealIs
    <2>3. ~ H!Fits
      BY <2>2, HFitsIs
    <2>4. ~ H!Fits'
      BY <1>3, <2>3, FitsKept
    <2> QED
      BY <1>3, <1>4, <1>10, <1>11, <2>3, <2>4, HDies DEF Kept
  <1>12. CASE a # "srcinv"
    <2>1. KeyFits
      BY <1>2, <1>6, <1>7, <1>8, <1>12 DEF KeyFits, SealIs
    <2>2. H!Fits
      BY <1>2, <2>1, HFitsIs
    <2>3. H!Fits' /\ job' = job /\ was' = was
      BY <1>3, <2>2, FitsKept DEF Kept
    <2>4. Same_(m', was) /\ m'.st \in {"Output", "Success"}
      <3>1. CASE a = "refused"
        <4>1. m' = HQuiet(m)
          BY <1>10, <1>12, <3>1
        <4>2. HBut(m', m, {"out", "halted"})
          BY <1>4, <4>1, HQuiets
        <4>3. Same_(m', was)
          BY <1>2, <4>2, StaysSame
        <4> QED
          BY <1>2, <4>2, <4>3 DEF HBut, HFields
      <3>2. CASE a # "refused"
        <4> DEFINE v == H!H!_exec_out(m, n * 2, 0, FALSE, FALSE)
        <4>1. m' = HQuiet(v)
          BY <1>10, <1>12, <3>2
        <4>2. PICK d : d = Amount(m, n * 2, FALSE, FALSE)
          OBVIOUS
        <4>3. n * 2 \in Nat /\ d \in Int
          BY <1>5, <1>6, <4>2 DEF Amount, H!H!HMIN
        <4>4. Reads(m, v, n * 2, 0, d, FALSE)
          <5> DEFINE lim == n * 2
          <5>1. lim \in Nat /\ d = Amount(m, lim, FALSE, FALSE)
            BY <4>2, <4>3
          <5> HIDE DEF lim
          <5>2. Reads(m, H!H!_exec_out(m, lim, 0, FALSE, FALSE), lim, 0, d, FALSE)
            BY <1>4, <1>5, <4>3, <5>1, Reading
          <5> QED
            BY <5>2 DEF lim
        <4> HIDE DEF v
        <4>5. HBut(v, m, {"S", "bb", "lbl", "got", "out", "outl", "st", "halted"}) /\ v.st \in {"Output", "Success"}
          BY <1>2, <4>4 DEF Reads
        <4>6. DOMAIN v = HFields
          BY <4>5 DEF HBut
        <4>7. HBut(m', v, {"out", "halted"})
          BY <4>1, <4>6, HQuiets
        <4>8. HBut(m', m, {"S", "bb", "lbl", "got", "out", "outl", "st", "halted"}) /\ m'.st = v.st
          BY <4>5, <4>7 DEF HBut, HFields
        <4>9. Same_(m', was)
          BY <1>2, <4>8, StaysSame
        <4> QED
          BY <4>5, <4>8, <4>9
      <3> QED
        BY <3>1, <3>2
    <2>5. Ended_'
      BY <1>2, <2>3, <2>4 DEF Ended_
    <2>6. HStop'
      BY <1>3, <2>5 DEF HStop
    <2> QED
      BY <2>6 DEF HPhase
  <1> QED
    BY <1>11, <1>12

\* The key fields that software has.
LEMMA KeysIs ==
  ASSUME SoftwareAssumption, NEW j, NEW k \in H!Keys(j)
  PROVE  k.n \in Nat /\ DOMAIN k = {"n", "src_out", "st", "key"}
  <1> DEFINE N == IF j.read = "key" THEN {1, SEALABLE, 3} ELSE {1}
             F == IF j.read = "key" THEN BOOLEAN ELSE {FALSE}
  <1>1. k \in [n : N, src_out : F, st : {"Ready"}, key : {"none"}]
    <2>1. H!D + 1 = 3
      BY DEF H!D, BYTE, BYTES
    <2> QED
      BY <2>1 DEF H!Keys
  <1>2. N \subseteq Nat
    BY DEF SoftwareAssumption
  <1> HIDE DEF N, F
  <1> QED
    BY <1>1, <1>2

\* The next message begins, however the last one ended.
LEMMA HAgain ==
  ASSUME SoftwareAssumption, HFrame, HPhase, NEW j \in H!Jobs, NEW k \in H!Keys(j), H!Again(j, k)
  PROVE  HFrame' /\ HPhase'
  <1>1. HStop /\ m.st \in {"Success", "Failure", "Output"}
    BY HPhaseIs DEF H!Again
  <1>2. Same_(m, was)
    BY <1>1 DEF HStop, Ended_
  <1>3. DOMAIN m = HFields /\ m.machine = was.machine /\ m.kk = 0 /\ m.ksealed = FALSE
    BY <1>2 DEF Same_
  <1>4. m' = H!H!_setst(HQuiet(m), "ready", "A", 0)
    BY <1>1, <1>3, QuietSet DEF H!Again
  <1>5. /\ DOMAIN m' = HFields /\ m'.machine = m.machine /\ m'.policy = m.policy /\ m'.full = m.full /\ m'.kk = m.kk /\ m'.ksealed = m.ksealed
        /\ m'.st = "Ready" /\ m'.sealed = FALSE
    BY <1>3, <1>4, ToReady
  <1>6. job' = j /\ key' = k /\ pc' = "begin" /\ left' = 0 /\ win' = H!NoWindow /\ got' = 0 /\ was' = m'
    BY DEF H!Again
  <1>7. HBegin'
    BY <1>3, <1>5, <1>6 DEF HBegin, Same_
  <1>8. k.n \in Nat /\ DOMAIN k = {"n", "src_out", "st", "key"}
    BY KeysIs
  <1>9. HFrame'
    BY <1>3, <1>5, <1>6, <1>8 DEF HFrame
  <1> QED
    BY <1>7, <1>9 DEF HPhase

\* A locker whose CC failed puts nothing out.
LEMMA InertOut ==
  ASSUME NEW k
  PROVE  [H!H!Inert(k, "Invalid") EXCEPT !.out = "nothing"] = H!H!Inert(k, "Invalid")
  <1> DEFINE v == H!H!Inert(k, "Invalid")
  <1>1. v.out = "nothing" /\ v = [f \in HFields |-> v[f]]
    BY DEF H!H!Inert, HFields
  <1> HIDE DEF v
  <1>2. [v EXCEPT !.out = "nothing"] = v
    BY <1>1
  <1> QED
    BY <1>2 DEF v

\* Nothing comes of a message that has failed.
LEMMA HStays ==
  ASSUME HFrame, HDead, H!Next
  PROVE  HDead' /\ HFrame'
  <1>1. m = H!H!Inert(was.machine, "Invalid") /\ ~ H!Fits
    BY DEF HDead
  <1>2. DOMAIN m = HFields /\ m.st = "Invalid" /\ m.sealed = FALSE /\ m.ksealed = FALSE /\ m.out = "nothing"
    BY <1>1, InertIs
  <1>3. H!H!inert(m)
    BY <1>2 DEF H!H!inert
  <1>4. \A imm, form, x : H!H!setst(imm, form, x) => m' = m
    BY <1>3 DEF H!H!setst
  <1>5. \A form, n, at, halt, ok : H!H!exec(form, n, at, halt, ok) => m' = m
    BY <1>3 DEF H!H!exec
  <1>6. m' = m /\ Kept /\ DOMAIN key' = DOMAIN key
    <2>1. CASE H!SetKey
      BY <1>4, <1>5, <2>1 DEF H!SetKey, H!Same, Kept
    <2>2. CASE H!Absorb
      BY <1>4, <2>2 DEF H!Absorb, Kept
    <2>3. CASE H!Export
      <3>1. m' = [m EXCEPT !.out = "nothing"]
        BY <1>2, <2>3 DEF H!Export, H!H!import_, H!H!meta_ok
      <3>2. m' = m
        BY <1>1, <3>1, InertOut
      <3> QED
        BY <2>3, <3>2 DEF H!Export, H!Same, Kept
    <2>4. CASE H!FinalPiece
      BY <1>4, <1>5, <2>4 DEF H!FinalPiece, H!Same, Kept
    <2>5. CASE H!Output
      BY <1>4, <2>5 DEF H!Output, Kept
    <2>6. CASE H!digest
      BY <1>5, <2>6 DEF H!digest, Kept
    <2>7. CASE \E fits \in BOOLEAN : H!Secret(fits)
      BY <1>3, <2>7 DEF H!Secret, H!H!derive, H!Same, Kept
    <2>8. CASE \E fits \in BOOLEAN : H!derive_out(fits)
      <3>1. PICK fits \in BOOLEAN : H!derive_out(fits)
        BY <2>8
      <3>2. Kept /\ DOMAIN key' = DOMAIN key
        BY <3>1, KeyKept DEF HFrame
      <3>3. m' = m
        BY <1>3, <3>1 DEF H!derive_out, H!H!derive_out
      <3> QED
        BY <3>2, <3>3
    <2>9. CASE \E n \in 1..H!Whole(MaxBits), halt \in BOOLEAN : H!run(n, halt)
      BY <1>5, <2>9 DEF H!run, Kept
    <2>10. CASE \E halt \in BOOLEAN : H!out_all(halt)
      BY <1>5, <2>10 DEF H!out_all, Kept
    <2>11. CASE \E halt \in BOOLEAN : \E kl \in {1, (job.size + BYTE - 1) \div BYTE} : H!read_bits(kl, halt)
      BY <1>4, <1>5, <2>11 DEF H!read_bits, Kept
    <2>12. CASE \E ok \in BOOLEAN : H!Verdict(ok)
      BY <1>5, <2>12 DEF H!Verdict, H!Same, Kept
    <2>13. CASE \E j \in H!Jobs : \E k \in H!Keys(j) : H!Again(j, k)
      BY <1>2, <2>13 DEF H!Again
    <2> QED
      BY <2>1, <2>2, <2>3, <2>4, <2>5, <2>6, <2>7, <2>8, <2>9, <2>10, <2>11, <2>12, <2>13 DEF H!Next
  <1>7. HDead'
    BY <1>1, <1>6, DeadKept
  <1>8. HFrame'
    BY <1>6 DEF HFrame, Kept
  <1> QED
    BY <1>7, <1>8

\* Software begins with a plan.
LEMMA HashInit ==
  ASSUME SoftwareAssumption, H!Init
  PROVE  HashInv
  <1>1. PICK k \in Hashes : \E p \in SUBSET {0, 1}, full \in BOOLEAN :
          m = H!H!ready([H!H!Inert(k, "Ready") EXCEPT !.policy = p, !.full = full, !.kset = IF k = "HMAC_KIP" THEN BYTE * BYTES ELSE 0])
    BY DEF H!Init, H!H!Init
  <1>2. PICK p, full : m = H!H!ready([H!H!Inert(k, "Ready") EXCEPT !.policy = p, !.full = full, !.kset = IF k = "HMAC_KIP" THEN BYTE * BYTES ELSE 0])
    BY <1>1
  <1> DEFINE s == IF k = "HMAC_KIP" THEN BYTE * BYTES ELSE 0
             r == [H!H!Inert(k, "Ready") EXCEPT !.policy = p, !.full = full, !.kset = s]
             i == H!H!Inert(r.machine, "Ready")
             hk == r.haskey \/ r.machine = "HMAC_KIP"
             u == [i EXCEPT !.policy = r.policy, !.full = r.full, !.kk = r.kk, !.ksealed = r.ksealed, !.haskey = hk, !.kseal = r.kseal, !.kset = r.kset]
  <1>3. m = u
    BY <1>2 DEF H!H!ready
  <1> HIDE DEF s
  <1>4. r.machine = k /\ r.kk = 0 /\ r.ksealed = FALSE
    BY DEF H!H!Inert
  <1> HIDE DEF r
  <1>5. DOMAIN i = HFields /\ i.machine = k /\ i.st = "Ready" /\ i.sealed = FALSE
    BY <1>4 DEF H!H!Inert, HFields
  <1> HIDE DEF i, hk
  <1>6. DOMAIN u = HFields /\ u.machine = k /\ u.st = "Ready" /\ u.sealed = FALSE /\ u.kk = 0 /\ u.ksealed = FALSE
    BY <1>4, <1>5 DEF HFields
  <1> HIDE DEF u
  <1>7. job \in H!Jobs /\ key \in H!Keys(job) /\ pc = "begin" /\ win = H!NoWindow /\ got = 0 /\ was = m
    BY DEF H!Init
  <1>8. HBegin
    BY <1>3, <1>6, <1>7 DEF HBegin, Same_
  <1>9. key.n \in Nat /\ DOMAIN key = {"n", "src_out", "st", "key"}
    BY <1>7, KeysIs
  <1> QED
    BY <1>3, <1>6, <1>7, <1>8, <1>9 DEF HashInv, HFrame, HPhase

\* The invariant is inductive.
LEMMA HashNext ==
  ASSUME SoftwareAssumption, HashInv, H!Next
  PROVE  HashInv'
  <1>1. HFrame /\ (HDead \/ HPhase)
    BY DEF HashInv
  <1>2. CASE HDead
    BY <1>1, <1>2, HStays DEF HashInv
  <1>3. CASE HPhase
    <2>1. CASE H!SetKey
      <3>1. HPhase'
        BY <1>1, <1>3, <2>1, HSetKeys
      <3> QED
        BY <1>1, <2>1, <3>1 DEF HashInv, HFrame, H!SetKey, H!Same
    <2>2. CASE H!Absorb
      <3>1. HPhase'
        BY <1>1, <1>3, <2>2, HAbsorb
      <3> QED
        BY <1>1, <2>2, <3>1 DEF HashInv, HFrame, H!Absorb
    <2>3. CASE H!Export
      <3>1. HPhase'
        BY <1>1, <1>3, <2>3, HExport
      <3> QED
        BY <1>1, <2>3, <3>1 DEF HashInv, HFrame, H!Export, H!Same
    <2>4. CASE H!FinalPiece
      <3>1. HPhase' \/ HDead'
        BY <1>1, <1>3, <2>4, HAnnounce, HLast DEF H!FinalPiece
      <3> QED
        BY <1>1, <2>4, <3>1 DEF HashInv, HFrame, H!FinalPiece, H!Same
    <2>5. CASE H!Output
      <3>1. HPhase' \/ HDead'
        BY <1>1, <1>3, <2>5, HOutput
      <3> QED
        BY <1>1, <2>5, <3>1 DEF HashInv, HFrame, H!Output
    <2>6. CASE H!digest
      <3>1. HPhase' \/ HDead'
        BY <1>1, <1>3, <2>6, HDigests
      <3> QED
        BY <1>1, <2>6, <3>1 DEF HashInv, HFrame, H!digest
    <2>7. ASSUME NEW fits \in BOOLEAN, H!Secret(fits) PROVE HashInv'
      <3>1. HPhase' \/ HDead'
        BY <1>1, <1>3, <2>7, HSecrets
      <3> QED
        BY <1>1, <2>7, <3>1 DEF HashInv, HFrame, H!Secret, H!Same
    <2>8. ASSUME NEW fits \in BOOLEAN, H!derive_out(fits) PROVE HashInv'
      <3>1. HPhase' \/ HDead'
        BY <1>1, <1>3, <2>8, HDerive
      <3>2. Kept /\ DOMAIN key' = {"n", "src_out", "st", "key"}
        BY <1>1, <2>8, KeyKept
      <3> QED
        BY <1>1, <3>1, <3>2 DEF HashInv, HFrame, Kept
    <2>9. ASSUME NEW n \in 1..H!Whole(MaxBits), NEW halt \in BOOLEAN, H!run(n, halt) PROVE HashInv'
      <3>1. n \in Nat
        <4>1. H!Whole(MaxBits) \in Int
          BY DEF SoftwareAssumption, H!Whole, BYTE
        <4> QED
          BY <4>1
      <3>2. HPhase'
        BY <1>1, <1>3, <2>9, <3>1, HRun
      <3> QED
        BY <1>1, <2>9, <3>2 DEF HashInv, HFrame, H!run
    <2>10. ASSUME NEW halt \in BOOLEAN, H!out_all(halt) PROVE HashInv'
      <3>1. HPhase' \/ HDead'
        BY <1>1, <1>3, <2>10, HOutAll
      <3> QED
        BY <1>1, <2>10, <3>1 DEF HashInv, HFrame, H!out_all
    <2>11. ASSUME NEW halt \in BOOLEAN, NEW kl \in {1, (job.size + BYTE - 1) \div BYTE}, H!read_bits(kl, halt) PROVE HashInv'
      <3>1. job.size \in Nat /\ job.size > 0
        BY <1>1, HJobs DEF HFrame, HJob
      <3>2. (job.size + BYTE - 1) \div BYTE \in Nat /\ (job.size + BYTE - 1) \div BYTE > 0
        BY <3>1 DEF BYTE
      <3>3. kl \in Nat /\ kl > 0
        BY <3>2
      <3>4. HPhase' \/ HDead'
        BY <1>1, <1>3, <2>11, <3>3, HReadBits
      <3> QED
        BY <1>1, <2>11, <3>4 DEF HashInv, HFrame, H!read_bits
    <2>12. ASSUME NEW ok \in BOOLEAN, H!Verdict(ok) PROVE HashInv'
      <3>1. HPhase'
        BY <1>1, <1>3, <2>12, HVerdict
      <3> QED
        BY <1>1, <2>12, <3>1 DEF HashInv, HFrame, H!Verdict, H!Same
    <2>13. ASSUME NEW j \in H!Jobs, NEW k \in H!Keys(j), H!Again(j, k) PROVE HashInv'
      BY <1>1, <1>3, <2>13, HAgain DEF HashInv
    <2> QED
      BY <2>1, <2>2, <2>3, <2>4, <2>5, <2>6, <2>7, <2>8, <2>9, <2>10, <2>11, <2>12, <2>13 DEF H!Next
  <1> QED
    BY <1>1, <1>2, <1>3

\* It implies the three properties.
LEMMA HashHolds ==
  ASSUME SoftwareAssumption, HashInv
  PROVE  m.machine \in Hashes /\ H!PlanIsAccepted /\ H!PlansAgree /\ H!ReadIsWhole
  <1>1. HFrame /\ (HDead \/ HPhase)
    BY DEF HashInv
  <1>2. HDead => m.st = "Invalid" /\ m.machine = was.machine /\ ~ H!Fits
    BY DEF HDead, H!H!Inert
  <1>3. HPhase => m.machine = was.machine /\ m.st # "Invalid"
    <2>1. \A st : InPlan(st) => m.machine = was.machine /\ m.st = st
      BY DEF InPlan, Same_
    <2>2. \A st : HReads(st) => m.machine = was.machine /\ m.st = st
      BY <2>1 DEF HReads
    <2> QED
      BY <2>1, <2>2 DEF HPhase, HBegin, HSetKey, HSecret, HFeed, HFinal, HFed, HAll, HDigest, HBits, HKey, HVerify, HStop, Ended_, Same_
  <1>4. m.machine \in Hashes
    BY <1>1, <1>2, <1>3 DEF HFrame
  <1>5. HPhase /\ pc = "stop" => HStop
    BY HPhaseIs
  <1>6. HPhase /\ pc = "stop" /\ ~ H!Fits => m.st = "PrivViolation"
    BY <1>5 DEF HStop, Ended_
  <1>7. H!PlanIsAccepted
    BY <1>1, <1>2, <1>3, <1>6 DEF H!PlanIsAccepted
  <1>8. HPhase /\ pc \in {"all", "digest", "bits", "key", "verify"} => sum = Total(job, was)
    BY HPhaseIs DEF HAll, HDigest, HBits, HKey, HVerify, HReads
  <1>9. H!PlansAgree
    <2>1. SUFFICES ASSUME pc \in {"all", "digest", "bits", "key", "verify"}, m.st # "Invalid"
                   PROVE  LET n == H!Bits(job) IN
                          sum = (IF H!H!hmac(m) \/ (m.machine = "BLAKE2_KEY" /\ n > 0) THEN BYTE * BYTES ELSE 0)
                                + (IF H!H!xof(m) THEN n ELSE ((n + BYTE - 1) \div BYTE) * BYTE)
      BY DEF H!PlansAgree
    <2>2. sum = Total(job, was) /\ m.machine = was.machine
      BY <1>1, <1>2, <1>3, <1>8, <2>1
    <2>3. (H!H!hmac(m) <=> H!H!hmac(was)) /\ (H!H!xof(m) <=> H!H!xof(was))
      BY <2>2 DEF H!H!hmac, H!H!xof
    <2>4. HParts(job) /\ HJob(job)
      BY <1>1, HJobs, HPieces DEF HFrame
    <2> DEFINE n == H!Bits(job)
    <2>5. n \in Nat
      BY <2>4 DEF HParts, HJob
    <2>6. ((n + BYTE - 1) \div BYTE) * BYTE = Round(n) /\ BYTE * BYTES = 4
      <3>1. n + 2 - 1 = n + 1
        BY <2>5
      <3> HIDE DEF n
      <3> QED
        BY <3>1 DEF Round, BYTE, BYTES
    <2>7. Total(job, was) = (IF H!H!hmac(was) \/ (was.machine = "BLAKE2_KEY" /\ n > 0) THEN 4 ELSE 0) + (IF H!H!xof(was) THEN n ELSE Round(n))
      BY DEF Total
    <2> HIDE DEF n
    <2>8. sum = (IF H!H!hmac(m) \/ (m.machine = "BLAKE2_KEY" /\ n > 0) THEN BYTE * BYTES ELSE 0)
                + (IF H!H!xof(m) THEN n ELSE ((n + BYTE - 1) \div BYTE) * BYTE)
      BY <2>2, <2>3, <2>6, <2>7
    <2> QED
      BY <2>8 DEF n
  <1>10. HPhase /\ pc = "bits" /\ m.st \in {"Output", "Bits"} /\ win.n = 0 => got = m.got
    <2>1. SUFFICES ASSUME HPhase, pc = "bits", m.st \in {"Output", "Bits"}, win.n = 0 PROVE got = m.got
      OBVIOUS
    <2>2. HBits
      BY <2>1, HPhaseIs
    <2>3. CASE m.st = "Output"
      BY <2>2, <2>3 DEF HBits, HReads, InPlan
    <2>4. CASE m.st = "Bits"
      <3>1. m.got = got + 2 * win.ks /\ got \in Nat /\ (win = H!NoWindow \/ (win.n \in Nat /\ win.ks \in Nat /\ 0 < win.ks /\ win.ks < win.n))
        BY <2>2, <2>4 DEF HBits, HReads, InPlan
      <3>2. win.ks = 0
        BY <2>1, <3>1 DEF H!NoWindow
      <3> QED
        BY <3>1, <3>2
    <2> QED
      BY <2>1, <2>3, <2>4
  <1>11. HPhase /\ pc = "stop" /\ m.st \in {"Success", "Output"} /\ job.read \in {"all", "digest", "bits"} =>
           got = m.got /\ got = (IF job.read = "all" THEN H!Size(job) ELSE 2) * 2
    BY <1>5 DEF HStop, Ended_
  <1>12. H!D = 2 /\ BYTE = 2
    BY DEF H!D, BYTE, BYTES
  <1>13. H!ReadIsWhole
    BY <1>1, <1>2, <1>10, <1>11, <1>12 DEF H!ReadIsWhole
  <1> QED
    BY <1>4, <1>7, <1>9, <1>13

-----------------------------------------------------------------------------
(* The theorems.                                                           *)

\* Nothing changes.
LEMMA AEADStutter ==
  ASSUME AEADInv, UNCHANGED <<m, job, todo, ks, got, may>>
  PROVE  AEADInv'
  <1>1. PICK k \in AEADs : \E j \in A!Jobs(k) : Doing(k, j)
    BY DEF AEADInv
  <1>2. PICK j \in A!Jobs(k) : Doing(k, j)
    BY <1>1
  <1>3. Doing(k, j)'
    <2>1. /\ Does(k, j)' <=> Does(k, j)
          /\ Dead(k, j)' <=> Dead(k, j)
          /\ Done(k, j)' <=> Done(k, j)
          /\ \A t : Fresh(k, j, t)' <=> Fresh(k, j, t)
      BY DEF Does, Dead, Done, Whole, Stream, Fresh
    <2>2. \A st, tag, c, g, t : At(k, j, st, tag, c, g, t)' <=> At(k, j, st, tag, c, g, t)
      BY <2>1 DEF At
    <2>3. \A st, tag, c, g, t : Piece(k, j, st, tag, c, g, t)' <=> Piece(k, j, st, tag, c, g, t)
      BY <2>2 DEF Piece
    <2>4. \A st, n, t, a : Window(k, j, st, n, t, a)' <=> Window(k, j, st, n, t, a)
      BY <2>1 DEF Window
    <2>5. /\ Iv(k, j)' <=> Iv(k, j)
          /\ \A t : Nonce(k, j, t)' <=> Nonce(k, j, t)
          /\ \A st, t : Sealed(k, j, st, t)' <=> Sealed(k, j, st, t)
      BY <2>1 DEF Iv, Nonce, Sealed
    <2>6. CPhase(k, j) => CPhase(k, j)'
      BY <2>1, <2>2, <2>3, <2>4 DEF CPhase
    <2>7. SPhase(k, j) => SPhase(k, j)'
      BY <2>1, <2>2, <2>3, <2>4 DEF SPhase
    <2>8. GPhase(k, j) => GPhase(k, j)'
      BY <2>1, <2>2, <2>3, <2>4, <2>5 DEF GPhase
    <2>9. OPhase(k, j) => OPhase(k, j)'
      BY <2>1, <2>2, <2>3, <2>4, <2>5 DEF OPhase
    <2> QED
      BY <1>2, <2>1, <2>6, <2>7, <2>8, <2>9 DEF Doing, Phase
  <1> QED
    BY <1>3 DEF AEADInv

\* Nothing changes.
LEMMA HashStutter ==
  ASSUME HashInv, UNCHANGED <<m, job, pc, left, win, got, key, sum, was>>
  PROVE  HashInv'
  <1>1. HFrame => HFrame'
    BY DEF HFrame
  <1>2. (H!Fits' <=> H!Fits)
    BY FitsKept DEF Kept
  <1>3. HDead => HDead'
    BY <1>2 DEF HDead
  <1>4. /\ SealIs => SealIs'
        /\ SecretFits => SecretFits'
        /\ OddFits => OddFits'
        /\ TagFits => TagFits'
        /\ VerifyFits => VerifyFits'
        /\ KeyFits => KeyFits'
        /\ Bound => Bound'
    BY DEF SealIs, SecretFits, OddFits, TagFits, VerifyFits, KeyFits, Bound
  <1>5. \A st : InPlan(st) => InPlan(st)'
    BY <1>4 DEF InPlan
  <1>6. \A st : HReads(st) => HReads(st)'
    BY <1>4, <1>5 DEF HReads
  <1>7. Ended_ => Ended_'
    BY <1>2 DEF Ended_, H!Size
  <1>8. /\ HBegin => HBegin'
        /\ \A n : HSetKey(n) => HSetKey(n)'
        /\ HSecret => HSecret'
        /\ HFeed => HFeed'
        /\ HFinal => HFinal'
        /\ HFed => HFed'
    BY <1>4, <1>5 DEF HBegin, HSetKey, HSecret, HFeed, HFinal, HFed
  <1>9. (HAll => HAll') /\ (HDigest => HDigest') /\ (HKey => HKey') /\ (HVerify => HVerify') /\ (HStop => HStop')
    BY <1>4, <1>6, <1>7 DEF HAll, HDigest, HKey, HVerify, HStop
  <1>10. HBits => HBits'
    BY <1>4, <1>6 DEF HBits
  <1>11. HPhase => HPhase'
    BY <1>8, <1>9, <1>10 DEF HPhase
  <1> QED
    BY <1>1, <1>3, <1>11 DEF HashInv

\* Software follows a sequence or a plan.
IInv == AEADInv \/ HashInv

\* No Machine is of both kinds.
LEMMA Apart ==
  ASSUME SoftwareAssumption
  PROVE  AEADs \cap Hashes = {}
  BY DEF SoftwareAssumption

\* The invariant of both.
LEMMA Inductive ==
  ASSUME SoftwareAssumption
  PROVE  (Init => IInv) /\ (IInv /\ [Next]_vars => IInv')
  <1>1. Init => IInv
    BY AEADInit, HashInit DEF Init, IInv
  <1>2. ASSUME IInv, [Next]_vars PROVE IInv'
    <2>1. CASE AEADInv
      <3>1. m.machine \in AEADs /\ m.machine \notin Hashes
        BY <2>1, AEADHolds, Apart
      <3>2. CASE UNCHANGED vars
        BY <2>1, <3>2, AEADStutter DEF vars, IInv
      <3>3. CASE A!Next
        BY <2>1, <3>3, AEADNext DEF IInv
      <3> QED
        BY <1>2, <3>1, <3>2, <3>3 DEF Next
    <2>2. CASE HashInv
      <3>1. m.machine \in Hashes /\ m.machine \notin AEADs
        BY <2>2, HashHolds, Apart
      <3>2. CASE UNCHANGED vars
        BY <2>2, <3>2, HashStutter DEF vars, IInv
      <3>3. CASE H!Next
        BY <2>2, <3>3, HashNext DEF IInv
      <3> QED
        BY <1>2, <3>1, <3>2, <3>3 DEF Next
    <2> QED
      BY <1>2, <2>1, <2>2 DEF IInv
  <1> QED
    BY <1>1, <1>2

\* It implies the three properties of the composition.
LEMMA Holds ==
  ASSUME SoftwareAssumption, IInv
  PROVE  SequenceIsAccepted /\ SequenceIsWhole /\ SameKeystream
  <1>1. CASE AEADInv
    BY <1>1, AEADHolds, Apart DEF SequenceIsAccepted, SequenceIsWhole, SameKeystream
  <1>2. CASE HashInv
    BY <1>2, HashHolds, Apart DEF SequenceIsAccepted, SequenceIsWhole, SameKeystream
  <1> QED
    BY <1>1, <1>2 DEF IInv

\* Software that follows aead_util.py or hash_util.py meets no refusal: whatever the lengths are, however
\* kl.exec is halted and wherever the CC is moved, a sequence or a plan fails only where policy, counters,
\* the Machine or a sealed secret do not allow it, and then it comes to no end.
THEOREM Accepted == Spec => []SequenceIsAccepted
  BY SoftwareAssumption, Inductive, Holds, PTL DEF Spec

\* A sequence that ends has given each unit of its text once, with a tag of all of the message; every plan
\* of hash_util.py has absorbed the same bits, and the pieces of an output that it read make up the output.
THEOREM IsWhole == Spec => []SequenceIsWhole
  BY SoftwareAssumption, Inductive, Holds, PTL DEF Spec

\* A sequence of aead_util.py that ends has used the counters that depend on its first counter and its
\* length alone, as often as it was halted and moved: decryption has the keystream of encryption.
THEOREM KeystreamIsSame == Spec => []SameKeystream
  BY SoftwareAssumption, Inductive, Holds, PTL DEF Spec

=============================================================================
