------------------------- MODULE KLETransfer_proofs -------------------------
(***************************************************************************)
(* Proofs about KLETransfer, for every set of lockers, every size of a     *)
(* content and of KLIOBUF, and every content and source.                   *)
(*                                                                         *)
(* StoreOK types the unit and says that the image of an export is the one  *)
(* of its content.  JobOK says how much of an instruction that was cut is  *)
(* done: the blocks from where it began up to the klstart of the thread,   *)
(* which the handler keeps for it (Reached), and no other.  A transfer of  *)
(* KLIOBUF that was cut is where it began.                                 *)
(***************************************************************************)
EXTENDS KLETransfer, SequenceTheorems, TLAPS

Blocks(n)  == [1..n -> Nat]
Images     == {None} \cup Blocks(ContentBlocks) \cup Blocks(ContentBlocks + 1)
Locker     == [st : {0, 1, 2} \cup Config, content : Blocks(ContentBlocks), img : Images, built : BOOLEAN]
Names      == Lockers \cup {None}
MemSize    == MaxBuffer + ContentBlocks + 1

LockerOK(l) ==
  /\ l \in Locker
  /\ l.img # None => l.st \in Config /\ l.img \in Blocks(image_end(l.st))
  /\ l.built => l.st \in Config /\ l.img = ImageOf(l.st, l.content)
LockersOK == L \in [Lockers -> Locker] /\ \A k \in Lockers : LockerOK(L[k])
BufOK(b) ==
  /\ b \in [len : 0..MaxBuffer, top : 0..MaxBuffer, max : 0..MaxBuffer, blocks : Blocks(MaxBuffer)]
  /\ b.top <= b.len /\ b.len <= b.max
StoreOK ==
  /\ LockersOK /\ BufOK(buf)
  /\ nl \in Names /\ start \in Nat
  /\ saved \in {None} \cup [nl : Names, start : Nat]
  /\ mem \in Blocks(MemSize)

Reached == IF saved = None THEN start ELSE saved.start
Least(a, b) == IF a > b THEN b ELSE a
Underway(from, end) == from \in Nat /\ from <= Reached /\ Reached < end

LoadDone(j) ==
  /\ j.k \in Lockers /\ L[j.k].st \in Inbound /\ j.src \in Sources /\ Underway(j.from, image_end(L[j.k].st))
  /\ \A i \in j.from + 1..Reached : img(L[j.k])[i] = j.src[i]
StoreDone(j) ==
  /\ j.k \in Lockers /\ L[j.k].st \in Outbound /\ Underway(j.from, image_end(L[j.k].st))
  /\ \A i \in j.from + 1..Reached : mem[i] = img(L[j.k])[i]
IobufDone(j) ==
  /\ j.src[1] \in Lengths /\ (j.op = "iobuf_load" => j.src[2] \in Sources)
  /\ Underway(j.from, Least(j.src[1], buf.top)) /\ j.from = Reached
ExecwDone(j) ==
  /\ j.k \in Lockers /\ L[j.k].st = 2 /\ Underway(j.from, buf.top) /\ j.before \in Blocks(MaxBuffer)
  /\ buf.blocks = Processed(j.before, j.from, Reached)
Done(j) ==
  /\ j.op \in {"load", "store", "iobuf_load", "iobuf_store", "execw"}
  /\ j.op = "load" => LoadDone(j)
  /\ j.op = "store" => StoreDone(j)
  /\ j.op \in {"iobuf_load", "iobuf_store"} => IobufDone(j)
  /\ j.op = "execw" => ExecwDone(j)
JobOK == job # None => Done(job)

IInv == StoreOK /\ JobOK

-----------------------------------------------------------------------------
(* Blocks.                                                                 *)

LEMMA Sizes == /\ ContentBlocks \in Nat \ {0} /\ MaxBuffer \in Nat /\ None \notin Seq(Nat)
               /\ Lengths \subseteq Nat /\ Tops \subseteq Nat
  BY TransferAssumption

LEMMA BlocksSeq == ASSUME NEW n \in Nat, NEW s \in Blocks(n) PROVE s \in Seq(Nat) /\ Len(s) = n
  <1>1. s \in Seq(Nat)
    BY SeqDef DEF Blocks
  <1>2. DOMAIN s = 1..n /\ Len(s) \in Nat /\ DOMAIN s = 1..Len(s)
    BY <1>1, LenProperties DEF Blocks
  <1> QED
    BY <1>1, <1>2

LEMMA SeqBlocks == ASSUME NEW s \in Seq(Nat) PROVE Len(s) \in Nat /\ s \in Blocks(Len(s))
  BY LenProperties DEF Blocks

LEMMA SubBlocks ==
  ASSUME NEW n \in Nat, NEW s \in Blocks(n), NEW a \in Nat, NEW b \in Nat, a <= b, b <= n
  PROVE  /\ SubSeq(s, a + 1, b) \in Blocks(b - a)
         /\ \A i \in a + 1..b : SubSeq(s, a + 1, b)[i - a] = s[i]
         /\ Len(SubSeq(s, a + 1, b)) = b - a
  <1> DEFINE t == SubSeq(s, a + 1, b)
  <1>1. \A i \in a + 1..b : s[i] \in Nat
    BY DEF Blocks
  <1>2. /\ t \in Seq(Nat)
        /\ Len(t) = IF a + 1 <= b THEN b - (a + 1) + 1 ELSE 0
        /\ \A i \in 1..b - (a + 1) + 1 : t[i] = s[a + 1 + i - 1]
    BY <1>1, SubSeqProperties
  <1>3. Len(t) = b - a
    BY <1>2
  <1>4. t \in Blocks(b - a)
    BY <1>2, <1>3, SeqBlocks
  <1>5. ASSUME NEW i \in a + 1..b PROVE t[i - a] = s[i]
    <2>1. i - a \in 1..b - (a + 1) + 1 /\ a + 1 + (i - a) - 1 = i
      OBVIOUS
    <2> QED
      BY <1>2, <2>1
  <1> QED
    BY <1>3, <1>4, <1>5

LEMMA ZerosBlocks == ASSUME NEW n \in Nat PROVE Zeros(n) \in Blocks(n)
  BY DEF Zeros, Blocks

LEMMA CatBlocks ==
  ASSUME NEW a \in Nat, NEW n \in Nat, NEW z \in Blocks(a), NEW c \in Blocks(n)
  PROVE  /\ z \o c \in Blocks(a + n)
         /\ \A i \in 1..n : (z \o c)[a + i] = c[i]
  <1>1. z \in Seq(Nat) /\ Len(z) = a
    BY BlocksSeq
  <1>2. c \in Seq(Nat) /\ Len(c) = n
    BY BlocksSeq
  <1>3. /\ z \o c \in Seq(Nat)
        /\ Len(z \o c) = Len(z) + Len(c)
        /\ \A i \in 1..Len(z) + Len(c) : (z \o c)[i] = IF i <= Len(z) THEN z[i] ELSE c[i - Len(z)]
    BY <1>1, <1>2, ConcatProperties
  <1>4. z \o c \in Blocks(a + n)
    BY <1>1, <1>2, <1>3, SeqBlocks
  <1>5. ASSUME NEW i \in 1..n PROVE (z \o c)[a + i] = c[i]
    <2>1. a + i \in 1..a + n /\ ~ (a + i <= a) /\ (a + i) - a = i
      OBVIOUS
    <2> QED
      BY <1>1, <1>2, <1>3, <2>1
  <1> QED
    BY <1>4, <1>5

LEMMA SameBlocks ==
  ASSUME NEW n \in Nat, NEW s \in Blocks(n), NEW t \in Blocks(n), \A i \in 1..n : s[i] = t[i]
  PROVE  s = t
  BY DEF Blocks

LEMMA NotNone == ASSUME NEW n \in Nat, NEW s \in Blocks(n) PROVE s # None
  BY BlocksSeq, Sizes

LEMMA WrittenBlocks ==
  ASSUME NEW n \in Nat, NEW image \in Blocks(n), NEW from \in Nat, NEW c \in Nat, NEW blocks,
         \A i \in from + 1..from + c : blocks[i - from] \in Nat
  PROVE  /\ Written(image, from, blocks, c) \in Blocks(n)
         /\ \A i \in 1..n : Written(image, from, blocks, c)[i] = IF i \in from + 1..from + c THEN blocks[i - from] ELSE image[i]
  BY DEF Written, Blocks

\* What an instruction that moves the blocks after from up to stop leaves.
MovedInto(image, blocks, from, stop) == Written(image, from, SubSeq(blocks, from + 1, stop), stop - from)

LEMMA WrittenUpTo ==
  ASSUME NEW n \in Nat, NEW image \in Blocks(n), NEW z \in Nat, NEW blocks \in Blocks(z),
         NEW from \in Nat, NEW stop \in Nat, from <= stop, stop <= z \/ from = stop
  PROVE  /\ MovedInto(image, blocks, from, stop) \in Blocks(n)
         /\ \A i \in 1..n : MovedInto(image, blocks, from, stop)[i] = IF from < i /\ i <= stop THEN blocks[i] ELSE image[i]
  <1> DEFINE s == SubSeq(blocks, from + 1, stop)
  <1>1. \A i \in from + 1..stop : s[i - from] = blocks[i] /\ blocks[i] \in Nat
    <2>1. CASE stop <= z
      BY <2>1, SubBlocks DEF Blocks
    <2>2. CASE from = stop
      BY <2>2
    <2> QED
      BY <2>1, <2>2
  <1>2. stop - from \in Nat /\ from + (stop - from) = stop
    OBVIOUS
  <1> HIDE DEF s
  <1>3. \A i \in from + 1..from + (stop - from) : s[i - from] \in Nat
    BY <1>1, <1>2
  <1>4. /\ Written(image, from, s, stop - from) \in Blocks(n)
        /\ \A i \in 1..n : Written(image, from, s, stop - from)[i] =
             IF i \in from + 1..from + (stop - from) THEN s[i - from] ELSE image[i]
    <2> DEFINE c == stop - from
    <2>1. c \in Nat /\ \A i \in from + 1..from + c : s[i - from] \in Nat
      BY <1>2, <1>3
    <2> HIDE DEF c
    <2>2. /\ Written(image, from, s, c) \in Blocks(n)
          /\ \A i \in 1..n : Written(image, from, s, c)[i] = IF i \in from + 1..from + c THEN s[i - from] ELSE image[i]
      BY <2>1 DEF Written, Blocks
    <2> QED
      BY <2>2 DEF c
  <1>5. ASSUME NEW i \in 1..n
        PROVE  Written(image, from, s, stop - from)[i] = IF from < i /\ i <= stop THEN blocks[i] ELSE image[i]
    <2>1. CASE from < i /\ i <= stop
      <3>1. i \in from + 1..stop
        BY <2>1
      <3> QED
        BY <2>1, <3>1, <1>1, <1>2, <1>4
    <2>2. CASE ~ (from < i /\ i <= stop)
      <3>1. i \notin from + 1..stop
        BY <2>2
      <3> QED
        BY <2>2, <3>1, <1>2, <1>4
    <2> QED
      BY <2>1, <2>2
  <1> QED
    BY <1>4, <1>5 DEF s, MovedInto

LEMMA WrittenAt ==
  ASSUME NEW n \in Nat, NEW image \in Blocks(n), NEW z \in Nat, NEW blocks \in Blocks(z),
         NEW from \in Nat, NEW stop \in Nat, NEW i \in 1..n, from <= stop, stop <= z \/ from = stop
  PROVE  MovedInto(image, blocks, from, stop)[i] = IF from < i /\ i <= stop THEN blocks[i] ELSE image[i]
  BY WrittenUpTo, SMTT(30)

-----------------------------------------------------------------------------
(* Images.                                                                 *)

LEMMA Ends0 ==
  ASSUME NEW st
  PROVE  /\ image_end(st) \in {ContentBlocks, ContentBlocks + 1} /\ image_end(st) \in Nat
         /\ offset(st) \in Nat /\ offset(st) + ContentBlocks = image_end(st)
  BY Sizes DEF image_end, offset

LEMMA HeldImage ==
  ASSUME NEW l, LockerOK(l)
  PROVE  img(l) \in Blocks(image_end(l.st)) /\ (l.img # None => img(l) = l.img)
  BY Ends0, ZerosBlocks DEF LockerOK, img

LEMMA ImageBlocks ==
  ASSUME NEW st, NEW c \in Blocks(ContentBlocks)
  PROVE  /\ ImageOf(st, c) \in Blocks(image_end(st))
         /\ \A i \in 1..ContentBlocks : ImageOf(st, c)[offset(st) + i] = c[i]
  <1>1. Zeros(offset(st)) \in Blocks(offset(st))
    BY Ends0, ZerosBlocks
  <1>2. offset(st) \in Nat /\ ContentBlocks \in Nat /\ offset(st) + ContentBlocks = image_end(st)
    BY Ends0, Sizes
  <1>3. /\ Zeros(offset(st)) \o c \in Blocks(offset(st) + ContentBlocks)
        /\ \A i \in 1..ContentBlocks : (Zeros(offset(st)) \o c)[offset(st) + i] = c[i]
    BY <1>1, <1>2, CatBlocks
  <1> QED
    BY <1>2, <1>3 DEF ImageOf

\* The content of the image that a completion takes.
LEMMA TakenContent ==
  ASSUME NEW st, NEW image \in Blocks(image_end(st))
  PROVE  /\ SubSeq(image, offset(st) + 1, image_end(st)) \in Blocks(ContentBlocks)
         /\ \A c \in Blocks(ContentBlocks) : image = ImageOf(st, c) => SubSeq(image, offset(st) + 1, image_end(st)) = c
  <1> DEFINE t == SubSeq(image, offset(st) + 1, image_end(st))
             o == offset(st)
             e == image_end(st)
  <1>1. o \in Nat /\ e \in Nat /\ o <= e /\ e - o = ContentBlocks
    BY Ends0, Sizes
  <1>2. t \in Blocks(ContentBlocks) /\ \A i \in o + 1..e : t[i - o] = image[i]
    BY <1>1, SubBlocks
  <1>3. ASSUME NEW c \in Blocks(ContentBlocks), image = ImageOf(st, c) PROVE t = c
    <2> HIDE DEF t
    <2>1. ASSUME NEW i \in 1..ContentBlocks PROVE t[i] = c[i]
      <3>1. o + i \in o + 1..e /\ (o + i) - o = i
        BY <1>1, Sizes
      <3> HIDE DEF o, e
      <3>2. t[i] = image[o + i]
        BY <1>2, <3>1
      <3> QED
        BY <1>3, <3>2, ImageBlocks DEF o
    <2> QED
      BY <1>2, <2>1, SameBlocks, Sizes
  <1> QED
    BY <1>2, <1>3

-----------------------------------------------------------------------------
(* The records that the actions write.                                     *)

LEMMA LockerFields ==
  ASSUME NEW s \in {0, 1, 2} \cup Config, NEW c \in Blocks(ContentBlocks), NEW g \in Images, NEW b \in BOOLEAN,
         NEW l, l = [st |-> s, content |-> c, img |-> g, built |-> b]
  PROVE  l \in Locker /\ l.st = s /\ l.content = c /\ l.img = g /\ l.built = b
  BY DEF Locker

LEMMA LockerIs ==
  ASSUME NEW l \in Locker
  PROVE  /\ l = [st |-> l.st, content |-> l.content, img |-> l.img, built |-> l.built]
         /\ l.st \in {0, 1, 2} \cup Config /\ l.content \in Blocks(ContentBlocks)
         /\ l.img \in Images /\ l.built \in BOOLEAN
  BY DEF Locker

LEMMA ImageIn == ASSUME NEW st, NEW g \in Blocks(image_end(st)) PROVE g \in Images
  BY Ends0 DEF Images

LEMMA FreeOK == ASSUME NEW s \in {0, 1, 2} \cup Config PROVE LockerOK([Free EXCEPT !.st = s])
  BY ZerosBlocks, Sizes DEF LockerOK, Free, Locker, Images

LEMMA ReopenedOK ==
  ASSUME NEW l \in Locker, NEW s \in Config, NEW g \in Blocks(image_end(s)), NEW b \in BOOLEAN,
         b => g = ImageOf(s, l.content)
  PROVE  LockerOK([l EXCEPT !.st = s, !.img = g, !.built = b])
  <1> DEFINE l1 == [l EXCEPT !.st = s]
             l2 == [l1 EXCEPT !.img = g]
             n  == [l2 EXCEPT !.built = b]
  <1>a. l1 = [st |-> s, content |-> l.content, img |-> l.img, built |-> l.built]
    BY DEF Locker
  <1> HIDE DEF l1
  <1>b. l2 = [st |-> s, content |-> l.content, img |-> g, built |-> l.built]
    BY <1>a
  <1> HIDE DEF l2
  <1>1. n = [st |-> s, content |-> l.content, img |-> g, built |-> b]
    BY <1>b
  <1> HIDE DEF n
  <1>2. n \in Locker /\ n.st = s /\ n.content = l.content /\ n.img = g /\ n.built = b
    BY <1>1, ImageIn, LockerIs, LockerFields
  <1> QED
    BY <1>2 DEF LockerOK, n, l2, l1

LEMMA OpeningOK ==
  ASSUME NEW l, LockerOK(l), l.st # 0, NEW st, st = IF l.st \in PIStates THEN PPIExporting ELSE Exporting
  PROVE  LockerOK([l EXCEPT !.st = st, !.img = ExportImage(l, st), !.built = l.built \/ l.img = None])
  <1> DEFINE g == ExportImage(l, st)
             b == l.built \/ l.img = None
             n == [l EXCEPT !.st = st, !.img = g, !.built = b]
  <1>1. l \in Locker /\ l.content \in Blocks(ContentBlocks) /\ l.built \in BOOLEAN
    BY LockerIs DEF LockerOK
  <1>2. st \in Config
    BY DEF Config, Provisioning, PPIImporting, PPIExporting, Exporting
  <1>3. b \in BOOLEAN
    BY <1>1
  <1>4. CASE l.img = None
    <2>1. g = ImageOf(st, l.content) /\ g \in Blocks(image_end(st))
      BY <1>1, <1>4, ImageBlocks DEF ExportImage
    <2> QED
      BY <1>1, <1>2, <1>3, <2>1, ReopenedOK
  <1>5. CASE l.img # None
    <2>1. l.st \in Config /\ l.img \in Blocks(image_end(l.st)) /\ image_end(l.st) = image_end(st) /\ offset(l.st) = offset(st)
      BY <1>5 DEF LockerOK, image_end, offset, PIStates, Config, Provisioning, PPIImporting, PPIExporting, Exporting
    <2>2. g = l.img /\ (b => l.built)
      BY <1>5 DEF ExportImage
    <2>3. b => g = ImageOf(st, l.content)
      BY <2>1, <2>2 DEF LockerOK, ImageOf
    <2>4. g \in Blocks(image_end(st))
      BY <2>1, <2>2
    <2> HIDE DEF g, b
    <2>5. LockerOK([l EXCEPT !.st = st, !.img = g, !.built = b])
      BY <1>1, <1>2, <1>3, <2>4, <2>3, ReopenedOK
    <2> QED
      BY <2>5 DEF g, b
  <1> QED
    BY <1>4, <1>5

LEMMA UnserializedOK ==
  ASSUME NEW l, LockerOK(l)
  PROVE  LockerOK(Unserialized(l)) /\ Unserialized(l).st = l.st
  <1> DEFINE c == SubSeq(img(l), offset(l.st) + 1, image_end(l.st))
             n == [l EXCEPT !.content = c]
  <1>1. CASE ~ (l.img # None /\ l.st \in Inbound)
    BY <1>1 DEF Unserialized
  <1>2. CASE l.img # None /\ l.st \in Inbound
    <2>1. l \in Locker /\ l.st \in Config /\ l.img \in Blocks(image_end(l.st)) /\ img(l) = l.img
      BY <1>2, HeldImage DEF LockerOK
    <2>2. c \in Blocks(ContentBlocks) /\ (l.built => c = l.content)
      BY <2>1, TakenContent, LockerIs DEF LockerOK
    <2> HIDE DEF c
    <2>3. n = [st |-> l.st, content |-> c, img |-> l.img, built |-> l.built]
      BY <2>1 DEF Locker
    <2> HIDE DEF n
    <2>4. n \in Locker /\ n.st = l.st /\ n.content = c /\ n.img = l.img /\ n.built = l.built
      BY <2>1, <2>2, <2>3, LockerIs, LockerFields
    <2>5. LockerOK(n)
      BY <2>1, <2>2, <2>4 DEF LockerOK
    <2>6. Unserialized(l) = n
      BY <1>2 DEF Unserialized, n, c
    <2> QED
      BY <2>4, <2>5, <2>6
  <1> QED
    BY <1>1, <1>2

LEMMA WithoutImageOK ==
  ASSUME NEW l, l \in Locker, l.st \in Config => LockerOK(l)
  PROVE  LockerOK(WithoutImage(l))
  <1>1. CASE l.st \in Config
    BY <1>1 DEF WithoutImage
  <1>2. CASE l.st \notin Config
    <2> DEFINE b  == FALSE
               l1 == [l EXCEPT !.img = None]
               n  == [l1 EXCEPT !.built = b]
    <2>0. b \in BOOLEAN /\ ~ b
      OBVIOUS
    <2> HIDE DEF b
    <2>1. l1 = [st |-> l.st, content |-> l.content, img |-> None, built |-> l.built]
      BY DEF Locker
    <2> HIDE DEF l1
    <2>2. n = [st |-> l.st, content |-> l.content, img |-> None, built |-> b]
      BY <2>0, <2>1
    <2> HIDE DEF n
    <2>3. n \in Locker /\ n.st = l.st /\ n.img = None /\ n.built = b
      <3>1. None \in Images
        BY DEF Images
      <3> QED
        BY <2>0, <2>2, <3>1, LockerIs, LockerFields
    <2>4. WithoutImage(l) = n
      BY <1>2 DEF WithoutImage, n, l1, b
    <2> QED
      BY <2>0, <2>3, <2>4 DEF LockerOK
  <1> QED
    BY <1>1, <1>2

LEMMA CompletedOK ==
  ASSUME NEW l, LockerOK(l), l.st \in Config, NEW ml \in {1, 2} \cup Config, NEW genuine \in BOOLEAN,
         l.st = Provisioning \/ ml \in Admitted(l.st)
  PROVE  LockerOK(WithoutImage(Completed(l, ml, genuine)))
  <1> DEFINE s == IF l.st = Provisioning THEN 1 ELSE ml
             m == [l EXCEPT !.st = s]
  <1>0. l \in Locker /\ s \in {0, 1, 2} \cup Config
    BY DEF LockerOK
  <1>1. m = [st |-> s, content |-> l.content, img |-> l.img, built |-> l.built]
    BY <1>0 DEF Locker
  <1>2. m \in Locker /\ m.st = s /\ m.content = l.content /\ m.img = l.img /\ m.built = l.built
    <2> HIDE DEF s, m
    <2> QED
      BY <1>0, <1>1, LockerIs, LockerFields
  <1>3. Completed(l, ml, genuine) \in {Free, m}
    BY DEF Completed
  <1>4. LockerOK(Free) /\ Free \in Locker
    BY ZerosBlocks, Sizes DEF LockerOK, Free, Locker, Images
  <1>5. ASSUME s \in Config PROVE LockerOK(m)
    <2>1. s \in Admitted(l.st) /\ s = ml
      BY <1>5 DEF Config, Provisioning, PPIImporting
    <2>2. image_end(s) = image_end(l.st) /\ offset(s) = offset(l.st)
      BY <1>5, <2>1 DEF Admitted, image_end, offset, Config, PIStates, Provisioning, PPIImporting, PPIExporting, Exporting, Importing
    <2>3. ImageOf(s, l.content) = ImageOf(l.st, l.content)
      BY <2>2 DEF ImageOf
    <2> HIDE DEF m, s
    <2> QED
      BY <1>2, <1>5, <2>2, <2>3 DEF LockerOK
  <1> HIDE DEF m, s
  <1> QED
    BY <1>2, <1>3, <1>4, <1>5, WithoutImageOK

LEMMA UsedOK ==
  ASSUME NEW l, LockerOK(l), l.st \in {1, 2}, NEW s \in {1, 2}, NEW c \in Blocks(ContentBlocks)
  PROVE  LockerOK([l EXCEPT !.st = s, !.content = c])
  <1> DEFINE l1 == [l EXCEPT !.st = s]
             n  == [l1 EXCEPT !.content = c]
  <1>0. l \in Locker /\ l.img = None /\ l.built \in BOOLEAN /\ ~ l.built
    BY DEF LockerOK, Locker, Config, Provisioning, PPIImporting
  <1>1. l1 = [st |-> s, content |-> l.content, img |-> l.img, built |-> l.built]
    BY <1>0 DEF Locker
  <1> HIDE DEF l1
  <1>2. n = [st |-> s, content |-> c, img |-> l.img, built |-> l.built]
    BY <1>1
  <1> HIDE DEF n
  <1>3. n \in Locker /\ n.img = l.img /\ n.built = l.built
    BY <1>0, <1>2, LockerIs, LockerFields
  <1> QED
    BY <1>0, <1>3 DEF LockerOK, n, l1

LEMMA FilledOK ==
  ASSUME NEW l, LockerOK(l), l.st \in Inbound, NEW from \in Nat, NEW c \in Nat, NEW blocks,
         \A i \in from + 1..from + c : blocks[i - from] \in Nat
  PROVE  LET n == Filled(l, from, blocks, c) IN
         LockerOK(n) /\ n.st = l.st /\ n.img = Written(img(l), from, blocks, c) /\ img(n) = n.img
  <1> DEFINE w  == Written(img(l), from, blocks, c)
             b  == FALSE
             l1 == [l EXCEPT !.img = w]
             n  == [l1 EXCEPT !.built = b]
  <1>b. b \in BOOLEAN /\ ~ b
    OBVIOUS
  <1> HIDE DEF b
  <1>0. l \in Locker /\ l.st \in Config
    BY DEF LockerOK, Inbound, Config, Provisioning, Importing, PPIImporting
  <1>1. w \in Blocks(image_end(l.st)) /\ w \in Images
    <2>1. img(l) \in Blocks(image_end(l.st))
      BY HeldImage
    <2>2. w \in Blocks(image_end(l.st))
      BY <2>1, Ends0, WrittenBlocks
    <2> QED
      BY <2>2, ImageIn
  <1>2. w # None
    BY <1>1, Ends0, NotNone
  <1> HIDE DEF w
  <1>3. l1 = [st |-> l.st, content |-> l.content, img |-> w, built |-> l.built]
    BY <1>0 DEF Locker
  <1> HIDE DEF l1
  <1>4. n = [st |-> l.st, content |-> l.content, img |-> w, built |-> b]
    BY <1>b, <1>3
  <1> HIDE DEF n
  <1>5. n \in Locker /\ n.st = l.st /\ n.img = w /\ n.built = b
    BY <1>b, <1>0, <1>1, <1>4, LockerIs, LockerFields
  <1>6. LockerOK(n) /\ img(n) = n.img
    BY <1>b, <1>0, <1>1, <1>2, <1>5 DEF LockerOK, img
  <1>7. Filled(l, from, blocks, c) = n
    BY DEF Filled, n, l1, w, b
  <1> QED
    BY <1>5, <1>6, <1>7 DEF w

-----------------------------------------------------------------------------
(* The steps of the unit.  The locker of the thread's instruction is       *)
(* spared: May keeps the handler from it.                                  *)

Spared == \A k \in Lockers : ~ May(k) => L'[k] = L[k]
UnitOK == LockersOK' /\ nl' \in Names /\ start' \in Nat /\ Spared

LEMMA PutOK ==
  ASSUME LockersOK, NEW k \in Lockers, May(k), NEW x, LockerOK(x), L' = [L EXCEPT ![k] = x]
  PROVE  LockersOK' /\ Spared /\ L'[k] = x
  <1>1. L'[k] = x /\ \A j \in Lockers : j # k => L'[j] = L[j]
    BY DEF LockersOK
  <1>2. x \in Locker
    BY DEF LockerOK
  <1>3. L' \in [Lockers -> Locker]
    BY <1>2 DEF LockersOK
  <1>4. \A j \in Lockers : LockerOK(L'[j])
    BY <1>1 DEF LockersOK
  <1> QED
    BY <1>1, <1>3, <1>4 DEF LockersOK, Spared

LEMMA SameOK == ASSUME LockersOK, L' = L PROVE LockersOK' /\ Spared
  BY DEF LockersOK, Spared

LEMMA Holder == ASSUME LockersOK, NEW k \in Lockers PROVE LockerOK(L[k]) /\ L[k] \in Locker
  BY DEF LockersOK

LEMMA OpenStep ==
  ASSUME StoreOK, NEW k \in Lockers, NEW st \in Inbound, open(k, st)
  PROVE  UnitOK /\ buf' = buf
  <1>1. st \in {0, 1, 2} \cup Config
    BY DEF Inbound, Config, Provisioning, Importing, PPIImporting
  <1>2. LockerOK([Free EXCEPT !.st = st])
    BY <1>1, FreeOK
  <1>3. /\ LockersOK /\ May(k) /\ L' = [L EXCEPT ![k] = [Free EXCEPT !.st = st]]
        /\ nl' = k /\ start' = 0 /\ buf' = buf
    BY DEF StoreOK, open
  <1> QED
    BY <1>2, <1>3, PutOK DEF UnitOK, Names

LEMMA ExportOpenStep ==
  ASSUME StoreOK, NEW k \in Lockers, NEW refused \in BOOLEAN, _export_open(k, refused)
  PROVE  UnitOK /\ buf' = buf
  <1> DEFINE st == IF L[k].st \in PIStates THEN PPIExporting ELSE Exporting
             x  == [L[k] EXCEPT !.st = st, !.img = ExportImage(L[k], st), !.built = L[k].built \/ L[k].img = None]
  <1>1. LockersOK /\ May(k) /\ nl' = k /\ start' = 0 /\ buf' = buf
    BY DEF StoreOK, _export_open
  <1>2. CASE L[k].st = 0 \/ refused
    <2>1. L' = L
      BY <1>2 DEF _export_open
    <2> QED
      BY <1>1, <2>1, SameOK DEF UnitOK, Names
  <1>3. CASE ~ (L[k].st = 0 \/ refused)
    <2>1. L' = [L EXCEPT ![k] = x]
      BY <1>3 DEF _export_open
    <2>2. LockerOK(L[k])
      BY <1>1, Holder
    <2>3. LockerOK(x)
      BY <1>3, <2>2, OpeningOK
    <2> HIDE DEF x
    <2> QED
      BY <1>1, <2>1, <2>3, PutOK DEF UnitOK, Names
  <1> QED
    BY <1>2, <1>3

LEMMA CompleteStep ==
  ASSUME StoreOK, NEW k \in Lockers, NEW ml \in {1, 2} \cup Config, NEW genuine \in BOOLEAN, _complete(k, ml, genuine)
  PROVE  UnitOK /\ buf' = buf
  <1> DEFINE l == Unserialized(L[k])
             admitted == l.st \in Config /\ (l.st = Provisioning \/ ml \in Admitted(l.st))
             x == IF admitted THEN WithoutImage(Completed(l, ml, genuine)) ELSE l
  <1>1. LockersOK /\ May(k) /\ nl' = k /\ start' = 0 /\ buf' = buf /\ L' = [L EXCEPT ![k] = x]
    BY DEF StoreOK, _complete
  <1>2. LockerOK(L[k])
    BY <1>1, Holder
  <1>3. LockerOK(l)
    BY <1>2, UnserializedOK
  <1> HIDE DEF l
  <1>4. LockerOK(x)
    BY <1>3, CompletedOK
  <1> HIDE DEF x
  <1> QED
    BY <1>1, <1>4, PutOK DEF UnitOK, Names

LEMMA UseMachineStep ==
  ASSUME StoreOK, NEW k \in Lockers, NEW st \in {1, 2}, NEW c \in Contents, UseMachine(k, st, c)
  PROVE  UnitOK /\ buf' = buf
  <1> DEFINE x == [L[k] EXCEPT !.st = st, !.content = c]
  <1>1. LockersOK /\ May(k) /\ nl' = nl /\ nl \in Names /\ start' = start /\ start \in Nat /\ buf' = buf
    BY DEF StoreOK, UseMachine
  <1>2. L[k].st \in {1, 2} /\ L' = [L EXCEPT ![k] = x]
    BY DEF UseMachine
  <1>3. c \in Blocks(ContentBlocks)
    BY TransferAssumption, SeqBlocks
  <1>4. LockerOK(x)
    BY <1>1, <1>2, <1>3, UsedOK, Holder
  <1> HIDE DEF x
  <1> QED
    BY <1>1, <1>2, <1>4, PutOK DEF UnitOK

LEMMA FreeIs == LockerOK(Free) /\ Free \in Locker
  BY ZerosBlocks, Sizes DEF LockerOK, Free, Locker, Images

LEMMA ClearStep ==
  ASSUME StoreOK, NEW k \in Lockers, clear(k) \/ setste(k)
  PROVE  UnitOK /\ buf' = buf
  <1>1. LockersOK /\ May(k) /\ nl' \in Names /\ start' \in Nat /\ buf' = buf
    BY DEF StoreOK, clear, setste, Destroyed, Leaves, Names
  <1>2. L' = [L EXCEPT ![k] = Free]
    BY DEF clear, setste
  <1> HIDE DEF Free
  <1> QED
    BY <1>1, <1>2, FreeIs, PutOK DEF UnitOK

LEMMA AllFree == ASSUME L' = [k \in Lockers |-> Free] PROVE LockersOK'
  <1> HIDE DEF Free
  <1> QED
    BY FreeIs DEF LockersOK

LEMMA ClearallStep == ASSUME StoreOK, clearall PROVE UnitOK /\ buf' = buf
  <1>1. L' = [k \in Lockers |-> Free] /\ nl' \in Names /\ start' \in Nat /\ buf' = buf /\ Spared
    BY DEF clearall, Names, Spared
  <1> QED
    BY <1>1, AllFree DEF UnitOK

\* The copy of a Valid State, which has no image.
LEMMA CopyOK ==
  ASSUME NEW l, LockerOK(l)
  PROVE  LockerOK([Free EXCEPT !.st = l.st, !.content = l.content])
  <1> DEFINE l1 == [Free EXCEPT !.st = l.st]
             n  == [l1 EXCEPT !.content = l.content]
  <1>1. l.st \in {0, 1, 2} \cup Config /\ l.content \in Blocks(ContentBlocks)
    BY LockerIs DEF LockerOK
  <1>2. Free.img = None /\ ~ Free.built
    BY DEF Free
  <1>3. Free \in Locker /\ Free.img \in Images /\ Free.built \in BOOLEAN
    BY FreeIs, LockerIs
  <1> HIDE DEF Free
  <1>4. l1 = [st |-> l.st, content |-> Free.content, img |-> Free.img, built |-> Free.built]
    BY <1>3 DEF Locker
  <1> HIDE DEF l1
  <1>5. n = [st |-> l.st, content |-> l.content, img |-> Free.img, built |-> Free.built]
    BY <1>4
  <1> HIDE DEF n
  <1>6. n \in Locker /\ n.img = Free.img /\ n.built = Free.built
    BY <1>1, <1>3, <1>5, LockerFields
  <1> QED
    BY <1>2, <1>6 DEF LockerOK, n, l1

LEMMA CloneStep ==
  ASSUME StoreOK, NEW d \in Lockers, NEW src \in Lockers, clone(d, src)
  PROVE  UnitOK /\ buf' = buf
  <1> DEFINE x == IF L[src].st \in Config THEN Free ELSE [Free EXCEPT !.st = L[src].st, !.content = L[src].content]
  <1>1. LockersOK /\ May(d) /\ nl' \in Names /\ start' \in Nat /\ buf' = buf /\ L' = [L EXCEPT ![d] = x]
    BY DEF StoreOK, clone, Destroyed, Leaves, Names
  <1>2. LockerOK(x)
    BY <1>1, Holder, CopyOK, FreeIs
  <1> HIDE DEF x
  <1> QED
    BY <1>1, <1>2, PutOK DEF UnitOK

LEMMA PutTwoOK ==
  ASSUME LockersOK, NEW d \in Lockers, NEW k \in Lockers, d # k, May(d), May(k), NEW x, LockerOK(x), NEW y, LockerOK(y),
         L' = [L EXCEPT ![d] = x, ![k] = y]
  PROVE  LockersOK' /\ Spared
  <1>1. L'[d] = x /\ L'[k] = y /\ \A j \in Lockers : j # d /\ j # k => L'[j] = L[j]
    BY DEF LockersOK
  <1>2. x \in Locker /\ y \in Locker
    BY DEF LockerOK
  <1>3. L' \in [Lockers -> Locker]
    BY <1>2 DEF LockersOK
  <1>4. \A j \in Lockers : LockerOK(L'[j])
    BY <1>1 DEF LockersOK
  <1> QED
    BY <1>1, <1>3, <1>4 DEF LockersOK, Spared

LEMMA MoveStep ==
  ASSUME StoreOK, NEW d \in Lockers, NEW src \in Lockers, swap(d, src) \/ \E u \in BOOLEAN : rename(d, src, u)
  PROVE  UnitOK /\ buf' = buf
  <1>1. LockersOK /\ d # src /\ May(d) /\ May(src) /\ nl' \in Names /\ start' \in Nat /\ buf' = buf
    BY DEF StoreOK, swap, rename, Destroyed, Leaves, Names
  <1>2. L' = [L EXCEPT ![d] = L[src], ![src] = L[d]] \/ L' = [L EXCEPT ![d] = L[src], ![src] = Free]
    BY DEF swap, rename
  <1>3. LockerOK(L[d]) /\ LockerOK(L[src]) /\ LockerOK(Free)
    BY <1>1, Holder, FreeIs
  <1> HIDE DEF Free
  <1> QED
    BY <1>1, <1>2, <1>3, PutTwoOK DEF UnitOK

\* The blocks that move end where the image does.
LEMMA MovedIs ==
  ASSUME start \in Nat, NEW n \in Nat
  PROVE  /\ Moved(n) \in 0..n
         /\ Moved(n) = 0 \/ start + Moved(n) <= image_end(L[nl].st)
  <1> DEFINE e == image_end(L[nl].st)
             P(m) == \/ start + m = e
                     \/ m = n /\ start + n < e
                     \/ m = 0 /\ start > e
  <1>1. e \in Nat
    BY Ends0
  <1>2. \E m \in 0..n : P(m)
    <2> HIDE DEF e
    <2>1. CASE start > e
      BY <2>1
    <2>2. CASE start <= e /\ start + n < e
      BY <2>2
    <2>3. CASE start <= e /\ start + n >= e
      <3>1. e - start \in 0..n /\ P(e - start)
        BY <1>1, <2>3
      <3> QED
        BY <3>1
    <2> QED
      BY <1>1, <2>1, <2>2, <2>3
  <1>3. Moved(n) = CHOOSE m \in 0..n : P(m)
    BY DEF Moved
  <1>4. Moved(n) \in 0..n /\ P(Moved(n))
    <2> HIDE DEF P
    <2> QED
      BY <1>2, <1>3
  <1> HIDE DEF e
  <1> QED
    BY <1>1, <1>4 DEF e

LEMMA NamedIs ==
  ASSUME StoreOK, Named
  PROVE  nl \in Lockers /\ L[nl].st # 0 /\ LockerOK(L[nl]) /\ LockersOK
  BY Holder DEF StoreOK, Named, Names

LEMMA BlkInStep ==
  ASSUME StoreOK, NEW n \in Nat, NEW blocks \in Blocks(n), _blk_in(blocks)
  PROVE  UnitOK
  <1>1. StoreOK /\ LockersOK /\ nl' = nl /\ nl \in Names /\ start \in Nat
    BY DEF StoreOK, _blk_in
  <1>2. CASE ~ Named
    BY <1>1, <1>2, SameOK DEF UnitOK, _blk_in
  <1>3. CASE Named
    <2> DEFINE c == Moved(Len(blocks))
               x == Filled(L[nl], start, blocks, c)
    <2>1. L[nl].st \in Inbound /\ May(nl) /\ L' = [L EXCEPT ![nl] = x] /\ start' = start + c
      BY <1>3 DEF _blk_in, Checked, Named
    <2>2. c \in 0..n
      BY <1>1, BlocksSeq, MovedIs
    <2>3. \A i \in start + 1..start + c : blocks[i - start] \in Nat
      <3>1. \A i \in start + 1..start + c : i - start \in 1..n
        BY <1>1, <2>2
      <3> QED
        BY <3>1 DEF Blocks
    <2>4. nl \in Lockers /\ LockerOK(L[nl])
      BY <1>3, NamedIs
    <2>5. c \in Nat /\ start + c \in Nat
      BY <1>1, <2>2
    <2> HIDE DEF c
    <2>6. LockerOK(x)
      BY <1>1, <2>1, <2>3, <2>4, <2>5, FilledOK
    <2> HIDE DEF x
    <2> QED
      BY <1>1, <2>1, <2>4, <2>5, <2>6, PutOK DEF UnitOK
  <1> QED
    BY <1>2, <1>3

LEMMA BufBlocks ==
  ASSUME NEW b, BufOK(b), NEW w \in Blocks(MaxBuffer)
  PROVE  LET d == [b EXCEPT !.blocks = w] IN
         BufOK(d) /\ d.blocks = w /\ d.top = b.top /\ d.len = b.len
  BY DEF BufOK

LEMMA BufIs ==
  ASSUME StoreOK
  PROVE  /\ buf.top \in Nat /\ buf.top <= MaxBuffer /\ buf.len \in Nat /\ buf.len <= MaxBuffer
         /\ buf.max \in Nat /\ buf.max <= MaxBuffer /\ buf.top <= buf.len /\ buf.len <= buf.max
         /\ buf.blocks \in Blocks(MaxBuffer) /\ BufOK(buf) /\ MaxBuffer \in Nat
  BY Sizes DEF StoreOK, BufOK

LEMMA BlkOutStep ==
  ASSUME StoreOK, NEW n \in Nat, _blk_out(n)
  PROVE  UnitOK
  <1>1. LockersOK /\ L' = L /\ nl' = nl /\ nl \in Names /\ start \in Nat
    BY DEF StoreOK, _blk_out
  <1>2. start' \in Nat
    BY <1>1, MovedIs DEF _blk_out
  <1> QED
    BY <1>1, <1>2, SameOK DEF UnitOK

LEMMA BlocksOutIn ==
  ASSUME StoreOK, NEW n \in Nat, NEW i \in 1..n
  PROVE  BlocksOut(n)[i] \in Nat
  <1>1. CASE Named /\ i <= Moved(n)
    <2>1. Moved(n) \in 0..n /\ start + Moved(n) <= image_end(L[nl].st) /\ start \in Nat
      BY <1>1, MovedIs DEF StoreOK
    <2>2. img(L[nl]) \in Blocks(image_end(L[nl].st)) /\ image_end(L[nl].st) \in Nat
      BY <1>1, NamedIs, HeldImage, Ends0
    <2>3. start + i \in 1..image_end(L[nl].st)
      BY <1>1, <2>1, <2>2
    <2>4. img(L[nl])[start + i] \in Nat
      BY <2>2, <2>3 DEF Blocks
    <2> QED
      BY <1>1, <2>4 DEF BlocksOut
  <1>2. CASE ~ (Named /\ i <= Moved(n))
    BY <1>2 DEF BlocksOut
  <1> QED
    BY <1>1, <1>2

LEMMA BufOutStep == ASSUME StoreOK, buf_out PROVE UnitOK /\ BufOK(buf')
  <1> DEFINE w == Written(buf.blocks, 0, BlocksOut(buf.top), buf.top)
  <1>1. buf.top \in Nat /\ buf.blocks \in Blocks(MaxBuffer) /\ MaxBuffer \in Nat /\ BufOK(buf)
    BY BufIs
  <1>2. UnitOK
    BY <1>1, BlkOutStep DEF buf_out
  <1>3. \A i \in 0 + 1..0 + buf.top : BlocksOut(buf.top)[i - 0] \in Nat
    <2>1. \A i \in 1..buf.top : BlocksOut(buf.top)[i] \in Nat
      BY <1>1, BlocksOutIn
    <2>2. \A i \in 0 + 1..0 + buf.top : i \in 1..buf.top /\ i - 0 = i
      BY <1>1
    <2> QED
      BY <2>1, <2>2
  <1>4. w \in Blocks(MaxBuffer)
    BY <1>1, <1>3, WrittenBlocks
  <1>5. buf' = [buf EXCEPT !.blocks = w]
    BY DEF buf_out
  <1> HIDE DEF w
  <1> QED
    BY <1>1, <1>2, <1>4, <1>5, BufBlocks

LEMMA BufInStep == ASSUME StoreOK, buf_in PROVE UnitOK /\ buf' = buf
  <1>1. buf.top \in Nat /\ buf.blocks \in Blocks(MaxBuffer) /\ MaxBuffer \in Nat /\ buf.top <= MaxBuffer
    BY BufIs
  <1>2. SubSeq(buf.blocks, 0 + 1, buf.top) \in Blocks(buf.top - 0)
    <2> DEFINE a == 0
    <2>1. a \in Nat /\ a <= buf.top
      BY <1>1
    <2> HIDE DEF a
    <2>2. SubSeq(buf.blocks, a + 1, buf.top) \in Blocks(buf.top - a)
      BY <1>1, <2>1, SubBlocks
    <2> QED
      BY <2>2 DEF a
  <1>3. SubSeq(buf.blocks, 1, buf.top) \in Blocks(buf.top)
    BY <1>1, <1>2
  <1>4. _blk_in(SubSeq(buf.blocks, 1, buf.top)) /\ buf' = buf
    BY DEF buf_in, _blk_in
  <1> QED
    BY <1>1, <1>3, <1>4, BlkInStep

LEMMA ZeroBuf ==
  ASSUME NEW b, NEW m \in 0..MaxBuffer, b = [len |-> 0, top |-> 0, max |-> m, blocks |-> Zeros(MaxBuffer)]
  PROVE  BufOK(b)
  <1>1. Zeros(MaxBuffer) \in Blocks(MaxBuffer)
    BY Sizes, ZerosBlocks
  <1> HIDE DEF Zeros
  <1> QED
    BY <1>1, Sizes DEF BufOK

LEMMA LenStep == ASSUME StoreOK, NEW v \in Lengths, w_kliobuflen(v) PROVE BufOK(buf')
  <1> DEFINE n  == IF v > buf.max THEN buf.max ELSE v
             w  == Written(buf.blocks, 0, Zeros(n), n)
             b1 == [buf EXCEPT !.len = n]
             b2 == [b1 EXCEPT !.top = n]
             b3 == [b2 EXCEPT !.blocks = w]
  <1>1. buf' = b3
    BY DEF w_kliobuflen
  <1>2. n \in Nat /\ n <= buf.max /\ n \in 0..MaxBuffer
    BY BufIs, Sizes
  <1>3. w \in Blocks(MaxBuffer)
    <2>1. \A i \in 0 + 1..0 + n : Zeros(n)[i - 0] \in Nat
      <3> HIDE DEF n
      <3> QED
        BY <1>2 DEF Zeros
    <2> QED
      BY <1>2, <2>1, BufIs, WrittenBlocks
  <1> HIDE DEF n, w
  <1>4. /\ b1 \in [len : 0..MaxBuffer, top : 0..MaxBuffer, max : 0..MaxBuffer, blocks : Blocks(MaxBuffer)]
        /\ b1.len = n /\ b1.max = buf.max
    BY <1>2, BufIs DEF BufOK
  <1> HIDE DEF b1
  <1>5. /\ b2 \in [len : 0..MaxBuffer, top : 0..MaxBuffer, max : 0..MaxBuffer, blocks : Blocks(MaxBuffer)]
        /\ b2.len = n /\ b2.max = buf.max /\ b2.top = n
    BY <1>2, <1>4
  <1> HIDE DEF b2
  <1>6. BufOK(b2)
    BY <1>2, <1>5 DEF BufOK
  <1> QED
    BY <1>1, <1>3, <1>6, BufBlocks

LEMMA TopStep == ASSUME StoreOK, NEW v \in Tops, w_kliobuftop(v) PROVE BufOK(buf')
  <1> DEFINE t == IF v > buf.len THEN buf.len ELSE v
  <1>1. buf' = [buf EXCEPT !.top = t]
    BY DEF w_kliobuftop
  <1>2. t \in 0..MaxBuffer /\ t <= buf.len
    BY BufIs, Sizes
  <1> HIDE DEF t
  <1> QED
    BY <1>1, <1>2, BufIs DEF BufOK

LEMMA MaxStep == ASSUME StoreOK, NEW v \in 1..MaxBuffer, w_maxiobuflen(v) PROVE BufOK(buf')
  <1>1. CASE buf.len > v
    <2>1. buf' = [len |-> 0, top |-> 0, max |-> v, blocks |-> Zeros(MaxBuffer)]
      BY <1>1 DEF w_maxiobuflen
    <2>2. Zeros(MaxBuffer) \in Blocks(MaxBuffer)
      BY Sizes, ZerosBlocks
    <2> HIDE DEF Zeros
    <2> QED
      BY <2>1, <2>2, Sizes DEF BufOK
  <1>2. CASE ~ (buf.len > v)
    <2>1. buf' = [buf EXCEPT !.max = v]
      BY <1>2 DEF w_maxiobuflen
    <2> QED
      BY <1>2, <2>1, BufIs DEF BufOK
  <1> QED
    BY <1>1, <1>2

LEMMA CSRStep == ASSUME StoreOK, CSR, nl' \in Names, start' \in Nat PROVE UnitOK
  BY SameOK DEF StoreOK, CSR, UnitOK

LEMMA PlainStep == ASSUME StoreOK, Plain PROVE UnitOK /\ BufOK(buf')
  <1>0. BufOK(buf) /\ nl \in Names /\ start \in Nat
    BY BufIs DEF StoreOK
  <1>1. ASSUME NEW k \in Lockers, NEW st \in Inbound, open(k, st) PROVE UnitOK /\ BufOK(buf')
    BY <1>0, <1>1, OpenStep
  <1>2. ASSUME NEW k \in Lockers, NEW refused \in BOOLEAN, _export_open(k, refused) PROVE UnitOK /\ BufOK(buf')
    BY <1>0, <1>2, ExportOpenStep
  <1>3. ASSUME NEW k \in Lockers, NEW ml \in {1, 2} \cup Config, NEW genuine \in BOOLEAN, _complete(k, ml, genuine)
        PROVE  UnitOK /\ BufOK(buf')
    BY <1>0, <1>3, CompleteStep
  <1>4. ASSUME NEW k \in Lockers, NEW st \in {1, 2}, NEW c \in Contents, UseMachine(k, st, c)
        PROVE  UnitOK /\ BufOK(buf')
    BY <1>0, <1>4, UseMachineStep
  <1>12. ASSUME NEW k \in Lockers, clear(k) \/ setste(k) PROVE UnitOK /\ BufOK(buf')
    BY <1>0, <1>12, ClearStep
  <1>13. CASE clearall
    BY <1>0, <1>13, ClearallStep
  <1>14. ASSUME NEW k \in Lockers, NEW src \in Lockers, clone(k, src) PROVE UnitOK /\ BufOK(buf')
    BY <1>0, <1>14, CloneStep
  <1>15. ASSUME NEW k \in Lockers, NEW src \in Lockers, swap(k, src) \/ \E u \in BOOLEAN : rename(k, src, u)
         PROVE  UnitOK /\ BufOK(buf')
    BY <1>0, <1>15, MoveStep
  <1>16. ASSUME NEW k \in Lockers,
                \/ clear(k) \/ setste(k)
                \/ \E src \in Lockers : clone(k, src) \/ swap(k, src) \/ \E u \in BOOLEAN : rename(k, src, u)
         PROVE  UnitOK /\ BufOK(buf')
    BY <1>12, <1>14, <1>15, <1>16
  <1>5. ASSUME NEW s \in Sources, _blk_in(<<s[1]>>) PROVE UnitOK /\ BufOK(buf')
    <2>1. s \in Seq(Nat) /\ Len(s) \in Nat /\ Len(s) > 0
      BY TransferAssumption, LenProperties
    <2>2. s[1] \in Nat
      BY <2>1, LenProperties
    <2>3. <<s[1]>> \in Blocks(1)
      BY <2>2 DEF Blocks
    <2>4. buf' = buf
      BY <1>5 DEF _blk_in
    <2> QED
      BY <1>0, <1>5, <2>3, <2>4, BlkInStep
  <1>6. ASSUME _blk_out(1), UNCHANGED buf PROVE UnitOK /\ BufOK(buf')
    BY <1>0, <1>6, BlkOutStep
  <1>7. ASSUME NEW v \in Lengths, w_kliobuflen(v) PROVE UnitOK /\ BufOK(buf')
    <2>1. CSR /\ nl' = nl /\ start' = start
      BY <1>7 DEF w_kliobuflen
    <2> QED
      BY <1>0, <1>7, <2>1, CSRStep, LenStep
  <1>8. ASSUME NEW v \in Tops, w_kliobuftop(v) PROVE UnitOK /\ BufOK(buf')
    <2>1. CSR /\ nl' = nl /\ start' = start
      BY <1>8 DEF w_kliobuftop
    <2> QED
      BY <1>0, <1>8, <2>1, CSRStep, TopStep
  <1>9. ASSUME NEW v \in 1..MaxBuffer, w_maxiobuflen(v) PROVE UnitOK /\ BufOK(buf')
    <2>1. CSR /\ nl' = nl /\ start' = start
      BY <1>9 DEF w_maxiobuflen
    <2> QED
      BY <1>0, <1>9, <2>1, CSRStep, MaxStep
  <1>10. ASSUME NEW v \in 0..ContentBlocks, setks(v) PROVE UnitOK /\ BufOK(buf')
    <2>1. CSR /\ nl' = nl /\ start' \in Nat /\ buf' = buf
      BY <1>10, Sizes DEF setks
    <2> QED
      BY <1>0, <2>1, CSRStep
  <1>11. ASSUME NEW v \in Lockers \cup {None}, setnl(v) PROVE UnitOK /\ BufOK(buf')
    <2>1. CSR /\ nl' \in Names /\ start' = start /\ buf' = buf
      BY <1>11 DEF setnl, Names
    <2> QED
      BY <1>0, <2>1, CSRStep
  <1> QED
    BY <1>0, <1>1, <1>2, <1>3, <1>4, <1>5, <1>6, <1>7, <1>8, <1>9, <1>10, <1>11, <1>13, <1>16, BufInStep, BufOutStep DEF Plain

-----------------------------------------------------------------------------
(* The instructions that stop in the middle.                               *)

LEMMA MemoryIn == ASSUME StoreOK PROVE Memory \in Blocks(MemSize) /\ MemSize \in Nat /\ (job # None => Memory = mem)
  <1>1. MemSize \in Nat
    BY Sizes DEF MemSize
  <1>2. ZeroMem \in Blocks(MemSize)
    BY <1>1, ZerosBlocks DEF ZeroMem, MemSize
  <1> QED
    BY <1>1, <1>2 DEF Memory, StoreOK

LEMMA StopsIs ==
  ASSUME start \in Nat, NEW end \in Nat, NEW stop \in Stops(end), Ends(stop, end)
  PROVE  /\ stop \in Nat /\ start <= stop /\ (stop <= end \/ start = stop) /\ start' \in Nat
         /\ stop < end => start' = stop /\ out' = "early"
         /\ stop >= end => out' = "ok"
         /\ start < end => stop <= end
  BY DEF Stops, Ends, StartAt

LEMMA StoredIs ==
  ASSUME StoreOK, NEW z \in Nat, NEW blocks \in Blocks(z), NEW stop \in Nat, start <= stop, stop <= z \/ start = stop,
         Stored(blocks, stop)
  PROVE  /\ mem' \in Blocks(MemSize)
         /\ saved = None => \A i \in 1..MemSize : mem'[i] = IF start < i /\ i <= stop THEN blocks[i] ELSE Memory[i]
  <1>1. start \in Nat /\ mem \in Blocks(MemSize)
    BY DEF StoreOK
  <1>2. CASE saved # None
    BY <1>1, <1>2 DEF Stored
  <1>3. CASE saved = None
    <2>1. mem' = MovedInto(Memory, blocks, start, stop)
      BY <1>3 DEF Stored, MovedInto
    <2>2. Memory \in Blocks(MemSize) /\ MemSize \in Nat
      BY MemoryIn
    <2>3. mem' \in Blocks(MemSize)
      BY <1>1, <2>1, <2>2, WrittenUpTo
    <2>4. ASSUME NEW i \in 1..MemSize PROVE mem'[i] = IF start < i /\ i <= stop THEN blocks[i] ELSE Memory[i]
      BY <1>1, <2>1, <2>2, WrittenAt, SMTT(30)
    <2> QED
      BY <2>3, <2>4
  <1> QED
    BY <1>2, <1>3

\* A step of the handler, or one that only lets it in or out, leaves the thread's instruction where it was.
LEMMA Undisturbed ==
  ASSUME StoreOK, JobOK, Spared, UNCHANGED <<job, saved, buf>>, saved # None, job # None => mem' = mem
  PROVE  JobOK'
  <1> SUFFICES ASSUME job # None PROVE Done(job)'
    BY DEF JobOK
  <1>1. Done(job) /\ job' = job /\ buf' = buf /\ mem' = mem /\ Reached' = Reached
    BY DEF JobOK, Reached
  <1>2. ASSUME NEW k \in Lockers, k = job.k PROVE L'[k] = L[k]
    BY <1>2 DEF Spared, May
  <1>3. ASSUME job.op = "load" PROVE LoadDone(job)'
    BY <1>1, <1>2, <1>3 DEF Done, LoadDone, Underway
  <1>4. ASSUME job.op = "store" PROVE StoreDone(job)'
    BY <1>1, <1>2, <1>4 DEF Done, StoreDone, Underway
  <1>5. ASSUME job.op \in {"iobuf_load", "iobuf_store"} PROVE IobufDone(job)'
    BY <1>1, <1>5 DEF Done, IobufDone, Underway
  <1>7. ASSUME job.op = "execw" PROVE ExecwDone(job)'
    BY <1>1, <1>2, <1>7 DEF Done, ExecwDone, Underway
  <1>8. job'.op \in {"load", "store", "iobuf_load", "iobuf_store", "execw"}
    BY <1>1 DEF Done
  <1> QED
    BY <1>1, <1>3, <1>4, <1>5, <1>7, <1>8 DEF Done

\* What an instruction that ends has done is what it would have done uncut.
Whole == job # None /\ job' = None /\ out' = "ok" => DoneAsIfUncut(job)

LEMMA HandlersAreWhole == ASSUME job' = job PROVE Whole
  BY DEF Whole

\* The instruction of the thread after a piece of it.
LEMMA ThreadIs ==
  ASSUME saved = None, NEW op, NEW k, NEW src, Interruptible(op, k, src)
  PROVE  /\ job # None => job.op = op /\ job.k = k /\ job.src = src
         /\ out' # "early" => job' = None
         /\ out' = "early" /\ job # None => job' = job
         /\ out' = "early" /\ job = None =>
              /\ job'.op = op /\ job'.k = k /\ job'.src = src /\ job'.from = start
              /\ job'.before = IF op = "execw" THEN buf.blocks ELSE <<>>
  BY DEF Interruptible

LEMMA LoadMoves ==
  ASSUME StoreOK, NEW src \in Sources, load(src), Named
  PROVE  LET end == image_end(L[nl].st) IN
         \E stop \in Stops(end) :
           /\ Ends(stop, end) /\ L[nl].st \in Inbound /\ May(nl) /\ LockersOK' /\ Spared /\ L'[nl].st = L[nl].st
           /\ img(L'[nl]) = L'[nl].img
           /\ \A i \in 1..end : L'[nl].img[i] = IF start < i /\ i <= stop THEN src[i] ELSE img(L[nl])[i]
  <1> DEFINE end == image_end(L[nl].st)
  <1>1. PICK stop \in Stops(end) :
             /\ L' = [L EXCEPT ![nl] = Filled(L[nl], start, SubSeq(src, start + 1, stop), stop - start)]
             /\ Ends(stop, end)
    BY DEF load
  <1>2. L[nl].st \in Inbound /\ May(nl)
    BY DEF load, Checked, Named
  <1>3. nl \in Lockers /\ LockerOK(L[nl]) /\ LockersOK /\ start \in Nat
    BY NamedIs DEF StoreOK
  <1>4. end \in Nat /\ end <= ContentBlocks + 1
    BY Ends0, Sizes
  <1>5. stop \in Nat /\ start <= stop /\ (stop <= end \/ start = stop)
    BY <1>1, <1>3, <1>4, StopsIs
  <1>6. src \in Seq(Nat) /\ Len(src) \in Nat /\ src \in Blocks(Len(src)) /\ ContentBlocks + 1 <= Len(src)
    BY TransferAssumption, SeqBlocks
  <1>7. stop <= Len(src) \/ start = stop
    BY <1>4, <1>5, <1>6, Sizes
  <1> DEFINE s == SubSeq(src, start + 1, stop)
             c == stop - start
             x == Filled(L[nl], start, s, c)
             g == img(L[nl])
  <1>8. g \in Blocks(end)
    BY <1>3, HeldImage
  <1>9. \A i \in 1..end : Written(g, start, s, c)[i] = IF start < i /\ i <= stop THEN src[i] ELSE g[i]
    <2> DEFINE w == Written(g, start, s, c)
    <2>1. w = MovedInto(g, src, start, stop)
      BY DEF MovedInto
    <2> HIDE DEF w, g, end, s, c
    <2>2. ASSUME NEW i \in 1..end PROVE w[i] = IF start < i /\ i <= stop THEN src[i] ELSE g[i]
      BY <1>3, <1>4, <1>5, <1>6, <1>7, <1>8, <2>1, WrittenAt, SMTT(30)
    <2> QED
      BY <2>2 DEF w
  <1>10. c \in Nat /\ \A i \in start + 1..start + c : s[i - start] \in Nat
    <2>1. c \in Nat /\ start + c = stop
      BY <1>3, <1>5
    <2>2. CASE start = stop
      BY <2>1, <2>2, <1>3
    <2>3. CASE stop <= Len(src)
      <3>1. \A i \in start + 1..stop : s[i - start] = src[i]
        <4>1. Len(src) \in Nat /\ start \in Nat /\ stop \in Nat /\ start <= stop /\ stop <= Len(src) /\ src \in Blocks(Len(src))
          BY <1>3, <1>5, <1>6, <2>3
        <4>2. \A i \in start + 1..stop : SubSeq(src, start + 1, stop)[i - start] = src[i]
          BY <4>1, SubBlocks
        <4> QED
          BY <4>2 DEF s
      <3>2. \A i \in start + 1..stop : src[i] \in Nat
        BY <1>3, <1>5, <1>6, <2>3 DEF Blocks
      <3> HIDE DEF s, c
      <3> QED
        BY <2>1, <3>1, <3>2
    <2> QED
      BY <1>7, <2>2, <2>3
  <1> HIDE DEF s, c
  <1>11. LockerOK(x) /\ x.st = L[nl].st /\ x.img = Written(g, start, s, c) /\ img(x) = x.img
    BY <1>2, <1>3, <1>10, FilledOK
  <1>12. L' = [L EXCEPT ![nl] = x]
    BY <1>1 DEF s, c
  <1> HIDE DEF x
  <1>13. LockersOK' /\ Spared /\ L'[nl] = x
    BY <1>2, <1>3, <1>11, <1>12, PutOK
  <1> HIDE DEF g
  <1>14. \A i \in 1..end : L'[nl].img[i] = IF start < i /\ i <= stop THEN src[i] ELSE g[i]
    BY <1>9, <1>11, <1>13
  <1> QED
    BY <1>1, <1>2, <1>11, <1>13, <1>14 DEF g

LEMMA LoadStep ==
  ASSUME StoreOK, JobOK, NEW src \in Sources, load(src)
  PROVE  StoreOK' /\ JobOK' /\ Whole
  <1> DEFINE end == image_end(L[nl].st)
  <1>1. /\ nl' = nl /\ nl \in Names /\ nl # None /\ start \in Nat /\ buf' = buf /\ saved' = saved /\ mem' = Memory
        /\ BufOK(buf) /\ saved \in {None} \cup [nl : Names, start : Nat] /\ LockersOK
        /\ Interruptible("load", nl, src)
    BY DEF StoreOK, load
  <1>2. nl \in Lockers /\ mem' \in Blocks(MemSize)
    BY <1>1, MemoryIn DEF Names
  <1>3. end \in Nat
    BY Ends0
  <1>4. CASE ~ Named
    <2>1. L' = L /\ start' = 0 /\ out' = "ok"
      BY <1>4 DEF load
    <2>2. StoreOK' /\ Spared
      BY <1>1, <1>2, <2>1, SameOK DEF StoreOK
    <2>3. CASE saved = None
      <3>1. job' = None
        BY <1>1, <2>1, <2>3, ThreadIs
      <3>2. job = None
        <4>1. SUFFICES ASSUME job # None PROVE FALSE
          OBVIOUS
        <4>2. job.op = "load" /\ job.k = nl
          BY <1>1, <2>3, <4>1, ThreadIs
        <4>3. L[nl].st \in Inbound
          BY <4>1, <4>2 DEF JobOK, Done, LoadDone
        <4> QED
          BY <1>1, <1>4, <4>3 DEF Named, Inbound, Provisioning, Importing, PPIImporting
      <3> QED
        BY <2>2, <3>1, <3>2 DEF JobOK, Whole
    <2>4. CASE saved # None
      <3>1. job' = job
        BY <1>1, <2>4 DEF Interruptible
      <3> QED
        BY <1>1, <2>2, <2>4, <3>1, MemoryIn, Undisturbed, HandlersAreWhole
    <2> QED
      BY <2>3, <2>4
  <1>5. CASE Named
    <2>1. PICK stop \in Stops(end) :
           /\ Ends(stop, end) /\ L[nl].st \in Inbound /\ May(nl) /\ LockersOK' /\ Spared /\ L'[nl].st = L[nl].st
           /\ img(L'[nl]) = L'[nl].img
           /\ \A i \in 1..end : L'[nl].img[i] = IF start < i /\ i <= stop THEN src[i] ELSE img(L[nl])[i]
      BY <1>5, LoadMoves
    <2>2. /\ stop \in Nat /\ start <= stop /\ start' \in Nat
          /\ stop < end => start' = stop /\ out' = "early"
          /\ stop >= end => out' = "ok"
          /\ start < end => stop <= end
      BY <1>1, <1>3, <2>1, StopsIs
    <2>3. StoreOK'
      BY <1>1, <1>2, <2>1, <2>2 DEF StoreOK
    <2>4. CASE saved # None
      <3>1. job' = job
        BY <1>1, <2>4 DEF Interruptible
      <3> QED
        BY <1>1, <2>1, <2>3, <2>4, <3>1, MemoryIn, Undisturbed, HandlersAreWhole
    <2>5. CASE saved = None
      <3>1. ASSUME job # None
            PROVE  /\ job.op = "load" /\ job.k = nl /\ job.src = src /\ job.from \in Nat /\ job.from <= start /\ start < end
                   /\ \A i \in job.from + 1..start : img(L[nl])[i] = src[i]
        BY <1>1, <2>5, <3>1, ThreadIs DEF JobOK, Done, LoadDone, Underway, Reached
      <3>2. ASSUME job # None, NEW i \in 1..end, job.from < i, i <= stop PROVE L'[nl].img[i] = src[i]
        <4>1. CASE start < i
          BY <2>1, <3>2, <4>1
        <4>2. CASE i <= start
          <5>1. i \in job.from + 1..start
            BY <1>1, <3>1, <3>2, <4>2
          <5> QED
            BY <1>1, <2>1, <3>1, <3>2, <4>2, <5>1
        <4> QED
          BY <1>1, <4>1, <4>2
      <3>3. CASE out' # "early"
        <4>1. job' = None
          BY <1>1, <2>5, <3>3, ThreadIs
        <4>2. stop >= end
          BY <1>3, <2>2, <3>3
        <4>3. ASSUME job # None PROVE DoneAsIfUncut(job)
          <5>1. \A i \in DOMAIN job.src : i > job.from /\ i <= end => L'[nl].img[i] = src[i]
            <6>1. DOMAIN job.src \subseteq Nat \ {0}
              <7>1. src \in Seq(Nat)
                BY TransferAssumption
              <7> QED
                BY <3>1, <4>3, <7>1, SeqBlocks DEF Blocks
            <6> QED
              BY <1>3, <2>2, <3>1, <3>2, <4>2, <4>3, <6>1
          <5> HIDE DEF end
          <5> QED
            BY <3>1, <4>3, <5>1 DEF DoneAsIfUncut, end
        <4> QED
          BY <2>3, <4>1, <4>3 DEF JobOK, Whole
      <3>4. CASE out' = "early"
        <4>1. stop < end /\ start' = stop
          BY <1>3, <2>2, <3>4
        <4>2. job' # None => job'.op = "load" /\ job'.k = nl /\ job'.src = src
          BY <1>1, <2>5, <3>1, <3>4, ThreadIs
        <4>3. job'.from = IF job = None THEN start ELSE job.from
          BY <1>1, <2>5, <3>4, ThreadIs
        <4>4. job'.from \in Nat /\ job'.from <= stop
          BY <1>1, <2>2, <3>1, <4>3
        <4>5. ASSUME NEW i \in job'.from + 1..stop PROVE img(L'[nl])[i] = src[i]
          <5>1. i \in 1..end /\ job'.from < i /\ i <= stop
            BY <1>3, <2>2, <4>1, <4>4
          <5>2. CASE job = None
            BY <2>1, <4>3, <5>1, <5>2
          <5>3. CASE job # None
            BY <2>1, <3>2, <4>3, <5>1, <5>3
          <5> QED
            BY <5>2, <5>3
        <4>6. Reached' = stop
          BY <1>1, <2>5, <4>1 DEF Reached
        <4>7. image_end(L'[nl].st) = end
          BY <2>1
        <4> HIDE DEF end
        <4>8. JobOK'
          <5> SUFFICES ASSUME job' # None PROVE Done(job)'
            BY DEF JobOK
          <5>1. LoadDone(job)'
            BY <1>2, <2>1, <4>1, <4>2, <4>4, <4>5, <4>6, <4>7 DEF LoadDone, Underway
          <5> QED
            BY <4>2, <5>1 DEF Done
        <4> QED
          BY <2>3, <3>4, <4>8 DEF Whole
      <3> QED
        BY <3>3, <3>4
    <2> QED
      BY <2>4, <2>5
  <1> QED
    BY <1>4, <1>5

LEMMA StoreStep ==
  ASSUME StoreOK, JobOK, store
  PROVE  StoreOK' /\ JobOK' /\ Whole
  <1> DEFINE end == image_end(L[nl].st)
             g == img(L[nl])
  <1>1. /\ L' = L /\ nl' = nl /\ nl \in Names /\ nl # None /\ start \in Nat /\ buf' = buf /\ saved' = saved
        /\ BufOK(buf) /\ saved \in {None} \cup [nl : Names, start : Nat] /\ LockersOK /\ mem \in Blocks(MemSize)
        /\ Interruptible("store", nl, <<>>)
    BY DEF StoreOK, store
  <1>2. nl \in Lockers /\ LockersOK' /\ Spared
    BY <1>1, SameOK DEF Names
  <1>3. end \in Nat /\ end <= MemSize /\ MemSize \in Nat
    BY Ends0, Sizes DEF MemSize
  <1>4. CASE ~ Named
    <2>1. start' = 0 /\ out' = "ok" /\ mem' = Memory
      BY <1>4 DEF store
    <2>2. StoreOK'
      BY <1>1, <1>2, <2>1, MemoryIn DEF StoreOK
    <2>3. CASE saved = None
      <3>1. job' = None
        BY <1>1, <2>1, <2>3, ThreadIs
      <3>2. job = None
        <4>1. SUFFICES ASSUME job # None PROVE FALSE
          OBVIOUS
        <4>2. job.op = "store" /\ job.k = nl
          BY <1>1, <2>3, <4>1, ThreadIs
        <4>3. L[nl].st \in Outbound
          BY <4>1, <4>2 DEF JobOK, Done, StoreDone
        <4> QED
          BY <1>1, <1>4, <4>3 DEF Named, Outbound, Exporting, PPIExporting
      <3> QED
        BY <2>2, <3>1, <3>2 DEF JobOK, Whole
    <2>4. CASE saved # None
      <3>1. job' = job
        BY <1>1, <2>4 DEF Interruptible
      <3> QED
        BY <1>1, <1>2, <2>1, <2>2, <2>4, <3>1, MemoryIn, Undisturbed, HandlersAreWhole
    <2> QED
      BY <2>3, <2>4
  <1>5. CASE Named
    <2>1. PICK stop \in Stops(end) : Stored(g, stop) /\ Ends(stop, end)
      BY <1>5 DEF store
    <2>2. L[nl].st \in Outbound
      BY <1>1, <1>5 DEF store, Checked
    <2>3. /\ stop \in Nat /\ start <= stop /\ start' \in Nat /\ (stop <= end \/ start = stop)
          /\ stop < end => start' = stop /\ out' = "early"
          /\ stop >= end => out' = "ok"
          /\ start < end => stop <= end
      BY <1>1, <1>3, <2>1, StopsIs
    <2>4. g \in Blocks(end)
      BY <1>1, <1>2, Holder, HeldImage
    <2> HIDE DEF g
    <2>5. /\ mem' \in Blocks(MemSize)
          /\ saved = None => \A i \in 1..MemSize : mem'[i] = IF start < i /\ i <= stop THEN g[i] ELSE Memory[i]
      BY <1>3, <2>1, <2>3, <2>4, StoredIs
    <2>6. StoreOK'
      BY <1>1, <1>2, <2>3, <2>5 DEF StoreOK
    <2>7. CASE saved # None
      <3>1. job' = job /\ mem' = mem
        BY <1>1, <2>1, <2>7 DEF Interruptible, Stored
      <3> QED
        BY <1>1, <1>2, <2>6, <2>7, <3>1, Undisturbed, HandlersAreWhole
    <2>8. CASE saved = None
      <3>1. ASSUME job # None
            PROVE  /\ job.op = "store" /\ job.k = nl /\ job.from \in Nat /\ job.from <= start /\ start < end
                   /\ \A i \in job.from + 1..start : mem[i] = g[i]
        BY <1>1, <2>8, <3>1, ThreadIs DEF JobOK, Done, StoreDone, Underway, Reached, g
      <3>2. ASSUME job # None, NEW i \in 1..end, job.from < i, i <= stop PROVE mem'[i] = g[i]
        <4>0. i \in 1..MemSize
          BY <1>3
        <4>1. CASE start < i
          BY <2>5, <2>8, <3>2, <4>0, <4>1
        <4>2. CASE i <= start
          <5>1. i \in job.from + 1..start
            BY <1>1, <3>1, <3>2, <4>2
          <5>2. mem'[i] = Memory[i]
            BY <1>1, <2>5, <2>8, <4>0, <4>2
          <5> QED
            BY <3>1, <3>2, <5>1, <5>2, MemoryIn
        <4> QED
          BY <1>1, <4>1, <4>2
      <3>3. CASE out' # "early"
        <4>1. job' = None
          BY <1>1, <2>8, <3>3, ThreadIs
        <4>2. stop >= end
          BY <1>3, <2>3, <3>3
        <4>3. ASSUME job # None PROVE DoneAsIfUncut(job)
          <5>1. \A i \in DOMAIN g : i > job.from => mem'[i] = g[i]
            <6>1. DOMAIN g = 1..end
              BY <2>4 DEF Blocks
            <6> QED
              BY <1>3, <2>3, <3>1, <3>2, <4>2, <4>3, <6>1
          <5> QED
            BY <3>1, <4>3, <5>1 DEF DoneAsIfUncut, g
        <4> QED
          BY <2>6, <4>1, <4>3 DEF JobOK, Whole
      <3>4. CASE out' = "early"
        <4>1. stop < end /\ start' = stop
          BY <1>3, <2>3, <3>4
        <4>2. job' # None => job'.op = "store" /\ job'.k = nl
          BY <1>1, <2>8, <3>1, <3>4, ThreadIs
        <4>3. job'.from = IF job = None THEN start ELSE job.from
          BY <1>1, <2>8, <3>4, ThreadIs
        <4>4. job'.from \in Nat /\ job'.from <= stop
          BY <1>1, <2>3, <3>1, <4>3
        <4>5. ASSUME NEW i \in job'.from + 1..stop PROVE mem'[i] = g[i]
          <5>1. i \in 1..end /\ i \in 1..MemSize /\ job'.from < i /\ i <= stop
            BY <1>3, <2>3, <4>1, <4>4
          <5>2. CASE job = None
            BY <2>5, <2>8, <4>3, <5>1, <5>2
          <5>3. CASE job # None
            BY <3>2, <4>3, <5>1, <5>3
          <5> QED
            BY <5>2, <5>3
        <4>6. Reached' = stop
          BY <1>1, <2>8, <4>1 DEF Reached
        <4>7. img(L'[nl]) = g /\ image_end(L'[nl].st) = end /\ L'[nl].st \in Outbound
          BY <1>1, <2>2 DEF g
        <4> HIDE DEF end
        <4>8. JobOK'
          <5> SUFFICES ASSUME job' # None PROVE Done(job)'
            BY DEF JobOK
          <5>1. StoreDone(job)'
            BY <1>2, <4>1, <4>2, <4>4, <4>5, <4>6, <4>7 DEF StoreDone, Underway
          <5> QED
            BY <4>2, <5>1 DEF Done
        <4> QED
          BY <2>6, <3>4, <4>8 DEF Whole
      <3> QED
        BY <3>3, <3>4
    <2> QED
      BY <2>7, <2>8
  <1> QED
    BY <1>4, <1>5

LEMMA LeastIs == ASSUME StoreOK, NEW xl \in Lengths
                 PROVE  Least(xl, buf.top) \in Nat /\ Least(xl, buf.top) <= MaxBuffer /\ Least(xl, buf.top) <= xl
                        /\ Least(xl, buf.top) <= buf.top /\ Least(xl, buf.top) \in {xl, buf.top}
  BY BufIs, Sizes DEF Least

LEMMA StopsInPlaceIs ==
  ASSUME start \in Nat, NEW end \in Nat, NEW stop \in Stops(end), EndsInPlace(stop, end)
  PROVE  /\ stop \in Nat /\ start <= stop /\ (stop <= end \/ start = stop) /\ start' \in Nat
         /\ stop < end => start' = start /\ out' = "early"
         /\ stop >= end => out' = "ok"
         /\ start < end => stop <= end
  BY DEF Stops, EndsInPlace

LEMMA IobufLoadStep ==
  ASSUME StoreOK, JobOK, saved = None, NEW src \in Sources, NEW xl \in Lengths, _iobuf_load(src, xl)
  PROVE  StoreOK' /\ JobOK' /\ Whole
  <1> DEFINE end == Least(xl, buf.top)
  <1>1. /\ L' = L /\ nl' = nl /\ nl \in Names /\ start \in Nat /\ saved' = saved /\ mem' = Memory
        /\ BufOK(buf) /\ saved \in {None} \cup [nl : Names, start : Nat] /\ LockersOK
        /\ Interruptible("iobuf_load", None, <<xl, src>>)
    BY DEF StoreOK, _iobuf_load
  <1>2. LockersOK' /\ mem' \in Blocks(MemSize)
    BY <1>1, SameOK, MemoryIn
  <1>3. end \in Nat /\ end <= MaxBuffer /\ end <= xl /\ end <= buf.top /\ end \in {xl, buf.top}
    BY LeastIs
  <1>4. PICK stop \in Stops(end) :
             /\ buf' = [buf EXCEPT !.blocks = MovedInto(buf.blocks, src, start, stop)]
             /\ EndsInPlace(stop, end)
    BY DEF _iobuf_load, MovedInto, Least
  <1>5. /\ stop \in Nat /\ start <= stop /\ start' \in Nat /\ (stop <= end \/ start = stop)
        /\ stop < end => start' = start /\ out' = "early"
        /\ stop >= end => out' = "ok"
        /\ start < end => stop <= end
    BY <1>1, <1>3, <1>4, StopsInPlaceIs
  <1> HIDE DEF end
  <1>6. src \in Seq(Nat) /\ Len(src) \in Nat /\ src \in Blocks(Len(src)) /\ MaxBuffer <= Len(src)
    BY TransferAssumption, SeqBlocks
  <1>7. stop <= Len(src) \/ start = stop
    BY <1>3, <1>5, <1>6, Sizes
  <1>8. /\ buf.blocks \in Blocks(MaxBuffer) /\ MaxBuffer \in Nat /\ BufOK(buf)
        /\ buf.top \in Nat /\ buf.top <= MaxBuffer
    BY BufIs
  <1> DEFINE w == MovedInto(buf.blocks, src, start, stop)
  <1>9. w \in Blocks(MaxBuffer)
    BY <1>1, <1>5, <1>6, <1>7, <1>8, WrittenUpTo
  <1>10. ASSUME NEW i \in 1..MaxBuffer PROVE w[i] = IF start < i /\ i <= stop THEN src[i] ELSE buf.blocks[i]
    BY <1>1, <1>5, <1>6, <1>7, <1>8, WrittenAt, SMTT(30)
  <1> HIDE DEF w
  <1>11. BufOK(buf') /\ buf'.blocks = w /\ buf'.top = buf.top
    BY <1>4, <1>8, <1>9, BufBlocks DEF w
  <1>12. StoreOK'
    BY <1>1, <1>2, <1>5, <1>11 DEF StoreOK
  <1>13. ASSUME job # None
         PROVE  /\ job.op = "iobuf_load" /\ job.src = <<xl, src>> /\ job.from = start /\ start < end
    <2>1. job.op = "iobuf_load" /\ job.src = <<xl, src>> /\ job.src[1] = xl /\ job.src[2] = src
      BY <1>1, <1>13, ThreadIs
    <2>2. IobufDone(job)
      BY <1>13, <2>1 DEF JobOK, Done
    <2> QED
      BY <2>1, <2>2 DEF IobufDone, Underway, Reached, end
  <1>14. ASSUME job # None, NEW i \in 1..MaxBuffer, job.from < i, i <= stop PROVE w[i] = src[i]
    BY <1>10, <1>13, <1>14
  <1>15. CASE out' # "early"
    <2>1. job' = None /\ stop >= end
      BY <1>1, <1>3, <1>5, <1>15, ThreadIs
    <2>2. ASSUME job # None PROVE DoneAsIfUncut(job)
      <3>1. ASSUME NEW i \in 1..buf.top, Within(i, job.from, xl) PROVE buf'.blocks[i] = src[i]
        <4>1. i \in 1..MaxBuffer /\ job.from < i /\ i <= stop
          BY <1>3, <1>5, <1>8, <2>1, <3>1 DEF Within
        <4> QED
          BY <1>11, <1>14, <2>2, <4>1
      <3>2. job.src[1] = xl /\ job.src[2] = src
        BY <1>13, <2>2
      <3> QED
        BY <1>13, <2>2, <3>1, <3>2 DEF DoneAsIfUncut
    <2> QED
      BY <1>12, <2>1, <2>2 DEF JobOK, Whole
  <1>16. CASE out' = "early"
    <2>1. start < end /\ start' = start
      BY <1>3, <1>5, <1>16
    <2>2. job' # None => job'.op = "iobuf_load" /\ job'.src = <<xl, src>>
      BY <1>1, <1>13, <1>16, ThreadIs
    <2>3. job'.from = start
      BY <1>1, <1>13, <1>16, ThreadIs
    <2>6. Reached' = start
      BY <1>1, <2>1 DEF Reached
    <2>7. JobOK'
      <3> SUFFICES ASSUME job' # None PROVE Done(job)'
        BY DEF JobOK
      <3>1. job'.src[1] = xl /\ job'.src[2] = src /\ job'.op = "iobuf_load"
        BY <2>2
      <3>2. Least(xl, buf'.top) = end
        BY <1>11 DEF end
      <3>3. IobufDone(job)'
        BY <1>1, <2>1, <2>3, <2>6, <3>1, <3>2 DEF IobufDone, Underway
      <3> QED
        BY <3>1, <3>3 DEF Done
    <2> QED
      BY <1>12, <1>16, <2>7 DEF Whole
  <1> QED
    BY <1>15, <1>16

LEMMA IobufStoreStep ==
  ASSUME StoreOK, JobOK, NEW xl \in Lengths, _iobuf_store(xl)
  PROVE  StoreOK' /\ JobOK' /\ Whole
  <1> DEFINE end == Least(xl, buf.top)
             g == buf.blocks
  <1>1. /\ L' = L /\ nl' = nl /\ nl \in Names /\ start \in Nat /\ saved' = saved /\ buf' = buf
        /\ BufOK(buf) /\ saved \in {None} \cup [nl : Names, start : Nat] /\ LockersOK /\ mem \in Blocks(MemSize)
        /\ Interruptible("iobuf_store", None, <<xl>>)
    BY DEF StoreOK, _iobuf_store
  <1>2. LockersOK' /\ Spared
    BY <1>1, SameOK
  <1>3. /\ end \in Nat /\ end <= MaxBuffer /\ end <= xl /\ end <= buf.top /\ end \in {xl, buf.top}
        /\ buf.top \in Nat /\ buf.top <= MaxBuffer
        /\ MaxBuffer \in Nat /\ MaxBuffer <= MemSize /\ MemSize \in Nat
    <2>1. end \in Nat /\ end <= MaxBuffer /\ end <= xl /\ end <= buf.top /\ end \in {xl, buf.top}
      BY LeastIs
    <2>2. buf.top \in Nat /\ buf.top <= MaxBuffer
      BY BufIs
    <2>3. MaxBuffer \in Nat /\ MaxBuffer <= MemSize /\ MemSize \in Nat
      BY Sizes DEF MemSize
    <2> QED
      BY <2>1, <2>2, <2>3
  <1>4. PICK stop \in Stops(end) : Stored(g, stop) /\ EndsInPlace(stop, end)
    BY DEF _iobuf_store, Least
  <1>5. /\ stop \in Nat /\ start <= stop /\ start' \in Nat /\ (stop <= end \/ start = stop)
        /\ stop < end => start' = start /\ out' = "early"
        /\ stop >= end => out' = "ok"
        /\ start < end => stop <= end
    BY <1>1, <1>3, <1>4, StopsInPlaceIs
  <1>6. g \in Blocks(MaxBuffer)
    BY BufIs
  <1> HIDE DEF end, g
  <1>7. stop <= MaxBuffer \/ start = stop
    BY <1>3, <1>5
  <1>8. /\ mem' \in Blocks(MemSize)
        /\ saved = None => \A i \in 1..MemSize : mem'[i] = IF start < i /\ i <= stop THEN g[i] ELSE Memory[i]
    BY <1>3, <1>4, <1>5, <1>6, <1>7, StoredIs
  <1>9. StoreOK'
    BY <1>1, <1>2, <1>5, <1>8 DEF StoreOK
  <1>10. CASE saved # None
    <2>1. job' = job /\ mem' = mem
      BY <1>1, <1>4, <1>10 DEF Interruptible, Stored
    <2> QED
      BY <1>1, <1>2, <1>9, <1>10, <2>1, Undisturbed, HandlersAreWhole
  <1>11. CASE saved = None
    <2>1. ASSUME job # None
          PROVE  /\ job.op = "iobuf_store" /\ job.src = <<xl>> /\ job.from = start /\ start < end
      <3>1. job.op = "iobuf_store" /\ job.src = <<xl>> /\ job.src[1] = xl
        BY <1>1, <1>11, <2>1, ThreadIs
      <3>2. IobufDone(job)
        BY <2>1, <3>1 DEF JobOK, Done
      <3> QED
        BY <1>11, <3>1, <3>2 DEF IobufDone, Underway, Reached, end
    <2>2. ASSUME job # None, NEW i \in 1..MemSize, job.from < i, i <= stop PROVE mem'[i] = g[i]
      BY <1>8, <1>11, <2>1, <2>2
    <2>3. CASE out' # "early"
      <3>1. job' = None /\ stop >= end
        BY <1>1, <1>3, <1>5, <1>11, <2>3, ThreadIs
      <3>2. ASSUME job # None PROVE DoneAsIfUncut(job)
        <4>1. ASSUME NEW i \in 1..buf.top, Within(i, job.from, xl) PROVE mem'[i] = buf.blocks[i]
          <5>1. i \in 1..MemSize /\ job.from < i /\ i <= stop
            BY <1>3, <1>5, <3>1, <4>1 DEF Within
          <5> QED
            BY <2>2, <3>2, <5>1 DEF g
        <4>2. job.src[1] = xl
          BY <2>1, <3>2
        <4> QED
          BY <2>1, <3>2, <4>1, <4>2 DEF DoneAsIfUncut
      <3> QED
        BY <1>9, <3>1, <3>2 DEF JobOK, Whole
    <2>4. CASE out' = "early"
      <3>1. start < end /\ start' = start
        BY <1>3, <1>5, <2>4
      <3>2. job' # None => job'.op = "iobuf_store" /\ job'.src = <<xl>>
        BY <1>1, <1>11, <2>1, <2>4, ThreadIs
      <3>3. job'.from = start
        BY <1>1, <1>11, <2>1, <2>4, ThreadIs
      <3>6. Reached' = start
        BY <1>1, <1>11, <3>1 DEF Reached
      <3>7. JobOK'
        <4> SUFFICES ASSUME job' # None PROVE Done(job)'
          BY DEF JobOK
        <4>1. job'.src[1] = xl /\ job'.op = "iobuf_store"
          BY <3>2
        <4>2. Least(xl, buf'.top) = end
          BY <1>1 DEF end
        <4>3. IobufDone(job)'
          BY <1>1, <3>1, <3>3, <3>6, <4>1, <4>2 DEF IobufDone, Underway
        <4> QED
          BY <4>1, <4>3 DEF Done
      <3> QED
        BY <1>9, <2>4, <3>7 DEF Whole
    <2> QED
      BY <2>3, <2>4
  <1> QED
    BY <1>10, <1>11

\* Each block is worked on once.
LEMMA XorIn == ASSUME NEW b \in Nat PROVE Xor(b) \in Nat
  BY DEF Xor

LEMMA ProcessedIn ==
  ASSUME NEW n \in Nat, NEW blocks \in Blocks(n), NEW from \in Nat, NEW stop \in Nat
  PROVE  /\ Processed(blocks, from, stop) \in Blocks(n)
         /\ \A i \in 1..n : Processed(blocks, from, stop)[i] = IF from < i /\ i <= stop THEN Xor(blocks[i]) ELSE blocks[i]
  <1>1. \A i \in 1..n : Xor(blocks[i]) \in Nat /\ blocks[i] \in Nat
    BY XorIn DEF Blocks
  <1>2. DOMAIN blocks = 1..n
    BY DEF Blocks
  <1> QED
    BY <1>1, <1>2 DEF Processed, Blocks

LEMMA ProcessedOn ==
  ASSUME NEW n \in Nat, NEW blocks \in Blocks(n), NEW from \in Nat, NEW mid \in Nat, NEW stop \in Nat, from <= mid, mid <= stop
  PROVE  Processed(Processed(blocks, from, mid), mid, stop) = Processed(blocks, from, stop)
  <1> DEFINE p == Processed(blocks, from, mid)
             q == Processed(p, mid, stop)
             r == Processed(blocks, from, stop)
  <1>1. p \in Blocks(n) /\ \A i \in 1..n : p[i] = IF from < i /\ i <= mid THEN Xor(blocks[i]) ELSE blocks[i]
    BY ProcessedIn
  <1>2. r \in Blocks(n) /\ \A i \in 1..n : r[i] = IF from < i /\ i <= stop THEN Xor(blocks[i]) ELSE blocks[i]
    BY ProcessedIn
  <1> HIDE DEF p
  <1>3. q \in Blocks(n) /\ \A i \in 1..n : q[i] = IF mid < i /\ i <= stop THEN Xor(p[i]) ELSE p[i]
    BY <1>1, ProcessedIn
  <1> HIDE DEF q, r
  <1>4. ASSUME NEW i \in 1..n PROVE q[i] = r[i]
    BY <1>1, <1>2, <1>3
  <1>5. q = r
    BY <1>2, <1>3, <1>4, SameBlocks
  <1> QED
    BY <1>5 DEF p, q, r

LEMMA BlankedOK == ASSUME StoreOK, NEW from \in Nat, buf' = Blanked(from) PROVE BufOK(buf')
  <1> DEFINE w == [i \in DOMAIN buf.blocks |-> IF i \in from + 1..buf.top THEN 0 ELSE buf.blocks[i]]
  <1>1. buf' = [buf EXCEPT !.blocks = w]
    BY DEF Blanked
  <1>2. w \in Blocks(MaxBuffer)
    BY BufIs DEF Blocks
  <1> HIDE DEF w
  <1> QED
    BY <1>1, <1>2, BufIs, BufBlocks

LEMMA ExecwStep ==
  ASSUME StoreOK, JobOK, saved = None, NEW k \in Lockers, execw(k)
  PROVE  StoreOK' /\ JobOK' /\ Whole
  <1>1. /\ May(k) /\ nl' = nl /\ nl \in Names /\ start \in Nat /\ saved' = saved /\ mem' = Memory
        /\ BufOK(buf) /\ saved \in {None} \cup [nl : Names, start : Nat] /\ LockersOK
        /\ Interruptible("execw", k, <<>>)
    BY DEF StoreOK, execw
  <1>2. mem' \in Blocks(MemSize)
    BY MemoryIn, <1>1
  <1>3. CASE L[k].st = 0 /\ start' = 0 /\ out' = "refused" /\ buf' = Blanked(0) /\ UNCHANGED L
    <2>1. job' = None
      BY <1>1, <1>3, ThreadIs
    <2>2. BufOK(buf') /\ LockersOK'
      BY <1>1, <1>3, BlankedOK, SameOK
    <2> QED
      BY <1>1, <1>2, <1>3, <2>1, <2>2 DEF StoreOK, JobOK, Whole
  <1>4. CASE L[k].st = 1 /\ out' = "refused" /\ start' = start /\ L' = [L EXCEPT ![k] = Free] /\ buf' = Blanked(start)
    <2>1. job' = None
      BY <1>1, <1>4, ThreadIs
    <2>2. LockerOK(Free)
      BY ZerosBlocks, Sizes DEF LockerOK, Free, Locker, Images
    <2>3. BufOK(buf') /\ LockersOK'
      <3> HIDE DEF Free
      <3> QED
        BY <1>1, <1>4, <2>2, BlankedOK, PutOK
    <2> QED
      BY <1>1, <1>2, <1>4, <2>1, <2>3 DEF StoreOK, JobOK, Whole
  <1>5. ASSUME L[k].st = 2, UNCHANGED L, NEW stop \in Stops(buf.top),
               buf' = [buf EXCEPT !.blocks = Processed(buf.blocks, start, stop)], Ends(stop, buf.top)
        PROVE  StoreOK' /\ JobOK' /\ Whole
    <2> DEFINE end == buf.top
               w == Processed(buf.blocks, start, stop)
    <2>1. end \in Nat /\ end <= MaxBuffer /\ MaxBuffer \in Nat /\ buf.blocks \in Blocks(MaxBuffer)
      BY BufIs
    <2>2. /\ stop \in Nat /\ start <= stop /\ start' \in Nat
          /\ stop < end => start' = stop /\ out' = "early"
          /\ stop >= end => out' = "ok"
          /\ start < end => stop <= end
      BY <1>1, <1>5, <2>1, StopsIs
    <2>3. w \in Blocks(MaxBuffer)
      BY <1>1, <2>1, <2>2, ProcessedIn
    <2> HIDE DEF w
    <2>4. BufOK(buf') /\ buf'.blocks = w /\ buf'.top = end
      BY <1>1, <1>5, <2>3, BufBlocks DEF w
    <2>5. StoreOK' /\ LockersOK'
      BY <1>1, <1>2, <1>5, <2>2, <2>4, SameOK DEF StoreOK
    <2>6. ASSUME job # None
          PROVE  /\ job.op = "execw" /\ job.k = k /\ job.from \in Nat /\ job.from <= start /\ start < end
                 /\ job.before \in Blocks(MaxBuffer) /\ w = Processed(job.before, job.from, stop)
      <3>1. job.op = "execw" /\ job.k = k
        BY <1>1, <2>6, ThreadIs
      <3>2. ExecwDone(job)
        BY <2>6, <3>1 DEF JobOK, Done
      <3>3. /\ job.from \in Nat /\ job.from <= start /\ start < end /\ job.before \in Blocks(MaxBuffer)
            /\ buf.blocks = Processed(job.before, job.from, start)
        BY <3>2 DEF ExecwDone, Underway, Reached
      <3>4. w = Processed(job.before, job.from, stop)
        BY <1>1, <2>1, <2>2, <3>3, ProcessedOn DEF w
      <3> QED
        BY <3>1, <3>3, <3>4
    <2>7. CASE out' # "early"
      <3>1. job' = None /\ stop >= end
        BY <1>1, <2>1, <2>2, <2>7, ThreadIs
      <3>2. ASSUME job # None PROVE DoneAsIfUncut(job)
        <4>1. ASSUME NEW i \in 1..buf.top
              PROVE  buf'.blocks[i] = IF i > job.from THEN Xor(job.before[i]) ELSE job.before[i]
          <5>1. i \in 1..MaxBuffer /\ i <= stop /\ i \in Nat
            BY <2>1, <2>2, <3>1
          <5>2. w[i] = IF job.from < i /\ i <= stop THEN Xor(job.before[i]) ELSE job.before[i]
            <6>1. Processed(job.before, job.from, stop)[i] =
                    IF job.from < i /\ i <= stop THEN Xor(job.before[i]) ELSE job.before[i]
              BY <2>1, <2>2, <2>6, <3>2, <5>1 DEF Processed, Blocks
            <6> QED
              BY <2>6, <3>2, <6>1
          <5> QED
            BY <2>4, <2>6, <3>2, <5>1, <5>2
        <4> QED
          BY <2>6, <3>2, <4>1 DEF DoneAsIfUncut
      <3> QED
        BY <2>5, <3>1, <3>2 DEF JobOK, Whole
    <2>8. CASE out' = "early"
      <3>1. stop < end /\ start' = stop
        BY <2>1, <2>2, <2>8
      <3>2. CASE job = None
        <4>1. job'.op = "execw" /\ job'.k = k /\ job'.from = start /\ job'.before = buf.blocks
          BY <1>1, <2>8, <3>2, ThreadIs
        <4>2. Reached' = stop
          BY <1>1, <3>1 DEF Reached
        <4>3. ExecwDone(job)'
          BY <1>1, <1>5, <2>1, <2>2, <2>4, <3>1, <4>1, <4>2 DEF ExecwDone, Underway, w
        <4> QED
          BY <2>5, <2>8, <4>1, <4>3 DEF JobOK, Done, Whole
      <3>3. CASE job # None
        <4>1. job' = job
          BY <1>1, <2>8, <3>3, ThreadIs
        <4>2. Reached' = stop
          BY <1>1, <3>1 DEF Reached
        <4>3. ExecwDone(job)'
          BY <1>1, <1>5, <2>1, <2>2, <2>4, <2>6, <3>1, <3>3, <4>1, <4>2 DEF ExecwDone, Underway
        <4> QED
          BY <2>5, <2>6, <2>8, <3>3, <4>1, <4>3 DEF JobOK, Done, Whole
      <3> QED
        BY <3>2, <3>3
    <2> QED
      BY <2>7, <2>8
  <1> QED
    BY <1>3, <1>4, <1>5 DEF execw

-----------------------------------------------------------------------------
LEMMA InitOK == Init => IInv
  <1> SUFFICES ASSUME Init PROVE StoreOK /\ JobOK
    BY DEF IInv
  <1>1. LockerOK(Free)
    BY ZerosBlocks, Sizes DEF LockerOK, Free, Locker, Images
  <1>2. LockersOK
    <2> HIDE DEF Free
    <2> QED
      BY <1>1 DEF Init, LockersOK, LockerOK
  <1>3. BufOK(buf)
    <2>1. Zeros(MaxBuffer) \in Blocks(MaxBuffer) /\ MaxBuffer \in Nat
      BY Sizes, ZerosBlocks
    <2>2. buf = [len |-> 0, top |-> 0, max |-> MaxBuffer, blocks |-> Zeros(MaxBuffer)]
      BY DEF Init
    <2> HIDE DEF Zeros
    <2> QED
      BY <2>1, <2>2 DEF BufOK
  <1>4. mem \in Blocks(MemSize)
    <2>1. MemSize \in Nat
      BY Sizes DEF MemSize
    <2> QED
      BY <2>1, ZerosBlocks DEF Init, ZeroMem, MemSize
  <1>5. nl \in Names /\ start \in Nat /\ saved = None /\ job = None
    BY DEF Init, Names
  <1> QED
    BY <1>2, <1>3, <1>4, <1>5 DEF StoreOK, JobOK

LEMMA NextOK == ASSUME IInv, [Next]_vars PROVE IInv' /\ (Whole \/ UNCHANGED vars)
  <1>0. StoreOK /\ JobOK
    BY DEF IInv
  <1>1. CASE /\ \/ job = None /\ Plain
                \/ saved # None /\ Plain /\ UNCHANGED buf
             /\ mem' = Memory /\ UNCHANGED <<job, saved>>
    <2>1. UnitOK /\ BufOK(buf') /\ mem' \in Blocks(MemSize)
      BY <1>0, <1>1, PlainStep, MemoryIn
    <2>2. StoreOK'
      BY <1>0, <1>1, <2>1 DEF StoreOK, UnitOK
    <2>3. JobOK'
      <3>1. CASE job = None
        BY <1>1, <3>1 DEF JobOK
      <3>2. CASE job # None
        <4>1. Spared /\ saved # None /\ UNCHANGED <<job, saved, buf>> /\ mem' = mem
          BY <1>0, <1>1, <2>1, <3>2, MemoryIn DEF UnitOK
        <4> QED
          BY <1>0, <4>1, Undisturbed
      <3> QED
        BY <3>1, <3>2
    <2> QED
      BY <1>1, <2>2, <2>3, HandlersAreWhole DEF IInv
  <1>2. ASSUME NEW s \in Sources, load(s) PROVE IInv' /\ Whole
    BY <1>0, <1>2, LoadStep DEF IInv
  <1>3. CASE store
    BY <1>0, <1>3, StoreStep DEF IInv
  <1>4. ASSUME saved = None, NEW s \in Sources, NEW xl \in Lengths, _iobuf_load(s, xl) PROVE IInv' /\ Whole
    BY <1>0, <1>4, IobufLoadStep DEF IInv
  <1>5. ASSUME NEW xl \in Lengths, _iobuf_store(xl) PROVE IInv' /\ Whole
    BY <1>0, <1>5, IobufStoreStep DEF IInv
  <1>6. ASSUME saved = None, NEW k \in Lockers, execw(k) PROVE IInv' /\ Whole
    BY <1>0, <1>6, ExecwStep DEF IInv
  <1>7. CASE Abandon
    <2>1. /\ job' = None /\ out' = "refused" /\ UNCHANGED <<L, nl, start, buf, saved>>
          /\ mem' = ZeroMem
      BY <1>7 DEF Abandon
    <2>2. ZeroMem \in Blocks(MemSize)
      <3>1. MemSize \in Nat
        BY Sizes DEF MemSize
      <3> QED
        BY <3>1, ZerosBlocks DEF ZeroMem, MemSize
    <2> QED
      BY <1>0, <2>1, <2>2, SameOK DEF IInv, StoreOK, JobOK, Whole
  <1>8. CASE HandlerEnter
    <2>1. /\ saved = None /\ saved' = [nl |-> nl, start |-> start] /\ UNCHANGED <<L, nl, start, buf, job, mem, out>>
      BY <1>8 DEF HandlerEnter
    <2>2. nl \in Names /\ start \in Nat
      BY <1>0 DEF StoreOK
    <2>3. saved' \in [nl : Names, start : Nat] /\ saved'.start = start
      BY <2>1, <2>2
    <2>4. StoreOK'
      BY <1>0, <2>1, <2>3, SameOK DEF StoreOK
    <2>5. saved' # None => Reached' = start /\ Reached = start
      BY <2>1, <2>3 DEF Reached
    <2>6. saved' = None => Reached' = start /\ Reached = start
      BY <2>1 DEF Reached
    <2>7. JobOK'
      BY <1>0, <2>1, <2>5, <2>6
      DEF JobOK, Done, LoadDone, StoreDone, IobufDone, ExecwDone, Underway
    <2> QED
      BY <2>1, <2>4, <2>7, HandlersAreWhole DEF IInv
  <1>9. CASE HandlerExit
    <2>1. /\ saved # None /\ saved' = None /\ nl' = saved.nl /\ start' = saved.start /\ UNCHANGED <<L, buf, job, mem, out>>
      BY <1>9 DEF HandlerExit
    <2>2. saved.nl \in Names /\ saved.start \in Nat
      BY <1>0, <2>1 DEF StoreOK
    <2>3. StoreOK'
      BY <1>0, <2>1, <2>2, SameOK DEF StoreOK
    <2>4. Reached' = Reached
      BY <2>1 DEF Reached
    <2>5. JobOK'
      BY <1>0, <2>1, <2>4
      DEF JobOK, Done, LoadDone, StoreDone, IobufDone, ExecwDone, Underway
    <2> QED
      BY <2>1, <2>3, <2>5, HandlersAreWhole DEF IInv
  <1>10. CASE UNCHANGED vars
    <2>1. UNCHANGED <<L, nl, start, buf, job, saved, mem, out>>
      BY <1>10 DEF vars
    <2>2. StoreOK'
      BY <1>0, <2>1, SameOK DEF StoreOK
    <2>3. Reached' = Reached
      BY <2>1 DEF Reached
    <2>4. JobOK'
      BY <1>0, <2>1, <2>3
      DEF JobOK, Done, LoadDone, StoreDone, IobufDone, ExecwDone, Underway
    <2> QED
      BY <1>10, <2>2, <2>4 DEF IInv
  <1>11. CASE \/ \E s \in Sources : load(s)
              \/ store
              \/ saved = None /\ \E s \in Sources, xl \in Lengths : _iobuf_load(s, xl)
              \/ \E xl \in Lengths : _iobuf_store(xl)
              \/ saved = None /\ \E k \in Lockers : execw(k)
    BY <1>2, <1>3, <1>4, <1>5, <1>6, <1>11
  <1>12. CASE reset
    <2>1. /\ L' = [k \in Lockers |-> Free] /\ nl' = None /\ start' = 0 /\ job' = None /\ saved' = None
          /\ mem' = ZeroMem /\ out' = "refused"
      BY <1>12 DEF reset
    <2>2. mem' \in Blocks(MemSize)
      <3>1. MemSize \in Nat
        BY Sizes DEF MemSize
      <3> QED
        BY <2>1, <3>1, ZerosBlocks DEF ZeroMem, MemSize
    <2>3. BufOK(buf')
      <3>1. buf' = [len |-> 0, top |-> 0, max |-> buf.max, blocks |-> Zeros(MaxBuffer)] /\ buf.max \in 0..MaxBuffer
        <4> HIDE DEF Zeros
        <4>1. BufOK(buf)
          BY <1>0 DEF StoreOK
        <4> QED
          BY <1>12, <4>1 DEF reset, BufOK
      <3> QED
        BY <3>1, ZeroBuf
    <2> QED
      BY <2>1, <2>2, <2>3, AllFree DEF IInv, StoreOK, JobOK, Whole, Names
  <1> QED
    BY <1>1, <1>7, <1>8, <1>9, <1>10, <1>11, <1>12 DEF Next

\* The unit and the instruction that is in the middle are always in a state of IInv.
THEOREM Invariance == Spec => []IInv
  BY InitOK, NextOK, PTL DEF Spec

\* The image that an export gives out is the one of the content that the locker holds now.
THEOREM ImagesAreCurrent == Spec => []ExportedImageIsCurrent
  <1>1. IInv => ExportedImageIsCurrent
    BY DEF IInv, StoreOK, LockersOK, LockerOK, ExportedImageIsCurrent
  <1> QED
    BY <1>1, Invariance, PTL

\* However an instruction is cut into pieces, and whatever handlers do between them, when it is done
\* it has had the effect of one that nothing cut.
THEOREM TransfersAreWhole == Spec => CutTransfersAreWhole
  <1>1. ASSUME IInv, [Next]_vars PROVE [job # None /\ job' = None /\ out' = "ok" => DoneAsIfUncut(job)]_vars
    BY <1>1, NextOK DEF Whole
  <1> QED
    BY <1>1, Invariance, PTL DEF Spec, CutTransfersAreWhole

=============================================================================
