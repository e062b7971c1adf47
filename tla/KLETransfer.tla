---------------------------- MODULE KLETransfer ----------------------------
(***************************************************************************)
(* Class KLE2 (mgmt_ext.py), the transfers: serialized images of lockers   *)
(* that are being configured, kl.load and kl.store with page faults, the   *)
(* block transfers, KLIOBUF, and kl.exec on a KLIOBUF window.              *)
(*                                                                         *)
(* Positions (klstart, kliobuftop, ...) count 16-byte blocks.  A block is  *)
(* a number; the toy cipher XORs it with the key, which is 1.  Software is *)
(* one thread, stopped at an instruction that faulted or halted (job), and *)
(* a handler that may run meanwhile and restores what it found (saved).    *)
(***************************************************************************)
EXTENDS Integers, Sequences

CONSTANTS Lockers,        \* the lockers
          None,           \* klnamedlocker names no locker; no image; no job; not saved
          ContentBlocks,  \* blocks of a content
          Contents,       \* contents that a Machine or kl.derive leaves
          MaxBuffer,      \* mklmaxiobuflen after reset
          Sources,        \* what software loads: blocks by position
          Lengths,        \* what software writes to kliobuflen, and passes as Xl
          Tops            \* what software writes to kliobuftop

ASSUME TransferAssumption ==
  /\ ContentBlocks \in Nat \ {0} /\ MaxBuffer \in Nat
  /\ None \notin Lockers \cup Seq(Nat)
  /\ Lengths \subseteq Nat /\ Tops \subseteq Nat
  /\ \A c \in Contents : c \in Seq(Nat) /\ Len(c) = ContentBlocks
  /\ \A s \in Sources : s \in Seq(Nat) /\ Len(s) > ContentBlocks /\ Len(s) >= MaxBuffer

VARIABLES L,       \* the lockers
          nl,      \* klnamedlocker
          start,   \* klstart
          buf,     \* KLIOBUF: its length, top, limit and blocks
          job,     \* the instruction of the thread that has begun, or None
          saved,   \* what the handler found, or None when it does not run
          mem,     \* what the thread's last store has written, by position
          out      \* "early" when the last instruction faulted or halted in the middle, "refused" when
                   \* kl.exec ended in an error or the thread's instruction is given up, otherwise "ok"

vars == <<L, nl, start, buf, job, saved, mem, out>>

Provisioning == 56
Exporting    == 57
Importing    == 58
PPIExporting == 59
PPIImporting == 60
Config   == Provisioning..PPIImporting
PIStates == {Provisioning, PPIExporting, PPIImporting}
Inbound  == {Provisioning, Importing, PPIImporting}
Outbound == {Exporting, PPIExporting}

Zeros(n) == [i \in 1..n |-> 0]
ZeroMem == Zeros(MaxBuffer + ContentBlocks + 1)

\* A locker in State 0 holds nothing (Unconfigured or an Error State).
\* built is history: the export built the image and nothing was moved into it since.
Free == [st |-> 0, content |-> Zeros(ContentBlocks), img |-> None, built |-> FALSE]

\* The blocks of the image of a locker, and where the content begins in it.
image_end(st) == IF st \in PIStates THEN ContentBlocks ELSE ContentBlocks + 1
offset(st) == image_end(st) - ContentBlocks
img(l) == IF l.img = None THEN Zeros(image_end(l.st)) ELSE l.img
ImageOf(st, c) == Zeros(offset(st)) \o c

Init ==
  /\ L = [k \in Lockers |-> Free] /\ nl = None /\ start = 0
  /\ buf = [len |-> 0, top |-> 0, max |-> MaxBuffer, blocks |-> Zeros(MaxBuffer)]
  /\ job = None /\ saved = None /\ mem = ZeroMem /\ out = "ok"

\* The locker of the thread's instruction is not the handler's to touch.
May(k) == saved # None /\ job # None => job.k # k

-----------------------------------------------------------------------------
\* kl.mgmt 56 and 58: the opening of a provisioning or an import.
open(k, st) ==
  /\ May(k) /\ nl' = k /\ start' = 0 /\ out' = "ok"
  /\ L' = [L EXCEPT ![k] = [Free EXCEPT !.st = st]]
  /\ UNCHANGED buf

\* kl.mgmt 57.  The image is built once; a Locality without a secret refuses a Valid State.
ExportImage(l, st) == IF l.img = None THEN ImageOf(st, l.content) ELSE l.img
_export_open(k, refused) ==
  LET l  == L[k]
      st == IF l.st \in PIStates THEN PPIExporting ELSE Exporting
  IN /\ May(k) /\ (refused => l.st \notin Config)
     /\ nl' = k /\ start' = 0 /\ out' = "ok"
     /\ L' = IF l.st = 0 \/ refused THEN L
             ELSE [L EXCEPT ![k] = [@ EXCEPT !.st = st, !.img = ExportImage(l, st), !.built = l.built \/ l.img = None]]
     /\ UNCHANGED buf

\* kl.mgmt 63.  The content is taken from the image before ml.State is looked at; whether the tag of
\* an import is the one in the import qualifiers is genuine.
Unserialized(l) ==
  IF l.img # None /\ l.st \in Inbound
    THEN [l EXCEPT !.content = SubSeq(img(l), offset(l.st) + 1, image_end(l.st))] ELSE l
Admitted(st) == IF st \in PIStates THEN PIStates ELSE {1, 2, Exporting, Importing}
Completed(l, ml, genuine) ==
  LET m == [l EXCEPT !.st = IF @ = Provisioning THEN 1 ELSE ml] IN
  IF l.st = Importing /\ m.st \notin Config /\ ~ genuine THEN Free ELSE m
\* Mutant: the image outlives the completion.
ImageKept(l) == l
WithoutImage(l) == IF l.st \in Config THEN l ELSE [l EXCEPT !.img = None, !.built = FALSE]
_complete(k, ml, genuine) ==
  LET l == Unserialized(L[k])
      admitted == l.st \in Config /\ (l.st = Provisioning \/ ml \in Admitted(l.st))
  IN /\ May(k) /\ nl' = k /\ start' = 0
     /\ out' = "ok"
     /\ L' = [L EXCEPT ![k] = IF admitted THEN WithoutImage(Completed(l, ml, genuine)) ELSE l]
     /\ UNCHANGED buf

\* kl.setst, kl.derive and the use of a Machine: a Valid State and its content change.
UseMachine(k, st, c) ==
  /\ May(k) /\ L[k].st \in {1, 2}
  /\ L' = [L EXCEPT ![k] = [@ EXCEPT !.st = st, !.content = c]]
  /\ out' = "ok" /\ UNCHANGED <<nl, start, buf>>

\* What destroys or moves a locker leaves klstart, and the name follows (KLE); the image is a part of
\* the locker, so free drops it and a move carries it (KLE2).
Destroyed(k) == IF nl = k THEN None ELSE nl
Leaves == out' = "ok" /\ UNCHANGED <<start, buf>>
clear(k) == May(k) /\ L' = [L EXCEPT ![k] = Free] /\ nl' = Destroyed(k) /\ Leaves
setste(k) == May(k) /\ L' = [L EXCEPT ![k] = Free] /\ UNCHANGED nl /\ Leaves
clearall ==
  /\ \A k \in Lockers : May(k)
  /\ L' = [k \in Lockers |-> Free] /\ nl' = None /\ start' = 0 /\ out' = "ok" /\ UNCHANGED buf
\* A source in a Configuration State traps once the destination is cleared.
clone(d, src) ==
  LET l == L[src] IN
  /\ d # src /\ May(d) /\ nl' = Destroyed(d)
  /\ L' = [L EXCEPT ![d] = IF l.st \in Config THEN Free ELSE [Free EXCEPT !.st = l.st, !.content = l.content]]
  /\ Leaves
\* An Unconfigured source clears the destination and keeps its name.
rename(d, src, unconfigured) ==
  /\ d # src /\ May(d) /\ May(src) /\ (unconfigured => L[src].st = 0)
  /\ L' = [L EXCEPT ![d] = L[src], ![src] = Free]
  /\ nl' = (IF nl = src /\ ~ unconfigured THEN d ELSE Destroyed(d)) /\ Leaves
swap(d, src) ==
  /\ d # src /\ May(d) /\ May(src)
  /\ L' = [L EXCEPT ![d] = L[src], ![src] = L[d]]
  /\ nl' = (IF nl = d THEN src ELSE IF nl = src THEN d ELSE nl) /\ Leaves

-----------------------------------------------------------------------------
\* Transfers of a register, of vector registers or of KLIOBUF.  A locker that is not named or
\* not configured takes nothing and gives zeros.
Named == nl # None /\ L[nl].st # 0
Checked(states) == (nl # None => May(nl)) /\ (Named => L[nl].st \in states)
Moved(n) == CHOOSE m \in 0..n : \/ start + m = image_end(L[nl].st)
                                \/ m = n /\ start + n < image_end(L[nl].st)
                                \/ m = 0 /\ start > image_end(L[nl].st)
Written(image, from, blocks, n) ==
  [i \in DOMAIN image |-> IF i \in from + 1..from + n THEN blocks[i - from] ELSE image[i]]
Filled(l, from, blocks, n) == [l EXCEPT !.img = Written(img(l), from, blocks, n), !.built = FALSE]

_blk_in(blocks) ==
  /\ Checked(Inbound)
  /\ IF Named THEN /\ L' = [L EXCEPT ![nl] = Filled(@, start, blocks, Moved(Len(blocks)))]
                   /\ start' = start + Moved(Len(blocks))
              ELSE UNCHANGED <<L, start>>
  /\ out' = "ok" /\ UNCHANGED <<nl, buf>>
buf_in == (Named => buf.len > 0) /\ _blk_in(SubSeq(buf.blocks, 1, buf.top))

_blk_out(n) ==
  /\ Checked(Outbound)
  /\ start' = IF Named THEN start + Moved(n) ELSE start
  /\ out' = "ok" /\ UNCHANGED <<L, nl>>
BlocksOut(n) == [i \in 1..n |-> IF Named /\ i <= Moved(n) THEN img(L[nl])[start + i] ELSE 0]
buf_out ==
  /\ _blk_out(buf.top) /\ buf.len > 0
  /\ buf' = [buf EXCEPT !.blocks = Written(@, 0, BlocksOut(buf.top), buf.top)]

\* CSR writes.
CSR == out' = "ok" /\ UNCHANGED L
w_kliobuflen(v) ==
  LET n == IF v > buf.max THEN buf.max ELSE v
  IN CSR /\ buf' = [buf EXCEPT !.len = n, !.top = n, !.blocks = Written(@, 0, Zeros(n), n)]
         /\ UNCHANGED <<nl, start>>
w_kliobuftop(v) ==
  CSR /\ buf' = [buf EXCEPT !.top = IF v > buf.len THEN buf.len ELSE v] /\ UNCHANGED <<nl, start>>
w_maxiobuflen(v) ==
  CSR /\ buf' = (IF buf.len > v THEN [len |-> 0, top |-> 0, max |-> v, blocks |-> Zeros(MaxBuffer)]
                 ELSE [buf EXCEPT !.max = v]) /\ UNCHANGED <<nl, start>>
setks(v) == CSR /\ start' = v /\ UNCHANGED <<nl, buf>>
setnl(v) == CSR /\ nl' = v /\ UNCHANGED <<start, buf>>

-----------------------------------------------------------------------------
\* The instructions that a page fault or an interrupt ends in the middle.  stop is the first block
\* not moved.  Those of a locker and kl.exec leave klstart there, and 0 when they are done.
\* Mutant: the block that faulted is skipped.
StartPast(stop, end) == IF stop >= end THEN 0 ELSE stop + 1
StartAt(stop, end) == IF stop >= end THEN 0 ELSE stop
Stops(end) == IF start >= end THEN {start} ELSE start..end
Ends(stop, end) == start' = StartAt(stop, end) /\ out' = IF stop >= end THEN "ok" ELSE "early"

\* The thread begins, goes on with or ends such an instruction; for the handler it is one of many.
Interruptible(op, k, src) ==
  IF saved # None THEN UNCHANGED job
  ELSE /\ job # None => job.op = op /\ job.k = k /\ job.src = src
       /\ job' = IF out' # "early" THEN None
                 ELSE IF job # None THEN job
                 ELSE [op |-> op, k |-> k, src |-> src, from |-> start,
                       before |-> IF op = "execw" THEN buf.blocks ELSE <<>>]

\* What the thread stores; what an earlier instruction stored is of no interest.
Memory == IF job = None THEN ZeroMem ELSE mem
Stored(blocks, stop) ==
  mem' = IF saved = None THEN Written(Memory, start, SubSeq(blocks, start + 1, stop), stop - start) ELSE mem

load(src) ==
  LET end == image_end(L[nl].st) IN
  /\ nl # None /\ Checked(Inbound)
  /\ IF ~ Named THEN start' = 0 /\ out' = "ok" /\ UNCHANGED L
     ELSE \E stop \in Stops(end) :
            /\ L' = [L EXCEPT ![nl] = Filled(@, start, SubSeq(src, start + 1, stop), stop - start)]
            /\ Ends(stop, end)
  /\ Interruptible("load", nl, src) /\ mem' = Memory /\ UNCHANGED <<nl, buf, saved>>
store ==
  LET end == image_end(L[nl].st) IN
  /\ nl # None /\ Checked(Outbound)
  /\ IF ~ Named THEN start' = 0 /\ out' = "ok" /\ mem' = Memory
     ELSE \E stop \in Stops(end) : Stored(img(L[nl]), stop) /\ Ends(stop, end)
  /\ Interruptible("store", nl, <<>>) /\ UNCHANGED <<L, nl, buf, saved>>

\* kl.load and kl.store without a locker move KLIOBUF; with nothing to move they zero klstart.
\* _iobuf_xfer runs on a position of its own: a fault leaves what it has moved, and klstart as it was.
EndsInPlace(stop, end) ==
  start' = (IF stop >= end THEN 0 ELSE start) /\ out' = IF stop >= end THEN "ok" ELSE "early"
_iobuf_load(src, xl) ==
  LET end == IF xl > buf.top THEN buf.top ELSE xl IN
  /\ nl = None /\ (xl > 0 => buf.len > 0)
  /\ \E stop \in Stops(end) :
       /\ buf' = [buf EXCEPT !.blocks = Written(@, start, SubSeq(src, start + 1, stop), stop - start)]
       /\ EndsInPlace(stop, end)
  /\ Interruptible("iobuf_load", None, <<xl, src>>) /\ mem' = Memory /\ UNCHANGED <<L, nl, saved>>
_iobuf_store(xl) ==
  LET end == IF xl > buf.top THEN buf.top ELSE xl IN
  /\ nl = None /\ (xl > 0 => buf.len > 0)
  /\ \E stop \in Stops(end) : Stored(buf.blocks, stop) /\ EndsInPlace(stop, end)
  /\ Interruptible("iobuf_store", None, <<xl>>) /\ UNCHANGED <<L, nl, buf, saved>>

\* kl.exec of the toy cipher on the window [klstart, kliobuftop) of KLIOBUF.
Xor(b) == IF b % 2 = 0 THEN b + 1 ELSE b - 1
Processed(blocks, from, stop) == [i \in DOMAIN blocks |-> IF i \in from + 1..stop THEN Xor(blocks[i]) ELSE blocks[i]]
Blanked(from) == [buf EXCEPT !.blocks = [i \in DOMAIN @ |-> IF i \in from + 1..buf.top THEN 0 ELSE @[i]]]
execw(k) ==
  /\ May(k) /\ L[k].st \notin Config
  /\ \/ L[k].st = 0 /\ start' = 0 /\ out' = "refused" /\ buf' = Blanked(0) /\ UNCHANGED L
     \/ L[k].st = 1 /\ buf.len > 0 /\ out' = "refused" /\ UNCHANGED start
        /\ L' = [L EXCEPT ![k] = Free] /\ buf' = Blanked(start)
     \/ L[k].st = 2 /\ buf.len > 0 /\ UNCHANGED L
        /\ \E stop \in Stops(buf.top) :
             buf' = [buf EXCEPT !.blocks = Processed(@, start, stop)] /\ Ends(stop, buf.top)
  /\ Interruptible("execw", k, <<>>) /\ mem' = Memory /\ UNCHANGED <<nl, saved>>

\* Software: the thread gives its instruction up; a handler runs between two tries of it, uses
\* the unit but not KLIOBUF, and restores klnamedlocker and klstart.
Abandon == job # None /\ saved = None /\ job' = None /\ out' = "refused"
           /\ mem' = ZeroMem /\ UNCHANGED <<L, nl, start, buf, saved>>
HandlerEnter == job # None /\ saved = None /\ saved' = [nl |-> nl, start |-> start]
                /\ UNCHANGED <<L, nl, start, buf, job, mem, out>>
HandlerExit == saved # None /\ saved' = None /\ nl' = saved.nl /\ start' = saved.start
               /\ UNCHANGED <<L, buf, job, mem, out>>

\* A reset of the unit; the thread and the handler are gone.
reset ==
  /\ L' = [k \in Lockers |-> Free] /\ nl' = None /\ start' = 0
  /\ buf' = [buf EXCEPT !.len = 0, !.top = 0, !.blocks = Zeros(MaxBuffer)]
  /\ job' = None /\ saved' = None /\ mem' = ZeroMem /\ out' = "refused"

-----------------------------------------------------------------------------
Plain ==
  \/ \E k \in Lockers :
       \/ \E st \in Inbound : open(k, st)
       \/ \E refused \in BOOLEAN : _export_open(k, refused)
       \/ \E ml \in {1, 2} \cup Config, genuine \in BOOLEAN : _complete(k, ml, genuine)
       \/ \E st \in {1, 2}, c \in Contents : UseMachine(k, st, c)
       \/ clear(k) \/ setste(k)
       \/ \E src \in Lockers : clone(k, src) \/ swap(k, src) \/ \E u \in BOOLEAN : rename(k, src, u)
  \/ clearall
  \/ \E s \in Sources : _blk_in(<<s[1]>>)
  \/ _blk_out(1) /\ UNCHANGED buf
  \/ buf_in \/ buf_out
  \/ \E v \in Lengths : w_kliobuflen(v)
  \/ \E v \in Tops : w_kliobuftop(v)
  \/ \E v \in 1..MaxBuffer : w_maxiobuflen(v)
  \/ \E v \in 0..ContentBlocks : setks(v)
  \/ \E v \in Lockers \cup {None} : setnl(v)

Next ==
  \/ /\ \/ job = None /\ Plain
        \/ saved # None /\ Plain /\ UNCHANGED buf
     /\ mem' = Memory /\ UNCHANGED <<job, saved>>
  \/ \E s \in Sources : load(s)
  \/ store
  \/ saved = None /\ \E s \in Sources, xl \in Lengths : _iobuf_load(s, xl)
  \/ \E xl \in Lengths : _iobuf_store(xl)
  \/ saved = None /\ \E k \in Lockers : execw(k)
  \/ Abandon \/ HandlerEnter \/ HandlerExit \/ reset

Spec == Init /\ [][Next]_vars

-----------------------------------------------------------------------------
\* The blocks that an instruction from position f to position e moves, or does not.
Within(i, f, e) == f < i /\ i <= e

\* An instruction that page faults, interrupts and handlers have cut into pieces has, when it
\* is done, the effect of an instruction that nothing cut: no block of the image, of memory or of
\* KLIOBUF is left out or moved to another place, none of a kl.exec processed twice.  load, store and
\* execw of mgmt_ext.py go on from the klstart of the fault.  The transfers of KLIOBUF begin again
\* where they began (_iobuf_xfer): they move their prefix once more, to the same place.
DoneAsIfUncut(j) ==
  CASE j.op = "load"  -> \A i \in DOMAIN j.src : i > j.from /\ i <= image_end(L[j.k].st) => L'[j.k].img[i] = j.src[i]
    [] j.op = "store" -> \A i \in DOMAIN img(L[j.k]) : i > j.from => mem'[i] = img(L[j.k])[i]
    [] j.op = "iobuf_load"  -> \A i \in 1..buf.top : Within(i, j.from, j.src[1]) => buf'.blocks[i] = j.src[2][i]
    [] j.op = "iobuf_store" -> \A i \in 1..buf.top : Within(i, j.from, j.src[1]) => mem'[i] = buf.blocks[i]
    [] j.op = "execw" -> \A i \in 1..buf.top :
                           buf'.blocks[i] = IF i > j.from THEN Xor(j.before[i]) ELSE j.before[i]
CutTransfersAreWhole ==
  [][job # None /\ job' = None /\ out' = "ok" => DoneAsIfUncut(job)]_vars

\* The image that an export gives out is the one of the content that the locker holds now: none
\* outlives the Configuration State it was built in, over every clear, Error State, copy, move and
\* exchange of lockers, and whatever fills them next (img of mgmt_ext.py).
ExportedImageIsCurrent ==
  \A k \in Lockers : L[k].built => L[k].st \in Config /\ L[k].img = ImageOf(L[k].st, L[k].content)
=============================================================================
