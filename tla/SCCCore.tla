------------------------------ MODULE SCCCore -------------------------------
(***************************************************************************)
(* The export and import of a locker of scc_core.py: the image a locker    *)
(* becomes under a CSK, and what an import makes of any image.  A block is *)
(* a tuple that starts with its kind; ciphertexts and tags are terms,      *)
(* equal only when all that went into them is.  An MDH is the record of    *)
(* the fields that the format reads; Fixed stands for those that are 0.    *)
(***************************************************************************)
EXTENDS Integers, Sequences, FiniteSetsExt

CONSTANTS Lockers,           \* the lockers exported: mdh (its Locality as the entries it names), c1 and c2
          CSKs, LSTs, Impqs, \* the keys; the entries of the SCC; the qualifiers of an implementation
          Clears,            \* pairs of SCC_ClearLen1 and SCC_ClearLen2, in blocks
          Limits,            \* the greatest AuxDataLen that an implementation takes
          Headers            \* bound: the changes of a header, records of a field and its value

VARIABLE m

Zero == <<"zero">>
Junk == <<"junk">>
Nothing == <<>>
SCC_MACHINES == [x00 |-> 1, x20 |-> 2]             \* the Machines and the blocks of their keys
Supported(f) == f.Machine \in DOMAIN SCC_MACHINES

\* The SIV of AD and P, and the i-th block of key stream of a SIV; sep tells the two parts of an image apart.
Block(f) == <<"mdh", f>>
\* The tag is over the header without ADSDropped.
Undropped(b) == IF b[1] = "mdh" THEN Block([b[2] EXCEPT !.ADSDropped = 0]) ELSE b
Tag(AD, sep, P, K) == <<"siv", K, sep, [AD EXCEPT ![1] = IF sep = 0 THEN Undropped(@) ELSE @] \o P>>
_ctr(sep, siv, i, K) == <<"stream", K, sep, siv, i>>
Xor(b, stream) == IF b[1] = "xor" /\ b[3] = stream THEN b[2] ELSE <<"xor", b, stream>>
Crypt(X, sep, siv, K) == [i \in 1 .. Len(X) |-> Xor(X[i], _ctr(sep, siv, i - 1, K))]
scc_encrypt(AD, sep, P, K) == LET siv == Tag(AD, sep, P, K) IN [siv |-> siv, C |-> Crypt(P, sep, siv, K)]
scc_decrypt(AD, sep, siv, C, K) == LET P == Crypt(C, sep, siv, K) IN [ok |-> Tag(AD, sep, P, K) = siv, P |-> P]

-----------------------------------------------------------------------------
\* The entries of the SCC, 0 to 10, that a Locality names.
scc_loc_bits(js) ==
  MapThenSumSet(LAMBDA j : CASE j < 3 -> j + 1 [] j \in 3 .. 5 -> (j - 2) * 4 [] j \in 6 .. 7 -> (j - 5) * 16 [] OTHER -> 2 ^ (j - 2), js)
scc_includes(loc, j) ==
  CASE j < 3 -> loc % 4 = j + 1
    [] j \in 3 .. 5 -> (loc \div 4) % 4 = j - 2
    [] j \in 6 .. 7 -> (loc \div 16) % 4 = j - 5
    [] OTHER -> (loc \div 2 ^ (j - 2)) % 2 = 1
\* An entry that is 0 takes the value of the next one of its chain that is not.
scc_lst_eff(lst) ==
  [j \in 0 .. 10 |->
     LET later == {k \in j .. (IF j < 3 THEN 2 ELSE 5) : lst[k] # Zero} IN
     IF j < 6 /\ later # {} THEN lst[Min(later)] ELSE lst[j]]
\* The header, and as one block the entries that it names, which it puts in order.
\* Mutant: the tag does not cover the entries of the SCC.
HeaderOnly(f, lst) == <<Block(f)>>
scc_ad(f, lst) ==
  <<Block(f), <<"entries", [j \in {i \in 0 .. 10 : scc_includes(f.Locality, i)} |-> scc_lst_eff(lst)[j]]>>>>

scc_content1_size(f) == IF f.KeyType = 1 THEN 1 ELSE SCC_MACHINES[f.Machine]
scc_content2_size(f) == IF f.AuxDataLen >= 2 /\ f.ADSDropped = 0 THEN f.AuxDataLen - 2 ELSE 0
scc_invalid(f) ==
  \/ f.Fixed # 0 \/ f.KeyType \in {2, 3} \/ (f.Locality \div 16) % 4 = 3 \/ (f.Transparent = 1 /\ f.KeyType = 1)
  \/ f.StateExtension # 0 \/ f.State \in {0, 61, 62, 63} \/ f.AuxDataLen = 1
scc_size(f) ==
  CASE f.State = 0 /\ f.StateExtension \in 1 .. 6 -> 1
    [] f.State = 0 /\ f.StateExtension \notin 1 .. 6 -> 0
    [] f.State # 0 /\ (scc_invalid(f) \/ ~Supported(f)) -> 0
    [] OTHER -> (IF f.AuxDataLen = 0 THEN 2 ELSE 4) + scc_content1_size(f) + scc_content2_size(f)

Least(a, b) == IF a < b THEN a ELSE b
Upto(s, n) == SubSeq(s, 1, Least(n, Len(s)))
From(s, n) == SubSeq(s, n + 1, Len(s))
Slice(s, o, n) == From(Upto(s, o + n), o)
At(s, k) == IF k < Len(s) THEN s[k + 1] ELSE Zero
scc_clearlen1(f, clear) == clear[1]
\* The blocks in clear, counted after the header's Transparent.
ClearOf(f, clear, c1, c2) == IF f.Transparent = 1 THEN <<Len(c1), Len(c2)>> ELSE <<scc_clearlen1(f, clear), clear[2]>>
\* Mutant: the ADS is bound to the implementation and not to the SIV of the other part.
OfAnyContent(impq, siv) == <<impq>>
OfThisContent(impq, siv) == <<impq, siv>>

\* The image of the locker L: header, SIV, IMPQUAL and SIV2 where there is an ADS, the contents.
scc_export(L, csk, lst, impq, clear) ==
  LET n == ClearOf(L.mdh, clear, L.c1, L.c2)
      one == scc_encrypt(scc_ad(L.mdh, lst) \o Upto(L.c1, n[1]), 0, From(L.c1, n[1]), csk)
      two == scc_encrypt(OfThisContent(impq, one.siv) \o Upto(L.c2, n[2]), 1, From(L.c2, n[2]), csk) IN
  CASE L.mdh.State = 0 /\ L.mdh.StateExtension \in 1 .. 6 -> <<Block(L.mdh)>>
    [] ~(L.mdh.State = 0 /\ L.mdh.StateExtension \in 1 .. 6) /\ L.mdh.AuxDataLen < 2 ->
         <<Block(L.mdh), one.siv>> \o Upto(L.c1, n[1]) \o one.C
    [] OTHER -> <<Block(L.mdh), one.siv, impq, two.siv>> \o Upto(L.c1, n[1]) \o one.C \o Upto(L.c2, n[2]) \o two.C

WithoutADS(f) == [f EXCEPT !.MachineUse = 0, !.AuxInfo = 0, !.ADSDropped = 0, !.AuxDataLen = 0]
Refused(status) == [status |-> status, mdh |-> Nothing, c1 |-> <<>>, c2 |-> <<>>]
\* The two parts of an image whose header, with the State put back, is work; the second is dropped when it is not this
\* implementation's, was cut off, or does not verify.
Parts(work, img, csk, lst, impq, clear) ==
  LET ads == work.AuxDataLen >= 2
      o == IF ads THEN 4 ELSE 2
      c1 == Slice(img, o, scc_content1_size(work))
      c2 == IF ads /\ work.ADSDropped = 0 THEN Slice(img, o + scc_content1_size(work), work.AuxDataLen - 2) ELSE <<>>
      n == ClearOf(work, clear, c1, c2)
      one == scc_decrypt(scc_ad(work, lst) \o Upto(c1, n[1]), 0, At(img, 1), From(c1, n[1]), csk)
      two == scc_decrypt(OfThisContent(At(img, 2), At(img, 1)) \o Upto(c2, n[2]), 1, At(img, 3), From(c2, n[2]), csk)
      kept == ads /\ work.ADSDropped = 0 /\ At(img, 2) = impq /\ two.ok IN
  IF ~one.ok
  THEN [Refused("authfail") EXCEPT !.mdh = [work EXCEPT !.State = 0, !.StateExtension = 4, !.AuxDataLen = 0, !.ADSDropped = 0]]
  ELSE [status |-> "ok", mdh |-> IF kept THEN work ELSE WithoutADS(work),
        c1 |-> Upto(Upto(c1, n[1]) \o one.P, scc_content1_size(work)), c2 |-> IF kept THEN Upto(c2, n[2]) \o two.P ELSE <<>>]
ErrorImport(f, zklexpire) == f.State = 0 /\ f.StateExtension \in 1 .. (IF zklexpire THEN 6 ELSE 5)
InvalidMDH(f) == [x \in DOMAIN f |-> CASE x = "StateExtension" -> 2 [] x = "Machine" -> "x00" [] OTHER -> 0]
\* ml_state: the State that the header had before it said that an export goes on, or Nothing when it never did.
scc_import(img, csk, lst, impq, clear, max_ads, ml_state, zklexpire) ==
  LET f == img[1][2]
      Mv == IF ml_state = Nothing THEN f ELSE [f EXCEPT !.State = ml_state[1]]
      drop == IF f.AuxDataLen >= 2 /\ (f.ADSDropped = 1 \/ f.AuxDataLen > max_ads) THEN 1 ELSE 0 IN
  IF ErrorImport(f, zklexpire)
  THEN [Refused("ok") EXCEPT !.mdh = IF scc_invalid([f EXCEPT !.State = 1, !.StateExtension = 0]) THEN InvalidMDH(f)
                                     ELSE [f EXCEPT !.AuxDataLen = 0, !.ADSDropped = 0]]
  ELSE IF ~Supported(f) /\ ~scc_invalid(f) THEN Refused("unsupported")
  ELSE IF scc_invalid([Mv EXCEPT !.State = 1]) THEN Refused("invalid")
  ELSE IF ~Supported(f) THEN Refused("unsupported")
  ELSE Parts([Mv EXCEPT !.ADSDropped = drop], img, csk, lst, impq, clear)

-----------------------------------------------------------------------------
\* The lockers; and what an import is given beside the image, and what the export was.
Encoded == {[L EXCEPT !.mdh.Locality = scc_loc_bits(@)] : L \in Lockers}
Env(csk, lst, impq, max_ads, ml) == [csk |-> csk, lst |-> lst, impq |-> impq, max_ads |-> max_ads, ml |-> ml]
Init ==
  \E L \in Encoded, clear \in Clears, csk \in CSKs, lst \in LSTs, impq \in Impqs :
    m = [alg |-> "scc", stage |-> "locker", L |-> L, clear |-> clear, env |-> Env(csk, lst, impq, 64, Nothing),
         img |-> <<>>, changed |-> FALSE, used |-> Nothing, r |-> Nothing]
Image(L) == scc_export(L, m.env.csk, m.env.lst, m.env.impq, m.clear)
\* kl.setst exports; the header of the image says so while it goes on, and the management locker holds the State.
Export ==
  /\ m.stage = "locker"
  /\ \/ m' = [m EXCEPT !.stage = "image", !.img = Image(m.L)]
     \/ /\ m.L.mdh.State \in 1 .. 55
        /\ m' = [m EXCEPT !.stage = "image", !.env.ml = <<m.L.mdh.State>>,
                          !.img = [Image(m.L) EXCEPT ![1] = Block([m.L.mdh EXCEPT !.State = 57])]]
\* The changes of an image: a field of its header, a block, its end, or its ADS for that of another locker's image.
WithHeader == {[m.img EXCEPT ![1] = Block([m.img[1][2] EXCEPT ![h.field] = h.value])] : h \in Headers}
WithBlock == {[m.img EXCEPT ![k] = b] : k \in 2 .. Len(m.img), b \in {Junk} \cup {m.img[j] : j \in 2 .. Len(m.img)}}
CutOff == {Upto(m.img, n) : n \in 1 .. Len(m.img)}
WithADSOf ==
  {[k \in 1 .. Len(m.img) |-> IF k \in {3, 4} \/ k > 4 + Len(m.L.c1) THEN Image(L)[k] ELSE m.img[k]] :
     L \in {X \in Encoded : X.mdh.AuxDataLen >= 2 /\ Len(Image(X)) = Len(m.img) /\ Len(X.c1) = Len(m.L.c1)}}
Change ==
  /\ m.stage = "image" /\ ~m.changed
  /\ \E img \in WithHeader \cup WithBlock \cup CutOff \cup WithADSOf :
       /\ img # m.img
       /\ m' = [m EXCEPT !.img = img, !.changed = TRUE]
\* An import, with at most one thing other than it was at the export.
Import ==
  /\ m.stage = "image"
  /\ \E x \in {m.env} \cup {[m.env EXCEPT !.csk = k] : k \in CSKs} \cup {[m.env EXCEPT !.lst = s] : s \in LSTs}
               \cup {[m.env EXCEPT !.impq = q] : q \in Impqs} \cup {[m.env EXCEPT !.max_ads = n] : n \in Limits}
               \cup {[m.env EXCEPT !.ml = s] : s \in IF m.env.ml = Nothing THEN {Nothing} ELSE {<<1>>, <<2>>, <<61>>}} :
       m' = [m EXCEPT !.stage = "imported", !.used = x,
                      !.r = scc_import(m.img, x.csk, x.lst, x.impq, m.clear, x.max_ads, x.ml, FALSE)]
Next == Export \/ Change \/ Import
Spec == Init /\ [][Next]_m

\* What a locker can hold: a valid header of the fields that the format reads, of a supported Machine and with its ADS
\* (scc_export asserts it), contents of the sizes that it tells, and no tag and no ciphertext of the format; or an Error State.
Fields == {"Machine", "KeyType", "Transparent", "Locality", "AuxDataLen", "ADSDropped", "MachineUse", "AuxInfo", "State",
           "StateExtension", "Fixed"}
IsPlain(b) == b[1] \notin {"siv", "xor"}
IsContent(c) == c \in Seq({c[i] : i \in 1 .. Len(c)}) /\ \A i \in 1 .. Len(c) : IsPlain(c[i])
IsLocker(L) ==
  /\ L.mdh = [x \in Fields |-> L.mdh[x]] /\ L.mdh.AuxDataLen \in Nat /\ IsContent(L.c1) /\ IsContent(L.c2)
  /\ \/ L.mdh.State = 0 /\ L.mdh.StateExtension \in 1 .. 6
     \/ /\ ~scc_invalid(L.mdh) /\ Supported(L.mdh) /\ L.mdh.ADSDropped = 0
        /\ Len(L.c1) = scc_content1_size(L.mdh) /\ Len(L.c2) = scc_content2_size(L.mdh)
SCCAssumption ==
  /\ Clears \subseteq Nat \X Nat /\ Limits \subseteq Nat /\ \A h \in Headers : h.field = "AuxDataLen" => h.value \in Nat
  /\ (\A q \in Impqs : IsPlain(q)) /\ \A L \in Encoded : IsLocker(L)

-----------------------------------------------------------------------------
\* The locker was of the same SCC: its key, and the entries that its Locality names, in effect the same.
SameSCC == /\ m.used.csk = m.env.csk
           /\ \A j \in 0 .. 10 : scc_includes(m.L.mdh.Locality, j) => scc_lst_eff(m.used.lst)[j] = scc_lst_eff(m.env.lst)[j]
Whole(L) == m.r.mdh = L.mdh /\ m.r.c1 = L.c1 /\ m.r.c2 = L.c2
WithoutItsADS == m.r.mdh = WithoutADS(m.L.mdh) /\ m.r.c1 = m.L.c1 /\ m.r.c2 = <<>>
\* An image comes back as the locker it was in the same SCC, without the ADS in an implementation that cannot use it, and
\* is as long as kl.size says.
RoundTrips ==
  /\ m.stage = "image" /\ ~m.changed => Len(m.img) = scc_size(m.L.mdh)
  /\ m.stage = "imported" /\ ~m.changed /\ SameSCC /\ m.used.ml = m.env.ml /\ m.L.mdh.State # 0 =>
       /\ m.r.status = "ok"
       /\ IF m.used.impq = m.env.impq /\ m.L.mdh.AuxDataLen \in 2 .. m.used.max_ads THEN Whole(m.L) ELSE WithoutItsADS
\* Nothing else than that locker comes out of an import, of any image and any SCC, unless an Error State: without its ADS,
\* or with one that it was exported with in this implementation.
OnlyTheOriginal ==
  m.stage = "imported" /\ m.r.status = "ok" /\ m.r.mdh.State # 0 =>
    /\ SameSCC
    /\ \/ WithoutItsADS
       \/ m.used.impq = m.env.impq /\ \E X \in Encoded : X.mdh = m.L.mdh /\ X.c1 = m.L.c1 /\ Whole(X)
=============================================================================
