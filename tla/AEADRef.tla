------------------------------ MODULE AEADRef -------------------------------
(***************************************************************************)
(* The fields of common.py and the references of aead_ref.py and           *)
(* scc_core.py, over blocks of 4 bytes of 2 bits where the source has 16   *)
(* of 8: every length is a fourth.  A block is a number of 8 bits, its     *)
(* first byte the least significant, where the source has a value, and a   *)
(* sequence of bytes where the source has bytes.                           *)
(***************************************************************************)
EXTENDS SequencesExt, FiniteSetsExt, Bytes

CONSTANTS Factors,              \* bound: the elements that any element is multiplied by
          Keys, Nonces, AADs, Texts

VARIABLE m

BITS == 2
BLOCK == 4
W == BITS * BLOCK
MASK == 2 ^ W - 1
Zeros(n) == [i \in 1 .. n |-> 0]
bit(v, i) == (v \div 2 ^ i) % 2

\* Bytes to values and numbers, and back.
RECURSIVE b2v(_)
b2v(b) == IF b = <<>> THEN 0 ELSE b[1] + 4 * b2v(Tail(b))
v2b(v, n) == [i \in 1 .. n |-> (v \div 4 ^ (i - 1)) % 4]
_i(b) == b2v(Reverse(b))
_b(v, n) == Reverse(v2b(v, n))
_x(a, b) == [i \in 1 .. Min({Len(a), Len(b)}) |-> bxor(a[i], b[i])]
bswap(v) == _i(v2b(v, BLOCK))
brev8(v) == b2v([i \in 1 .. BLOCK |-> LET c == v2b(v, BLOCK)[i] IN 2 * (c % 2) + (c \div 2)])

-----------------------------------------------------------------------------
\* Fields: x^8 + x^4 + x^3 + x + 1 for that of GHASH, and its reciprocal for that of POLYVAL.
GHASH_LOW == 27
_GHASH_POLY == 2 ^ W + GHASH_LOW
_POLYVAL_POLY == 433
RECURSIVE _clmul(_, _)
_clmul(a, b) == IF b = 0 THEN 0 ELSE bxor(IF b % 2 = 1 THEN a ELSE 0, _clmul(2 * a, b \div 2))
RECURSIVE Reduce(_, _, _)
Reduce(p, poly, i) == IF i < W THEN p ELSE Reduce(IF bit(p, i) = 1 THEN bxor(p, poly * 2 ^ (i - W)) ELSE p, poly, i - 1)
_polymod(p, poly) == Reduce(p, poly, 2 * W)
ghash_mul(a, b) == brev8(_polymod(_clmul(brev8(a), brev8(b)), _GHASH_POLY))
RECURSIVE Shifted(_, _)
Shifted(p, n) == IF n = 0 THEN p ELSE Shifted((IF p % 2 = 1 THEN bxor(p, _POLYVAL_POLY) ELSE p) \div 2, n - 1)
montmul(a, b) == Shifted(_polymod(_clmul(a, b), _POLYVAL_POLY), W)
RECURSIVE polyval(_, _, _)
polyval(auth_key, blocks, t) == IF blocks = <<>> THEN t ELSE polyval(auth_key, Tail(blocks), montmul(bxor(t, Head(blocks)), auth_key))

\* The multiplication by x of the masks of XTS, in the order of bits of SM4 or not, and its inverse.
SM4_LOW == 216
update_mask(v, sm4) ==
  LET B == v2b(v, BLOCK) IN
  IF ~sm4 THEN bxor((2 * v) % 2 ^ W, IF bit(v, W - 1) = 1 THEN GHASH_LOW ELSE 0)
  ELSE bxor(b2v([j \in 1 .. BLOCK |-> (IF j = 1 THEN 0 ELSE (B[j - 1] % 2) * 2) + (B[j] \div 2)]), IF B[BLOCK] % 2 = 1 THEN b2v(_b(SM4_LOW, BLOCK)) ELSE 0)
update_mask_inv(v, sm4) ==
  LET B == v2b(v, BLOCK)
      c == B[1] \div 2
      A == v2b(bxor(v, IF c = 1 THEN b2v(_b(SM4_LOW, BLOCK)) ELSE 0), BLOCK) IN
  IF ~sm4 THEN IF v % 2 = 1 THEN bxor(bxor(v, GHASH_LOW) \div 2, 2 ^ (W - 1)) ELSE v \div 2
  ELSE b2v([j \in 1 .. BLOCK |-> (A[j] % 2) * 2 + (IF j = BLOCK THEN c ELSE A[j + 1] \div 2)])
double(s) == LET v == bswap(s) IN bswap(bxor((2 * v) % 2 ^ W, IF bit(v, W - 1) = 1 THEN GHASH_LOW ELSE 0))

\* The same, of numbers whose greatest bit is the coefficient of x^0.
RECURSIVE Gmul(_, _, _)
Gmul(X, V, i) ==
  IF i < 0 THEN 0
  ELSE bxor(IF bit(X, i) = 1 THEN V ELSE 0, Gmul(X, bxor(V \div 2, IF V % 2 = 1 THEN SM4_LOW ELSE 0), i - 1))
gmul(X, Y) == Gmul(X, Y, W - 1)
_mulx_ghash(a) == bxor(a \div 2, IF a % 2 = 1 THEN SM4_LOW ELSE 0)
_dbl(b) == LET v == _i(b) IN _b(bxor(2 * v, IF v \div 2 ^ (W - 1) = 1 THEN GHASH_LOW ELSE 0), BLOCK)
\* The same of scc_core.py.
RECURSIVE Product(_, _, _)
Product(a, b, i) == IF i = W THEN 0 ELSE bxor(IF bit(b, i) = 1 THEN a * 2 ^ i ELSE 0, Product(a, b, i + 1))
_mul(a, b) == Reduce(Product(a, b, 0), _POLYVAL_POLY, 2 * W - 1)
_xinv(a) == IF a % 2 = 1 THEN bxor(a, _POLYVAL_POLY) \div 2 ELSE a \div 2
RECURSIVE XinvTimes(_, _)
XinvTimes(a, n) == IF n = 0 THEN a ELSE XinvTimes(_xinv(a), n - 1)

-----------------------------------------------------------------------------
\* A block cipher, any family of permutations of blocks.
Encrypted(k, b) == _b((77 * bxor(_i(b), b2v(k)) + 3 * _i(k) + 29) % 2 ^ W, BLOCK)
Decrypted(k, b) == _b(bxor((133 * (_i(b) - 3 * _i(k) - 29)) % 2 ^ W, b2v(k)), BLOCK)

_pad16(d) == d \o Zeros((-Len(d)) % BLOCK)
Blocks(d) == [i \in 1 .. Len(d) \div BLOCK |-> SubSeq(d, BLOCK * (i - 1) + 1, BLOCK * i)]
Length(d) == _b(BITS * Len(d), BLOCK \div 2)
RECURSIVE Ghash(_, _, _)
Ghash(h, bs, y) == IF bs = <<>> THEN _b(y, BLOCK) ELSE Ghash(h, Tail(bs), gmul(bxor(y, _i(Head(bs))), h))
ghash(H, data) == Ghash(_i(H), Blocks(data), 0)
\* What GHASH hashes of a message.
GCMInput(aad, c) == _pad16(aad) \o _pad16(c) \o Length(aad) \o Length(c)
gcm_j0(k, iv) ==
  IF Len(iv) = 3 THEN iv \o <<1>>
  ELSE ghash(Encrypted(k, Zeros(BLOCK)), _pad16(iv) \o Zeros(BLOCK \div 2) \o Length(iv))
\* The counter is the last byte alone: the rest of the block is never carried into.
_inc32(blk, n) == SubSeq(blk, 1, BLOCK - 1) \o <<(blk[BLOCK] + n) % 4>>
Indices(data) == 1 .. (Len(data) + BLOCK - 1) \div BLOCK
Stream(k, ctrs) == FlattenSeq([i \in DOMAIN ctrs |-> Encrypted(k, ctrs[i])])
gcm_core(k, j0, aad, data, decrypt) ==
  LET out == _x(data, Stream(k, [i \in Indices(data) |-> _inc32(j0, i)]))
      S == ghash(Encrypted(k, Zeros(BLOCK)), GCMInput(aad, IF decrypt THEN data ELSE out)) IN
  [out |-> out, tag |-> _x(Encrypted(k, j0), S)]

\* GCM-SIV; polyval by GHASH.
RECURSIVE Polyval(_, _, _)
Polyval(hh, bs, y) == IF bs = <<>> THEN Reverse(_b(y, BLOCK)) ELSE Polyval(hh, Tail(bs), gmul(bxor(y, _i(Reverse(Head(bs)))), hh))
\* Mutant: the key of GHASH is not multiplied by x.
SameKey(H, X) == Polyval(_i(Reverse(H)), Blocks(X), 0)
polyval_ref(H, X) == Polyval(_mulx_ghash(_i(Reverse(H))), Blocks(X), 0)
siv_keys(k, nonce) ==
  LET A(i) == SubSeq(Encrypted(k, <<i>> \o nonce), 1, BLOCK \div 2) IN [enc |-> A(2) \o A(3), auth |-> A(0) \o A(1)]
SIVInput(aad, pt) == _pad16(aad) \o _pad16(pt) \o Reverse(Length(aad)) \o Reverse(Length(pt))
TagInput(S, nonce) == [i \in 1 .. BLOCK |-> IF i < BLOCK THEN bxor(S[i], nonce[i]) ELSE S[i] % 2]
siv_tag(keys, nonce, aad, pt) == Encrypted(keys.enc, TagInput(polyval_ref(keys.auth, SIVInput(aad, pt)), nonce))
siv_ctr(keys, tag, data) ==
  _x(data, Stream(keys.enc, [i \in Indices(data) |-> <<(tag[1] + i - 1) % 4>> \o SubSeq(tag, 2, BLOCK - 1) \o <<2 + (tag[BLOCK] % 2)>>]))
siv_enc(k, nonce, aad, pt) ==
  LET keys == siv_keys(k, nonce)
      tag == siv_tag(keys, nonce, aad, pt) IN [out |-> siv_ctr(keys, tag, pt), tag |-> tag]
siv_dec(k, nonce, aad, ct, tag) ==
  LET keys == siv_keys(k, nonce)
      pt == siv_ctr(keys, tag, ct) IN [out |-> pt, tag |-> siv_tag(keys, nonce, aad, pt)]
\* The same of scc_core.py.
RECURSIVE ScPolyval(_, _, _)
ScPolyval(h, bs, s) == IF bs = <<>> THEN v2b(s, BLOCK) ELSE ScPolyval(h, Tail(bs), XinvTimes(_mul(bxor(s, b2v(Head(bs))), h), W))
scc_rfc_polyval(h, data) == ScPolyval(b2v(h), Blocks(data), 0)
scc_rfc_keys(k, nonce) ==
  LET out == FlattenSeq([i \in 1 .. 4 |-> SubSeq(Encrypted(k, <<i - 1>> \o nonce), 1, 2)]) IN
  [auth |-> SubSeq(out, 1, 4), enc |-> SubSeq(out, 5, 8)]
scc_rfc_seal(k, nonce, aad, pt) ==
  LET ks == scc_rfc_keys(k, nonce)
      tag == Encrypted(ks.enc, TagInput(scc_rfc_polyval(ks.auth, SIVInput(aad, pt)), nonce))
      c == SubSeq(tag, 1, BLOCK - 1) \o <<2 + (tag[BLOCK] % 2)>> IN
  [out |-> _x(pt, Stream(ks.enc, [i \in Indices(pt) |-> <<(c[1] + i - 1) % 4>> \o Tail(c)])), tag |-> tag]

\* OCB3: the offset of a nonce of n bits; a tag of taglen bits.
_ntz(n) == CHOOSE k \in 0 .. n : bit(n, k) = 1 /\ \A j \in 0 .. k - 1 : bit(n, j) = 0
RECURSIVE Ls(_, _)
Ls(k, i) == IF i < 0 THEN Encrypted(k, Zeros(BLOCK)) ELSE _dbl(Ls(k, i - 1))
Lstar(k) == Ls(k, -1)
Ldollar(k) == Ls(k, 0)
L_(k, i) == Ls(k, i + 1)
init_offset(k, nonce, n, taglen) ==
  LET Nb == (taglen % 8) * 32 + 2 ^ n + nonce
      Ktop == _i(Encrypted(k, _b(Nb - (Nb % 4), BLOCK)))
      Stretch == Ktop * 16 + (bxor(Ktop \div 16, Ktop \div 8) % 16) IN
  _b((Stretch \div 2 ^ (4 - (Nb % 4))) % 2 ^ W, BLOCK)
_pad(r) == r \o <<2>> \o Zeros(BLOCK - 1 - Len(r))
Rest(d) == SubSeq(d, BLOCK * (Len(d) \div BLOCK) + 1, Len(d))
RECURSIVE Offset(_, _, _)
Offset(k, off, i) == IF i = 0 THEN off ELSE _x(Offset(k, off, i - 1), L_(k, _ntz(i)))
RECURSIVE Xsum(_)
Xsum(bs) == IF bs = <<>> THEN Zeros(BLOCK) ELSE _x(Head(bs), Xsum(Tail(bs)))
hash(k, A) ==
  LET n == Len(A) \div BLOCK IN
  Xsum([i \in 1 .. n |-> Encrypted(k, _x(Blocks(A)[i], Offset(k, Zeros(BLOCK), i)))]
       \o IF Rest(A) = <<>> THEN <<>> ELSE <<Encrypted(k, _x(_pad(Rest(A)), _x(Offset(k, Zeros(BLOCK), n), Lstar(k))))>>)
crypt(k, nonce, nbits, A, data, decrypt, taglen) ==
  LET off == init_offset(k, nonce, nbits, taglen)
      n == Len(data) \div BLOCK
      at(i) == Offset(k, off, i)
      whole == [i \in 1 .. n |-> IF decrypt THEN _x(at(i), Decrypted(k, _x(Blocks(data)[i], at(i))))
                                 ELSE _x(at(i), Encrypted(k, _x(Blocks(data)[i], at(i))))]
      last == _x(at(n), Lstar(k))
      o == _x(Rest(data), Encrypted(k, last))
      partial == Rest(data) # <<>>
      cs == Xsum((IF decrypt THEN whole ELSE Blocks(data)) \o IF partial THEN <<_pad(IF decrypt THEN o ELSE Rest(data))>> ELSE <<>>) IN
  [out |-> FlattenSeq(whole) \o o,
   tag |-> SubSeq(_x(Encrypted(k, _x(_x(cs, IF partial THEN last ELSE at(n)), Ldollar(k))), hash(k, A)), 1, taglen \div BITS)]

\* CMAC: the blocks but the last, and the last with the subkey it is masked with.
CMACInput(msg) ==
  LET n == Max({1, (Len(msg) + BLOCK - 1) \div BLOCK})
      last == SubSeq(msg, BLOCK * (n - 1) + 1, Len(msg)) IN
  IF Len(last) = BLOCK THEN <<SubSeq(msg, 1, BLOCK * (n - 1)), last, "K1">> ELSE <<SubSeq(msg, 1, BLOCK * (n - 1)), _pad(last), "K2">>
RECURSIVE Chain(_, _, _)
Chain(k, C, bs) == IF bs = <<>> THEN C ELSE Chain(k, Encrypted(k, _x(C, Head(bs))), Tail(bs))
cmac(k, msg) ==
  LET L == Encrypted(k, Zeros(BLOCK))
      f == CMACInput(msg) IN
  Chain(k, Zeros(BLOCK), Blocks(f[1]) \o <<_x(f[2], IF f[3] = "K1" THEN _dbl(L) ELSE _dbl(_dbl(L)))>>)

-----------------------------------------------------------------------------
\* A message is sealed and opened; two elements are multiplied; two messages are compared.
Init ==
  \/ \E mode \in {"GCM", "GCM-SIV", "OCB"}, k \in Keys, iv \in Nonces, aad \in AADs, pt \in Texts :
       /\ mode = "GCM-SIV" => Len(iv) = 3
       /\ m = [alg |-> "aead", stage |-> "message", mode |-> mode, k |-> k, iv |-> iv, aad |-> aad, pt |-> pt]
  \/ \E a \in 0 .. MASK, b \in Factors : m = [alg |-> "field", stage |-> "elements", a |-> a, b |-> b]
  \/ \E a \in AADs \X Texts, b \in AADs \X Texts : a # b /\ m = [alg |-> "aead", stage |-> "two", a |-> a, b |-> b]
Bitnonce(iv) == _i(iv) % 2 ^ Len(iv)
Sealed ==
  CASE m.mode = "GCM" -> gcm_core(m.k, gcm_j0(m.k, m.iv), m.aad, m.pt, FALSE)
    [] m.mode = "GCM-SIV" -> siv_enc(m.k, m.iv, m.aad, m.pt)
    [] m.mode = "OCB" -> crypt(m.k, Bitnonce(m.iv), Len(m.iv), m.aad, m.pt, FALSE, 6)
Opened(ct, tag) ==
  CASE m.mode = "GCM" -> gcm_core(m.k, gcm_j0(m.k, m.iv), m.aad, ct, TRUE)
    [] m.mode = "GCM-SIV" -> siv_dec(m.k, m.iv, m.aad, ct, tag)
    [] m.mode = "OCB" -> crypt(m.k, Bitnonce(m.iv), Len(m.iv), m.aad, ct, TRUE, 6)
Seal == m.stage = "message" /\ m' = [alg |-> "aead", stage |-> "sealed", mode |-> m.mode, k |-> m.k, iv |-> m.iv,
                                     aad |-> m.aad, pt |-> m.pt, ct |-> Sealed]
Open == m.stage = "sealed" /\ m' = [alg |-> "aead", stage |-> "opened", mode |-> m.mode, pt |-> m.pt, ct |-> m.ct, back |-> Opened(m.ct.out, m.ct.tag)]
Next == Seal \/ Open

\* What was sealed is opened, with the tag it was sealed with; both ways to multiply a mask by x are undone.
RoundTrips ==
  /\ m.stage = "opened" => m.back = [out |-> m.pt, tag |-> m.ct.tag]
  /\ m.stage = "elements" => \A sm4 \in BOOLEAN : update_mask_inv(update_mask(m.a, sm4), sm4) = m.a /\ update_mask(update_mask_inv(m.a, sm4), sm4) = m.a
\* No two messages are hashed as one.
OneEncoding ==
  m.stage = "two" =>
    /\ GCMInput(m.a[1], m.a[2]) # GCMInput(m.b[1], m.b[2])
    /\ SIVInput(m.a[1], m.a[2]) # SIVInput(m.b[1], m.b[2])
    /\ m.a[2] # m.b[2] => CMACInput(m.a[2]) # CMACInput(m.b[2])
\* Two messages that differ in one block have two CMACs.
OnlyTheOriginal ==
  m.stage = "two" /\ Len(m.a[2]) = Len(m.b[2]) /\ m.a[1] = m.b[1]
    /\ Cardinality({i \in 0 .. (Len(m.a[2]) - 1) \div BLOCK : \E j \in 1 .. BLOCK : BLOCK * i + j <= Len(m.a[2]) /\ m.a[2][BLOCK * i + j] # m.b[2][BLOCK * i + j]}) = 1 =>
      \A k \in Keys : cmac(k, m.a[2]) # cmac(k, m.b[2])
\* The multiplications of the three files are those of the same fields, and their two GCM-SIVs are one.
ReferencesAgree ==
  /\ m.stage = "elements" =>
       /\ bswap(ghash_mul(m.a, m.b)) = gmul(bswap(m.a), bswap(m.b))
       /\ montmul(m.a, m.b) = XinvTimes(_mul(m.a, m.b), W)
       /\ v2b(polyval(m.b, <<m.a, m.b>>, 0), BLOCK) = polyval_ref(v2b(m.b, BLOCK), v2b(m.a, BLOCK) \o v2b(m.b, BLOCK))
       /\ scc_rfc_polyval(v2b(m.b, BLOCK), v2b(m.a, BLOCK)) = polyval_ref(v2b(m.b, BLOCK), v2b(m.a, BLOCK))
       /\ v2b(double(m.a), BLOCK) = _dbl(v2b(m.a, BLOCK))
       /\ double(m.a) = bswap(update_mask(bswap(m.a), FALSE))
       /\ update_mask(m.a, TRUE) = brev8(update_mask(brev8(m.a), FALSE))
  /\ m.stage = "sealed" /\ m.mode = "GCM-SIV" => m.ct = scc_rfc_seal(m.k, m.iv, m.aad, m.pt)
=============================================================================
