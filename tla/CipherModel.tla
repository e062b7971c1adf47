---------------------------- MODULE CipherModel -----------------------------
(***************************************************************************)
(* The block ciphers of common.py.  AES is of full size; SM4 and TDEA have *)
(* the structure of the source over small blocks, with the tables that a   *)
(* configuration gives: words of SM4 are numbers, those of DES sequences   *)
(* of bits, the first the most significant.                                *)
(***************************************************************************)
EXTENDS FiniteSetsExt, SequencesExt, Bytes

CONSTANTS SB, ISB,                          \* the S-box of AES and its inverse, _SB and _ISB of Bytes
          AESKeys, AESBlocks,               \* sequences of bytes
          SM4, SM4Keys, SM4Blocks,          \* SM4: a record of T and of the tables FK and CK
          DES, TDEAKeys, TDEABlocks         \* DES: a record of IP, E, P, PC1, PC2, SH and S

VARIABLE m

Bxor(a, b) == [i \in DOMAIN a |-> bxor(a[i], b[i])]
RECURSIVE Rc(_)
Rc(k) == IF k = 1 THEN 1 ELSE _gmul8(Rc(k - 1), 2)
\* The words of the key schedule after those of w, of a key of nk words.
RECURSIVE Expand(_, _)
Expand(w, nk) ==
  LET i == Len(w)
      sub(t) == [c \in 1 .. 4 |-> SB[t[c]]]
      t == w[i]
      g == CASE i % nk = 0 -> [sub(Tail(t) \o <<t[1]>>) EXCEPT ![1] = bxor(@, Rc(i \div nk))]
             [] i % nk = 4 /\ nk > 6 -> sub(t)
             [] OTHER -> t IN
  IF i = 4 * (nk + 7) THEN w ELSE Expand(Append(w, Bxor(w[i - nk + 1], g)), nk)
_aes_ks(nk, key) ==
  LET w == Expand([i \in 1 .. nk |-> SubSeq(key, 4 * i - 3, 4 * i)], nk) IN
  [r \in 0 .. nk + 6 |-> FlattenSeq(SubSeq(w, 4 * r + 1, 4 * r + 4))]

\* The state is four columns of four bytes; the matrix of MixColumns is circulant.
MixColumns(s, row) ==
  LET column(c) == [r \in 1 .. 4 |-> XorAll([k \in 1 .. 4 |-> _gmul8(s[4 * c + k], row[((k - r) % 4) + 1])], 4)] IN
  column(0) \o column(1) \o column(2) \o column(3)
ShiftRows(s, d) == [i \in 1 .. 16 |-> LET r == (i - 1) % 4 IN s[r + 4 * ((((i - 1) \div 4) + d * r) % 4) + 1]]
RECURSIVE Encrypting(_, _, _, _)
Encrypting(s, rk, r, nr) ==
  LET u == ShiftRows([i \in 1 .. 16 |-> SB[s[i]]], 1) IN
  IF r = nr THEN Bxor(u, rk[r]) ELSE Encrypting(Bxor(MixColumns(u, <<2, 3, 1, 1>>), rk[r]), rk, r + 1, nr)
aes_enc(key, blk) == LET rk == _aes_ks(Len(key) \div 4, key) IN Encrypting(Bxor(blk, rk[0]), rk, 1, (Len(key) \div 4) + 6)
RECURSIVE Decrypting(_, _, _)
Decrypting(s, rk, r) ==
  LET u == ShiftRows(s, -1)
      v == Bxor([i \in 1 .. 16 |-> ISB[u[i]]], rk[r]) IN
  IF r = 0 THEN v ELSE Decrypting(MixColumns(v, <<14, 11, 13, 9>>), rk, r - 1)
aes_dec(key, blk) ==
  LET rk == _aes_ks(Len(key) \div 4, key)
      nr == (Len(key) \div 4) + 6 IN Decrypting(Bxor(blk, rk[nr]), rk, nr - 1)

-----------------------------------------------------------------------------
\* A key or a block of SM4 is four words; a round makes one more from the last four and its key.
RECURSIVE Feistel(_, _, _)
Feistel(x, T, k) ==
  LET i == Len(x) - 3 IN
  IF i > Len(k) THEN x ELSE Feistel(Append(x, bxor(x[i], T[XorAll(<<x[i + 1], x[i + 2], x[i + 3], k[i]>>, 4)])), T, k)
_sm4_rk(key) == SubSeq(Feistel([i \in 1 .. 4 |-> bxor(key[i], SM4.FK[i])], SM4.T[TRUE], SM4.CK), 5, Len(SM4.CK) + 4)
_sm4(key, blk, dec) ==
  LET rk == IF dec THEN Reverse(_sm4_rk(key)) ELSE _sm4_rk(key)
      x == Feistel(blk, SM4.T[FALSE], rk) IN
  Reverse(SubSeq(x, Len(rk) + 1, Len(rk) + 4))

_perm(x, tbl) == [i \in 1 .. Len(tbl) |-> x[tbl[i]]]
_FP == [i \in 1 .. Len(DES.IP) |-> CHOOSE j \in 1 .. Len(DES.IP) : DES.IP[j] = i]
Bits(x, y) == [i \in 1 .. Len(x) |-> (x[i] + y[i]) % 2]
Rol(x, s) == [i \in 1 .. Len(x) |-> x[((i + s - 1) % Len(x)) + 1]]
Half(x) == Len(x) \div 2
_des_ks(key) ==
  LET k == _perm(key, DES.PC1)
      c == SubSeq(k, 1, Half(k))
      d == SubSeq(k, Half(k) + 1, Len(k))
      turned(i) == MapThenSumSet(LAMBDA j : DES.SH[j], 1 .. i) IN
  [i \in 1 .. Len(DES.SH) |-> _perm(Rol(c, turned(i)) \o Rol(d, turned(i)), DES.PC2)]
\* Box i takes the bits of e from (i - 1) * w, the outer two of which name a row.
f_des(r, k) ==
  LET e == Bits(_perm(r, DES.E), k)
      w == Len(e) \div Len(DES.S)
      box(i) == LET v == SubSeq(e, (i - 1) * w + 1, i * w) IN DES.S[i][<<v[1], v[w]>>][SubSeq(v, 2, w - 1)] IN
  _perm(FlattenSeq([i \in 1 .. Len(DES.S) |-> box(i)]), DES.P)
RECURSIVE Halves(_, _, _)
Halves(l, r, ks) == IF ks = <<>> THEN r \o l ELSE Halves(r, Bits(l, f_des(r, Head(ks))), Tail(ks))
_des(key, blk, dec) ==
  LET ks == IF dec THEN Reverse(_des_ks(key)) ELSE _des_ks(key)
      x == _perm(blk, DES.IP) IN
  _perm(Halves(SubSeq(x, 1, Half(x)), SubSeq(x, Half(x) + 1, Len(x)), ks), _FP)
tdea_enc(K, blk) == _des(K[3], _des(K[2], _des(K[1], blk, FALSE), TRUE), FALSE)
tdea_dec(K, blk) == _des(K[1], _des(K[2], _des(K[3], blk, TRUE), FALSE), TRUE)

cipher_enc(name, key, blk) ==
  CASE name = "AES" -> aes_enc(key, blk) [] name = "SM4" -> _sm4(key, blk, FALSE) [] name = "TDEA" -> tdea_enc(key, blk)
cipher_dec(name, key, blk) ==
  CASE name = "AES" -> aes_dec(key, blk) [] name = "SM4" -> _sm4(key, blk, TRUE) [] name = "TDEA" -> tdea_dec(key, blk)

-----------------------------------------------------------------------------
\* A block is enciphered and deciphered, in either order.
Init ==
  \E name \in {"AES", "SM4", "TDEA"}, inverse \in BOOLEAN :
    \E key \in CASE name = "AES" -> AESKeys [] name = "SM4" -> SM4Keys [] name = "TDEA" -> TDEAKeys,
       x \in CASE name = "AES" -> AESBlocks [] name = "SM4" -> SM4Blocks [] name = "TDEA" -> TDEABlocks :
      m = [alg |-> "cipher", stage |-> "block", name |-> name, key |-> key, inverse |-> inverse, x |-> x, y |-> x]
There ==
  /\ m.stage = "block"
  /\ m' = [m EXCEPT !.stage = "there", !.y = IF m.inverse THEN cipher_dec(m.name, m.key, @) ELSE cipher_enc(m.name, m.key, @)]
Back ==
  /\ m.stage = "there"
  /\ m' = [m EXCEPT !.stage = "back", !.y = IF m.inverse THEN cipher_enc(m.name, m.key, @) ELSE cipher_dec(m.name, m.key, @)]
Next == There \/ Back

\* A block comes back from its ciphertext, and the ciphertext from the block.
RoundTrips == m.stage = "back" => m.y = m.x
=============================================================================
