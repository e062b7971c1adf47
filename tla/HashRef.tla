------------------------------ MODULE HashRef -------------------------------
(***************************************************************************)
(* The references of hash_ref.py and sponge_ref.py: Keccak-f[1600] of each *)
(* file and the compressions of SHA-2, SM3 and BLAKE2, round by round; the *)
(* two sponges, over a small permutation; and what each hash makes of its  *)
(* message before anything is permuted or compressed.  A lane or word is   *)
(* the set of its bits that are 1; a message is a sequence of bits, or of  *)
(* bytes of 2 bits where the source has 8.                                 *)
(***************************************************************************)
EXTENDS Integers, FiniteSetsExt, SequencesExt

CONSTANTS Seeds,                \* bound: of the states that Keccak-f is tried with
          Messages,             \* sequences of bits
          Strings,              \* sequences of bytes
          Blocks,               \* sequences of 4 bits
          Outputs,              \* numbers of bits
          Lengths,              \* numbers of bits of what SHA-2 and SM3 hash
          Rates

VARIABLE m

Zeros(n) == [i \in 1 .. n |-> 0]
xor(a, b) == (a \ b) \cup (b \ a)
rl(v, n) == {(i + n) % 64 : i \in v}
Idx == 0 .. 4

\* hash_ref.py: A[x, y]
_ROT == <<<<0, 36, 3, 41, 18>>, <<1, 44, 10, 45, 2>>, <<62, 6, 43, 15, 61>>, <<28, 55, 25, 21, 56>>, <<27, 20, 39, 8, 14>>>>
bit(v, i) == (v \div 2 ^ i) % 2
Poly == {0, 4, 5, 6, 8}                                                   \* 0x171
Shift(r) == LET u == {i + 1 : i \in r} IN IF 7 \in r THEN xor(u, Poly) ELSE u
RECURSIVE Clock(_)
Clock(t) == IF t = 0 THEN {0} ELSE Shift(Clock(t - 1))
_rc(rnd) == {2 ^ j - 1 : j \in {j \in 0 .. 6 : 0 \in Clock(7 * rnd + j)}}
keccak_round(A, rnd) ==
  LET C(x) == xor(xor(xor(A[x, 0], A[x, 1]), xor(A[x, 2], A[x, 3])), A[x, 4])
      D(x) == xor(C((x - 1) % 5), rl(C((x + 1) % 5), 1))
      T == [x, y \in Idx |-> xor(A[x, y], D(x))]
      \* B[y, 2x + 3y] is the lane x, y
      from(u, v) == CHOOSE x \in Idx : (2 * x + 3 * u) % 5 = v
      B == [u, v \in Idx |-> rl(T[from(u, v), u], _ROT[from(u, v) + 1][u + 1])]
      chi(x, y) == xor(B[x, y], B[(x + 2) % 5, y] \ B[(x + 1) % 5, y]) IN
  [x, y \in Idx |-> IF x = 0 /\ y = 0 THEN xor(chi(0, 0), _rc(rnd)) ELSE chi(x, y)]

\* sponge_ref.py: A[5y + x]
RECURSIVE Walk(_, _)
Walk(t, xy) == IF t = 0 THEN xy ELSE Walk(t - 1, <<xy[2], (2 * xy[1] + 3 * xy[2]) % 5>>)
Offset(x, y) == IF x = 0 /\ y = 0 THEN 0 ELSE LET t == CHOOSE t \in 0 .. 23 : Walk(t, <<1, 0>>) = <<x, y>> IN (((t + 1) * (t + 2)) \div 2) % 64
RECURSIVE Reg(_)
Reg(t) == IF t = 0 THEN {0} ELSE LET R == {i + 1 : i \in Reg(t - 1)} IN IF 8 \in R THEN xor(R, Poly) ELSE R
_rc_bit(t) == IF 0 \in Reg(t % 255) THEN 1 ELSE 0
RCs == [i \in 0 .. 23 |-> {2 ^ j - 1 : j \in {j \in 0 .. 6 : _rc_bit(7 * i + j) = 1}}]
keccak_f_round(A, i) ==
  LET C == [x \in Idx |-> xor(xor(xor(A[x], A[x + 5]), xor(A[x + 10], A[x + 15])), A[x + 20])]
      D == [x \in Idx |-> xor(C[(x - 1) % 5], rl(C[(x + 1) % 5], 1))]
      T == [k \in 0 .. 24 |-> xor(A[k], D[k % 5])]
      source(k) == CHOOSE xy \in Idx \X Idx : 5 * ((2 * xy[1] + 3 * xy[2]) % 5) + xy[2] = k
      B == [k \in 0 .. 24 |-> LET xy == source(k) IN rl(T[5 * xy[2] + xy[1]], Offset(xy[1], xy[2]))]
      chi(k) == LET x == k % 5
                    y == k \div 5 IN xor(B[k], B[5 * y + ((x + 2) % 5)] \ B[5 * y + ((x + 1) % 5)]) IN
  [k \in 0 .. 24 |-> IF k = 0 THEN xor(chi(0), RCs[i]) ELSE chi(k)]

-----------------------------------------------------------------------------
\* The suffix of each function, and the padding of each file.
SHA3_SUFFIX == [SHA3 |-> <<0, 1>>, SHAKE |-> <<1, 1, 1, 1>>, CSHAKE |-> <<0, 0>>]
SHA3D == [SHA3 |-> <<2, 2>>, SHAKE |-> <<15, 4>>]
_pad101(rate, suffix, nb) == suffix \o <<1>> \o Zeros((-(nb + Len(suffix) + 2)) % rate) \o <<1>>
RECURSIVE Filled(_, _)
Filled(M, r) == IF (Len(M) + 1) % r = 0 THEN M \o <<1>> ELSE Filled(Append(M, 0), r)
sha3_pad(kind, msg, r) == Filled(msg \o [i \in 1 .. SHA3D[kind][2] |-> bit(SHA3D[kind][1], i - 1)] \o <<1>>, r)

\* A permutation of states of 6 bits.
P(s) == [i \in 1 .. 6 |-> (s[(i % 6) + 1] + s[((i + 1) % 6) + 1] * s[((i + 2) % 6) + 1] + (i % 2)) % 2]
Into(s, block) == [i \in 1 .. 6 |-> IF i <= Len(block) THEN (s[i] + block[i]) % 2 ELSE s[i]]
RECURSIVE Absorb(_, _, _)
Absorb(s, bits, rate) == IF bits = <<>> THEN s ELSE Absorb(P(Into(s, SubSeq(bits, 1, rate))), SubSeq(bits, rate + 1, Len(bits)), rate)
RECURSIVE Squeeze(_, _, _, _)
Squeeze(s, out, rate, outbits) ==
  LET more == out \o SubSeq(s, 1, rate) IN
  IF Len(more) >= outbits THEN SubSeq(more, 1, outbits) ELSE Squeeze(P(s), more, rate, outbits)
ref_sponge(msg, rate, padding, outbits) == Squeeze(Absorb(Zeros(6), msg \o padding, rate), <<>>, rate, outbits)
ref_keccak(msg, rate, kind, outbits) == ref_sponge(msg, rate, _pad101(rate, SHA3_SUFFIX[kind], Len(msg)), outbits)
\* The loop of sha3_bits, which permutes again only when bits are missing.
RECURSIVE Outputting(_, _, _, _)
Outputting(S, out, r, outbits) ==
  IF Len(out) >= outbits THEN SubSeq(out, 1, outbits)
  ELSE LET more == out \o SubSeq(S, 1, r) IN Outputting(IF Len(more) < outbits THEN P(S) ELSE S, more, r, outbits)
sha3_bits(kind, msg, r, outbits) == Outputting(Absorb(Zeros(6), sha3_pad(kind, msg, r), r), <<>>, r, outbits)

\* Merkle-Damgaard strengthening, with a length of lw bits; Ascon's padding; the length and padding of a CXOF's Z.
Binary(n, w) == [i \in 1 .. w |-> bit(n, w - i)]
_md_pad_bits(msg, b, lw) == msg \o <<1>> \o Zeros((-(Len(msg) + 1 + lw)) % b) \o Binary(Len(msg), lw)
ascon_pad(n, w) == <<1>> \o Zeros((-(n + 1)) % w)
ascon_cxof_input(msg, Z, w) == Reverse(Binary(Len(Z), w)) \o Z \o ascon_pad(Len(Z), w) \o msg \o ascon_pad(Len(msg), w)

\* The encodings of SP 800-185: numbers are of digits of base 4.
RECURSIVE Digits(_)
Digits(x) == IF x < 4 THEN <<x>> ELSE Append(Digits(x \div 4), x % 4)
left_encode(x) == <<Len(Digits(x))>> \o Digits(x)
right_encode(x) == Append(Digits(x), Len(Digits(x)))
encode_string(s) == left_encode(2 * Len(s)) \o s
bytepad(x, w) == LET z == left_encode(w) \o x IN z \o Zeros((-Len(z)) % w)
KMAC == <<3, 1>>
ref_kmac_input(rate, K, X, L, S) ==
  bytepad(encode_string(KMAC) \o encode_string(S), rate) \o bytepad(encode_string(K), rate) \o X \o right_encode(L)

\* What BLAKE2 compresses: the parameters, and the blocks with the counter and whether they are the last.
blake2_input(bb, msg, key, nn) ==
  LET data == (IF key # <<>> THEN key \o Zeros(bb - Len(key)) ELSE <<>>) \o msg
      n == Max({1, (Len(data) + bb - 1) \div bb})
      block(i) == SubSeq(data, bb * (i - 1) + 1, Min({bb * i, Len(data)})) IN
  [h0 |-> <<Len(key), nn>>,
   blocks |-> [i \in 1 .. n |-> [b |-> block(i) \o Zeros(bb - Len(block(i))), counter |-> Min({bb * i, Len(data)}), last |-> i = n]]]

\* The compressions of SHA-2, SM3 and BLAKE2, round by round.  A word has 16 bits, where the source has 32
\* or 64: the rotations of SHA-2 and SM3 are taken modulo 16 and those of BLAKE2 in proportion, the
\* constants keep their first two bytes, and there are Rounds[f] rounds.
Word(n) == {i \in 0 .. 15 : bit(n, i) = 1}
Num(v) == MapThenSumSet(LAMBDA i : 2 ^ i, v)
Plus(ws) == Word(FoldSeq(LAMBDA v, n : n + Num(v), 0, ws))
Minus(v, ws) == Word(8 * 65536 + Num(v) - Num(Plus(ws)))
_rotr(v, n) == {(i - n) % 16 : i \in v}
_rl(v, n) == {(i + n) % 16 : i \in v}
_shr(v, n) == {i - n : i \in {j \in v : j >= n}}
Rotated(v, a, b, c) == xor(xor(_rotr(v, a), _rotr(v, b)), _rotr(v, c))
Maj(a, b, c) == xor(xor(a \cap b, a \cap c), b \cap c)
Ch(e, f, g) == xor(e \cap f, g \ e)

Rounds == [sha2 |-> 20, sm3 |-> 20, blake2 |-> 2]
K256 == <<17034, 28983, 46528, 59829, 14678, 23025, 37439, 43804, 55303, 4739, 9265, 21772, 29374, 32990, 39900, 49563, 58523, 61374, 4033, 9228>>
IV == [sha2 |-> <<27145, 47975, 15470, 42319, 20750, 39685, 8067, 23520>>, sm3 |-> <<29568, 18708, 5924, 55946, 43375, 5681, 58253, 45307>>,
       blake2 |-> <<27145, 47975, 15470, 42319, 20750, 39685, 8067, 23520>>]
RECURSIVE Schedule(_, _, _)
Schedule(f, W, n) ==
  IF Len(W) = n THEN W
  ELSE LET w(k) == W[Len(W) + 1 - k]
           g0 == xor(xor(_rotr(w(15), 7), _rotr(w(15), 18)), _shr(w(15), 3))
           g1 == xor(xor(_rotr(w(2), 17), _rotr(w(2), 19)), _shr(w(2), 10))
           p == xor(xor(w(16), w(9)), _rl(w(3), 15))
           P1 == xor(xor(p, _rl(p, 15)), _rl(p, 23)) IN
       Schedule(f, Append(W, IF f = "sha2" THEN Plus(<<g1, w(7), g0, w(16)>>) ELSE xor(xor(P1, _rl(w(13), 7)), w(6))), n)
sha2_compress(V, W, t) ==
  LET T1 == Plus(<<V[8], Rotated(V[5], 6, 11, 25), Ch(V[5], V[6], V[7]), Word(K256[t + 1]), W[t + 1]>>)
      T2 == Plus(<<Rotated(V[1], 2, 13, 22), Maj(V[1], V[2], V[3])>>) IN
  <<Plus(<<T1, T2>>), V[1], V[2], V[3], Plus(<<V[4], T1>>), V[5], V[6], V[7]>>
SM3_SS1(A, E, t) == _rl(Plus(<<_rl(A, 12), E, _rl(Word(IF t < 16 THEN 31180 ELSE 31367), t)>>), 7)
SM3_FF(A, B, C, t) == IF t < 16 THEN xor(xor(A, B), C) ELSE Maj(A, B, C)
SM3_GG(E, F, G, t) == IF t < 16 THEN xor(xor(E, F), G) ELSE Ch(E, F, G)
P0(v) == xor(xor(v, _rl(v, 9)), _rl(v, 17))
sm3_compress(V, W, t) ==
  LET SS1 == SM3_SS1(V[1], V[5], t)
      TT1 == Plus(<<SM3_FF(V[1], V[2], V[3], t), V[4], xor(SS1, _rl(V[1], 12)), xor(W[t + 1], W[t + 5])>>)
      TT2 == Plus(<<SM3_GG(V[5], V[6], V[7], t), V[8], SS1, W[t + 1]>>) IN
  <<TT1, V[1], _rl(V[2], 9), V[3], P0(TT2), V[5], _rl(V[6], 19), V[7]>>
\* One round of BLAKE2 is eight calls of G.
_SIGMA == <<<<0, 1, 2, 3, 4, 5, 6, 7, 8, 9, 10, 11, 12, 13, 14, 15>>, <<14, 10, 4, 8, 9, 15, 13, 6, 1, 12, 0, 2, 11, 7, 5, 3>>>>
Quarter(t) == LET k == t % 4 IN
  IF t % 8 < 4 THEN <<k + 1, k + 5, k + 9, k + 13>> ELSE <<k + 1, ((k + 1) % 4) + 5, ((k + 2) % 4) + 9, ((k + 3) % 4) + 13>>
ROT == <<8, 6, 4, 15>>
Mixed(v, q, x, r) ==
  LET a == Plus(<<v[q[1]], v[q[2]], x>>)
      d == _rotr(xor(v[q[4]], a), ROT[r])
      c == Plus(<<v[q[3]], d>>) IN
  [v EXCEPT ![q[1]] = a, ![q[4]] = d, ![q[3]] = c, ![q[2]] = _rotr(xor(@, c), ROT[r + 1])]
Of(W, t, j) == W[_SIGMA[(t \div 8) + 1][2 * (t % 8) + j] + 1]
blake2_F(v, W, t) == Mixed(Mixed(v, Quarter(t), Of(W, t, 1), 1), Quarter(t), Of(W, t, 2), 3)
Begun(f, H, b) ==
  IF f # "blake2" THEN H
  ELSE LET last == IF b.last THEN 0 .. 15 ELSE {}
           v == H \o [i \in 1 .. 8 |-> Word(IV[f][i])] IN [v EXCEPT ![13] = xor(@, Word(b.counter)), ![15] = xor(@, last)]
Step(f, V, W, t) == CASE f = "sha2" -> sha2_compress(V, W, t) [] f = "sm3" -> sm3_compress(V, W, t) [] f = "blake2" -> blake2_F(V, W, t)
Ended(f, H, V) ==
  [i \in 1 .. 8 |-> CASE f = "sha2" -> Plus(<<H[i], V[i]>>) [] f = "sm3" -> xor(H[i], V[i]) [] f = "blake2" -> xor(xor(H[i], V[i]), V[i + 8])]
Steps(f) == Rounds[f] * (IF f = "blake2" THEN 8 ELSE 1)

\* The blocks of a message, as words; 16 bits of padding hold its length.
_words(bits) == [i \in 1 .. 16 |-> {j \in 0 .. 15 : bits[16 * i - j] = 1}]
_chain(f, msg) ==
  LET data == _md_pad_bits(msg, 256, 16) IN
  [i \in 1 .. Len(data) \div 256 |-> [W |-> Schedule(f, _words(SubSeq(data, 256 * i - 255, 256 * i)), Rounds[f] + (IF f = "sm3" THEN 4 ELSE 0))]]
Keyed(key, nn) == LET h == [i \in 1 .. 8 |-> Word(IV.blake2[i])] IN [h EXCEPT ![1] = xor(@, Word(16 * Len(key) + nn))]
Compressing(f, H, blocks, n) ==
  [alg |-> "hash", stage |-> "compress", f |-> f, blocks |-> blocks, n |-> n, H |-> H, V |-> Begun(f, H, Head(blocks)), t |-> 0, was |-> <<>>]

\* What a round did undone: what it was given is all there.
Back(v, q, x, r) ==
  LET b == xor(_rotr(v[q[2]], -ROT[r + 1]), v[q[3]])
      d == xor(_rotr(v[q[4]], -ROT[r]), v[q[1]]) IN
  [v EXCEPT ![q[1]] = Minus(@, <<b, x>>), ![q[2]] = b, ![q[3]] = Minus(@, <<v[q[4]]>>), ![q[4]] = d]
Undone(f, V, W, t) ==
  IF f = "sha2" THEN
    LET T1 == Minus(V[1], <<Rotated(V[2], 2, 13, 22), Maj(V[2], V[3], V[4])>>) IN
    <<V[2], V[3], V[4], Minus(V[5], <<T1>>), V[6], V[7], V[8],
      Minus(T1, <<Rotated(V[6], 6, 11, 25), Ch(V[6], V[7], V[8]), Word(K256[t + 1]), W[t + 1]>>)>>
  ELSE IF f = "sm3" THEN
    LET B == _rl(V[3], -9)
        F == _rl(V[7], -19)
        SS1 == SM3_SS1(V[2], V[6], t)
        TT2 == FoldSeq(LAMBDA i, v : P0(v), V[5], Zeros(15)) IN                \* P0 sixteen times is nothing
    <<V[2], B, V[4], Minus(V[1], <<SM3_FF(V[2], B, V[4], t), xor(SS1, _rl(V[2], 12)), xor(W[t + 1], W[t + 5])>>),
      V[6], F, V[8], Minus(TT2, <<SM3_GG(V[6], F, V[8], t), SS1, W[t + 1]>>)>>
  ELSE Back(Back(V, Quarter(t), Of(W, t, 2), 3), Quarter(t), Of(W, t, 1), 1)

\* Ascon-AEAD128 over an ideal permutation, with words of 2 bits: a state is what was permuted before (h), and
\* what has been added since (x).  A bit of the state is given by its place, by h and by what was added to it.
P12(s) == [h |-> Append(s.h, <<s.x, 12>>), x |-> Zeros(10)]
P8(s) == [h |-> Append(s.h, <<s.x, 8>>), x |-> Zeros(10)]
Add(s, at, bits) == [s EXCEPT !.x = [i \in 1 .. 10 |-> IF i - at \in DOMAIN bits THEN (@[i] + bits[i - at]) % 2 ELSE @[i]]]
\* Mutant: associated data and text are not told apart.
Unseparated(s) == s
Separated(s) == Add(s, 9, <<1>>)
RECURSIVE Associated(_, _)
Associated(s, bits) == IF bits = <<>> THEN s ELSE Associated(P8(Add(s, 0, SubSeq(bits, 1, 4))), SubSeq(bits, 5, Len(bits)))
RECURSIVE Encrypted(_, _, _)
Encrypted(s, bits, ct) ==
  LET t == Add(s, 0, SubSeq(bits, 1, 4))
      out == ct \o [i \in 1 .. 4 |-> <<t.h, t.x[i]>>] IN
  IF Len(bits) = 4 THEN [s |-> t, ct |-> out] ELSE Encrypted(P8(t), SubSeq(bits, 5, Len(bits)), out)
ref_ascon_aead(K, nonce, ad, pt) ==
  LET start == Add(P12(Add([h |-> <<>>, x |-> Zeros(10)], 0, <<1, 0>> \o K \o nonce)), 6, K)
      s == Separated(IF ad = <<>> THEN start ELSE Associated(start, ad \o ascon_pad(Len(ad), 4)))
      e == Encrypted(s, pt \o ascon_pad(Len(pt), 4), <<>>)
      final == Add(P12(Add(e.s, 4, K)), 6, K) IN
  [ct |-> SubSeq(e.ct, 1, Len(pt)), tag |-> [i \in 1 .. 4 |-> <<final.h, final.x[i + 6]>>]]

-----------------------------------------------------------------------------
\* Keccak-f of both files goes on in step; a message is hashed by both; two inputs are compared.
Lane(seed, k) == {b \in 0 .. 63 : ((b + 3 * k + seed) * (b + k * seed + 1)) % 5 = 0}
Init ==
  \/ \E seed \in Seeds :
       m = [alg |-> "keccak", rnd |-> 0, A |-> [x, y \in Idx |-> Lane(seed, x + 5 * y)], S |-> [k \in 0 .. 24 |-> Lane(seed, k)]]
  \/ \E kind \in DOMAIN SHA3D, msg \in Messages, rate \in Rates, n \in Outputs :
       m = [alg |-> "hash", stage |-> "message", kind |-> kind, msg |-> msg, rate |-> rate, n |-> n, out |-> <<>>]
  \/ \E a, z \in Messages : m = [alg |-> "hash", stage |-> "bits", a |-> a, z |-> z]
  \/ \E k, x, s \in Strings, n \in Outputs : m = [alg |-> "hash", stage |-> "bytes", k |-> k, x |-> x, s |-> s, n |-> n]
  \/ \E k, nonce \in Blocks, ad, pt \in Messages : m = [alg |-> "hash", stage |-> "sealed", k |-> k, nonce |-> nonce, ad |-> ad, pt |-> pt]
  \/ \E f \in {"sha2", "sm3"}, n \in Lengths :
       m = Compressing(f, [i \in 1 .. 8 |-> Word(IV[f][i])], _chain(f, [i \in 1 .. n |-> ((i * i) \div 3) % 2]), IF f = "sha2" THEN 7 ELSE 8)
  \/ \E key, msg \in Strings, nn \in {n \in Outputs : n <= 8} :
       LET blocks == blake2_input(16, msg, key, nn).blocks IN
       m = Compressing("blake2", Keyed(key, nn), [i \in DOMAIN blocks |-> [W |-> [j \in 1 .. 16 |-> Word(blocks[i].b[j])],
                         counter |-> blocks[i].counter, last |-> blocks[i].last]], nn)
Round ==
  /\ m.alg = "keccak" /\ m.rnd < 24
  /\ m' = [m EXCEPT !.rnd = @ + 1, !.A = keccak_round(@, m.rnd), !.S = keccak_f_round(@, m.rnd)]
Hash ==
  /\ m.alg = "hash" /\ m.stage = "message"
  /\ m' = [m EXCEPT !.stage = "hashed", !.out = sha3_bits(m.kind, m.msg, m.rate, m.n)]
Compress ==
  /\ m.alg = "hash" /\ m.stage = "compress" /\ m.t < Steps(m.f)
  /\ m' = [m EXCEPT !.V = Step(m.f, @, Head(m.blocks).W, m.t), !.t = @ + 1, !.was = m.V]
\* The next block, or the digest: the first words of the last state.
Chain ==
  /\ m.alg = "hash" /\ m.stage = "compress" /\ m.t = Steps(m.f)
  /\ LET H == Ended(m.f, m.H, m.V) IN
     m' = IF Len(m.blocks) = 1 THEN [alg |-> "hash", stage |-> "digest", out |-> SubSeq(H, 1, m.n)] ELSE Compressing(m.f, H, Tail(m.blocks), m.n)
Next == Round \/ Hash \/ Compress \/ Chain

\* The two files have the same permutation, at each of its rounds, and hash every message to the same bits.
ReferencesAgree ==
  /\ m.alg = "keccak" => \A x, y \in Idx : m.A[x, y] = m.S[5 * y + x]
  /\ m.alg = "hash" /\ m.stage = "hashed" => m.out = ref_keccak(m.msg, m.rate, m.kind, m.n) /\ Len(m.out) = m.n
\* No two messages, functions, customizations or keys make one input, and no two texts, associated data,
\* nonces or keys one tag; no two states of a compression are one after a round.
OneEncoding ==
  /\ m.alg = "hash" /\ m.stage = "compress" /\ m.t > 0 => Undone(m.f, m.V, Head(m.blocks).W, m.t - 1) = m.was
  /\ m.alg = "hash" /\ m.stage = "bits" =>
       \A b \in Messages :
         /\ \A r \in Rates, f, g \in DOMAIN SHA3_SUFFIX : f # g \/ m.a # b =>
              m.a \o _pad101(r, SHA3_SUFFIX[f], Len(m.a)) # b \o _pad101(r, SHA3_SUFFIX[g], Len(b))
         /\ m.a # b => _md_pad_bits(m.a, 8, 4) # _md_pad_bits(b, 8, 4) /\ m.a \o ascon_pad(Len(m.a), 4) # b \o ascon_pad(Len(b), 4)
         /\ \A z \in Messages : <<m.a, m.z>> # <<b, z>> => ascon_cxof_input(m.a, m.z, 4) # ascon_cxof_input(b, z, 4)
  /\ m.alg = "hash" /\ m.stage = "bytes" =>
       \A k, x, s \in Strings, n \in Outputs : <<k, x, s, n>> # <<m.k, m.x, m.s, m.n>> =>
         /\ ref_kmac_input(4, m.k, m.x, m.n, m.s) # ref_kmac_input(4, k, x, n, s)
         /\ <<k, x, n>> # <<m.k, m.x, m.n>> => blake2_input(4, m.x, m.k, m.n) # blake2_input(4, x, k, n)
  /\ m.alg = "hash" /\ m.stage = "sealed" =>
       LET sealed == ref_ascon_aead(m.k, m.nonce, m.ad, m.pt) IN
         /\ \A ad, pt \in Messages : LET other == ref_ascon_aead(m.k, m.nonce, ad, pt) IN
              <<ad, pt>> # <<m.ad, m.pt>> => other.tag # sealed.tag /\ (pt # m.pt => other.ct # sealed.ct)
         /\ \A k, nonce \in Blocks : <<k, nonce>> # <<m.k, m.nonce>> => ref_ascon_aead(k, nonce, m.ad, m.pt).tag # sealed.tag
=============================================================================
