----------------------------- MODULE MLKEMModel -----------------------------
(***************************************************************************)
(* ML-KEM of mlkem_model.py over a small ring.  What an XOF or PRF gives   *)
(* is any value that the sampler can return, and a digest is what was      *)
(* hashed: the shared secret of a message, or that of a ciphertext refused *)
(* in silence.  A byte string is the set of the bits that are set in it.   *)
(***************************************************************************)
EXTENDS Integers, Functions

CONSTANTS N, Q, ROOT, BITS,             \* of the ring: 256, 3329, 17, and the 12 bits of a coefficient
          K, ETA1, ETA2, DU, DV,        \* PARAMS
          Matrices, Secrets, Noise,     \* bounds: what is drawn for the key pairs and for the encryptions,
          Messages, Flips, Strings      \* the messages, bits that change, and polynomials whose encoding is checked

VARIABLE m

Idx == 0 .. N - 1
Rows == 0 .. K - 1
Each(F(_), v) == [i \in DOMAIN v |-> F(v[i])]

RECURSIVE Brv(_, _), pow(_, _)
Brv(i, n) == IF n = 1 THEN 0 ELSE (i % 2) * (n \div 2) + Brv(i \div 2, n \div 2)
_brv7(i) == Brv(i, N \div 2)
pow(b, e) == IF e = 0 THEN 1 ELSE (b * pow(b, e - 1)) % Q
ZETA == [i \in 0 .. N \div 2 - 1 |-> pow(ROOT, _brv7(i))]

Bit(x, i) == (x \div 2 ^ i) % 2
byte_encode(d, F) == UNION {{i * d + j : j \in {k \in 0 .. d - 1 : Bit(F[i], k) = 1}} : i \in Idx}
byte_decode(d, B) ==
  LET n == IF d = BITS THEN Q ELSE 2 ^ d IN
  [i \in Idx |-> SumFunction([j \in 0 .. d - 1 |-> IF i * d + j \in B THEN 2 ^ j ELSE 0]) % n]
\* Mutant: the quotient is not rounded.
Truncated(d, x) == Each(LAMBDA c : (c * 2 ^ d) \div Q, x)
compress(d, x) == Each(LAMBDA c : ((c * 2 ^ d + Q \div 2) \div Q) % 2 ^ d, x)
decompress(d, y) == Each(LAMBDA c : (c * Q + 2 ^ (d - 1)) \div 2 ^ d, y)

\* What the samplers can return.
sample_ntt == [Idx -> 0 .. Q - 1]
sample_cbd(eta) == [Idx -> {c % Q : c \in -eta .. eta}]
Vectors(eta) == [Rows -> sample_cbd(eta)]
Noises == [y : Vectors(ETA1), e1 : Vectors(ETA2), e2 : sample_cbd(ETA2)]

\* The layers from the half-length ln on; the last leaves pairs of coefficients.
RECURSIVE Layers(_, _), InverseLayers(_, _)
Layers(f, ln) ==
  IF ln = 1 THEN f
  ELSE Layers([j \in Idx |-> LET z == ZETA[N \div (2 * ln) + j \div (2 * ln)] IN
                 IF (j \div ln) % 2 = 0 THEN (f[j] + z * f[j + ln]) % Q ELSE (f[j - ln] - z * f[j]) % Q], ln \div 2)
ntt(f) == Layers(f, N \div 2)
InverseLayers(f, ln) ==
  IF ln = N THEN f
  ELSE InverseLayers([j \in Idx |-> LET z == ZETA[N \div ln - 1 - j \div (2 * ln)] IN
                        IF (j \div ln) % 2 = 0 THEN (f[j] + f[j + ln]) % Q ELSE (z * (f[j] - f[j - ln])) % Q], 2 * ln)
ntt_inv(f) == Each(LAMBDA x : (x * pow(N \div 2, Q - 2)) % Q, InverseLayers(f, 2))
\* Products of pairs modulo X^2 - z.
mul_ntt(f, g) ==
  [j \in Idx |-> LET i == 2 * (j \div 2)
                     z == pow(ROOT, 2 * _brv7(j \div 2) + 1) IN
     IF j = i THEN (f[i] * g[i] + ((f[i + 1] * g[i + 1]) % Q) * z) % Q ELSE (f[i] * g[i + 1] + f[i + 1] * g[i]) % Q]
vadd(a, b) == [j \in Idx |-> (a[j] + b[j]) % Q]
vsub(a, b) == [j \in Idx |-> (a[j] - b[j]) % Q]
dot(u, v) == FoldFunction(vadd, [j \in Idx |-> 0], [i \in Rows |-> mul_ntt(u[i], v[i])])
matvec(A, v, trans) == [i \in Rows |-> dot([j \in Rows |-> IF trans THEN A[j][i] ELSE A[i][j]], v)]
_matrix == [Rows -> [Rows -> sample_ntt]]

k_pke_keygen(A, s, e) ==
  LET sh == Each(ntt, s)
      As == matvec(A, sh, FALSE) IN
  [ek |-> [t |-> [i \in Rows |-> byte_encode(BITS, vadd(As[i], ntt(e[i])))], rho |-> A],
   dk |-> Each(LAMBDA x : byte_encode(BITS, x), sh)]
\* r: the noise y, e1 and e2.
k_pke_encrypt(ek, msg, r) ==
  LET t == Each(LAMBDA B : byte_decode(BITS, B), ek.t)
      y == Each(ntt, r.y)
      Ay == matvec(ek.rho, y, TRUE)
      u == [i \in Rows |-> vadd(ntt_inv(Ay[i]), r.e1[i])]
      mu == decompress(1, byte_decode(1, msg))
      v == vadd(vadd(ntt_inv(dot(t, y)), r.e2), mu) IN
  [c1 |-> Each(LAMBDA x : byte_encode(DU, compress(DU, x)), u), c2 |-> byte_encode(DV, compress(DV, v))]
k_pke_decrypt(dk, c) ==
  LET u == Each(LAMBDA B : decompress(DU, byte_decode(DU, B)), c.c1)
      v == decompress(DV, byte_decode(DV, c.c2))
      w == vsub(v, ntt_inv(dot(Each(LAMBDA B : byte_decode(BITS, B), dk), Each(ntt, u)))) IN
  byte_encode(1, compress(1, w))

\* G, J and H are records of what they hash.
H(ek) == [H |-> ek]
G(msg, h) == [m |-> msg, h |-> h]
J(z, c) == [z |-> z, c |-> c]
keygen_internal(A, s, e, z) ==
  LET p == k_pke_keygen(A, s, e) IN [ek |-> p.ek, dk |-> [dkp |-> p.dk, ek |-> p.ek, h |-> H(p.ek), z |-> z]]
encaps_internal(ek, msg, r) == [K |-> G(msg, H(ek)), c |-> k_pke_encrypt(ek, msg, r)]
\* Mutant: only the first part of the ciphertext is compared.
SameFirst(c, d) == c.c1 = d.c1
Same(c, d) == c = d
\* noise: what the PRF gives for each message with h.
decaps(dk, c, noise) ==
  LET msg == k_pke_decrypt(dk.dkp, c)
      c2 == k_pke_encrypt(dk.ek, msg, noise[msg]) IN
  IF Same(c, c2) THEN G(msg, dk.h) ELSE J(dk.z, c)
\* Mutant: any string of the length is a key.
AnyString(ek) == TRUE
ek_check(ek) == \A i \in Rows : byte_encode(BITS, byte_decode(BITS, ek.t[i])) = ek.t[i]
dk_check(dk) == H(dk.ek) = dk.h

-----------------------------------------------------------------------------
\* A key pair is made, a message encapsulated, the ciphertext delivered as it is or with one bit changed, and
\* decapsulated; a sender also checks the encoding of any polynomial of a public key.
Altered(c) == {c} \cup {[c EXCEPT !.c1[i] = (@ \cup {b}) \ (@ \cap {b})] : i \in Rows, b \in Flips}
                  \cup {[c EXCEPT !.c2 = (@ \cup {b}) \ (@ \cap {b})] : b \in Flips}
Init ==
  \/ \E A \in Matrices, s \in Secrets, e \in Secrets :
       m = [alg |-> "ML-KEM", stage |-> "keys", key |-> keygen_internal(A, s, e, "z")]
  \/ \E F \in Strings : m = [alg |-> "ML-KEM", stage |-> "string", F |-> F,
                             ek |-> [t |-> [i \in Rows |-> byte_encode(BITS, F)], rho |-> 0]]
Encaps ==
  /\ m.stage = "keys" /\ ek_check(m.key.ek)
  /\ \E B \in Messages, r \in Noise :
       m' = [alg |-> "ML-KEM", stage |-> "sent", key |-> m.key, msg |-> B, noise |-> r, sent |-> encaps_internal(m.key.ek, B, r)]
Decaps ==
  /\ m.stage = "sent" /\ dk_check(m.key.dk)
  /\ \E c \in Altered(m.sent.c), other \in Noise :
       m' = [alg |-> "ML-KEM", stage |-> "received", sent |-> m.sent, got |-> c,
             K |-> decaps(m.key.dk, c, [B \in SUBSET Idx |-> IF B = m.msg THEN m.noise ELSE other])]
Next == Encaps \/ Decaps

\* The ciphertext that was sent gives the secret of the sender, also with the largest noise.
RoundTrips == m.stage = "received" /\ m.got = m.sent.c => m.K = m.sent.K
\* A ciphertext that was changed never gives it.
OnlyTheOriginal == m.stage = "received" /\ m.got # m.sent.c => m.K # m.sent.K
\* A public key has one encoding that the check accepts.
OneEncoding == m.stage = "string" => (ek_check(m.ek) <=> \A i \in Idx : m.F[i] < Q)
=============================================================================
