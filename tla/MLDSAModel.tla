----------------------------- MODULE MLDSAModel -----------------------------
(***************************************************************************)
(* ML-DSA of mldsa_model.py over a small ring.  What an XOF gives is any   *)
(* value that the sampler can return, rho is the matrix it expands to, and *)
(* a digest is what was hashed.  A string that is packed is the set of the *)
(* bits that are set in it.                                                *)
(***************************************************************************)
EXTENDS Integers, FiniteSets, Functions

CONSTANTS N, Q, ZETA, D,                            \* of the ring
          K, L, ETA, TAU, GAMMA1, GAMMA2, OMEGA,    \* PARAMS
          LIMIT,                                    \* DEFAULT_LIM['sign']
          Matrices, Secrets, Masks                  \* bounds: what is drawn of expand_a, expand_s and expand_mask

VARIABLE m

None == <<>>
Idx == 0 .. N - 1
BETA == TAU * ETA
Each(F(_), v) == [i \in DOMAIN v |-> F(v[i])]

RECURSIVE Brv(_, _)
Brv(i, n) == IF n = 1 THEN 0 ELSE (i % 2) * (n \div 2) + Brv(i \div 2, n \div 2)
_brv8(i) == Brv(i, N)
RECURSIVE pow(_, _)
pow(b, e) == IF e = 0 THEN 1 ELSE (b * pow(b, e - 1)) % Q
ZETAS == [i \in Idx |-> pow(ZETA, _brv8(i))]
INV256 == pow(N, Q - 2)

\* The layers of the NTT from the half-length ln on: a block of 2 * ln coefficients has one zeta.
RECURSIVE Layers(_, _), InverseLayers(_, _)
Layers(w, ln) ==
  IF ln = 0 THEN w
  ELSE Layers([j \in Idx |-> LET z == ZETAS[N \div (2 * ln) + j \div (2 * ln)] IN
                 IF (j \div ln) % 2 = 0 THEN (w[j] + z * w[j + ln]) % Q ELSE (w[j - ln] - z * w[j]) % Q], ln \div 2)
ntt(a) == Layers(a, N \div 2)
InverseLayers(w, ln) ==
  IF ln = N THEN w
  ELSE InverseLayers([j \in Idx |-> LET z == ZETAS[N \div ln - 1 - j \div (2 * ln)] IN
                        IF (j \div ln) % 2 = 0 THEN (w[j] + w[j + ln]) % Q ELSE ((Q - z) * (w[j - ln] - w[j])) % Q], 2 * ln)
intt(a) == [j \in Idx |-> (InverseLayers(a, 1)[j] * INV256) % Q]

padd(a, b) == [j \in Idx |-> (a[j] + b[j]) % Q]
psub(a, b) == [j \in Idx |-> (a[j] - b[j]) % Q]
pmul(a, b) == [j \in Idx |-> (a[j] * b[j]) % Q]
mat_vec(A, vh) == [r \in 0 .. K - 1 |-> [j \in Idx |-> SumFunction([s \in 0 .. L - 1 |-> pmul(A[r][s], vh[s])[j]]) % Q]]
Times(ch, v) == Each(LAMBDA p : intt(pmul(ch, ntt(p))), v)

-----------------------------------------------------------------------------
\* What the samplers can return.
rej_ntt_poly == [Idx -> 0 .. Q - 1]
rej_bounded_poly == [Idx -> {c % Q : c \in -ETA .. ETA}]
expand_a == [0 .. K - 1 -> [0 .. L - 1 -> rej_ntt_poly]]
expand_s == [s1 : [0 .. L - 1 -> rej_bounded_poly], s2 : [0 .. K - 1 -> rej_bounded_poly]]
expand_mask == [0 .. L - 1 -> [Idx -> -(GAMMA1 - 1) .. GAMMA1]]

\* The coefficient i takes that of j <= i, and j a sign, for the last TAU coefficients.
RECURSIVE InBall(_, _)
InBall(c, i) == IF i = N THEN {c}
                ELSE UNION {InBall([c EXCEPT ![i] = c[j], ![j] = s], i + 1) : j \in 0 .. i, s \in {-1, 1}}
sample_in_ball == {Each(LAMBDA x : x % Q, c) : c \in InBall([j \in Idx |-> 0], N - TAU)}

-----------------------------------------------------------------------------
modpm(r, n) == LET r0 == r % n IN IF r0 > n \div 2 THEN r0 - n ELSE r0
power2round(r) ==
  LET rp == r % Q
      r0 == modpm(rp, 2 ^ D) IN <<(rp - r0) \div 2 ^ D, r0>>
decompose(r) ==
  LET rp == r % Q
      r0 == modpm(rp, 2 * GAMMA2) IN
  IF rp - r0 = Q - 1 THEN <<0, r0 - 1>> ELSE <<(rp - r0) \div (2 * GAMMA2), r0>>
high_bits(r) == decompose(r)[1]
low_bits(r) == decompose(r)[2]
make_hint(z, r) == IF high_bits(r) # high_bits(r + z) THEN 1 ELSE 0
use_hint(h, r) ==
  LET n == (Q - 1) \div (2 * GAMMA2)
      d == decompose(r) IN
  IF h = 0 THEN d[1] ELSE IF d[2] > 0 THEN (d[1] + 1) % n ELSE (d[1] - 1) % n
Centred(x) == IF x > Q \div 2 THEN x - Q ELSE x
Abs(x) == IF x < 0 THEN -x ELSE x
cnorm(x) == LET r == x % Q IN IF r > (Q - 1) \div 2 THEN Q - r ELSE r
\* Every coefficient x of the vector v has F(x) below the bound.
Below(F(_), v, bound) == \A i \in DOMAIN v, j \in Idx : F(v[i][j]) < bound

bitlen(x) == CHOOSE n \in 0 .. 31 : x < 2 ^ n /\ (n = 0 \/ x >= 2 ^ (n - 1))
Bit(x, i) == (x \div 2 ^ i) % 2
_pack(vals, bits) == UNION {{i * bits + j : j \in {k \in 0 .. bitlen(vals[i]) : Bit(vals[i], k) = 1}} : i \in DOMAIN vals}
_unpack(bs, bits) == [i \in Idx |-> SumFunction([j \in 0 .. bits - 1 |-> IF i * bits + j \in bs THEN 2 ^ j ELSE 0])]
bit_pack(w, a, b) == _pack(Each(LAMBDA x : b - x, w), bitlen(a + b))
bit_unpack(bs, a, b) == Each(LAMBDA v : b - v, _unpack(bs, bitlen(a + b)))

\* The positions of the hints of all polynomials, then how many there are up to each polynomial.
Hints(h, i) == {j \in Idx : h[i][j] = 1}
hint_bit_pack(h) ==
  LET upto(i) == SumFunction([r \in 0 .. i |-> Cardinality(Hints(h, r))])
      at(i, j) == upto(i) - Cardinality({k \in Hints(h, i) : k >= j}) IN
  [x \in 0 .. OMEGA + K - 1 |->
     IF x >= OMEGA THEN upto(x - OMEGA)
     ELSE SumFunction([p \in (0 .. K - 1) \X Idx |-> IF p[2] \in Hints(h, p[1]) /\ at(p[1], p[2]) = x THEN p[2] ELSE 0])]
\* Mutant: the positions of a polynomial may repeat.
HintsInAnyOrder(y) ==
  LET from(i) == IF i = 0 THEN 0 ELSE y[OMEGA + i - 1]
      to(i) == y[OMEGA + i] IN
  IF \/ \E i \in 0 .. K - 1 : to(i) < from(i) \/ to(i) > OMEGA
     \/ \E x \in to(K - 1) .. OMEGA - 1 : y[x] # 0
    THEN None
  ELSE [i \in 0 .. K - 1 |-> [j \in Idx |-> IF j \in {y[x] : x \in from(i) .. to(i) - 1} THEN 1 ELSE 0]]
hint_unpack(y) ==
  LET from(i) == IF i = 0 THEN 0 ELSE y[OMEGA + i - 1]
      to(i) == y[OMEGA + i] IN
  IF \/ \E i \in 0 .. K - 1 : to(i) < from(i) \/ to(i) > OMEGA
     \/ \E i \in 0 .. K - 1 : \E x \in from(i) + 1 .. to(i) - 1 : y[x - 1] >= y[x]
     \/ \E x \in to(K - 1) .. OMEGA - 1 : y[x] # 0
    THEN None
  ELSE [i \in 0 .. K - 1 |-> [j \in Idx |-> IF j \in {y[x] : x \in from(i) .. to(i) - 1} THEN 1 ELSE 0]]

-----------------------------------------------------------------------------
T1BITS == bitlen(Q - 1) - D
Encoded(F(_), v) == [i \in DOMAIN v |-> F(Each(Centred, v[i]))]
Small(p) == bit_pack(p, ETA, ETA)
Unsmall(bs) == bit_unpack(bs, ETA, ETA)
pk_encode(rho, t1) == [rho |-> rho, t1 |-> Each(LAMBDA p : _pack(p, T1BITS), t1)]
pk_decode(pk) == [rho |-> pk.rho, t1 |-> Each(LAMBDA bs : _unpack(bs, T1BITS), pk.t1)]
sk_encode(rho, tr, s1, s2, t0) ==
  [rho |-> rho, tr |-> tr, s1 |-> Encoded(Small, s1), s2 |-> Encoded(Small, s2),
   t0 |-> Encoded(LAMBDA p : bit_pack(p, 2 ^ (D - 1) - 1, 2 ^ (D - 1)), t0)]
sk_decode_raw(sk) ==
  [sk EXCEPT !.s1 = Each(Unsmall, @), !.s2 = Each(Unsmall, @),
             !.t0 = Each(LAMBDA bs : bit_unpack(bs, 2 ^ (D - 1) - 1, 2 ^ (D - 1)), @)]
sk_ok(sk) == LET r == sk_decode_raw(sk) IN \A s \in {r.s1, r.s2} : Below(Abs, s, ETA + 1)
sk_decode(sk) ==
  LET mod(v) == Each(LAMBDA p : Each(LAMBDA x : x % Q, p), v) IN
  [sk_decode_raw(sk) EXCEPT !.s1 = mod(@), !.s2 = mod(@), !.t0 = mod(@)]
\* A digest: the message representative and w1, packed, of which the challenge is drawn.
w1_encode(w1) == Each(LAMBDA p : _pack(p, bitlen((Q - 1) \div (2 * GAMMA2) - 1)), w1)
sig_encode(ct, z, h) == [ct |-> ct, z |-> Encoded(LAMBDA p : bit_pack(p, GAMMA1 - 1, GAMMA1), z), h |-> hint_bit_pack(h)]
sig_decode(sig) ==
  [sig EXCEPT !.z = Each(LAMBDA bs : Each(LAMBDA x : x % Q, bit_unpack(bs, GAMMA1 - 1, GAMMA1)), @), !.h = hint_unpack(@)]

\* t = A * s1 + s2 in two parts.
Public(A, s1, s2) == LET As == mat_vec(A, Each(ntt, s1)) IN [r \in 0 .. K - 1 |-> padd(intt(As[r]), s2[r])]
High(t) == Each(LAMBDA p : Each(LAMBDA x : power2round(x)[1], p), t)
keygen_internal(A, s) ==
  LET t == Public(A, s.s1, s.s2)
      pk == pk_encode(A, High(t)) IN
  [pk |-> pk, sk |-> sk_encode(A, pk, s.s1, s.s2, Each(LAMBDA p : Each(LAMBDA x : power2round(x)[2] % Q, p), t))]
pk_from_sk(sk) == LET r == sk_decode(sk) IN pk_encode(r.rho, High(Public(r.rho, r.s1, r.s2)))

Plus(u, v) == [i \in DOMAIN u |-> padd(u[i], v[i])]
Minus(u, v) == [i \in DOMAIN u |-> psub(u[i], v[i])]
\* Mutant: z may be as large as a mask.
ShortZ(z, r0) == Below(cnorm, z, GAMMA1) /\ Below(Abs, r0, GAMMA2 - BETA)
Accepts(z, r0) == Below(cnorm, z, GAMMA1 - BETA) /\ Below(Abs, r0, GAMMA2 - BETA)
\* One iteration with the mask y and the challenge c: a signature, or none.
Iteration(sk, y, c) ==
  LET r == sk_decode(sk)
      ch == ntt(c)
      w == Each(intt, mat_vec(r.rho, Each(ntt, y)))
      cs2 == Times(ch, r.s2)
      z == Plus(y, Times(ch, r.s1))
      wcs2 == Minus(w, cs2)
      ct0 == Times(ch, r.t0)
      h == [i \in DOMAIN w |-> [j \in Idx |-> make_hint((-ct0[i][j]) % Q, (wcs2[i][j] + ct0[i][j]) % Q)]] IN
  IF /\ Accepts(z, Each(LAMBDA p : Each(low_bits, p), wcs2))
     /\ Below(cnorm, ct0, GAMMA2)
     /\ SumFunction([i \in DOMAIN h |-> SumFunction(h[i])]) <= OMEGA
    THEN sig_encode([c |-> c, w1 |-> w1_encode(Each(LAMBDA p : Each(high_bits, p), w))], z, h)
  ELSE None
verify_internal(pk, sig) ==
  LET d == sig_decode(sig)
      p == pk_decode(pk)
      ch == ntt(d.ct.c)
      Az == mat_vec(p.rho, Each(ntt, d.z))
      wap == [i \in 0 .. K - 1 |-> intt(psub(Az[i], pmul(ch, ntt(Each(LAMBDA x : (x * 2 ^ D) % Q, p.t1[i])))))] IN
  /\ d.h # None
  /\ Below(cnorm, d.z, GAMMA1 - BETA)
  /\ d.ct.w1 = w1_encode([i \in 0 .. K - 1 |-> [j \in Idx |-> use_hint(d.h[i][j], wap[i][j])]])

-----------------------------------------------------------------------------
\* A key is made, a message signed, and the signature verified; a verifier also decodes any string of hints.
HintStrings == [0 .. OMEGA + K - 1 -> 0 .. N - 1]
Init ==
  \/ \E A \in Matrices, s \in Secrets :
       m = [alg |-> "ML-DSA", stage |-> "key", key |-> keygen_internal(A, s), it |-> 0, kappa |-> 0, seeds |-> {}, reused |-> FALSE, sig |-> None]
  \/ \E y \in HintStrings : m = [alg |-> "ML-DSA", stage |-> "hints", y |-> y]
\* Mutant: the counter of the masks goes on by one.
OneSeed == 1
SeedsOf == L
sign_gen ==
  /\ m.stage = "key"
  /\ LET seeds == {m.kappa + r : r \in 0 .. L - 1} IN
     IF m.it + 1 > LIMIT THEN m' = [m EXCEPT !.stage = "LoopBound"]
     ELSE \E y \in Masks, c \in sample_in_ball :
            LET sig == Iteration(m.key.sk, y, c) IN
            m' = [m EXCEPT !.it = @ + 1, !.kappa = @ + SeedsOf, !.seeds = @ \cup seeds, !.reused = @ \/ seeds \cap m.seeds # {},
                           !.sig = sig, !.stage = IF sig # None THEN "signed" ELSE @]
Verify == m.stage = "signed" /\ m' = [m EXCEPT !.stage = IF verify_internal(m.key.pk, m.sig) THEN "verified" ELSE "refused"]
Next == sign_gen \/ Verify

\* A signature that was returned verifies, and the private key gives the public key again.
RoundTrips ==
  /\ m.stage # "refused"
  /\ m.stage = "key" => sk_ok(m.key.sk) /\ pk_from_sk(m.key.sk) = m.key.pk
\* Any secret could have given the z of a signature with a mask of the range, and no seed makes two masks.
KeyIsHidden ==
  m.stage = "signed" =>
    /\ ~ m.reused
    /\ \A s \in Secrets :
         LET z == sig_decode(m.sig).z
             cs1 == Times(ntt(m.sig.ct.c), s.s1) IN
         \A i \in DOMAIN z, j \in Idx : Centred((z[i][j] - cs1[i][j]) % Q) \in -(GAMMA1 - 1) .. GAMMA1
\* Hints have one encoding.
OneEncoding == m.stage = "hints" /\ hint_unpack(m.y) # None => hint_bit_pack(hint_unpack(m.y)) = m.y
=============================================================================
