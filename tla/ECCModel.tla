------------------------------ MODULE ECCModel ------------------------------
(***************************************************************************)
(* The arithmetic of ecc_model.py, on curves of few points: ECDSA, SM2,    *)
(* EdDSA and X25519/X448.  A curve is a record of its parameters; the      *)
(* nonce of a signature and the hash of its message are any scalars, the   *)
(* hash the same ones whenever the same values are hashed.                 *)
(***************************************************************************)
EXTENDS Integers

CONSTANTS Weis, Eds, Monts,       \* the curves: of Weierstrass, Edwards and Montgomery
          Digests, Loose          \* bounds: digests that are signed; private keys with which any signature is tried

VARIABLE m

None == <<>>
inverse(x, p) == CHOOSE y \in 1 .. p - 1 : (x * y) % p = 1
RECURSIVE pow(_, _, _)
pow(b, e, p) == IF e = 0 THEN 1 ELSE (b * pow(b, e - 1, p)) % p

\* Points of a Weierstrass curve; None is the point at infinity.
on_curve(c, P) ==
  P # None /\ P[1] \in 0 .. c.p - 1 /\ P[2] \in 0 .. c.p - 1
           /\ (P[2] * P[2] - P[1] * P[1] * P[1] - c.a * P[1] - c.b) % c.p = 0
add(c, P, Q) ==
  LET through(l) == LET x == (l * l - P[1] - Q[1]) % c.p IN <<x, (l * (P[1] - x) - P[2]) % c.p>> IN
  CASE P = None -> Q
    [] P # None /\ Q = None -> P
    [] P # None /\ Q # None /\ P[1] = Q[1] ->
         IF (P[2] + Q[2]) % c.p = 0 THEN None ELSE through(((3 * P[1] * P[1] + c.a) * inverse(2 * P[2], c.p)) % c.p)
    [] OTHER -> through(((Q[2] - P[2]) * inverse(Q[1] - P[1], c.p)) % c.p)
\* Double and add, from the greatest bit of k.
RECURSIVE mul(_, _, _)
mul(c, k, P) ==
  IF k = 0 THEN None
  ELSE LET R == mul(c, k \div 2, P)
           RR == add(c, R, R) IN IF k % 2 = 1 THEN add(c, RR, P) ELSE RR

ecdsa_sign(c, d, e, k) ==
  LET r == mul(c, k, c.G)[1] % c.n
      s == (inverse(k, c.n) * (e + r * d)) % c.n IN
  IF r = 0 \/ s = 0 THEN None ELSE <<r, s>>
ecdsa_verify(c, Q, e, rs) ==
  /\ rs[1] \in 1 .. c.n - 1 /\ rs[2] \in 1 .. c.n - 1
  /\ on_curve(c, Q) /\ mul(c, c.n, Q) = None
  /\ LET w == inverse(rs[2], c.n)
         X == add(c, mul(c, ((e % c.n) * w) % c.n, c.G), mul(c, (rs[1] * w) % c.n, Q)) IN
     X # None /\ X[1] % c.n = rs[1]

sm2_sign(c, d, e, k) ==
  LET r == (e + mul(c, k, c.G)[1]) % c.n
      s == (inverse(1 + d, c.n) * (k - r * d)) % c.n IN
  IF r = 0 \/ r + k = c.n \/ s = 0 THEN None ELSE <<r, s>>
sm2_verify(c, Q, e, rs) ==
  LET t == (rs[1] + rs[2]) % c.n
      X == add(c, mul(c, rs[2], c.G), mul(c, t, Q)) IN
  /\ rs[1] \in 1 .. c.n - 1 /\ rs[2] \in 1 .. c.n - 1
  /\ on_curve(c, Q) /\ t # 0 /\ X # None /\ (e + X[1]) % c.n = rs[1]

-----------------------------------------------------------------------------
\* Edwards curves, with a = -1 (Ed25519) or 1 (Ed448); a point is encoded as y and the parity of x.
recover_x(c, y, sign) ==
  LET x2 == ((y * y - 1) * inverse(c.d * y * y - c.a, c.p)) % c.p
      root == IF c.p % 4 = 3 THEN pow(x2, (c.p + 1) \div 4, c.p)
              ELSE LET x == pow(x2, (c.p + 3) \div 8, c.p) IN
                   IF (x * x - x2) % c.p = 0 THEN x ELSE (x * pow(2, (c.p - 1) \div 4, c.p)) % c.p IN
  CASE y >= c.p -> None
    [] y < c.p /\ x2 = 0 -> IF sign = 1 THEN None ELSE <<0>>
    [] y < c.p /\ x2 # 0 -> IF (root * root - x2) % c.p # 0 THEN None
                            ELSE IF root % 2 = sign THEN <<root>> ELSE <<c.p - root>>
eadd(c, P, Q) ==
  LET t == (((c.d * P[1] * Q[1]) % c.p) * P[2] * Q[2]) % c.p IN
  <<((P[1] * Q[2] + Q[1] * P[2]) * inverse(1 + t, c.p)) % c.p, ((P[2] * Q[2] - c.a * P[1] * Q[1]) * inverse(1 - t, c.p)) % c.p>>
RECURSIVE emul(_, _, _)
emul(c, k, P) ==
  IF k = 0 THEN <<0, 1>>
  ELSE LET R == emul(c, k \div 2, P)
           RR == eadd(c, R, R) IN IF k % 2 = 1 THEN eadd(c, RR, P) ELSE RR
enc(P) == [y |-> P[2], sign |-> P[1] % 2]
dec(c, s) == LET x == recover_x(c, s.y, s.sign) IN IF x = None THEN None ELSE <<x[1], s.y>>
Base(c) == <<recover_x(c, c.by, 0)[1], c.by>>
pub(c, s) == enc(emul(c, s, Base(c)))
\* r and k: the hashes of the prefix and the message, and of R, the key and the message.
sign(c, s, r, k) == [R |-> enc(emul(c, r, Base(c))), S |-> (r + k * s) % c.L]
\* Mutant: S may be any integer.
CanonicalOrNot(S, c) == TRUE
Canonical(S, c) == S < c.L
verify(c, A, k, sig) ==
  LET Ap == dec(c, A)
      Rp == dec(c, sig.R)
      h == 2 ^ c.c IN
  /\ Ap # None /\ Rp # None /\ Canonical(sig.S, c)
  /\ emul(c, h * sig.S, Base(c)) = eadd(c, emul(c, h, Rp), emul(c, (h * k) % (h * c.L), Ap))

\* The strings of X25519 have one bit more than u, which is masked; free: the bits of k that clamp clears.
clamp(c, k) == 2 ^ (c.bits - 1) + ((k % 2 ^ (c.bits - 1)) \div 2 ^ c.free) * 2 ^ c.free
\* One step of the ladder for the bit b; q holds x2, z2, x3, z3 and swap.
Step(c, u, q, b) ==
  LET s == IF q.swap # b THEN [q EXCEPT !.x2 = q.x3, !.x3 = q.x2, !.z2 = q.z3, !.z3 = q.z2] ELSE q
      AA == ((s.x2 + s.z2) * (s.x2 + s.z2)) % c.p
      BB == ((s.x2 - s.z2) * (s.x2 - s.z2)) % c.p
      E == (AA - BB) % c.p
      DA == ((s.x3 - s.z3) * (s.x2 + s.z2)) % c.p
      CB == ((s.x3 + s.z3) * (s.x2 - s.z2)) % c.p IN
  [x3 |-> ((DA + CB) * (DA + CB)) % c.p, z3 |-> (u * ((DA - CB) * (DA - CB))) % c.p,
   x2 |-> (AA * BB) % c.p, z2 |-> (E * (AA + c.a24 * E)) % c.p, swap |-> b]
RECURSIVE Ladder(_, _, _, _, _)
Ladder(c, u, q, k, t) == IF t = 0 THEN q ELSE Ladder(c, u, Step(c, u, q, (k \div 2 ^ (t - 1)) % 2), k, t - 1)
x_mul(c, k, ub) ==
  LET u == (ub % 2 ^ c.bits) % c.p
      q == Ladder(c, u, [x2 |-> 1, z2 |-> 0, x3 |-> u, z3 |-> 1, swap |-> 0], clamp(c, k), c.bits) IN
  IF q.swap = 1 THEN (q.x3 * pow(q.z3, c.p - 2, c.p)) % c.p ELSE (q.x2 * pow(q.z2, c.p - 2, c.p)) % c.p

-----------------------------------------------------------------------------
\* A private key signs; a verifier is given any signature; two owners of scalars exchange their shares of any u.
Sign(c, d, e, k, sm2) == IF sm2 THEN sm2_sign(c, d, e, k) ELSE ecdsa_sign(c, d, e, k)
Verifies(c, d, e, rs, sm2) == LET Q == mul(c, d, c.G) IN IF sm2 THEN sm2_verify(c, Q, e, rs) ELSE ecdsa_verify(c, Q, e, rs)
Key(alg, c, d, h, sm2) == [alg |-> alg, stage |-> "key", c |-> c, d |-> d, h |-> h, sm2 |-> sm2, sig |-> None]
Init ==
  \/ \E c \in Weis, sm2 \in BOOLEAN, e \in Digests :
       \E d \in 1 .. (IF sm2 THEN c.n - 2 ELSE c.n - 1) : m = Key("wei", c, d, e, sm2)
  \/ \E c \in Eds : \E s \in c.scalars, k \in 0 .. c.L - 1 : m = Key("ed", c, s, k, FALSE)
  \/ \E c \in Monts : \E a, b \in c.strings, u \in c.shares :
       m = [alg |-> "mont", stage |-> "scalars", c |-> c, a |-> a, b |-> b, u |-> u]
SignIt ==
  /\ m.stage = "key"
  /\ \E k \in 1 .. (IF m.alg = "ed" THEN m.c.L ELSE m.c.n) - 1 :
       m' = [m EXCEPT !.stage = "signed", !.sig = IF m.alg = "ed" THEN sign(m.c, m.d, k, m.h) ELSE Sign(m.c, m.d, m.h, k, m.sm2)]
\* Any r and s for a key of Weierstrass, and any S for a signature of EdDSA.
Receive ==
  \/ /\ m.stage = "key" /\ m.alg = "wei" /\ m.d \in Loose
     /\ \E r, s \in 0 .. m.c.n : m' = [m EXCEPT !.stage = "received", !.sig = <<r, s>>]
  \/ /\ m.stage = "signed" /\ m.alg = "ed"
     /\ \E S \in 0 .. 2 * m.c.L : m' = [m EXCEPT !.stage = "received", !.sig.S = S]
Next == SignIt \/ Receive

\* A signature that was returned verifies; both owners come to the same secret, of every u of the curve or its twist.
RoundTrips ==
  /\ m.stage = "signed" /\ m.sig # None =>
       IF m.alg = "ed" THEN verify(m.c, pub(m.c, m.d), m.h, m.sig) ELSE Verifies(m.c, m.d, m.h, m.sig, m.sm2)
  /\ m.stage = "scalars" => x_mul(m.c, m.a, x_mul(m.c, m.b, m.u)) = x_mul(m.c, m.b, x_mul(m.c, m.a, m.u))
\* A signature verifies only if a nonce of the private key gives it, and EdDSA has one S.
OnlyTheOriginal ==
  m.stage = "received" =>
    IF m.alg = "wei" THEN Verifies(m.c, m.d, m.h, m.sig, m.sm2) => \E k \in 1 .. m.c.n - 1 : Sign(m.c, m.d, m.h, k, m.sm2) = m.sig
    ELSE verify(m.c, pub(m.c, m.d), m.h, m.sig) => \E r \in 0 .. m.c.L - 1 : sign(m.c, m.d, r, m.h) = m.sig
\* A point has one encoding.
OneEncoding ==
  m.stage = "key" /\ m.alg = "ed" =>
    \A y \in 0 .. 2 * m.c.p, b \in {0, 1} :
      LET s == [y |-> y, sign |-> b] IN dec(m.c, s) # None => enc(dec(m.c, s)) = s
=============================================================================
