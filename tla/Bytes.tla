------------------------------- MODULE Bytes --------------------------------
(***************************************************************************)
(* Bits and bytes as numbers: exclusive or, and the field and the S-box of *)
(* AES (common.py).                                                        *)
(***************************************************************************)
EXTENDS Integers, TLC

RECURSIVE bxor(_, _)
bxor(a, b) == IF a = 0 THEN b ELSE ((a + b) % 2) + 2 * bxor(a \div 2, b \div 2)
RECURSIVE XorAll(_, _)
XorAll(s, n) == IF n = 0 THEN 0 ELSE bxor(s[n], XorAll(s, n - 1))

xtime(a) == IF a >= 128 THEN bxor(2 * a, 283) ELSE 2 * a
RECURSIVE _gmul8(_, _)
_gmul8(a, b) == IF b = 0 THEN 0 ELSE bxor(IF b % 2 = 1 THEN a ELSE 0, _gmul8(xtime(a), b \div 2))
rol8(a, k) == ((a * 2 ^ k) % 256) + (a \div 2 ^ (8 - k))
_SB ==
  LET affine(a) == XorAll(<<a, rol8(a, 1), rol8(a, 2), rol8(a, 3), rol8(a, 4), 99>>, 6) IN
  (0 :> affine(0)) @@ [a \in 1 .. 255 |-> affine(CHOOSE b \in 1 .. 255 : _gmul8(a, b) = 1)]
_ISB == (_SB[0] :> 0) @@ [y \in 0 .. 255 |-> CHOOSE a \in 0 .. 255 : _SB[a] = y]
=============================================================================
