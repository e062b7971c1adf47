------------------------------ MODULE MCMLKEM ------------------------------
(***************************************************************************)
(* Instances of MLKEM for TLC.  A key pair k is one term, K(k): a decapsk  *)
(* is its private part, two units of encapsk and the hash of the encapsk.  *)
(***************************************************************************)
EXTENDS MLKEMProps, TLC

Z == <<"zero">>
Bad == <<"bad">>
Other == <<"other">>
K(k) == <<"key", k>>
C(u, r) == <<"encapsulated", u, r>>

Draws == 1..MaxDraws
Keys == {K(k) : k \in 0..MaxDraws}
MCUnits == {Z, Bad, Other} \cup Keys \cup {C(u, r) : u \in Keys, r \in Draws}

MCek_check(e) == e[1] = e[2] /\ e[1] \in Keys
MCdk_check(dk) == dk[4] = dk[2]
MCkeygen(r) == <<K(r), K(r), K(r), K(r)>>
MCencaps(e, r) == << <<Other, C(e[1], r)>>, <<C(e[1], r), C(e[1], r)>> >>
\* Anything but a ciphertext for the encapsk is rejected implicitly.
MCdecaps(dk, c) ==
  IF c[1] = c[2] /\ dk[1] = dk[2] /\ \E r \in Draws : c[1] = C(dk[2], r)
    THEN <<Other, c[1]>> ELSE <<Other, Other>>

P == K(0)
MCTransfers ==
  { <<>>, <<P>>, <<P, P>>, <<P, Bad>>, <<Bad, Bad, Bad>>,
    <<P, P, P, P>>, <<P, Bad, P, Bad>>, <<P, P, P, K(1)>>,
    <<C(P, 1)>>, <<C(K(1), 2)>>, <<C(K(1), 2), C(K(1), 2)>> }
=============================================================================
