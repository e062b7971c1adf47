------------------------------ MODULE MCMLDSA ------------------------------
(***************************************************************************)
(* Instances of MLDSA for TLC.  A privkey is made of the unit of its       *)
(* secret and the unit of its tr; both name the pubkey.                    *)
(***************************************************************************)
EXTENDS MLDSAProps, TLC

Z  == <<"zero">>
U1 == <<"u1">>
U2 == <<"u2">>
Bad == <<"bad">>
Sig(k, m, r) == <<"sig", k, m, r>>

MCsk_ok(sk) == sk[1] \in {U1, U2}
OneKey(sk) == sk[1] = U1
MCpk_from_sk(sk) == [i \in 1..Size["pubkey"] |-> sk[1]]
MCtr_matches(sk) == sk[Size["privkey"]] = sk[1]
MCsign(sk, m, r) == [i \in 1..Size["signature"] |-> Sig(sk[1], m[1], r)]
MCiterations(sk, m, r) == IF m[1] = U1 THEN 2 + r ELSE 2
MCverify(pk, m, s) == \E r \in 0..MaxDraws : s[1] = Sig(pk[1], m[1], r)

Key(u, f) == [i \in 1..Size[f] |-> u]
OneKeyPair == {<<Key(U1, "pubkey"), Key(U1, "privkey")>>}

Sizes(priv, pub, sig, m) ==
  ("privkey" :> priv) @@ ("pubkey" :> pub) @@ ("signature" :> sig) @@ ("mu" :> m)
LoadSizes == Sizes(2, 2, 1, 2)
SignSizes == Sizes(1, 1, 1, 1)

Plain == {Z, U1, U2, Bad}
Signatures == {Sig(k, m, r) : k \in {U1, U2}, m \in Plain, r \in 0..MaxDraws}
PlainOrSig == Plain \cup Signatures

LoadTransfers == {<<U1>>, <<U1, U1>>, <<U2>>, <<Bad>>, <<U1, U1, U1>>}
SignTransfers == {<<U1>>, <<U2>>}
BothPolicies == {{"sign", "verify"}}
SignOnly == {{"sign"}}
SignOrNot == {{"sign"}, {}}
AllOperations == OPERATING
=============================================================================
