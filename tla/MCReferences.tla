---------------------------- MODULE MCReferences ----------------------------
(***************************************************************************)
(* TLC instances of References.tla: rings of four coefficients, curves of  *)
(* a few points, and lockers of a few blocks.                              *)
(***************************************************************************)
EXTENDS References, Bytes

\* A polynomial and a vector of two.
Poly(a, b, c, d) == [i \in 0 .. 3 |-> <<a, b, c, d>>[i + 1]]
Vec(p, r) == [i \in 0 .. 1 |-> <<p, r>>[i + 1]]
Mod(v, q) == [i \in 0 .. 1 |-> [j \in 0 .. 3 |-> v[i][j] % q]]
MatrixA == Vec(Vec(Poly(1, 2, 3, 4), Poly(50, 60, 70, 80)), Vec(Poly(96, 0, 13, 5), Poly(7, 77, 31, 90)))
MatrixB == Vec(Vec(Poly(11, 22, 33, 44), Poly(5, 0, 7, 0)), Vec(Poly(0, 96, 48, 50), Poly(47, 49, 20, 91)))

ToyDSA ==
  [Matrices |-> {MatrixA, MatrixB},
   Secrets |-> {[s1 |-> Vec(Poly(1, 1, 1, 1), Poly(96, 96, 96, 96)), s2 |-> Vec(Poly(1, 0, 96, 1), Poly(96, 96, 1, 0))],
                [s1 |-> Vec(Poly(1, 96, 0, 1), Poly(0, 0, 96, 1)), s2 |-> Vec(Poly(0, 0, 0, 1), Poly(1, 1, 1, 1))],
                [s1 |-> Vec(Poly(96, 0, 1, 96), Poly(1, 96, 0, 0)), s2 |-> Vec(Poly(96, 1, 0, 0), Poly(0, 1, 1, 0))]},
   Masks |-> {Vec(Poly(a, b, -b, c), Poly(c, -a, 1, b)) : a \in {0, 3}, b \in {-5, 2}, c \in {5, -4}}
             \cup {Vec(Poly(8, 8, -7, -7), Poly(-7, 8, -7, 8)), Vec(Poly(6, -1, -3, 2), Poly(0, 4, -2, 1))}]

Ternary == {Mod(Vec(Poly(1, 1, 1, 1), Poly(-1, -1, -1, -1)), 137), Mod(Vec(Poly(1, -1, 1, -1), Poly(1, 0, -1, -1)), 137)}
ToyKEM ==
  [Matrices |-> {MatrixA, MatrixB}, Secrets |-> Ternary,
   Noise |-> {[y |-> y, e1 |-> Mod(Vec(Poly(1, 1, 1, 1), Poly(-1, -1, 0, -1)), 137), e2 |-> Poly(1, 136, 1, 136)] : y \in Ternary},
   Messages |-> {{}, {0, 2}, {0, 1, 2, 3}}, Strings |-> [0 .. 3 -> {0, 136, 137, 255}], Flips |-> {0, 6, 15}]

ToyCurves ==
  [Weis |-> {[p |-> 17, a |-> 2, b |-> 2, G |-> <<5, 1>>, n |-> 19]},
   Eds |-> {[p |-> 29, a |-> -1, d |-> 27, c |-> 3, L |-> 5, by |-> 18, scalars |-> {16, 24}],
            [p |-> 19, a |-> 1, d |-> 8, c |-> 2, L |-> 7, by |-> 8, scalars |-> {16, 20, 24}]},
   Monts |-> {[p |-> 29, a24 |-> 1, bits |-> 6, free |-> 3, strings |-> {5, 9, 19, 26}, shares |-> 0 .. 127],
              [p |-> 23, a24 |-> 4, bits |-> 6, free |-> 2, strings |-> {1, 5, 14, 29, 63}, shares |-> 0 .. 63]},
   Digests |-> {0, 5, 18, 19, 31}, Loose |-> {7, 17}]

\* Entries of the SCC, all with a value or some zero, and some that change without a Locality that names them.
Lst(k) == <<"lst", k>>
Data(k) == <<"data", k>>
Full == [j \in 0 .. 10 |-> Lst(j)]
Holes == [j \in 0 .. 10 |-> IF j \in {1, 2, 4, 7, 9} THEN Lst(j) ELSE <<"zero">>]
Header == [Machine |-> "x00", KeyType |-> 0, Transparent |-> 0, Locality |-> {}, AuxDataLen |-> 0, ADSDropped |-> 0,
           MachineUse |-> 0, AuxInfo |-> 0, State |-> 1, StateExtension |-> 0, Fixed |-> 0]
WithADS == [Header EXCEPT !.Machine = "x20", !.AuxDataLen = 3, !.MachineUse = 1, !.AuxInfo = 1]
ToySCC ==
  [Lockers |->
     {[mdh |-> [Header EXCEPT !.MachineUse = 1], c1 |-> <<Data(1)>>, c2 |-> <<>>],
      [mdh |-> [WithADS EXCEPT !.Locality = {0, 7}], c1 |-> <<Data(1), Data(2)>>, c2 |-> <<Data(3)>>],
      [mdh |-> [WithADS EXCEPT !.State = 2, !.Locality = {1, 3, 9}], c1 |-> <<Data(2), Data(2)>>, c2 |-> <<Data(4)>>],
      [mdh |-> [WithADS EXCEPT !.State = 2, !.Locality = {1, 3, 9}], c1 |-> <<Data(2), Data(2)>>, c2 |-> <<Data(5)>>],
      [mdh |-> [Header EXCEPT !.Machine = "x20", !.Transparent = 1, !.AuxDataLen = 4, !.State = 2, !.Locality = {2}],
       c1 |-> <<Data(2), Data(1)>>, c2 |-> <<Data(4), Data(4)>>],
      [mdh |-> [Header EXCEPT !.Machine = "x20", !.KeyType = 1, !.AuxDataLen = 2, !.AuxInfo = 1, !.Locality = {4, 8}],
       c1 |-> <<Data(2)>>, c2 |-> <<>>],
      [mdh |-> [Header EXCEPT !.State = 0, !.StateExtension = 4], c1 |-> <<>>, c2 |-> <<>>]},
   CSKs |-> {<<"csk", 1>>, <<"csk", 2>>}, Impqs |-> {<<"impq", 1>>, <<"impq", 2>>},
   LSTs |-> {Full, Holes, [Full EXCEPT ![0] = Lst(1)], [Holes EXCEPT ![2] = Lst(20), ![9] = Lst(20)]},
   Clears |-> {<<0, 0>>, <<1, 1>>}, Limits |-> {2, 3},
   Headers |-> {[field |-> "Machine", value |-> v] : v \in {"x00", "x20", "x30"}}
               \cup {[field |-> "AuxDataLen", value |-> v] : v \in 0 .. 4}
               \cup {[field |-> f, value |-> v] : f \in {"Transparent", "KeyType", "ADSDropped", "MachineUse", "AuxInfo", "Fixed"}, v \in {0, 1}}
               \cup {[field |-> "State", value |-> v] : v \in {0, 1, 2}} \cup {[field |-> "StateExtension", value |-> v] : v \in {0, 1, 6}}
               \cup {[field |-> "Locality", value |-> v] : v \in {0, 1, 48, 134}}]

Key(n, s) == [i \in 1 .. n |-> (s * i + 6 * s) % 256]
Box(a) == [rc \in {0, 1} \X {0, 1} |-> [v \in {<<0>>, <<1>>} |-> <<(rc[1] + v[1]) % 2, (a * rc[1] + rc[2] * v[1] + a) % 2>>]]
Keys8 == {<<0, 1, 1, 0, 1, 0, 0, 1>>, <<1, 1, 0, 0, 0, 1, 1, 0>>, <<0, 0, 1, 1, 1, 1, 0, 0>>}
ToyCiphers ==
  [SB |-> _SB, ISB |-> _ISB, AESKeys |-> {Key(16, 3), Key(24, 5), Key(32, 11)}, AESBlocks |-> {Key(16, 1), [i \in 1 .. 16 |-> 255]},
   SM4 |-> [T |-> [b \in BOOLEAN |-> [x \in 0 .. 7 |-> (IF b THEN 3 * x * x + 1 ELSE x * x * x + 5 * x + 6) % 8]],
            FK |-> <<3, 6, 1, 4>>, CK |-> <<0, 7, 5, 2, 1, 6>>],
   SM4Keys |-> {<<1, 2, 3, 4>>, <<7, 0, 5, 5>>}, SM4Blocks |-> [1 .. 4 -> {0, 3, 6}],
   DES |-> [IP |-> <<2, 6, 3, 1, 4, 8, 5, 7>>, E |-> <<4, 1, 2, 2, 3, 4>>, P |-> <<2, 4, 3, 1>>, PC1 |-> <<7, 5, 1, 3, 2, 6>>,
            PC2 |-> <<2, 1, 6, 3, 5, 4>>, SH |-> <<1, 1, 2, 1>>, S |-> <<Box(0), Box(1)>>],
   TDEAKeys |-> Keys8 \X Keys8 \X Keys8, TDEABlocks |-> {<<a, b, 1, 0, c, 0, 1, 1>> : a, b, c \in {0, 1}}]

\* Texts around the length of a block, and pairs whose padding could be confused.
ToyAEADs ==
  [Factors |-> {1, 2, 128, 77, 200}, Keys |-> {<<1, 2, 3, 0>>, <<3, 0, 2, 2>>}, Nonces |-> {<<1, 2, 3>>, <<3, 3>>, <<0, 2, 1, 3>>, <<2, 0, 0>>},
   AADs |-> {<<>>, <<0>>, <<1>>, <<1, 0>>, <<1, 2, 3, 0>>, <<1, 2, 3, 0, 1>>},
   Texts |-> {<<>>, <<0>>, <<2>>, <<2, 0>>, <<1, 2, 3, 0>>, <<1, 2, 3, 2>>, <<1, 2, 3, 0, 2>>, <<3, 2, 1, 0, 3, 2, 1>>}]
ToyHashes ==
  [Seeds |-> {0, 1, 2}, Rates |-> {3, 4}, Outputs |-> {1, 3, 4, 9}, Lengths |-> {0, 3, 239, 240},
   Messages |-> {<<>>, <<0>>, <<1>>, <<0, 0>>, <<0, 1>>, <<1, 0>>, <<1, 0, 0>>, <<0, 1, 1>>, <<0, 0, 1, 0>>, <<1, 1, 1, 1, 0>>},
   Strings |-> {<<>>, <<0>>, <<1>>, <<1, 0>>, <<2, 1, 0>>, <<0, 0, 0, 0>>},
   Blocks |-> {<<0, 0, 0, 0>>, <<1, 0, 1, 1>>}]
=============================================================================
