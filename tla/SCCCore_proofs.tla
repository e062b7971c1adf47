--------------------------- MODULE SCCCore_proofs ---------------------------
(***************************************************************************)
(* What scc_export and scc_import of scc_core.py promise, for every locker *)
(* and every value of the other constants of SCCCore.  An image that       *)
(* nothing changed comes back as the locker it was, without its ADS in an  *)
(* implementation that cannot take it; and whatever was changed, nothing   *)
(* else than the locker comes out, but an ADS that was exported beside the *)
(* same header and first part.                                             *)
(*                                                                         *)
(* The argument.  An image holds no tag but those that the exports made    *)
(* (IsImage), and no change makes one, as a tag takes the CSK.  All that a *)
(* tag covers can be read from it (TagsRead), so what verifies under a tag *)
(* is what that tag was made of (Genuine); what an import deciphers is     *)
(* what an export enciphered (CryptsBack), so an image as it was made      *)
(* verifies and gives the locker (Backs).                                  *)
(***************************************************************************)
EXTENDS SCCCore, TLAPS

-----------------------------------------------------------------------------
\* A sequence, over its own elements; the elements of two of them.
IsSeq(s) == s \in Seq({s[i] : i \in 1 .. Len(s)})
Either(s, t) == {s[i] : i \in 1 .. Len(s)} \cup {t[i] : i \in 1 .. Len(t)}

\* A sequence over any set is one over its own elements.
LEMMA IsSeqs ==
  ASSUME NEW S, NEW s \in Seq(S)
  PROVE  IsSeq(s)
  <1>1. \A i \in 1 .. Len(s) : s[i] \in {s[j] : j \in 1 .. Len(s)}
    OBVIOUS
  <1>2. s = [i \in 1 .. Len(s) |-> s[i]] /\ Len(s) \in Nat
    OBVIOUS
  <1> QED
    BY <1>1, <1>2 DEF IsSeq

\* A sequence over a set is one over any that holds its elements.
LEMMA Widened ==
  ASSUME NEW S, NEW T, NEW s \in Seq(S), \A i \in 1 .. Len(s) : s[i] \in T
  PROVE  s \in Seq(T)
  <1>1. s = [i \in 1 .. Len(s) |-> s[i]] /\ Len(s) \in Nat
    OBVIOUS
  <1> QED
    BY <1>1

\* A sequence is the function of its elements.
LEMMA SeqIs ==
  ASSUME NEW s, IsSeq(s)
  PROVE  Len(s) \in Nat /\ s = [i \in 1 .. Len(s) |-> s[i]]
  BY DEF IsSeq

\* Sequences of one length and with the same elements are the same.
LEMMA SameSeq ==
  ASSUME NEW S, NEW s \in Seq(S), NEW t \in Seq(S), Len(s) = Len(t), \A i \in 1 .. Len(s) : s[i] = t[i]
  PROVE  s = t
  OBVIOUS

\* Two sequences are over one set.
LEMMA Eithers ==
  ASSUME NEW s, NEW t, IsSeq(s), IsSeq(t)
  PROVE  s \in Seq(Either(s, t)) /\ t \in Seq(Either(s, t))
  <1>1. \A i \in 1 .. Len(s) : s[i] \in Either(s, t)
    BY DEF Either
  <1>2. \A i \in 1 .. Len(t) : t[i] \in Either(s, t)
    BY DEF Either
  <1> QED
    BY <1>1, <1>2, Widened DEF IsSeq

\* What Upto and From take from a sequence.
LEMMA Cuts ==
  ASSUME NEW S, NEW s \in Seq(S), NEW n \in Nat
  PROVE  /\ Upto(s, n) \in Seq(S) /\ Len(Upto(s, n)) = Least(n, Len(s)) /\ \A i \in 1 .. Least(n, Len(s)) : Upto(s, n)[i] = s[i]
         /\ From(s, n) \in Seq(S) /\ Len(From(s, n)) = Len(s) - Least(n, Len(s))
         /\ \A i \in 1 .. Len(s) - Least(n, Len(s)) : From(s, n)[i] = s[Least(n, Len(s)) + i]
         /\ Least(n, Len(s)) \in 0 .. Len(s)
  <1>1. Least(n, Len(s)) \in 0 .. Len(s) /\ Len(s) \in Nat /\ Least(n, Len(s)) \in Nat
    BY DEF Least
  <1>2. /\ Upto(s, n) \in Seq(S) /\ Len(Upto(s, n)) = Least(n, Len(s))
        /\ \A i \in 1 .. Least(n, Len(s)) : Upto(s, n)[i] = s[i]
    BY <1>1 DEF Upto
  <1>3. CASE n <= Len(s)
    <2>1. Least(n, Len(s)) = n
      BY <1>3 DEF Least
    <2>2. From(s, n) \in Seq(S) /\ Len(From(s, n)) = Len(s) - n
      BY <1>1, <1>3 DEF From
    <2>3. \A i \in 1 .. Len(s) - n : From(s, n)[i] = s[n + i]
      BY <1>1, <1>3 DEF From
    <2> QED
      BY <1>1, <1>2, <2>1, <2>2, <2>3
  <1>4. CASE n > Len(s)
    <2>1. Least(n, Len(s)) = Len(s)
      BY <1>1, <1>4 DEF Least
    <2>2. From(s, n) \in Seq(S) /\ Len(From(s, n)) = 0
      BY <1>1, <1>4 DEF From
    <2> QED
      BY <1>1, <1>2, <2>1, <2>2
  <1> QED
    BY <1>1, <1>3, <1>4

\* A sequence cut in two and put together again.
LEMMA Joins ==
  ASSUME NEW S, NEW s \in Seq(S), NEW n \in Nat
  PROVE  Upto(s, n) \o From(s, n) = s
  <1> DEFINE c == Least(n, Len(s))
             u == Upto(s, n)
             f == From(s, n)
  <1>1. /\ u \in Seq(S) /\ Len(u) = c /\ \A i \in 1 .. c : u[i] = s[i]
        /\ f \in Seq(S) /\ Len(f) = Len(s) - c /\ \A i \in 1 .. Len(s) - c : f[i] = s[c + i]
        /\ c \in 0 .. Len(s)
    BY Cuts
  <1> HIDE DEF c, u, f
  <1>2. u \o f \in Seq(S) /\ Len(u \o f) = Len(s)
    BY <1>1
  <1>3. ASSUME NEW i \in 1 .. Len(s) PROVE (u \o f)[i] = s[i]
    <2>1. CASE i <= c
      BY <1>1, <2>1
    <2>2. CASE i > c
      <3>1. i - c \in 1 .. Len(s) - c /\ c + (i - c) = i
        BY <1>1, <2>2
      <3>2. f[i - c] = s[i]
        BY <1>1, <3>1
      <3> QED
        BY <1>1, <2>2, <3>1, <3>2
    <2> QED
      BY <1>1, <2>1, <2>2
  <1>4. u \o f = s
    BY <1>2, <1>3, SameSeq
  <1> QED
    BY <1>4 DEF u, f

\* Two sequences put together, and cut where they meet.
LEMMA Partings ==
  ASSUME NEW S, NEW a \in Seq(S), NEW b \in Seq(S), NEW n \in Nat, n = Len(a)
  PROVE  Upto(a \o b, n) = a /\ From(a \o b, n) = b
  <1> DEFINE s == a \o b
  <1>1. s \in Seq(S) /\ Len(s) = Len(a) + Len(b) /\ (\A i \in 1 .. Len(a) : s[i] = a[i]) /\ \A i \in 1 .. Len(b) : s[Len(a) + i] = b[i]
    OBVIOUS
  <1> HIDE DEF s
  <1>2. Least(n, Len(s)) = n /\ Len(s) - n = Len(b)
    BY <1>1 DEF Least
  <1>3. /\ Upto(s, n) \in Seq(S) /\ Len(Upto(s, n)) = n /\ (\A i \in 1 .. n : Upto(s, n)[i] = s[i])
        /\ From(s, n) \in Seq(S) /\ Len(From(s, n)) = Len(b) /\ \A i \in 1 .. Len(b) : From(s, n)[i] = s[n + i]
    <2> DEFINE c == Least(n, Len(s))
    <2>1. s \in Seq(S)
      BY <1>1
    <2>2. /\ Upto(s, n) \in Seq(S) /\ Len(Upto(s, n)) = c /\ (\A i \in 1 .. c : Upto(s, n)[i] = s[i])
          /\ From(s, n) \in Seq(S) /\ Len(From(s, n)) = Len(s) - c /\ \A i \in 1 .. Len(s) - c : From(s, n)[i] = s[c + i]
      BY <2>1, Cuts
    <2>3. c = n
      BY <1>2
    <2> HIDE DEF c
    <2> QED
      BY <1>2, <2>2, <2>3
  <1>4. Upto(s, n) = a
    BY <1>1, <1>3
  <1>5. From(s, n) = b
    BY <1>1, <1>3
  <1> QED
    BY <1>4, <1>5 DEF s

\* What is between two cuts.
LEMMA Slices ==
  ASSUME NEW S, NEW h \in Seq(S), NEW a \in Seq(S), NEW b \in Seq(S), NEW o \in Nat, NEW n \in Nat, o = Len(h), n = Len(a)
  PROVE  Slice(h \o a \o b, o, n) = a
  <1>1. h \o a \in Seq(S) /\ Len(h \o a) = o + n /\ o + n \in Nat
    OBVIOUS
  <1>2. Upto((h \o a) \o b, o + n) = h \o a
    BY <1>1, Partings
  <1>3. From(h \o a, o) = a
    BY Partings
  <1> QED
    BY <1>2, <1>3 DEF Slice

\* A Slice is a sequence, and no longer than was asked.
LEMMA SlicesAre ==
  ASSUME NEW S, NEW s \in Seq(S), NEW o \in Nat, NEW n \in Nat
  PROVE  Slice(s, o, n) \in Seq(S) /\ Len(Slice(s, o, n)) \in 0 .. n
  <1>1. Upto(s, o + n) \in Seq(S) /\ Len(Upto(s, o + n)) = Least(o + n, Len(s)) /\ o + n \in Nat
    <2>1. o + n \in Nat
      OBVIOUS
    <2> QED
      BY <2>1, Cuts
  <1>2. /\ Slice(s, o, n) \in Seq(S)
        /\ Len(Slice(s, o, n)) = Len(Upto(s, o + n)) - Least(o, Len(Upto(s, o + n)))
    BY <1>1, Cuts DEF Slice
  <1> QED
    BY <1>1, <1>2 DEF Least

\* A part whose first n blocks stay and whose others change.
LEMMA Mixtures ==
  ASSUME NEW S, NEW s \in Seq(S), NEW n \in Nat, NEW t \in Seq(S), Len(t) = Len(From(s, n))
  PROVE  LET b == Upto(s, n) \o t IN b \in Seq(S) /\ Len(b) = Len(s) /\ Upto(b, n) = Upto(s, n) /\ From(b, n) = t
  <1> DEFINE c == Least(n, Len(s))
             u == Upto(s, n)
             b == u \o t
  <1>1. u \in Seq(S) /\ Len(u) = c /\ Len(t) = Len(s) - c /\ c \in 0 .. Len(s) /\ From(s, n) \in Seq(S)
    BY Cuts
  <1>2. b \in Seq(S) /\ Len(b) = Len(s)
    BY <1>1
  <1>3. Least(n, Len(b)) = c
    BY <1>2
  <1>4. Upto(b, c) = u /\ From(b, c) = t
    BY <1>1, Partings
  <1>5. Upto(b, n) = Upto(b, c)
    <2>1. Least(c, Len(b)) = c
      BY <1>1, <1>2 DEF Least
    <2> QED
      BY <1>3, <2>1 DEF Upto
  <1>6. From(b, n) = From(b, c)
    <2>1. CASE n <= Len(b)
      BY <1>2, <2>1 DEF Least
    <2>2. CASE n > Len(b)
      <3>1. c = Len(b) /\ Len(b) \in Nat
        BY <1>2, <2>2 DEF Least
      <3>2. From(b, n) \in Seq(S) /\ Len(From(b, n)) = 0 /\ From(b, c) \in Seq(S) /\ Len(From(b, c)) = 0
        <4>1. Least(n, Len(b)) = Len(b) /\ Least(c, Len(b)) = Len(b)
          BY <2>2, <3>1 DEF Least
        <4>2. b \in Seq(S) /\ c \in Nat
          BY <1>2, <3>1
        <4>3. From(b, n) \in Seq(S) /\ Len(From(b, n)) = Len(b) - Len(b)
          BY <4>1, <4>2, Cuts
        <4>4. From(b, c) \in Seq(S) /\ Len(From(b, c)) = Len(b) - Len(b)
          BY <4>1, <4>2, Cuts
        <4> QED
          BY <3>1, <4>3, <4>4
      <3> QED
        BY <3>2
    <2> QED
      BY <1>2, <2>1, <2>2
  <1> QED
    BY <1>2, <1>4, <1>5, <1>6

\* Two sequences put together are a sequence.
LEMMA Joined ==
  ASSUME NEW a, NEW b, IsSeq(a), IsSeq(b)
  PROVE  IsSeq(a \o b) /\ Len(a \o b) = Len(a) + Len(b)
  <1>1. a \in Seq(Either(a, b)) /\ b \in Seq(Either(a, b))
    BY Eithers
  <1>2. a \o b \in Seq(Either(a, b)) /\ Len(a \o b) = Len(a) + Len(b)
    BY <1>1
  <1> QED
    BY <1>2, IsSeqs

\* Three sequences can be put together from either end.
LEMMA Associated ==
  ASSUME NEW a, NEW b, NEW c, IsSeq(a), IsSeq(b), IsSeq(c)
  PROVE  a \o b \o c = a \o (b \o c)
  <1> DEFINE S == Either(a, b) \cup {c[i] : i \in 1 .. Len(c)}
  <1>1. a \in Seq(S) /\ b \in Seq(S) /\ c \in Seq(S)
    <2>1. a \in Seq(Either(a, b)) /\ b \in Seq(Either(a, b)) /\ c \in Seq({c[i] : i \in 1 .. Len(c)})
      BY Eithers DEF IsSeq
    <2>2. (\A x \in Either(a, b) : x \in S) /\ \A x \in {c[i] : i \in 1 .. Len(c)} : x \in S
      OBVIOUS
    <2> HIDE DEF S
    <2> QED
      BY <2>1, <2>2, Widened
  <1> HIDE DEF S
  <1> QED
    BY <1>1

\* Where the three parts of a sequence are in it.
LEMMA Three ==
  ASSUME NEW h, NEW a, NEW b, IsSeq(h), IsSeq(a), IsSeq(b)
  PROVE  LET s == h \o a \o b IN
         /\ IsSeq(s) /\ Len(s) = Len(h) + Len(a) + Len(b)
         /\ \A i \in 1 .. Len(h) : s[i] = h[i]
         /\ \A i \in 1 .. Len(a) : s[Len(h) + i] = a[i]
         /\ \A i \in 1 .. Len(b) : s[Len(h) + Len(a) + i] = b[i]
         /\ Slice(s, Len(h), Len(a)) = a
         /\ Slice(s, Len(h) + Len(a), Len(b)) = b
  <1> DEFINE S == Either(h, a) \cup {b[i] : i \in 1 .. Len(b)}
             g == h \o a
             s == g \o b
  <1>1. h \in Seq(S) /\ a \in Seq(S) /\ b \in Seq(S)
    <2>1. h \in Seq(Either(h, a)) /\ a \in Seq(Either(h, a)) /\ b \in Seq({b[i] : i \in 1 .. Len(b)})
      BY Eithers DEF IsSeq
    <2>2. (\A x \in Either(h, a) : x \in S) /\ \A x \in {b[i] : i \in 1 .. Len(b)} : x \in S
      OBVIOUS
    <2> HIDE DEF S
    <2> QED
      BY <2>1, <2>2, Widened
  <1> HIDE DEF S
  <1>2. /\ g \in Seq(S) /\ Len(g) = Len(h) + Len(a) /\ Len(h) \in Nat /\ Len(a) \in Nat /\ Len(b) \in Nat
        /\ (\A i \in 1 .. Len(h) : g[i] = h[i]) /\ \A i \in 1 .. Len(a) : g[Len(h) + i] = a[i]
    BY <1>1
  <1> HIDE DEF g
  <1>3. /\ s \in Seq(S) /\ Len(s) = Len(g) + Len(b)
        /\ (\A i \in 1 .. Len(g) : s[i] = g[i]) /\ \A i \in 1 .. Len(b) : s[Len(g) + i] = b[i]
    <2>1. g \in Seq(S) /\ b \in Seq(S)
      BY <1>1, <1>2
    <2> QED
      BY <2>1
  <1>4. Slice(s, Len(h), Len(a)) = a
    BY <1>1, <1>2, Slices DEF g
  <1>5. Slice(s, Len(g), Len(b)) = b
    <2>1. <<>> \in Seq(S) /\ s \o <<>> = s /\ Len(g) \in Nat
      BY <1>2, <1>3
    <2>2. Slice(g \o b \o <<>>, Len(g), Len(b)) = b
      <3> DEFINE z == <<>>
      <3>1. g \in Seq(S) /\ b \in Seq(S) /\ z \in Seq(S) /\ Len(g) \in Nat /\ Len(b) \in Nat
        BY <1>1, <1>2, <2>1
      <3> HIDE DEF z
      <3>2. Slice(g \o b \o z, Len(g), Len(b)) = b
        BY <3>1, Slices
      <3> QED
        BY <3>2 DEF z
    <2> QED
      BY <2>1, <2>2
  <1> HIDE DEF s
  <1>6. \A i \in 1 .. Len(h) : s[i] = h[i]
    BY <1>2, <1>3
  <1>7. ASSUME NEW i \in 1 .. Len(a) PROVE s[Len(h) + i] = a[i]
    <2>1. Len(h) + i \in 1 .. Len(g)
      BY <1>2
    <2> QED
      BY <1>2, <1>3, <2>1
  <1>8. IsSeq(s)
    BY <1>3, IsSeqs
  <1> QED
    BY <1>2, <1>3, <1>4, <1>5, <1>6, <1>7, <1>8 DEF s, g

\* The tuples that images and tags start with are sequences.
LEMMA Tuples ==
  ASSUME NEW a, NEW b
  PROVE  IsSeq(<<>>) /\ IsSeq(<<a, b>>) /\ \A c, d : IsSeq(<<a, b, c, d>>)
  <1>1. <<>> \in Seq({a, b}) /\ <<a, b>> \in Seq({a, b})
    OBVIOUS
  <1>2. ASSUME NEW c, NEW d PROVE IsSeq(<<a, b, c, d>>)
    <2>1. <<a, b, c, d>> \in Seq({a, b, c, d})
      OBVIOUS
    <2> QED
      BY <2>1, IsSeqs
  <1> QED
    BY <1>1, <1>2, IsSeqs

-----------------------------------------------------------------------------
\* The cipher, a block at a time.
LEMMA Crypts ==
  ASSUME NEW S, NEW X \in Seq(S), NEW sep, NEW siv, NEW K
  PROVE  /\ IsSeq(Crypt(X, sep, siv, K)) /\ Len(Crypt(X, sep, siv, K)) = Len(X)
         /\ \A i \in 1 .. Len(X) : Crypt(X, sep, siv, K)[i] = Xor(X[i], _ctr(sep, siv, i - 1, K))
  <1> DEFINE C == Crypt(X, sep, siv, K)
  <1>1. C = [i \in 1 .. Len(X) |-> Xor(X[i], _ctr(sep, siv, i - 1, K))] /\ Len(X) \in Nat
    BY DEF Crypt
  <1> HIDE DEF C
  <1>2. \A i \in 1 .. Len(X) : C[i] \in {C[j] : j \in 1 .. Len(X)}
    OBVIOUS
  <1>3. C \in Seq({C[j] : j \in 1 .. Len(X)}) /\ Len(C) = Len(X)
    BY <1>1, <1>2
  <1> QED
    BY <1>1, <1>3, IsSeqs DEF C

\* The same of a sequence over its own elements.
LEMMA CryptSeq ==
  ASSUME NEW X, IsSeq(X), NEW sep, NEW siv, NEW K
  PROVE  IsSeq(Crypt(X, sep, siv, K)) /\ Len(Crypt(X, sep, siv, K)) = Len(X)
  <1>1. X \in Seq({X[i] : i \in 1 .. Len(X)})
    BY DEF IsSeq
  <1> QED
    BY <1>1, Crypts

\* What was enciphered is deciphered.
LEMMA CryptsBack ==
  ASSUME NEW S, NEW X \in Seq(S), \A i \in 1 .. Len(X) : IsPlain(X[i]), NEW sep, NEW siv, NEW K
  PROVE  Crypt(Crypt(X, sep, siv, K), sep, siv, K) = X
  <1> DEFINE C == Crypt(X, sep, siv, K)
             s(i) == _ctr(sep, siv, i - 1, K)
  <1>1. IsSeq(C) /\ Len(C) = Len(X) /\ \A i \in 1 .. Len(X) : C[i] = Xor(X[i], s(i))
    BY Crypts
  <1>2. \A i \in 1 .. Len(X) : C[i] = <<"xor", X[i], s(i)>>
    BY <1>1 DEF Xor, IsPlain
  <1>3. C \in Seq({C[i] : i \in 1 .. Len(C)})
    BY <1>1 DEF IsSeq
  <1> HIDE DEF C, s
  <1>4. IsSeq(Crypt(C, sep, siv, K)) /\ Len(Crypt(C, sep, siv, K)) = Len(X) /\ \A i \in 1 .. Len(X) : Crypt(C, sep, siv, K)[i] = Xor(C[i], s(i))
    BY <1>1, <1>3, Crypts DEF s
  <1>5. \A i \in 1 .. Len(X) : Xor(C[i], s(i)) = X[i]
    BY <1>2 DEF Xor
  <1>6. Crypt(C, sep, siv, K) = X
    BY <1>4, <1>5 DEF IsSeq
  <1> QED
    BY <1>6 DEF C

\* A content enciphered after its first n blocks, and deciphered.
Sealed(c, n, sep, siv, K) == Upto(c, n) \o Crypt(From(c, n), sep, siv, K)
LEMMA Sealing ==
  ASSUME NEW c, IsContent(c), NEW n \in Nat, NEW sep, NEW siv, NEW K
  PROVE  LET A == Sealed(c, n, sep, siv, K) IN
         /\ IsSeq(A) /\ Len(A) = Len(c) /\ Upto(A, n) = Upto(c, n) /\ Sealed(A, n, sep, siv, K) = c
         /\ \A i \in 1 .. Len(A) : A[i][1] # "siv"
  <1> DEFINE S == {c[i] : i \in 1 .. Len(c)}
             u == Upto(c, n)
             f == From(c, n)
             t == Crypt(f, sep, siv, K)
             T == S \cup Either(u, t)
             A == u \o t
  <1>1. c \in Seq(S) /\ \A i \in 1 .. Len(c) : IsPlain(c[i])
    BY DEF IsContent
  <1>2. /\ u \in Seq(S) /\ Len(u) = Least(n, Len(c)) /\ \A i \in 1 .. Least(n, Len(c)) : u[i] = c[i]
        /\ f \in Seq(S) /\ Len(f) = Len(c) - Least(n, Len(c))
        /\ \A i \in 1 .. Len(c) - Least(n, Len(c)) : f[i] = c[Least(n, Len(c)) + i]
        /\ Least(n, Len(c)) \in 0 .. Len(c)
    BY <1>1, Cuts
  <1>3. (\A i \in 1 .. Len(u) : IsPlain(u[i])) /\ \A i \in 1 .. Len(f) : IsPlain(f[i])
    <2> DEFINE k == Least(n, Len(c))
    <2> HIDE DEF S, u, f, k
    <2>1. Len(c) \in Nat /\ k \in 0 .. Len(c) /\ Len(u) = k /\ (\A i \in 1 .. k : u[i] = c[i])
          /\ Len(f) = Len(c) - k /\ \A i \in 1 .. Len(c) - k : f[i] = c[k + i]
      BY <1>1, <1>2 DEF k
    <2>2. ASSUME NEW i \in 1 .. Len(u) PROVE IsPlain(u[i])
      <3>1. i \in 1 .. Len(c) /\ u[i] = c[i]
        BY <2>1
      <3> QED
        BY <1>1, <3>1
    <2>3. ASSUME NEW i \in 1 .. Len(f) PROVE IsPlain(f[i])
      <3>1. k + i \in 1 .. Len(c) /\ f[i] = c[k + i]
        BY <2>1
      <3> QED
        BY <1>1, <3>1
    <2> QED
      BY <2>2, <2>3
  <1>4. IsSeq(t) /\ Len(t) = Len(f) /\ \A i \in 1 .. Len(f) : t[i] = Xor(f[i], _ctr(sep, siv, i - 1, K))
    BY <1>2, Crypts
  <1>5. Crypt(t, sep, siv, K) = f
    BY <1>2, <1>3, CryptsBack
  <1>6. IsSeq(u)
    BY <1>2, IsSeqs
  <1>7. u \in Seq(T) /\ t \in Seq(T) /\ c \in Seq(T)
    <2>1. u \in Seq(Either(u, t)) /\ t \in Seq(Either(u, t))
      BY <1>4, <1>6, Eithers
    <2>2. \A x \in Either(u, t) : x \in T
      OBVIOUS
    <2>3. \A x \in S : x \in T
      OBVIOUS
    <2> HIDE DEF T, t, u, S
    <2>4. (\A i \in 1 .. Len(u) : u[i] \in T) /\ (\A i \in 1 .. Len(t) : t[i] \in T) /\ \A i \in 1 .. Len(c) : c[i] \in T
      BY <1>1, <2>1, <2>2, <2>3
    <2> QED
      BY <1>1, <2>1, <2>4, Widened
  <1> HIDE DEF T, t, u, f, S
  <1>8. A \in Seq(T) /\ Len(A) = Len(c) /\ Upto(A, n) = u /\ From(A, n) = t
    BY <1>4, <1>7, Mixtures DEF u, f
  <1>9. u \o f = c
    BY <1>1, Joins DEF u, f
  <1>10. ASSUME NEW i \in 1 .. Len(A) PROVE A[i][1] # "siv"
    <2>1. Len(A) = Len(u) + Len(t) /\ Len(u) \in Nat /\ Len(t) \in Nat
      BY <1>7
    <2>2. CASE i <= Len(u)
      <3>1. A[i] = u[i] /\ i \in 1 .. Len(u)
        BY <1>7, <2>1, <2>2
      <3> QED
        BY <1>3, <3>1 DEF IsPlain
    <2>3. CASE i > Len(u)
      <3>1. A[i] = t[i - Len(u)] /\ i - Len(u) \in 1 .. Len(t)
        BY <1>7, <2>1, <2>3
      <3>2. t[i - Len(u)] = <<"xor", f[i - Len(u)], _ctr(sep, siv, (i - Len(u)) - 1, K)>>
        BY <1>3, <1>4, <3>1 DEF Xor, IsPlain
      <3> QED
        BY <3>1, <3>2
    <2> QED
      BY <2>1, <2>2, <2>3
  <1>11. IsSeq(A)
    BY <1>8, IsSeqs
  <1>12. Sealed(c, n, sep, siv, K) = A /\ Sealed(A, n, sep, siv, K) = u \o Crypt(t, sep, siv, K)
    BY <1>8 DEF Sealed, u, t, f
  <1> QED
    BY <1>5, <1>8, <1>9, <1>10, <1>11, <1>12 DEF u

-----------------------------------------------------------------------------
\* The tags: all that they cover can be read from them.
LEMMA Firsts ==
  ASSUME NEW u, NEW p, IsSeq(u), IsSeq(p), NEW a, NEW b, NEW v
  PROVE  [(<<a, b>> \o u) EXCEPT ![1] = v] \o p = <<v, b>> \o (u \o p)
  <1> DEFINE S == Either(u, p) \cup {a, b, v}
  <1>1. u \in Seq(S) /\ p \in Seq(S)
    <2>1. u \in Seq(Either(u, p)) /\ p \in Seq(Either(u, p))
      BY Eithers
    <2>2. \A x \in Either(u, p) : x \in S
      OBVIOUS
    <2> HIDE DEF S
    <2> QED
      BY <2>1, <2>2, Widened
  <1>2. a \in S /\ b \in S /\ v \in S
    OBVIOUS
  <1> HIDE DEF S
  <1> DEFINE h == <<a, b>> \o u
             g == [h EXCEPT ![1] = v]
  <1>3. h \in Seq(S) /\ Len(h) = Len(u) + 2 /\ h[2] = b /\ \A i \in 1 .. Len(u) : h[i + 2] = u[i]
    BY <1>1, <1>2
  <1> HIDE DEF h
  <1>4. g \in Seq(S) /\ Len(g) = Len(u) + 2 /\ g[1] = v /\ g[2] = b /\ \A i \in 1 .. Len(u) : g[i + 2] = u[i]
    <2>1. Len(u) \in Nat
      BY <1>1
    <2>2. g \in Seq(S) /\ Len(g) = Len(h) /\ g[1] = v /\ \A i \in 1 .. Len(h) : i # 1 => g[i] = h[i]
      BY <1>2, <1>3, <2>1
    <2> QED
      BY <1>3, <2>1, <2>2
  <1> HIDE DEF g
  <1>5. g = <<v, b>> \o u
    <2>1. <<v, b>> \o u \in Seq(S) /\ Len(<<v, b>> \o u) = Len(u) + 2 /\ (<<v, b>> \o u)[1] = v /\ (<<v, b>> \o u)[2] = b
          /\ \A i \in 1 .. Len(u) : (<<v, b>> \o u)[i + 2] = u[i]
      BY <1>1, <1>2
    <2>2. ASSUME NEW i \in 1 .. Len(g) PROVE g[i] = (<<v, b>> \o u)[i]
      <3>1. Len(u) \in Nat
        BY <1>1
      <3>2. CASE i > 2
        <4>1. i - 2 \in 1 .. Len(u) /\ (i - 2) + 2 = i
          BY <1>4, <3>1, <3>2
        <4> QED
          BY <1>4, <2>1, <4>1
      <3>3. CASE i = 1 \/ i = 2
        BY <1>4, <2>1, <3>3
      <3> QED
        BY <1>4, <3>1, <3>2, <3>3
    <2> QED
      BY <1>4, <2>1, <2>2, SameSeq
  <1>6. (<<v, b>> \o u) \o p = <<v, b>> \o (u \o p)
    BY <1>1, <1>2
  <1> QED
    BY <1>5, <1>6 DEF g, h

\* The first two blocks of a sequence, and the rest, can be read from it.
LEMMA Reading ==
  ASSUME NEW s, NEW t, IsSeq(s), IsSeq(t), NEW a, NEW b, NEW c, NEW d, <<a, b>> \o s = <<c, d>> \o t
  PROVE  a = c /\ b = d /\ s = t
  <1> DEFINE S == Either(s, t) \cup {a, b, c, d}
             l == <<a, b>> \o s
             r == <<c, d>> \o t
  <1>1. s \in Seq(S) /\ t \in Seq(S)
    <2>1. s \in Seq(Either(s, t)) /\ t \in Seq(Either(s, t))
      BY Eithers
    <2>2. \A x \in Either(s, t) : x \in S
      OBVIOUS
    <2> HIDE DEF S
    <2> QED
      BY <2>1, <2>2, Widened
  <1>2. a \in S /\ b \in S /\ c \in S /\ d \in S
    OBVIOUS
  <1> HIDE DEF S
  <1>3. l \in Seq(S) /\ Len(l) = Len(s) + 2 /\ l[1] = a /\ l[2] = b /\ \A i \in 1 .. Len(s) : l[i + 2] = s[i]
    BY <1>1, <1>2
  <1>4. r \in Seq(S) /\ Len(r) = Len(t) + 2 /\ r[1] = c /\ r[2] = d /\ \A i \in 1 .. Len(t) : r[i + 2] = t[i]
    BY <1>1, <1>2
  <1>5. l = r
    OBVIOUS
  <1> HIDE DEF l, r
  <1>6. Len(s) = Len(t) /\ a = c /\ b = d
    BY <1>1, <1>3, <1>4, <1>5
  <1>7. \A i \in 1 .. Len(s) : s[i] = t[i]
    BY <1>3, <1>4, <1>5, <1>6
  <1> QED
    BY <1>1, <1>6, <1>7, SameSeq

\* The entries that a tag is over; the SIV of a locker's first part, and of its ADS.
Entries(f, lst) == scc_ad(f, lst)[2]
SealOne(L, e) == <<"siv", e.csk, 0, <<Undropped(Block(L.mdh)), Entries(L.mdh, e.lst)>> \o L.c1>>
SealTwo(L, e) == <<"siv", e.csk, 1, <<e.impq, SealOne(L, e)>> \o L.c2>>

\* The tag over a header, entries and a content, wherever the content is cut in two.
LEMMA TagOne ==
  ASSUME NEW u, NEW p, IsSeq(u), IsSeq(p), NEW f, NEW lst, NEW K
  PROVE  Tag(scc_ad(f, lst) \o u, 0, p, K) = <<"siv", K, 0, <<Undropped(Block(f)), Entries(f, lst)>> \o (u \o p)>>
  <1> DEFINE a == Block(f)
             b == Entries(f, lst)
             h == <<a, b>> \o u
             v == Undropped(a)
  <1>1. scc_ad(f, lst) = <<a, b>>
    BY DEF scc_ad, Entries
  <1>2. h[1] = a
    BY DEF IsSeq
  <1> HIDE DEF a, b
  <1>3. [h EXCEPT ![1] = v] \o p = <<v, b>> \o (u \o p)
    BY Firsts
  <1>4. [h EXCEPT ![1] = IF 0 = 0 THEN Undropped(@) ELSE @] = [h EXCEPT ![1] = v]
    BY <1>2
  <1> HIDE DEF h, v
  <1>5. Tag(h, 0, p, K) = <<"siv", K, 0, [h EXCEPT ![1] = v] \o p>>
    BY <1>4 DEF Tag
  <1> QED
    BY <1>1, <1>3, <1>5 DEF h, v, a, b

\* The tag of an ADS, wherever the ADS is cut in two.
LEMMA TagTwo ==
  ASSUME NEW u, NEW p, IsSeq(u), IsSeq(p), NEW q, NEW siv, NEW K
  PROVE  Tag(OfThisContent(q, siv) \o u, 1, p, K) = <<"siv", K, 1, <<q, siv>> \o (u \o p)>>
  <1> DEFINE h == <<q, siv>> \o u
  <1>1. h[1] = q
    BY DEF IsSeq
  <1>2. [h EXCEPT ![1] = q] \o p = <<q, siv>> \o (u \o p)
    BY Firsts
  <1>3. [h EXCEPT ![1] = IF 1 = 0 THEN Undropped(@) ELSE @] = [h EXCEPT ![1] = q]
    BY <1>1
  <1>4. OfThisContent(q, siv) \o u = h
    BY DEF OfThisContent
  <1> HIDE DEF h
  <1>5. Tag(h, 1, p, K) = <<"siv", K, 1, [h EXCEPT ![1] = q] \o p>>
    BY <1>3 DEF Tag
  <1> QED
    BY <1>2, <1>4, <1>5

\* An image without what its header is.
IsError(L) == L.mdh.State = 0 /\ L.mdh.StateExtension \in 1 .. 6
PartOne(L, e, clear) == Sealed(L.c1, ClearOf(L.mdh, clear, L.c1, L.c2)[1], 0, SealOne(L, e), e.csk)
PartTwo(L, e, clear) == Sealed(L.c2, ClearOf(L.mdh, clear, L.c1, L.c2)[2], 1, SealTwo(L, e), e.csk)
Front(b, L, e) == IF L.mdh.AuxDataLen < 2 THEN <<b, SealOne(L, e)>> ELSE <<b, SealOne(L, e), e.impq, SealTwo(L, e)>>
ImageOf(b, L, e, clear) == Front(b, L, e) \o PartOne(L, e, clear) \o PartTwo(L, e, clear)

\* The blocks of a locker that stay in clear are numbers.
LEMMA ClearNat ==
  ASSUME NEW L, IsLocker(L), NEW clear \in Nat \X Nat
  PROVE  LET n == ClearOf(L.mdh, clear, L.c1, L.c2) IN n[1] \in Nat /\ n[2] \in Nat
  <1>1. Len(L.c1) \in Nat /\ Len(L.c2) \in Nat
    BY DEF IsLocker, IsContent
  <1>2. clear[1] \in Nat /\ clear[2] \in Nat
    OBVIOUS
  <1> QED
    BY <1>1, <1>2 DEF ClearOf, scc_clearlen1

\* A content cut in two.
LEMMA Contents ==
  ASSUME NEW c, IsContent(c), NEW n \in Nat
  PROVE  IsSeq(Upto(c, n)) /\ IsSeq(From(c, n)) /\ Upto(c, n) \o From(c, n) = c
  BY Cuts, Joins, IsSeqs DEF IsContent

\* What scc_encrypt makes of the first part of a locker.
LEMMA EncryptOne ==
  ASSUME NEW L, NEW e, IsContent(L.c1), NEW n \in Nat
  PROVE  LET one == scc_encrypt(scc_ad(L.mdh, e.lst) \o Upto(L.c1, n), 0, From(L.c1, n), e.csk) IN
         one.siv = SealOne(L, e) /\ Upto(L.c1, n) \o one.C = Sealed(L.c1, n, 0, SealOne(L, e), e.csk)
  <1>1. IsSeq(Upto(L.c1, n)) /\ IsSeq(From(L.c1, n)) /\ Upto(L.c1, n) \o From(L.c1, n) = L.c1
    BY Contents
  <1>2. Tag(scc_ad(L.mdh, e.lst) \o Upto(L.c1, n), 0, From(L.c1, n), e.csk) = SealOne(L, e)
    BY <1>1, TagOne DEF SealOne
  <1> QED
    BY <1>2 DEF scc_encrypt, Sealed

\* What scc_encrypt makes of the ADS of a locker.
LEMMA EncryptTwo ==
  ASSUME NEW L, NEW e, IsContent(L.c2), NEW n \in Nat
  PROVE  LET two == scc_encrypt(OfThisContent(e.impq, SealOne(L, e)) \o Upto(L.c2, n), 1, From(L.c2, n), e.csk) IN
         two.siv = SealTwo(L, e) /\ Upto(L.c2, n) \o two.C = Sealed(L.c2, n, 1, SealTwo(L, e), e.csk)
  <1>1. IsSeq(Upto(L.c2, n)) /\ IsSeq(From(L.c2, n)) /\ Upto(L.c2, n) \o From(L.c2, n) = L.c2
    BY Contents
  <1>2. Tag(OfThisContent(e.impq, SealOne(L, e)) \o Upto(L.c2, n), 1, From(L.c2, n), e.csk) = SealTwo(L, e)
    BY <1>1, TagTwo DEF SealTwo
  <1> QED
    BY <1>2 DEF scc_encrypt, Sealed

\* The two parts of an image, and what each is made of.
LEMMA PartsAre ==
  ASSUME NEW L, IsLocker(L), NEW clear \in Nat \X Nat, NEW e
  PROVE  LET n == ClearOf(L.mdh, clear, L.c1, L.c2)
             A == PartOne(L, e, clear)
             B == PartTwo(L, e, clear)
         IN /\ IsSeq(A) /\ Len(A) = Len(L.c1) /\ Upto(A, n[1]) = Upto(L.c1, n[1]) /\ Sealed(A, n[1], 0, SealOne(L, e), e.csk) = L.c1
            /\ IsSeq(B) /\ Len(B) = Len(L.c2) /\ Upto(B, n[2]) = Upto(L.c2, n[2]) /\ Sealed(B, n[2], 1, SealTwo(L, e), e.csk) = L.c2
            /\ \A i \in 1 .. Len(A) : A[i][1] # "siv"
            /\ \A i \in 1 .. Len(B) : B[i][1] # "siv"
  <1> DEFINE n == ClearOf(L.mdh, clear, L.c1, L.c2)
  <1>1. n[1] \in Nat /\ n[2] \in Nat /\ IsContent(L.c1) /\ IsContent(L.c2)
    BY ClearNat DEF IsLocker
  <1> HIDE DEF n
  <1>2. LET A == Sealed(L.c1, n[1], 0, SealOne(L, e), e.csk) IN
        /\ IsSeq(A) /\ Len(A) = Len(L.c1) /\ Upto(A, n[1]) = Upto(L.c1, n[1]) /\ Sealed(A, n[1], 0, SealOne(L, e), e.csk) = L.c1
        /\ \A i \in 1 .. Len(A) : A[i][1] # "siv"
    BY <1>1, Sealing
  <1>3. LET B == Sealed(L.c2, n[2], 1, SealTwo(L, e), e.csk) IN
        /\ IsSeq(B) /\ Len(B) = Len(L.c2) /\ Upto(B, n[2]) = Upto(L.c2, n[2]) /\ Sealed(B, n[2], 1, SealTwo(L, e), e.csk) = L.c2
        /\ \A i \in 1 .. Len(B) : B[i][1] # "siv"
    BY <1>1, Sealing
  <1> QED
    BY <1>2, <1>3 DEF PartOne, PartTwo, n

\* What scc_export makes of a locker.
LEMMA Exports ==
  ASSUME NEW L, IsLocker(L), NEW clear \in Nat \X Nat, NEW e
  PROVE  scc_export(L, e.csk, e.lst, e.impq, clear) = IF IsError(L) THEN <<Block(L.mdh)>> ELSE ImageOf(Block(L.mdh), L, e, clear)
  <1> DEFINE n == ClearOf(L.mdh, clear, L.c1, L.c2)
             one == scc_encrypt(scc_ad(L.mdh, e.lst) \o Upto(L.c1, n[1]), 0, From(L.c1, n[1]), e.csk)
             two == scc_encrypt(OfThisContent(e.impq, one.siv) \o Upto(L.c2, n[2]), 1, From(L.c2, n[2]), e.csk)
             A == PartOne(L, e, clear)
             B == PartTwo(L, e, clear)
  <1>1. n[1] \in Nat /\ n[2] \in Nat /\ IsContent(L.c1) /\ IsContent(L.c2) /\ L.mdh.AuxDataLen \in Nat
    BY ClearNat DEF IsLocker
  <1>2. scc_export(L, e.csk, e.lst, e.impq, clear) =
          IF IsError(L) THEN <<Block(L.mdh)>>
          ELSE IF L.mdh.AuxDataLen < 2 THEN <<Block(L.mdh), one.siv>> \o Upto(L.c1, n[1]) \o one.C
          ELSE <<Block(L.mdh), one.siv, e.impq, two.siv>> \o Upto(L.c1, n[1]) \o one.C \o Upto(L.c2, n[2]) \o two.C
    BY DEF scc_export, IsError
  <1> HIDE DEF n
  <1>3. one.siv = SealOne(L, e) /\ Upto(L.c1, n[1]) \o one.C = A
    BY <1>1, EncryptOne DEF PartOne, n
  <1>4. two.siv = SealTwo(L, e) /\ Upto(L.c2, n[2]) \o two.C = B
    BY <1>1, <1>3, EncryptTwo DEF PartTwo, n
  <1>5. IsSeq(Upto(L.c1, n[1])) /\ IsSeq(one.C) /\ IsSeq(Upto(L.c2, n[2])) /\ IsSeq(two.C)
    <2>1. IsSeq(Upto(L.c1, n[1])) /\ IsSeq(From(L.c1, n[1])) /\ IsSeq(Upto(L.c2, n[2])) /\ IsSeq(From(L.c2, n[2]))
      BY <1>1, Contents
    <2> QED
      BY <2>1, CryptSeq DEF scc_encrypt
  <1> HIDE DEF one, two
  <1>6. Len(L.c1) \in Nat /\ Len(L.c2) \in Nat /\ IsSeq(A) /\ Len(A) = Len(L.c1) /\ IsSeq(B) /\ Len(B) = Len(L.c2)
    BY <1>1, PartsAre DEF IsContent
  <1>7. CASE IsError(L)
    BY <1>2, <1>7
  <1>8. CASE ~ IsError(L) /\ L.mdh.AuxDataLen < 2
    <2>1. B = <<>>
      <3>1. Len(L.c2) = 0
        BY <1>1, <1>8 DEF IsLocker, IsError, scc_content2_size
      <3> QED
        BY <1>6, <3>1 DEF IsSeq
    <2>2. <<Block(L.mdh), one.siv>> \o Upto(L.c1, n[1]) \o one.C = <<Block(L.mdh), one.siv>> \o A
      <3> DEFINE h == <<Block(L.mdh), one.siv>>
                 u == Upto(L.c1, n[1])
                 w == one.C
      <3>1. IsSeq(h) /\ IsSeq(u) /\ IsSeq(w) /\ u \o w = A
        BY <1>3, <1>5, Tuples
      <3> HIDE DEF h, u, w, A
      <3>2. h \o u \o w = h \o (u \o w)
        <4>1. IsSeq(h) /\ IsSeq(u) /\ IsSeq(w)
          BY <3>1
        <4> QED
          BY <4>1, Associated
      <3> QED
        BY <3>1, <3>2 DEF h, u, w
    <2>3. <<Block(L.mdh), SealOne(L, e)>> \o A \o <<>> = <<Block(L.mdh), SealOne(L, e)>> \o A
      BY <1>6 DEF IsSeq
    <2>4. Front(Block(L.mdh), L, e) = <<Block(L.mdh), SealOne(L, e)>>
      BY <1>8 DEF Front
    <2> HIDE DEF A, B
    <2> QED
      BY <1>2, <1>3, <1>8, <2>1, <2>2, <2>3, <2>4 DEF ImageOf, A, B
  <1>9. CASE ~ IsError(L) /\ ~ (L.mdh.AuxDataLen < 2)
    <2>1. <<Block(L.mdh), one.siv, e.impq, two.siv>> \o Upto(L.c1, n[1]) \o one.C \o Upto(L.c2, n[2]) \o two.C =
          <<Block(L.mdh), one.siv, e.impq, two.siv>> \o A \o B
      <3> DEFINE h == <<Block(L.mdh), one.siv, e.impq, two.siv>>
                 u == Upto(L.c1, n[1])
                 w == one.C
                 x == Upto(L.c2, n[2])
                 y == two.C
      <3>1. IsSeq(h) /\ IsSeq(u) /\ IsSeq(w) /\ IsSeq(x) /\ IsSeq(y)
        BY <1>5, Tuples
      <3>2. u \o w = A /\ x \o y = B
        BY <1>3, <1>4
      <3> HIDE DEF h, u, w, x, y, A, B
      <3>3. h \o u \o w \o x \o y = h \o (u \o w) \o (x \o y)
        <4> DEFINE g == h \o (u \o w)
        <4>1. IsSeq(g)
          <5>1. IsSeq(u \o w)
            BY <3>1, Joined
          <5> QED
            BY <3>1, <5>1, Joined
        <4>2. h \o u \o w = g
          <5>1. IsSeq(h) /\ IsSeq(u) /\ IsSeq(w)
            BY <3>1
          <5> QED
            BY <5>1, Associated
        <4> HIDE DEF g
        <4>3. g \o x \o y = g \o (x \o y)
          <5>1. IsSeq(g) /\ IsSeq(x) /\ IsSeq(y)
            BY <3>1, <4>1
          <5> QED
            BY <5>1, Associated
        <4> QED
          BY <4>2, <4>3 DEF g
      <3> QED
        BY <3>3, <3>2 DEF h, u, w, x, y
    <2>2. Front(Block(L.mdh), L, e) = <<Block(L.mdh), SealOne(L, e), e.impq, SealTwo(L, e)>>
      BY <1>9 DEF Front
    <2> HIDE DEF A, B
    <2> QED
      BY <1>2, <1>3, <1>4, <1>9, <2>1, <2>2 DEF ImageOf, A, B
  <1> QED
    BY <1>7, <1>8, <1>9

\* What an image is made of, whatever its header is.
Size(L) == IF L.mdh.AuxDataLen < 2 THEN 2 ELSE 4
LEMMA Images ==
  ASSUME NEW L, IsLocker(L), NEW clear \in Nat \X Nat, NEW e, NEW b
  PROVE  LET img == ImageOf(b, L, e, clear) IN
         /\ IsSeq(img) /\ Len(img) = Size(L) + Len(L.c1) + Len(L.c2) /\ img[1] = b /\ At(img, 1) = SealOne(L, e)
         /\ Size(L) = 4 => At(img, 2) = e.impq /\ At(img, 3) = SealTwo(L, e)
         /\ Slice(img, Size(L), Len(L.c1)) = PartOne(L, e, clear)
         /\ Slice(img, Size(L) + Len(L.c1), Len(L.c2)) = PartTwo(L, e, clear)
         /\ \A i \in Size(L) + 1 .. Len(img) : img[i][1] # "siv"
         /\ img[2] = SealOne(L, e) /\ (Size(L) = 4 => img[3] = e.impq /\ img[4] = SealTwo(L, e))
  <1> DEFINE A == PartOne(L, e, clear)
             B == PartTwo(L, e, clear)
             h == Front(b, L, e)
             img == h \o A \o B
  <1>1. /\ IsSeq(A) /\ Len(A) = Len(L.c1) /\ IsSeq(B) /\ Len(B) = Len(L.c2)
        /\ (\A i \in 1 .. Len(A) : A[i][1] # "siv") /\ \A i \in 1 .. Len(B) : B[i][1] # "siv"
    <2>1. IsSeq(A) /\ Len(A) = Len(L.c1) /\ IsSeq(B) /\ Len(B) = Len(L.c2)
      BY PartsAre
    <2>2. \A i \in 1 .. Len(A) : A[i][1] # "siv"
      BY PartsAre
    <2>3. \A i \in 1 .. Len(B) : B[i][1] # "siv"
      BY PartsAre
    <2> QED
      BY <2>1, <2>2, <2>3
  <1>2. /\ IsSeq(h) /\ Len(h) = Size(L) /\ h[1] = b /\ h[2] = SealOne(L, e) /\ Size(L) \in {2, 4}
        /\ (Size(L) = 4 => h[3] = e.impq /\ h[4] = SealTwo(L, e))
    <2>1. IsSeq(h)
      BY Tuples DEF Front
    <2>2. CASE L.mdh.AuxDataLen < 2
      BY <2>1, <2>2 DEF Front, Size
    <2>3. CASE ~ (L.mdh.AuxDataLen < 2)
      BY <2>1, <2>3 DEF Front, Size
    <2> QED
      BY <2>2, <2>3
  <1>3. Len(A) \in Nat /\ Len(B) \in Nat
    BY <1>1 DEF IsSeq
  <1> HIDE DEF A, B, h
  <1>4. /\ IsSeq(img) /\ Len(img) = Len(h) + Len(A) + Len(B)
        /\ \A i \in 1 .. Len(h) : img[i] = h[i]
        /\ \A i \in 1 .. Len(A) : img[Len(h) + i] = A[i]
        /\ \A i \in 1 .. Len(B) : img[Len(h) + Len(A) + i] = B[i]
        /\ Slice(img, Len(h), Len(A)) = A
        /\ Slice(img, Len(h) + Len(A), Len(B)) = B
    <2>1. IsSeq(h) /\ IsSeq(A) /\ IsSeq(B)
      BY <1>1, <1>2
    <2> QED
      BY <2>1, Three
  <1> HIDE DEF img
  <1>5. img[1] = b /\ img[2] = SealOne(L, e) /\ (Size(L) = 4 => img[3] = e.impq /\ img[4] = SealTwo(L, e))
    BY <1>2, <1>4
  <1>6. At(img, 1) = img[2] /\ (Size(L) = 4 => At(img, 2) = img[3] /\ At(img, 3) = img[4])
    BY <1>2, <1>3, <1>4 DEF At
  <1>7. ASSUME NEW i \in Size(L) + 1 .. Len(img) PROVE img[i][1] # "siv"
    <2>0. Len(img) = Len(h) + Len(A) + Len(B) /\ Len(h) \in Nat /\ Len(A) \in Nat /\ Len(B) \in Nat /\ i \in Len(h) + 1 .. Len(img)
      <3>1. Len(h) = Size(L) /\ Size(L) \in {2, 4}
        BY <1>2
      <3>2. Len(img) = Len(h) + Len(A) + Len(B)
        BY <1>4
      <3> QED
        BY <1>3, <1>7, <3>1, <3>2
    <2>1. CASE i <= Len(h) + Len(A)
      <3> DEFINE j == i - Len(h)
      <3>1. j \in 1 .. Len(A) /\ Len(h) + j = i
        BY <2>0, <2>1
      <3> HIDE DEF j
      <3>2. img[i] = A[j]
        <4>1. \A k \in 1 .. Len(A) : img[Len(h) + k] = A[k]
          BY <1>4
        <4> QED
          BY <3>1, <4>1
      <3> QED
        BY <1>1, <3>1, <3>2
    <2>2. CASE i > Len(h) + Len(A)
      <3> DEFINE j == i - (Len(h) + Len(A))
      <3>1. j \in 1 .. Len(B) /\ Len(h) + Len(A) + j = i
        BY <2>0, <2>2
      <3> HIDE DEF j
      <3>2. img[i] = B[j]
        <4>1. \A k \in 1 .. Len(B) : img[Len(h) + Len(A) + k] = B[k]
          BY <1>4
        <4> QED
          BY <3>1, <4>1
      <3> QED
        BY <1>1, <3>1, <3>2
    <2> QED
      BY <2>0, <2>1, <2>2
  <1>8. ImageOf(b, L, e, clear) = img
    BY DEF ImageOf, img, h, A, B
  <1> QED
    BY <1>1, <1>2, <1>4, <1>5, <1>6, <1>7, <1>8 DEF A, B

\* Another header.
LEMMA Headed ==
  ASSUME NEW L, IsLocker(L), NEW clear \in Nat \X Nat, NEW e, NEW a, NEW b
  PROVE  [ImageOf(a, L, e, clear) EXCEPT ![1] = b] = ImageOf(b, L, e, clear)
  <1> DEFINE A == PartOne(L, e, clear)
             B == PartTwo(L, e, clear)
             x == ImageOf(a, L, e, clear)
             y == ImageOf(b, L, e, clear)
             f == Front(a, L, e)
             g == Front(b, L, e)
  <1>1. IsSeq(A) /\ IsSeq(B) /\ Len(A) \in Nat /\ Len(B) \in Nat
    <2>1. IsSeq(A) /\ IsSeq(B)
      BY PartsAre
    <2> QED
      BY <2>1, SeqIs
  <1>2. IsSeq(f) /\ IsSeq(g) /\ Len(f) = Len(g) /\ Len(f) \in {2, 4} /\ g[1] = b /\ \A i \in 2 .. Len(f) : f[i] = g[i]
    <2>1. IsSeq(f) /\ IsSeq(g)
      BY Tuples DEF Front
    <2>2. CASE L.mdh.AuxDataLen < 2
      BY <2>1, <2>2 DEF Front
    <2>3. CASE ~ (L.mdh.AuxDataLen < 2)
      BY <2>1, <2>3 DEF Front
    <2> QED
      BY <2>2, <2>3
  <1> HIDE DEF A, B, f, g
  <1>3. /\ IsSeq(x) /\ Len(x) = Len(f) + Len(A) + Len(B)
        /\ \A i \in 1 .. Len(f) : x[i] = f[i]
        /\ \A i \in 1 .. Len(A) : x[Len(f) + i] = A[i]
        /\ \A i \in 1 .. Len(B) : x[Len(f) + Len(A) + i] = B[i]
    <2>1. x = f \o A \o B
      BY DEF ImageOf, f, A, B
    <2>2. IsSeq(f) /\ IsSeq(A) /\ IsSeq(B)
      BY <1>1, <1>2
    <2> HIDE DEF x
    <2> QED
      BY <2>1, <2>2, Three
  <1>4. /\ IsSeq(y) /\ Len(y) = Len(g) + Len(A) + Len(B)
        /\ \A i \in 1 .. Len(g) : y[i] = g[i]
        /\ \A i \in 1 .. Len(A) : y[Len(g) + i] = A[i]
        /\ \A i \in 1 .. Len(B) : y[Len(g) + Len(A) + i] = B[i]
    <2>1. y = g \o A \o B
      BY DEF ImageOf, g, A, B
    <2>2. IsSeq(g) /\ IsSeq(A) /\ IsSeq(B)
      BY <1>1, <1>2
    <2> HIDE DEF y
    <2> QED
      BY <2>1, <2>2, Three
  <1> HIDE DEF x, y
  <1>5. ASSUME NEW i \in 2 .. Len(x) PROVE x[i] = y[i]
    <2>1. CASE i <= Len(f)
      BY <1>2, <1>3, <1>4, <2>1
    <2>2. CASE i > Len(f) /\ i <= Len(f) + Len(A)
      <3> DEFINE j == i - Len(f)
      <3>1. j \in 1 .. Len(A) /\ Len(f) + j = i
        BY <1>1, <1>2, <2>2
      <3> HIDE DEF j
      <3>2. x[i] = A[j] /\ y[i] = A[j]
        BY <1>2, <1>3, <1>4, <3>1
      <3> QED
        BY <3>2
    <2>3. CASE i > Len(f) + Len(A)
      <3> DEFINE j == i - (Len(f) + Len(A))
      <3>1. j \in 1 .. Len(B) /\ Len(f) + Len(A) + j = i
        BY <1>1, <1>2, <1>3, <2>3
      <3> HIDE DEF j
      <3>2. x[i] = B[j] /\ y[i] = B[j]
        BY <1>2, <1>3, <1>4, <3>1
      <3> QED
        BY <3>2
    <2> QED
      BY <1>1, <1>2, <2>1, <2>2, <2>3
  <1>6. y[1] = b /\ Len(x) = Len(y) /\ Len(x) \in Nat /\ Len(x) >= 2
    BY <1>1, <1>2, <1>3, <1>4
  <1>7. x = [i \in 1 .. Len(x) |-> x[i]] /\ y = [i \in 1 .. Len(x) |-> y[i]]
    BY <1>3, <1>4, <1>6, SeqIs
  <1>8. [x EXCEPT ![1] = b] = [i \in 1 .. Len(x) |-> IF i = 1 THEN b ELSE x[i]]
    BY <1>6, <1>7
  <1>9. \A i \in 1 .. Len(x) : (IF i = 1 THEN b ELSE x[i]) = y[i]
    BY <1>5, <1>6
  <1>10. [x EXCEPT ![1] = b] = y
    BY <1>7, <1>8, <1>9
  <1> QED
    BY <1>10 DEF x, y

-----------------------------------------------------------------------------
\* The import.  What its two comparisons say of the contents that it would take.
LEMMA SealedSeq ==
  ASSUME NEW c, IsSeq(c), NEW n \in Nat, NEW sep, NEW siv, NEW K
  PROVE  /\ IsSeq(Upto(c, n)) /\ IsSeq(From(c, n)) /\ IsSeq(Crypt(From(c, n), sep, siv, K))
         /\ IsSeq(Sealed(c, n, sep, siv, K))
  <1>1. IsSeq(Upto(c, n)) /\ IsSeq(From(c, n))
    <2>1. c \in Seq({c[i] : i \in 1 .. Len(c)})
      BY DEF IsSeq
    <2>2. Upto(c, n) \in Seq({c[i] : i \in 1 .. Len(c)}) /\ From(c, n) \in Seq({c[i] : i \in 1 .. Len(c)})
      BY <2>1, Cuts
    <2> QED
      BY <2>2, IsSeqs
  <1>2. IsSeq(Crypt(From(c, n), sep, siv, K))
    BY <1>1, CryptSeq
  <1> QED
    BY <1>1, <1>2, Joined DEF Sealed

\* The two calls of scc_decrypt of an import, on a part that is in clear up to its n-th block.
OpenOne(c, n, f, lst, siv, K) == scc_decrypt(scc_ad(f, lst) \o Upto(c, n), 0, siv, From(c, n), K)
OpenTwo(c, n, q, one, siv, K) == scc_decrypt(OfThisContent(q, one) \o Upto(c, n), 1, siv, From(c, n), K)
\* The first part verifies exactly when its tag is over what it would give.
LEMMA DecryptOne ==
  ASSUME NEW c, IsSeq(c), NEW n \in Nat, NEW f, NEW lst, NEW siv, NEW K
  PROVE  /\ OpenOne(c, n, f, lst, siv, K).ok =
              (siv = <<"siv", K, 0, <<Undropped(Block(f)), Entries(f, lst)>> \o Sealed(c, n, 0, siv, K)>>)
         /\ Upto(c, n) \o OpenOne(c, n, f, lst, siv, K).P = Sealed(c, n, 0, siv, K)
  <1> DEFINE u == Upto(c, n)
             t == Crypt(From(c, n), 0, siv, K)
  <1>1. IsSeq(u) /\ IsSeq(t)
    BY SealedSeq
  <1> HIDE DEF u, t
  <1>2. Tag(scc_ad(f, lst) \o u, 0, t, K) = <<"siv", K, 0, <<Undropped(Block(f)), Entries(f, lst)>> \o (u \o t)>>
    BY <1>1, TagOne
  <1>3. OpenOne(c, n, f, lst, siv, K) = [ok |-> Tag(scc_ad(f, lst) \o u, 0, t, K) = siv, P |-> t]
    BY DEF OpenOne, scc_decrypt, u, t
  <1>4. Sealed(c, n, 0, siv, K) = u \o t /\ Upto(c, n) = u
    BY DEF Sealed, u, t
  <1> DEFINE d == OpenOne(c, n, f, lst, siv, K)
  <1>5. d.ok = (Tag(scc_ad(f, lst) \o u, 0, t, K) = siv) /\ d.P = t
    BY <1>3
  <1> HIDE DEF d
  <1>6. d.ok = (siv = <<"siv", K, 0, <<Undropped(Block(f)), Entries(f, lst)>> \o Sealed(c, n, 0, siv, K)>>)
    BY <1>2, <1>4, <1>5
  <1>7. Upto(c, n) \o d.P = Sealed(c, n, 0, siv, K)
    BY <1>4, <1>5
  <1> QED
    BY <1>6, <1>7 DEF d

\* The ADS verifies exactly when its tag is over what it would give.
LEMMA DecryptTwo ==
  ASSUME NEW c, IsSeq(c), NEW n \in Nat, NEW q, NEW one, NEW siv, NEW K
  PROVE  /\ OpenTwo(c, n, q, one, siv, K).ok = (siv = <<"siv", K, 1, <<q, one>> \o Sealed(c, n, 1, siv, K)>>)
         /\ Upto(c, n) \o OpenTwo(c, n, q, one, siv, K).P = Sealed(c, n, 1, siv, K)
  <1> DEFINE u == Upto(c, n)
             t == Crypt(From(c, n), 1, siv, K)
  <1>1. IsSeq(u) /\ IsSeq(t)
    BY SealedSeq
  <1> HIDE DEF u, t
  <1>2. Tag(OfThisContent(q, one) \o u, 1, t, K) = <<"siv", K, 1, <<q, one>> \o (u \o t)>>
    BY <1>1, TagTwo
  <1>3. OpenTwo(c, n, q, one, siv, K) = [ok |-> Tag(OfThisContent(q, one) \o u, 1, t, K) = siv, P |-> t]
    BY DEF OpenTwo, scc_decrypt, u, t
  <1>4. Sealed(c, n, 1, siv, K) = u \o t /\ Upto(c, n) = u
    BY DEF Sealed, u, t
  <1> DEFINE d == OpenTwo(c, n, q, one, siv, K)
  <1>5. d.ok = (Tag(OfThisContent(q, one) \o u, 1, t, K) = siv) /\ d.P = t
    BY <1>3
  <1> HIDE DEF d
  <1>6. d.ok = (siv = <<"siv", K, 1, <<q, one>> \o Sealed(c, n, 1, siv, K)>>)
    BY <1>2, <1>4, <1>5
  <1>7. Upto(c, n) \o d.P = Sealed(c, n, 1, siv, K)
    BY <1>4, <1>5
  <1> QED
    BY <1>6, <1>7 DEF d

\* The parts that an import takes from an image, and what it makes of them.
OneOf(work, img) == Slice(img, IF work.AuxDataLen >= 2 THEN 4 ELSE 2, scc_content1_size(work))
TwoOf(work, img) ==
  IF work.AuxDataLen >= 2 /\ work.ADSDropped = 0 THEN Slice(img, 4 + scc_content1_size(work), work.AuxDataLen - 2) ELSE <<>>
Parted(work, img, clear, n, k) ==
  /\ IsSeq(OneOf(work, img)) /\ IsSeq(TwoOf(work, img)) /\ n \in Nat /\ k \in Nat
  /\ ClearOf(work, clear, OneOf(work, img), TwoOf(work, img)) = <<n, k>>
OpenedOne(work, img, csk, n) == Sealed(OneOf(work, img), n, 0, At(img, 1), csk)
OpenedTwo(work, img, csk, k) == Sealed(TwoOf(work, img), k, 1, At(img, 3), csk)
Verifies(work, img, csk, lst, n) ==
  At(img, 1) = <<"siv", csk, 0, <<Undropped(Block(work)), Entries(work, lst)>> \o OpenedOne(work, img, csk, n)>>
Keeps(work, img, csk, impq, k) ==
  /\ work.AuxDataLen >= 2 /\ work.ADSDropped = 0 /\ At(img, 2) = impq
  /\ At(img, 3) = <<"siv", csk, 1, <<At(img, 2), At(img, 1)>> \o OpenedTwo(work, img, csk, k)>>
\* An import is one of two outcomes: it fails, or it gives the first part and the ADS that it keeps.
LEMMA Imports ==
  ASSUME NEW work, NEW img, NEW csk, NEW lst, NEW impq, NEW clear, NEW n, NEW k, Parted(work, img, clear, n, k)
  PROVE  /\ ~ Verifies(work, img, csk, lst, n) => Parts(work, img, csk, lst, impq, clear).status = "authfail"
         /\ Verifies(work, img, csk, lst, n) =>
              Parts(work, img, csk, lst, impq, clear) =
                [status |-> "ok", mdh |-> IF Keeps(work, img, csk, impq, k) THEN work ELSE WithoutADS(work),
                 c1 |-> Upto(OpenedOne(work, img, csk, n), scc_content1_size(work)),
                 c2 |-> IF Keeps(work, img, csk, impq, k) THEN OpenedTwo(work, img, csk, k) ELSE <<>>]
  <1> DEFINE c1 == OneOf(work, img)
             c2 == TwoOf(work, img)
             one == OpenOne(c1, n, work, lst, At(img, 1), csk)
             two == OpenTwo(c2, k, At(img, 2), At(img, 1), At(img, 3), csk)
             kept == work.AuxDataLen >= 2 /\ work.ADSDropped = 0 /\ At(img, 2) = impq /\ two.ok
  <1>1. Parts(work, img, csk, lst, impq, clear) =
          IF ~one.ok
          THEN [Refused("authfail") EXCEPT !.mdh = [work EXCEPT !.State = 0, !.StateExtension = 4, !.AuxDataLen = 0, !.ADSDropped = 0]]
          ELSE [status |-> "ok", mdh |-> IF kept THEN work ELSE WithoutADS(work),
                c1 |-> Upto(Upto(c1, n) \o one.P, scc_content1_size(work)), c2 |-> IF kept THEN Upto(c2, k) \o two.P ELSE <<>>]
    <2>1. /\ c1 = Slice(img, IF work.AuxDataLen >= 2 THEN 4 ELSE 2, scc_content1_size(work))
          /\ c2 = IF work.AuxDataLen >= 2 /\ work.ADSDropped = 0
                  THEN Slice(img, (IF work.AuxDataLen >= 2 THEN 4 ELSE 2) + scc_content1_size(work), work.AuxDataLen - 2) ELSE <<>>
      BY DEF OneOf, TwoOf
    <2>2. ClearOf(work, clear, c1, c2)[1] = n /\ ClearOf(work, clear, c1, c2)[2] = k
      BY DEF Parted
    <2> HIDE DEF c1, c2
    <2> QED
      BY <2>1, <2>2 DEF Parts, OpenOne, OpenTwo
  <1>2. /\ one.ok = (At(img, 1) = <<"siv", csk, 0, <<Undropped(Block(work)), Entries(work, lst)>> \o Sealed(c1, n, 0, At(img, 1), csk)>>)
        /\ Upto(c1, n) \o one.P = Sealed(c1, n, 0, At(img, 1), csk)
    <2>1. IsSeq(c1) /\ n \in Nat
      BY DEF Parted
    <2> HIDE DEF c1
    <2> QED
      BY <2>1, DecryptOne
  <1>3. /\ two.ok = (At(img, 3) = <<"siv", csk, 1, <<At(img, 2), At(img, 1)>> \o Sealed(c2, k, 1, At(img, 3), csk)>>)
        /\ Upto(c2, k) \o two.P = Sealed(c2, k, 1, At(img, 3), csk)
    <2>1. IsSeq(c2) /\ k \in Nat
      BY DEF Parted
    <2> HIDE DEF c2
    <2> QED
      BY <2>1, DecryptTwo
  <1>4. \A x : [Refused("authfail") EXCEPT !.mdh = x].status = "authfail"
    BY DEF Refused
  <1> HIDE DEF one, two, c1, c2
  <1>5. one.ok = Verifies(work, img, csk, lst, n) /\ Upto(c1, n) \o one.P = OpenedOne(work, img, csk, n)
    BY <1>2 DEF Verifies, OpenedOne, c1
  <1>6. kept = Keeps(work, img, csk, impq, k) /\ Upto(c2, k) \o two.P = OpenedTwo(work, img, csk, k)
    BY <1>3 DEF Keeps, OpenedTwo, c2
  <1> HIDE DEF kept
  <1> QED
    BY <1>1, <1>4, <1>5, <1>6

\* A header with another ADSDropped.
LEMMA Dropping ==
  ASSUME NEW f, f = [x \in Fields |-> f[x]], NEW d
  PROVE  LET w == [f EXCEPT !.ADSDropped = d] IN
         /\ w = [x \in Fields |-> w[x]] /\ w.ADSDropped = d /\ \A x \in Fields \ {"ADSDropped"} : w[x] = f[x]
         /\ Undropped(Block(w)) = Undropped(Block(f)) /\ WithoutADS(w) = WithoutADS(f)
         /\ (f.ADSDropped = d => w = f) /\ \A lst : Entries(w, lst) = Entries(f, lst)
  <1> DEFINE w == [f EXCEPT !.ADSDropped = d]
  <1>1. w = [x \in Fields |-> IF x = "ADSDropped" THEN d ELSE f[x]]
    BY DEF Fields
  <1>2. w = [x \in Fields |-> w[x]] /\ w.ADSDropped = d /\ \A x \in Fields \ {"ADSDropped"} : w[x] = f[x]
    BY <1>1 DEF Fields
  <1>3. [w EXCEPT !.ADSDropped = 0] = [f EXCEPT !.ADSDropped = 0]
    BY <1>1 DEF Fields
  <1>4. Undropped(Block(w)) = Undropped(Block(f))
    <2>1. \A g : Undropped(Block(g)) = Block([g EXCEPT !.ADSDropped = 0])
      BY DEF Undropped, Block
    <2> QED
      BY <1>3, <2>1
  <1>5. WithoutADS(w) = WithoutADS(f)
    BY <1>1 DEF WithoutADS, Fields
  <1>6. ASSUME f.ADSDropped = d PROVE w = f
    BY <1>1, <1>6 DEF Fields
  <1>7. w.Locality = f.Locality
    BY <1>2 DEF Fields
  <1>8. ASSUME NEW lst PROVE Entries(w, lst) = Entries(f, lst)
    BY <1>7 DEF Entries, scc_ad
  <1> QED
    BY <1>2, <1>4, <1>5, <1>6, <1>8

\* A sequence up to its end.
LEMMA UptoAll ==
  ASSUME NEW c, IsSeq(c), NEW n, n = Len(c)
  PROVE  Upto(c, n) = c
  <1> DEFINE S == {c[i] : i \in 1 .. Len(c)}
  <1>1. c \in Seq(S) /\ Len(c) \in Nat
    BY DEF IsSeq
  <1> HIDE DEF S
  <1>2. Upto(c, n) \in Seq(S) /\ Len(Upto(c, n)) = Least(n, Len(c)) /\ \A i \in 1 .. Least(n, Len(c)) : Upto(c, n)[i] = c[i]
    BY <1>1, Cuts
  <1>3. Least(n, Len(c)) = Len(c)
    BY DEF Least
  <1> QED
    BY <1>1, <1>2, <1>3, SameSeq

\* What a locker that an export takes holds.
LEMMA Stored ==
  ASSUME NEW L, IsLocker(L), ~ IsError(L)
  PROVE  /\ ~ scc_invalid(L.mdh) /\ Supported(L.mdh) /\ L.mdh.ADSDropped = 0 /\ L.mdh = [x \in Fields |-> L.mdh[x]]
         /\ L.mdh.AuxDataLen \in Nat \ {1} /\ L.mdh.State # 0
         /\ Len(L.c1) = scc_content1_size(L.mdh) /\ Len(L.c1) \in Nat /\ IsContent(L.c1) /\ IsSeq(L.c1)
         /\ Len(L.c2) = (IF Size(L) = 4 THEN L.mdh.AuxDataLen - 2 ELSE 0) /\ Len(L.c2) \in Nat /\ IsContent(L.c2) /\ IsSeq(L.c2)
         /\ (Size(L) = 4) = (L.mdh.AuxDataLen >= 2) /\ Size(L) \in {2, 4}
  <1>1. /\ L.mdh = [x \in Fields |-> L.mdh[x]] /\ L.mdh.AuxDataLen \in Nat /\ IsContent(L.c1) /\ IsContent(L.c2)
        /\ ~scc_invalid(L.mdh) /\ Supported(L.mdh) /\ L.mdh.ADSDropped = 0
        /\ Len(L.c1) = scc_content1_size(L.mdh) /\ Len(L.c2) = scc_content2_size(L.mdh)
    BY DEF IsLocker, IsError
  <1>2. L.mdh.State # 0 /\ L.mdh.AuxDataLen # 1
    BY <1>1 DEF scc_invalid
  <1>3. (Size(L) = 4) = (L.mdh.AuxDataLen >= 2) /\ Size(L) \in {2, 4}
    BY <1>1 DEF Size
  <1>4. Len(L.c2) = (IF Size(L) = 4 THEN L.mdh.AuxDataLen - 2 ELSE 0)
    BY <1>1, <1>3 DEF scc_content2_size
  <1>5. IsSeq(L.c1) /\ IsSeq(L.c2) /\ Len(L.c1) \in Nat /\ Len(L.c2) \in Nat
    BY <1>1 DEF IsContent, IsSeq
  <1> QED
    BY <1>1, <1>2, <1>3, <1>4, <1>5

\* An image comes back: whole with its ADS kept and for this implementation, without it otherwise.
Comes(L, whole) == [status |-> "ok", mdh |-> IF whole THEN L.mdh ELSE WithoutADS(L.mdh), c1 |-> L.c1, c2 |-> IF whole THEN L.c2 ELSE <<>>]
Kept(L, e, drop, impq) == Comes(L, Size(L) = 4 /\ drop = 0 /\ e.impq = impq)
Sendable(L, clear, e, drop, lst) ==
  IsLocker(L) /\ ~ IsError(L) /\ clear \in Nat \X Nat /\ drop \in {0, 1} /\ Entries(L.mdh, lst) = Entries(L.mdh, e.lst)
PartsOf(L, drop, img, csk, lst, impq, clear) == Parts([L.mdh EXCEPT !.ADSDropped = drop], img, csk, lst, impq, clear)
LEMMA Backs ==
  ASSUME NEW L, NEW clear, NEW e, NEW b, NEW drop, NEW lst, NEW impq, Sendable(L, clear, e, drop, lst)
  PROVE  PartsOf(L, drop, ImageOf(b, L, e, clear), e.csk, lst, impq, clear) = Kept(L, e, drop, impq)
  <1>0. IsLocker(L) /\ ~ IsError(L) /\ clear \in Nat \X Nat /\ drop \in {0, 1} /\ Entries(L.mdh, lst) = Entries(L.mdh, e.lst)
    BY DEF Sendable
  <1> DEFINE w == [L.mdh EXCEPT !.ADSDropped = drop]
             img == ImageOf(b, L, e, clear)
             A == PartOne(L, e, clear)
             B == PartTwo(L, e, clear)
             n == ClearOf(L.mdh, clear, L.c1, L.c2)
             O == OneOf(w, img)
             T == TwoOf(w, img)
             k == IF T = <<>> /\ w.Transparent = 1 THEN 0 ELSE n[2]
             whole == Size(L) = 4 /\ drop = 0 /\ e.impq = impq
  <1>1. /\ ~ scc_invalid(L.mdh) /\ Supported(L.mdh) /\ L.mdh.ADSDropped = 0 /\ L.mdh = [x \in Fields |-> L.mdh[x]]
        /\ Len(L.c1) = scc_content1_size(L.mdh) /\ Len(L.c1) \in Nat /\ IsSeq(L.c1)
        /\ Len(L.c2) = (IF Size(L) = 4 THEN L.mdh.AuxDataLen - 2 ELSE 0) /\ Len(L.c2) \in Nat /\ IsSeq(L.c2)
        /\ (Size(L) = 4) = (L.mdh.AuxDataLen >= 2) /\ Size(L) \in {2, 4}
    BY <1>0, Stored
  <1>2. /\ w.ADSDropped = drop /\ \A x \in Fields \ {"ADSDropped"} : w[x] = L.mdh[x]
        /\ Undropped(Block(w)) = Undropped(Block(L.mdh)) /\ WithoutADS(w) = WithoutADS(L.mdh)
        /\ (L.mdh.ADSDropped = drop => w = L.mdh) /\ Entries(w, lst) = Entries(L.mdh, lst)
    <2> DEFINE f == L.mdh
               v == [f EXCEPT !.ADSDropped = drop]
    <2>1. f = [x \in Fields |-> f[x]]
      BY <1>1
    <2> HIDE DEF f
    <2>2. /\ v.ADSDropped = drop /\ (\A x \in Fields \ {"ADSDropped"} : v[x] = f[x])
          /\ Undropped(Block(v)) = Undropped(Block(f)) /\ WithoutADS(v) = WithoutADS(f)
          /\ (f.ADSDropped = drop => v = f) /\ \A x : Entries(v, x) = Entries(f, x)
      BY <1>0, <2>1, Dropping
    <2>3. v = w
      BY DEF f
    <2> HIDE DEF v
    <2> QED
      BY <2>2, <2>3 DEF f
  <1>3. w.AuxDataLen = L.mdh.AuxDataLen /\ w.Transparent = L.mdh.Transparent /\ scc_content1_size(w) = Len(L.c1)
    BY <1>1, <1>2 DEF Fields, scc_content1_size
  <1>4. /\ IsSeq(A) /\ Len(A) = Len(L.c1) /\ Sealed(A, n[1], 0, SealOne(L, e), e.csk) = L.c1
        /\ IsSeq(B) /\ Len(B) = Len(L.c2) /\ Sealed(B, n[2], 1, SealTwo(L, e), e.csk) = L.c2
    BY <1>0, PartsAre
  <1>5. /\ At(img, 1) = SealOne(L, e) /\ (Size(L) = 4 => At(img, 2) = e.impq /\ At(img, 3) = SealTwo(L, e))
        /\ Slice(img, Size(L), Len(L.c1)) = A /\ Slice(img, Size(L) + Len(L.c1), Len(L.c2)) = B
    BY <1>0, Images
  <1>6. n[1] \in Nat /\ n[2] \in Nat
    BY <1>0, ClearNat
  <1> HIDE DEF w, A, B, img
  <1>7. O = A /\ T = IF Size(L) = 4 /\ drop = 0 THEN B ELSE <<>>
    BY <1>0, <1>1, <1>2, <1>3, <1>5 DEF OneOf, TwoOf
  <1> HIDE DEF O, T
  <1>8. IsSeq(O) /\ IsSeq(T)
    BY <1>4, <1>7, Tuples
  <1>9. ClearOf(w, clear, O, T) = <<n[1], k>> /\ k \in Nat /\ (Size(L) = 4 /\ drop = 0 => k = n[2])
    <2>1. CASE w.Transparent = 1
      <3>1. n[1] = Len(L.c1) /\ n[2] = Len(L.c2)
        BY <1>3, <2>1 DEF ClearOf
      <3>2. ClearOf(w, clear, O, T) = <<Len(O), Len(T)>>
        BY <2>1 DEF ClearOf
      <3>3. CASE Size(L) = 4 /\ drop = 0
        <4>1. Len(T) = n[2]
          BY <1>4, <1>7, <3>1, <3>3
        <4>2. T = <<>> => Len(T) = 0
          OBVIOUS
        <4> QED
          BY <1>4, <1>6, <1>7, <2>1, <3>1, <3>2, <4>1, <4>2
      <3>4. CASE ~ (Size(L) = 4 /\ drop = 0)
        BY <1>4, <1>7, <2>1, <3>1, <3>2, <3>4
      <3> QED
        BY <3>3, <3>4
    <2>2. CASE w.Transparent # 1
      BY <1>3, <1>6, <2>2 DEF ClearOf, scc_clearlen1
    <2> QED
      BY <2>1, <2>2
  <1> DEFINE r == Parts(w, img, e.csk, lst, impq, clear)
             one == OpenedOne(w, img, e.csk, n[1])
             two == OpenedTwo(w, img, e.csk, k)
             kept == Keeps(w, img, e.csk, impq, k)
  <1>10. Parted(w, img, clear, n[1], k)
    BY <1>6, <1>8, <1>9 DEF Parted, O, T
  <1> HIDE DEF n, k
  <1>11. one = L.c1
    BY <1>4, <1>5, <1>7 DEF OpenedOne, O
  <1>12. Verifies(w, img, e.csk, lst, n[1])
    BY <1>0, <1>2, <1>5, <1>11 DEF SealOne, Verifies
  <1>13. Upto(one, scc_content1_size(w)) = L.c1
    BY <1>1, <1>3, <1>11, UptoAll
  <1>14. Size(L) = 4 /\ drop = 0 => two = L.c2 /\ w = L.mdh
    BY <1>0, <1>1, <1>2, <1>4, <1>5, <1>7, <1>9 DEF OpenedTwo, T
  <1>15. kept = whole
    <2>1. CASE Size(L) = 4 /\ drop = 0
      BY <1>0, <1>1, <1>2, <1>3, <1>5, <1>14, <2>1 DEF SealTwo, Keeps
    <2>2. CASE ~ (Size(L) = 4 /\ drop = 0)
      BY <1>0, <1>1, <1>2, <1>3, <2>2 DEF Keeps
    <2> QED
      BY <2>1, <2>2
  <1>16. r = [status |-> "ok", mdh |-> IF kept THEN w ELSE WithoutADS(w), c1 |-> Upto(one, scc_content1_size(w)),
              c2 |-> IF kept THEN two ELSE <<>>]
    BY <1>10, <1>12, Imports
  <1> HIDE DEF one, two, kept, r
  <1>17. r = [status |-> "ok", mdh |-> IF whole THEN L.mdh ELSE WithoutADS(L.mdh), c1 |-> L.c1, c2 |-> IF whole THEN L.c2 ELSE <<>>]
    BY <1>2, <1>13, <1>14, <1>15, <1>16
  <1> QED
    BY <1>17 DEF r, w, img, Comes, Kept, PartsOf

\* The entries that a tag covers are those that SameSCC compares.
SameEntries(f, s, t) == \A j \in 0 .. 10 : scc_includes(f.Locality, j) => scc_lst_eff(s)[j] = scc_lst_eff(t)[j]
LEMMA EntriesAre ==
  ASSUME NEW f, NEW s, NEW t
  PROVE  Entries(f, s) = Entries(f, t) <=> SameEntries(f, s, t)
  <1> DEFINE D == {i \in 0 .. 10 : scc_includes(f.Locality, i)}
             x(j) == scc_lst_eff(s)[j]
             y(j) == scc_lst_eff(t)[j]
  <1>1. Entries(f, s) = <<"entries", [j \in D |-> x(j)]>> /\ Entries(f, t) = <<"entries", [j \in D |-> y(j)]>>
    BY DEF Entries, scc_ad
  <1>2. (Entries(f, s) = Entries(f, t)) = ([j \in D |-> x(j)] = [j \in D |-> y(j)])
    BY <1>1
  <1>3. ([j \in D |-> x(j)] = [j \in D |-> y(j)]) = \A j \in D : x(j) = y(j)
    <2> HIDE DEF D, x, y
    <2>1. ASSUME [j \in D |-> x(j)] = [j \in D |-> y(j)], NEW j \in D PROVE x(j) = y(j)
      <3>1. [i \in D |-> x(i)][j] = [i \in D |-> y(i)][j]
        BY <2>1
      <3> QED
        BY <3>1
    <2>2. ASSUME \A j \in D : x(j) = y(j) PROVE [j \in D |-> x(j)] = [j \in D |-> y(j)]
      BY <2>2
    <2> QED
      BY <2>1, <2>2
  <1>4. (\A j \in D : x(j) = y(j)) = \A j \in 0 .. 10 : scc_includes(f.Locality, j) => x(j) = y(j)
    <2> HIDE DEF x, y
    <2> QED
      OBVIOUS
  <1>5. (Entries(f, s) = Entries(f, t)) = \A j \in 0 .. 10 : scc_includes(f.Locality, j) => x(j) = y(j)
    BY <1>2, <1>3, <1>4
  <1> QED
    BY <1>5 DEF SameEntries

\* Headers that differ in no more than ADSDropped.
LEMMA Undroppings ==
  ASSUME NEW f, f = [x \in Fields |-> f[x]], NEW g, g = [x \in Fields |-> g[x]], Undropped(Block(f)) = Undropped(Block(g))
  PROVE  /\ \A x \in Fields \ {"ADSDropped"} : f[x] = g[x]
         /\ WithoutADS(f) = WithoutADS(g) /\ (f.ADSDropped = g.ADSDropped => f = g) /\ \A s : Entries(f, s) = Entries(g, s)
  <1> DEFINE u == [f EXCEPT !.ADSDropped = 0]
             v == [g EXCEPT !.ADSDropped = 0]
  <1>1. u = v
    <2>1. \A h : Undropped(Block(h)) = <<"mdh", [h EXCEPT !.ADSDropped = 0]>>
      BY DEF Undropped, Block
    <2> HIDE DEF u, v
    <2>2. <<"mdh", u>> = <<"mdh", v>>
      BY <2>1 DEF u, v
    <2> QED
      BY <2>2
  <1>2. (\A x \in Fields \ {"ADSDropped"} : u[x] = f[x]) /\ (\A x \in Fields \ {"ADSDropped"} : v[x] = g[x])
    BY DEF Fields
  <1> HIDE DEF u, v
  <1>3. \A x \in Fields \ {"ADSDropped"} : f[x] = g[x]
    BY <1>1, <1>2
  <1>4. WithoutADS(f) = WithoutADS(g)
    <2> DEFINE a == WithoutADS(f)
               c == WithoutADS(g)
    <2>1. a = [x \in Fields |-> IF x \in {"MachineUse", "AuxInfo", "ADSDropped", "AuxDataLen"} THEN 0 ELSE f[x]]
      BY DEF WithoutADS, Fields
    <2>2. c = [x \in Fields |-> IF x \in {"MachineUse", "AuxInfo", "ADSDropped", "AuxDataLen"} THEN 0 ELSE g[x]]
      BY DEF WithoutADS, Fields
    <2> HIDE DEF a, c
    <2>3. a = c
      BY <1>3, <2>1, <2>2
    <2> QED
      BY <2>3 DEF a, c
  <1>5. ASSUME f.ADSDropped = g.ADSDropped PROVE f = g
    <2>1. \A x \in Fields : f[x] = g[x]
      BY <1>3, <1>5
    <2> QED
      BY <2>1
  <1>6. f.Locality = g.Locality
    BY <1>3 DEF Fields
  <1>7. \A s : Entries(f, s) = Entries(g, s)
    BY <1>6 DEF Entries, scc_ad
  <1> QED
    BY <1>3, <1>4, <1>5, <1>7

\* The parts that an import takes from any image are sequences, and those in clear are numbers.
LEMMA PartsTaken ==
  ASSUME NEW work, work.AuxDataLen \in Nat, Supported(work), NEW img, IsSeq(img), NEW clear \in Nat \X Nat
  PROVE  LET n == ClearOf(work, clear, OneOf(work, img), TwoOf(work, img)) IN Parted(work, img, clear, n[1], n[2])
  <1> DEFINE O == OneOf(work, img)
             T == TwoOf(work, img)
             o == IF work.AuxDataLen >= 2 THEN 4 ELSE 2
             c == scc_content1_size(work)
  <1>1. c \in Nat
    BY DEF scc_content1_size, Supported, SCC_MACHINES
  <1>2. O = Slice(img, o, c) /\ (T = <<>> \/ (work.AuxDataLen >= 2 /\ T = Slice(img, 4 + c, work.AuxDataLen - 2)))
    <2>1. O = Slice(img, o, c)
      BY Zenon DEF OneOf
    <2>2. CASE work.AuxDataLen >= 2 /\ work.ADSDropped = 0
      <3>1. T = Slice(img, 4 + c, work.AuxDataLen - 2)
        BY <2>2 DEF TwoOf
      <3> QED
        BY <2>1, <2>2, <3>1
    <2>3. CASE ~ (work.AuxDataLen >= 2 /\ work.ADSDropped = 0)
      <3>1. T = <<>>
        BY <2>3 DEF TwoOf
      <3> QED
        BY <2>1, <3>1
    <2> QED
      BY <2>2, <2>3
  <1> DEFINE S == {img[i] : i \in 1 .. Len(img)}
  <1>3. img \in Seq(S)
    BY DEF IsSeq
  <1> HIDE DEF c, S
  <1>4. o \in Nat /\ 4 + c \in Nat
    BY <1>1
  <1> HIDE DEF o, O, T
  <1>5. O \in Seq(S) /\ Len(O) \in Nat
    BY <1>1, <1>2, <1>3, <1>4, SlicesAre
  <1>6. IsSeq(T) /\ Len(T) \in Nat
    <2>1. CASE T = <<>>
      BY <2>1, Tuples
    <2>2. CASE work.AuxDataLen >= 2 /\ T = Slice(img, 4 + c, work.AuxDataLen - 2)
      <3> DEFINE k == work.AuxDataLen - 2
                 p == 4 + c
      <3>1. k \in Nat /\ p \in Nat
        BY <1>4, <2>2
      <3> HIDE DEF k, p
      <3>2. Slice(img, p, k) \in Seq(S) /\ Len(Slice(img, p, k)) \in 0 .. k
        BY <1>3, <3>1, SlicesAre
      <3>3. T \in Seq(S)
        BY <2>2, <3>2 DEF p, k
      <3> QED
        BY <3>3, IsSeqs
    <2> QED
      BY <1>2, <2>1, <2>2
  <1>7. IsSeq(O)
    BY <1>5, IsSeqs
  <1> DEFINE n == ClearOf(work, clear, O, T)
  <1>8. n = <<n[1], n[2]>> /\ n[1] \in Nat /\ n[2] \in Nat
    BY <1>5, <1>6 DEF ClearOf, scc_clearlen1
  <1> HIDE DEF n
  <1>9. IsSeq(OneOf(work, img)) /\ IsSeq(TwoOf(work, img)) /\ n = ClearOf(work, clear, OneOf(work, img), TwoOf(work, img))
    BY <1>6, <1>7 DEF n, O, T
  <1> QED
    BY <1>8, <1>9 DEF Parted

\* The blocks of an image, in whatever way it was changed: no tag but those that the exports made.
IsBlock(b, L, e) == \/ b[1] # "siv"
                    \/ ~ IsError(L) /\ b = SealOne(L, e)
                    \/ \E X \in Encoded : ~ IsError(X) /\ b = SealTwo(X, e)
IsImage(img, L, e) == IsSeq(img) /\ \A k \in 2 .. Len(img) : IsBlock(img[k], L, e)

\* A block of an image by its place, or Zero after its end.
LEMMA BlocksAt ==
  ASSUME NEW img, NEW L, NEW e, IsImage(img, L, e), NEW k \in {1, 2, 3}
  PROVE  IsBlock(At(img, k), L, e)
  <1>1. Len(img) \in Nat
    BY DEF IsImage, IsSeq
  <1>2. CASE k < Len(img)
    <2>1. At(img, k) = img[k + 1] /\ k + 1 \in 2 .. Len(img)
      BY <1>1, <1>2 DEF At
    <2> QED
      BY <2>1 DEF IsImage
  <1>3. CASE ~ (k < Len(img))
    BY <1>3 DEF At, Zero, IsBlock
  <1> QED
    BY <1>2, <1>3

\* What an import may give: the locker L, without its ADS or with one exported beside the same header and first part.
Original(r, L, e, csk, lst, impq) ==
  /\ csk = e.csk /\ Entries(L.mdh, lst) = Entries(L.mdh, e.lst) /\ r.c1 = L.c1
  /\ \/ r.mdh = WithoutADS(L.mdh) /\ r.c2 = <<>>
     \/ impq = e.impq /\ \E X \in Encoded : X.mdh = L.mdh /\ X.c1 = L.c1 /\ r.mdh = X.mdh /\ r.c2 = X.c2
\* A tag, and what can be read from it: all that went into it.
TagOf(K, sep, a, b, s) == <<"siv", K, sep, <<a, b>> \o s>>
LEMMA TagsRead ==
  ASSUME NEW s, NEW t, IsSeq(s), IsSeq(t), NEW a, NEW b, NEW c, NEW d, NEW K, NEW k, NEW sep, TagOf(K, sep, a, b, s) = TagOf(k, sep, c, d, t)
  PROVE  K = k /\ a = c /\ b = d /\ s = t
  <1> DEFINE x == <<a, b>> \o s
             y == <<c, d>> \o t
  <1>1. <<"siv", K, sep, x>> = <<"siv", k, sep, y>>
    BY DEF TagOf
  <1> HIDE DEF x, y
  <1>2. K = k /\ x = y
    BY <1>1
  <1>3. a = c /\ b = d /\ s = t
    BY <1>2, Reading DEF x, y
  <1> QED
    BY <1>2, <1>3

\* Nothing but the locker comes out of an image that verifies.
LEMMA Genuine ==
  ASSUME NEW L \in Encoded, \A X \in Encoded : IsLocker(X), NEW clear \in Nat \X Nat, NEW e, NEW img, IsImage(img, L, e),
         NEW work, work = [x \in Fields |-> work[x]], work.AuxDataLen \in Nat, Supported(work),
         NEW csk, NEW lst, NEW impq, Parts(work, img, csk, lst, impq, clear).status = "ok"
  PROVE  Original(Parts(work, img, csk, lst, impq, clear), L, e, csk, lst, impq)
  <1> DEFINE n == ClearOf(work, clear, OneOf(work, img), TwoOf(work, img))
             one == OpenedOne(work, img, csk, n[1])
             two == OpenedTwo(work, img, csk, n[2])
             r == Parts(work, img, csk, lst, impq, clear)
             kept == Keeps(work, img, csk, impq, n[2])
  <1>1. Parted(work, img, clear, n[1], n[2])
    BY PartsTaken DEF IsImage
  <1>2. IsSeq(one) /\ IsSeq(two)
    <2>1. IsSeq(OneOf(work, img)) /\ IsSeq(TwoOf(work, img)) /\ n[1] \in Nat /\ n[2] \in Nat
      BY <1>1 DEF Parted
    <2> HIDE DEF n
    <2> QED
      BY <2>1, SealedSeq DEF OpenedOne, OpenedTwo
  <1> HIDE DEF n
  <1>3. Verifies(work, img, csk, lst, n[1])
    <2>1. "ok" # "authfail"
      OBVIOUS
    <2> QED
      BY <1>1, <2>1, Imports
  <1>4. r = [status |-> "ok", mdh |-> IF kept THEN work ELSE WithoutADS(work), c1 |-> Upto(one, scc_content1_size(work)),
             c2 |-> IF kept THEN two ELSE <<>>]
    BY <1>1, <1>3, Imports
  <1>5. At(img, 1) = <<"siv", csk, 0, <<Undropped(Block(work)), Entries(work, lst)>> \o one>>
    BY <1>3 DEF Verifies
  <1>6. ~ IsError(L) /\ At(img, 1) = SealOne(L, e)
    <2>1. IsBlock(At(img, 1), L, e)
      BY BlocksAt
    <2>2. At(img, 1)[1] = "siv" /\ At(img, 1)[3] = 0
      BY <1>5
    <2>3. \A X : SealTwo(X, e)[3] = 1
      BY DEF SealTwo
    <2> QED
      BY <2>1, <2>2, <2>3 DEF IsBlock
  <1>7. IsLocker(L)
    OBVIOUS
  <1>8. /\ L.mdh.ADSDropped = 0 /\ L.mdh = [x \in Fields |-> L.mdh[x]] /\ Len(L.c1) = scc_content1_size(L.mdh) /\ IsSeq(L.c1)
    BY <1>6, <1>7, Stored
  <1> HIDE DEF one, two, kept, r
  <1>9. TagOf(csk, 0, Undropped(Block(work)), Entries(work, lst), one) = TagOf(e.csk, 0, Undropped(Block(L.mdh)), Entries(L.mdh, e.lst), L.c1)
    <2>1. SealOne(L, e) = TagOf(e.csk, 0, Undropped(Block(L.mdh)), Entries(L.mdh, e.lst), L.c1)
      BY DEF SealOne, TagOf
    <2>2. At(img, 1) = TagOf(csk, 0, Undropped(Block(work)), Entries(work, lst), one)
      BY <1>5 DEF TagOf
    <2> QED
      BY <1>6, <2>1, <2>2
  <1>10. csk = e.csk /\ Undropped(Block(work)) = Undropped(Block(L.mdh)) /\ Entries(work, lst) = Entries(L.mdh, e.lst) /\ one = L.c1
    <2>1. IsSeq(one) /\ IsSeq(L.c1)
      BY <1>2, <1>8
    <2> QED
      BY <1>9, <2>1, TagsRead
  <1>11. /\ \A x \in Fields \ {"ADSDropped"} : work[x] = L.mdh[x]
         /\ WithoutADS(work) = WithoutADS(L.mdh) /\ (work.ADSDropped = L.mdh.ADSDropped => work = L.mdh)
         /\ \A s : Entries(work, s) = Entries(L.mdh, s)
    <2> DEFINE f == L.mdh
    <2>1. f = [x \in Fields |-> f[x]] /\ Undropped(Block(work)) = Undropped(Block(f))
      BY <1>8, <1>10
    <2> HIDE DEF f
    <2>2. /\ \A x \in Fields \ {"ADSDropped"} : work[x] = f[x]
          /\ WithoutADS(work) = WithoutADS(f) /\ (work.ADSDropped = f.ADSDropped => work = f)
          /\ \A s : Entries(work, s) = Entries(f, s)
      BY <2>1, Undroppings
    <2> QED
      BY <2>2 DEF f
  <1>12. r.c1 = L.c1
    <2>1. scc_content1_size(work) = scc_content1_size(L.mdh)
      BY <1>11 DEF Fields, scc_content1_size
    <2>2. Upto(L.c1, scc_content1_size(L.mdh)) = L.c1
      BY <1>8, UptoAll
    <2> QED
      BY <1>4, <1>10, <2>1, <2>2
  <1>13. Entries(L.mdh, lst) = Entries(L.mdh, e.lst)
    BY <1>10, <1>11
  <1>14. CASE ~ kept
    <2>1. r.mdh = WithoutADS(L.mdh) /\ r.c2 = <<>>
      BY <1>4, <1>11, <1>14
    <2> QED
      BY <1>10, <1>12, <1>13, <2>1 DEF r, Original
  <1>15. CASE kept
    <2>1. /\ work.ADSDropped = 0 /\ At(img, 2) = impq
          /\ At(img, 3) = <<"siv", csk, 1, <<At(img, 2), At(img, 1)>> \o two>>
      BY <1>15 DEF kept, Keeps, two
    <2>2. PICK X \in Encoded : ~ IsError(X) /\ At(img, 3) = SealTwo(X, e)
      <3>1. IsBlock(At(img, 3), L, e)
        BY BlocksAt
      <3>2. At(img, 3)[1] = "siv" /\ At(img, 3)[3] = 1
        BY <2>1
      <3>3. SealOne(L, e)[3] = 0
        BY DEF SealOne
      <3> QED
        BY <3>1, <3>2, <3>3 DEF IsBlock
    <2>3. X.mdh.ADSDropped = 0 /\ X.mdh = [x \in Fields |-> X.mdh[x]] /\ IsSeq(X.c1) /\ IsSeq(X.c2)
      <3>1. IsLocker(X)
        OBVIOUS
      <3> QED
        BY <2>2, <3>1, Stored
    <2>4. TagOf(csk, 1, At(img, 2), At(img, 1), two) = TagOf(e.csk, 1, e.impq, SealOne(X, e), X.c2)
      BY <2>1, <2>2 DEF SealTwo, TagOf
    <2>5. At(img, 2) = e.impq /\ At(img, 1) = SealOne(X, e) /\ two = X.c2
      <3>1. IsSeq(two) /\ IsSeq(X.c2)
        BY <1>2, <2>3
      <3> QED
        BY <2>4, <3>1, TagsRead
    <2>6. TagOf(e.csk, 0, Undropped(Block(X.mdh)), Entries(X.mdh, e.lst), X.c1) = TagOf(e.csk, 0, Undropped(Block(L.mdh)), Entries(L.mdh, e.lst), L.c1)
      <3>1. \A Y : SealOne(Y, e) = TagOf(e.csk, 0, Undropped(Block(Y.mdh)), Entries(Y.mdh, e.lst), Y.c1)
        BY DEF SealOne, TagOf
      <3> QED
        BY <1>6, <2>5, <3>1
    <2>7. Undropped(Block(X.mdh)) = Undropped(Block(L.mdh)) /\ X.c1 = L.c1
      <3>1. IsSeq(X.c1) /\ IsSeq(L.c1)
        BY <1>8, <2>3
      <3> QED
        BY <2>6, <3>1, TagsRead
    <2>8. X.mdh = L.mdh
      <3> DEFINE f == L.mdh
                 g == X.mdh
      <3>1. f = [x \in Fields |-> f[x]] /\ g = [x \in Fields |-> g[x]] /\ Undropped(Block(g)) = Undropped(Block(f)) /\ g.ADSDropped = f.ADSDropped
        BY <1>8, <2>3, <2>7
      <3> HIDE DEF f, g
      <3>2. g = f
        BY <3>1, Undroppings
      <3> QED
        BY <3>2 DEF f, g
    <2>9. r.mdh = X.mdh /\ r.c2 = X.c2
      BY <1>4, <1>8, <1>11, <1>15, <2>1, <2>5, <2>8
    <2> QED
      BY <1>10, <1>12, <1>13, <2>1, <2>5, <2>7, <2>8, <2>9 DEF r, Original
  <1> QED
    BY <1>14, <1>15

-----------------------------------------------------------------------------
\* The import of an image as it was exported.
Header(g) == g = [x \in Fields |-> g[x]] /\ g.AuxDataLen \in Nat
HeaderOf(f, ml) == IF ml = Nothing THEN f ELSE [f EXCEPT !.State = 57]
Wanted(L, e, impq, n) == L.mdh.AuxDataLen \in 2 .. n /\ e.impq = impq
Back(L, e, impq, n) == Comes(L, Wanted(L, e, impq, n))
Before(L, ml) == ml \in {Nothing, <<L.mdh.State>>}
Returns(L, clear, e, lst, n, ml) ==
  /\ IsLocker(L) /\ L.mdh.State # 0 /\ clear \in Nat \X Nat /\ Entries(L.mdh, lst) = Entries(L.mdh, e.lst) /\ n \in Nat /\ Before(L, ml)
Imported(img, csk, lst, impq, clear, n, ml) == scc_import(img, csk, lst, impq, clear, n, ml, FALSE)
LEMMA ImportsBack ==
  ASSUME NEW L, NEW clear, NEW e, NEW lst, NEW impq, NEW max_ads, NEW ml, Returns(L, clear, e, lst, max_ads, ml)
  PROVE  Imported(ImageOf(Block(HeaderOf(L.mdh, ml)), L, e, clear), e.csk, lst, impq, clear, max_ads, ml) =
           Back(L, e, impq, max_ads)
  <1>0. /\ IsLocker(L) /\ L.mdh.State # 0 /\ clear \in Nat \X Nat /\ Entries(L.mdh, lst) = Entries(L.mdh, e.lst)
        /\ max_ads \in Nat /\ Before(L, ml)
    BY DEF Returns
  <1> DEFINE f == L.mdh
             g == HeaderOf(f, ml)
             img == ImageOf(Block(g), L, e, clear)
             Mv == IF ml = Nothing THEN g ELSE [g EXCEPT !.State = ml[1]]
             drop == IF g.AuxDataLen >= 2 /\ (g.ADSDropped = 1 \/ g.AuxDataLen > max_ads) THEN 1 ELSE 0
             P == Parts([Mv EXCEPT !.ADSDropped = drop], img, e.csk, lst, impq, clear)
             whole == f.AuxDataLen \in 2 .. max_ads /\ e.impq = impq
             kept == Size(L) = 4 /\ drop = 0 /\ e.impq = impq
  <1>1. /\ ~ scc_invalid(f) /\ Supported(f) /\ f.ADSDropped = 0 /\ f = [x \in Fields |-> f[x]] /\ f.AuxDataLen \in Nat /\ f.State # 0
        /\ (Size(L) = 4) = (f.AuxDataLen >= 2) /\ ~ IsError(L)
    <2>1. ~ IsError(L)
      BY <1>0 DEF IsError
    <2> QED
      BY <1>0, <2>1, Stored
  <1>2. img[1][2] = g
    <2>1. img[1] = Block(g)
      BY <1>0, Images
    <2> HIDE DEF img, g
    <2> QED
      BY <2>1 DEF Block
  <1> HIDE DEF f
  <1>3. /\ g.State # 0 /\ g.Machine = f.Machine /\ g.AuxDataLen = f.AuxDataLen /\ g.ADSDropped = 0 /\ Mv = f
    <2>1. CASE ml = Nothing
      BY <1>1, <2>1 DEF HeaderOf
    <2>2. CASE ml # Nothing
      <3>1. ml = <<f.State>>
        BY <1>0, <2>2 DEF f, Before
      <3>2. g = [f EXCEPT !.State = 57]
        BY <2>2 DEF HeaderOf
      <3>3. [g EXCEPT !.State = f.State] = f
        BY <1>1, <3>2 DEF Fields
      <3>4. ml[1] = f.State
        BY <3>1
      <3>5. g.State = 57 /\ g.Machine = f.Machine /\ g.AuxDataLen = f.AuxDataLen /\ g.ADSDropped = f.ADSDropped
        BY <1>1, <3>2 DEF Fields
      <3> QED
        BY <1>1, <2>2, <3>3, <3>4, <3>5
    <2> QED
      BY <2>1, <2>2
  <1> HIDE DEF g, Mv
  <1>4. ~ ErrorImport(g, FALSE) /\ Supported(g)
    BY <1>1, <1>3 DEF ErrorImport, Supported
  <1>5. ~ scc_invalid([Mv EXCEPT !.State = 1])
    <2> DEFINE v == [f EXCEPT !.State = 1]
    <2>1. /\ v.State = 1 /\ v.Fixed = f.Fixed /\ v.KeyType = f.KeyType /\ v.Locality = f.Locality /\ v.Transparent = f.Transparent
          /\ v.StateExtension = f.StateExtension /\ v.AuxDataLen = f.AuxDataLen
      BY <1>1 DEF Fields
    <2> HIDE DEF v
    <2>2. ~ scc_invalid(v)
      BY <1>1, <2>1 DEF scc_invalid
    <2> QED
      BY <1>3, <2>2 DEF v
  <1> HIDE DEF img, drop
  <1>6. Imported(img, e.csk, lst, impq, clear, max_ads, ml) = P
    BY <1>2, <1>4, <1>5 DEF Imported, scc_import, Mv, drop
  <1>7. drop \in {0, 1} /\ (drop = 1) = (f.AuxDataLen >= 2 /\ f.AuxDataLen > max_ads)
    BY <1>0, <1>1, <1>3 DEF drop
  <1>8. P = Comes(L, kept)
    <2> DEFINE h == Block(g)
               x == PartsOf(L, drop, ImageOf(h, L, e, clear), e.csk, lst, impq, clear)
    <2>1. Sendable(L, clear, e, drop, lst)
      BY <1>0, <1>1, <1>7 DEF Sendable
    <2> HIDE DEF h
    <2>2. x = Kept(L, e, drop, impq)
      BY <2>1, Backs
    <2>3. P = x
      BY <1>3 DEF f, img, h, PartsOf
    <2> HIDE DEF P, x
    <2> QED
      BY <2>2, <2>3 DEF Kept
  <1>9. kept = whole
    BY <1>0, <1>1, <1>7
  <1> HIDE DEF kept, P
  <1>10. Imported(img, e.csk, lst, impq, clear, max_ads, ml) = Comes(L, whole)
    BY <1>6, <1>8, <1>9
  <1> QED
    BY <1>10 DEF img, g, f, Wanted, Back

\* The import of any image.
LEMMA ImportsGenuine ==
  ASSUME NEW L \in Encoded, \A X \in Encoded : IsLocker(X), NEW clear \in Nat \X Nat, NEW e, NEW img, IsImage(img, L, e),
         NEW g, Header(g), img[1] = Block(g), NEW csk, NEW lst, NEW impq, NEW max_ads, NEW ml,
         LET r == Imported(img, csk, lst, impq, clear, max_ads, ml) IN r.status = "ok" /\ r.mdh.State # 0
  PROVE  Original(Imported(img, csk, lst, impq, clear, max_ads, ml), L, e, csk, lst, impq)
  <1> DEFINE r == Imported(img, csk, lst, impq, clear, max_ads, ml)
             Mv == IF ml = Nothing THEN g ELSE [g EXCEPT !.State = ml[1]]
             drop == IF g.AuxDataLen >= 2 /\ (g.ADSDropped = 1 \/ g.AuxDataLen > max_ads) THEN 1 ELSE 0
             work == [Mv EXCEPT !.ADSDropped = drop]
             P == Parts(work, img, csk, lst, impq, clear)
  <1>1. img[1][2] = g
    BY DEF Block
  <1>2. g = [x \in Fields |-> g[x]] /\ g.AuxDataLen \in Nat
    BY DEF Header
  <1>3. r = IF ErrorImport(g, FALSE)
            THEN [Refused("ok") EXCEPT !.mdh = IF scc_invalid([g EXCEPT !.State = 1, !.StateExtension = 0]) THEN InvalidMDH(g)
                                               ELSE [g EXCEPT !.AuxDataLen = 0, !.ADSDropped = 0]]
            ELSE IF ~Supported(g) /\ ~scc_invalid(g) THEN Refused("unsupported")
            ELSE IF scc_invalid([Mv EXCEPT !.State = 1]) THEN Refused("invalid")
            ELSE IF ~Supported(g) THEN Refused("unsupported")
            ELSE P
    BY <1>1 DEF Imported, scc_import
  <1> HIDE DEF P
  <1>4. ~ ErrorImport(g, FALSE)
    <2> SUFFICES ASSUME ErrorImport(g, FALSE) PROVE FALSE
      OBVIOUS
    <2> DEFINE h == IF scc_invalid([g EXCEPT !.State = 1, !.StateExtension = 0]) THEN InvalidMDH(g) ELSE [g EXCEPT !.AuxDataLen = 0, !.ADSDropped = 0]
    <2>1. g.State = 0
      BY DEF ErrorImport
    <2>2. InvalidMDH(g).State = 0
      BY <1>2 DEF InvalidMDH, Fields
    <2>3. [g EXCEPT !.AuxDataLen = 0, !.ADSDropped = 0].State = 0
      BY <1>2, <2>1 DEF Fields
    <2>4. h.State = 0
      BY <2>2, <2>3
    <2>5. r = [Refused("ok") EXCEPT !.mdh = h]
      BY <1>3
    <2> HIDE DEF h, r
    <2>6. r.mdh = h
      BY <2>5 DEF Refused
    <2> QED
      BY <2>4, <2>6 DEF r
  <1>5. Supported(g) /\ r = P
    <2>1. r.status = "ok"
      OBVIOUS
    <2>2. Refused("unsupported").status # "ok" /\ Refused("invalid").status # "ok"
      BY DEF Refused
    <2> HIDE DEF r
    <2> QED
      BY <1>3, <1>4, <2>1, <2>2
  <1>6. work = [x \in Fields |-> work[x]] /\ work.AuxDataLen = g.AuxDataLen /\ work.Machine = g.Machine
    <2> HIDE DEF drop
    <2>1. Mv = [x \in Fields |-> Mv[x]] /\ Mv.AuxDataLen = g.AuxDataLen /\ Mv.Machine = g.Machine
      BY <1>2 DEF Fields
    <2> HIDE DEF Mv
    <2> QED
      BY <2>1 DEF Fields
  <1> HIDE DEF work
  <1>7. work.AuxDataLen \in Nat /\ Supported(work) /\ P.status = "ok" /\ P = Parts(work, img, csk, lst, impq, clear)
    <2>1. r.status = "ok"
      OBVIOUS
    <2> HIDE DEF r
    <2> QED
      BY <1>2, <1>5, <1>6, <2>1 DEF Supported, P
  <1>8. Original(P, L, e, csk, lst, impq)
    <2>1. work = [x \in Fields |-> work[x]] /\ work.AuxDataLen \in Nat /\ Supported(work)
          /\ Parts(work, img, csk, lst, impq, clear).status = "ok"
      BY <1>6, <1>7
    <2>2. Original(Parts(work, img, csk, lst, impq, clear), L, e, csk, lst, impq)
      BY <2>1, Genuine
    <2> QED
      BY <1>7, <2>2
  <1> HIDE DEF r
  <1>9. Original(r, L, e, csk, lst, impq)
    BY <1>5, <1>8
  <1> QED
    BY <1>9 DEF r

-----------------------------------------------------------------------------
\* The invariant: what the image is made of, and what it is as it was exported.
MFields == {"alg", "stage", "L", "clear", "env", "img", "changed", "used", "r"}
EFields == {"csk", "lst", "impq", "max_ads", "ml"}
\* The parts of m, and what Init and Export leave in them.
TypeInv ==
  /\ m = [x \in MFields |-> m[x]] /\ m.env = [x \in EFields |-> m.env[x]]
  /\ m.L \in Encoded /\ m.clear \in Nat \X Nat /\ IsPlain(m.env.impq) /\ m.env.max_ads \in Nat
  /\ m.stage \in {"locker", "image", "imported"}
\* The image of L as it was exported; it says that it goes on when the environment has the State that it had before.
Exported(L, e, clear) == IF IsError(L) THEN <<Block(L.mdh)>> ELSE ImageOf(Block(HeaderOf(L.mdh, e.ml)), L, e, clear)
\* The State is kept only by an export.
Unexported == m.stage = "locker" => m.env.ml = Nothing
\* No tag is in the image but those of the exports, and its first block is a header; unchanged, it is as it was exported.
Made ==
  m.stage = "image" =>
    /\ IsImage(m.img, m.L, m.env) /\ Len(m.img) >= 1
    /\ \E g : Header(g) /\ m.img[1] = Block(g)
    /\ m.env.ml \in {Nothing, <<m.L.mdh.State>>}
    /\ ~ m.changed => m.img = Exported(m.L, m.env, m.clear) /\ (m.L.mdh.State = 0 => m.env.ml = Nothing)
\* What was imported is as the two properties say.
Got == m.stage = "imported" => RoundTrips /\ OnlyTheOriginal
IInv == TypeInv /\ Unexported /\ Made /\ Got

\* A sequence with one element changed.
LEMMA Put ==
  ASSUME NEW s, IsSeq(s), NEW k \in 1 .. Len(s), NEW b
  PROVE  LET t == [s EXCEPT ![k] = b] IN IsSeq(t) /\ Len(t) = Len(s) /\ t[k] = b /\ \A i \in 1 .. Len(s) : i # k => t[i] = s[i]
  <1> DEFINE S == {s[i] : i \in 1 .. Len(s)} \cup {b}
             t == [s EXCEPT ![k] = b]
  <1>1. s \in Seq(S)
    <2>1. s \in Seq({s[i] : i \in 1 .. Len(s)})
      BY DEF IsSeq
    <2>2. \A i \in 1 .. Len(s) : s[i] \in S
      OBVIOUS
    <2> HIDE DEF S
    <2> QED
      BY <2>1, <2>2, Widened
  <1>2. b \in S
    OBVIOUS
  <1> HIDE DEF S
  <1>3. t \in Seq(S) /\ Len(t) = Len(s) /\ t[k] = b /\ \A i \in 1 .. Len(s) : i # k => t[i] = s[i]
    BY <1>1, <1>2
  <1>4. IsSeq(t)
    BY <1>3, IsSeqs
  <1> QED
    BY <1>3, <1>4

\* A sequence of one block.
LEMMA One ==
  ASSUME NEW b
  PROVE  IsSeq(<<b>>) /\ Len(<<b>>) = 1 /\ <<b>>[1] = b
  <1>1. <<b>> \in Seq({b})
    OBVIOUS
  <1> QED
    BY <1>1, IsSeqs

\* Only the keys of what an export is given reach its tags.
LEMMA SameEnv ==
  ASSUME NEW d, NEW e, d.csk = e.csk, d.lst = e.lst, d.impq = e.impq
  PROVE  /\ \A L : SealOne(L, d) = SealOne(L, e) /\ SealTwo(L, d) = SealTwo(L, e)
         /\ \A b, L, clear : ImageOf(b, L, d, clear) = ImageOf(b, L, e, clear)
         /\ \A img, L : IsImage(img, L, d) = IsImage(img, L, e)
  <1>1. \A L : SealOne(L, d) = SealOne(L, e)
    BY DEF SealOne
  <1>2. \A L : SealTwo(L, d) = SealTwo(L, e)
    BY <1>1 DEF SealTwo
  <1>3. ASSUME NEW b, NEW L, NEW clear PROVE ImageOf(b, L, d, clear) = ImageOf(b, L, e, clear)
    <2>1. Front(b, L, d) = Front(b, L, e)
      BY <1>1, <1>2 DEF Front
    <2>2. PartOne(L, d, clear) = PartOne(L, e, clear) /\ PartTwo(L, d, clear) = PartTwo(L, e, clear)
      BY <1>1, <1>2 DEF PartOne, PartTwo
    <2> QED
      BY <2>1, <2>2 DEF ImageOf
  <1>4. \A b, L : IsBlock(b, L, d) = IsBlock(b, L, e)
    BY <1>1, <1>2 DEF IsBlock
  <1>5. \A img, L : IsImage(img, L, d) = IsImage(img, L, e)
    BY <1>4 DEF IsImage
  <1> QED
    BY <1>1, <1>2, <1>3, <1>5

\* The blocks of the image of a locker: those of its own first part and of its ADS.
LEMMA Fresh ==
  ASSUME NEW L \in Encoded, IsLocker(L), ~ IsError(L), NEW clear \in Nat \X Nat, NEW e, IsPlain(e.impq), NEW b
  PROVE  LET img == ImageOf(b, L, e, clear) IN
         /\ IsImage(img, L, e) /\ Len(img) >= 1 /\ img[1] = b
         /\ \A k \in 3 .. Len(img) : img[k][1] # "siv" \/ img[k] = SealTwo(L, e)
         /\ Len(img) = scc_size(L.mdh)
  <1> DEFINE img == ImageOf(b, L, e, clear)
  <1>1. /\ IsSeq(img) /\ Len(img) = Size(L) + Len(L.c1) + Len(L.c2) /\ img[1] = b
        /\ \A i \in Size(L) + 1 .. Len(img) : img[i][1] # "siv"
        /\ img[2] = SealOne(L, e) /\ (Size(L) = 4 => img[3] = e.impq /\ img[4] = SealTwo(L, e))
    BY Images
  <1>2. /\ ~ scc_invalid(L.mdh) /\ Supported(L.mdh) /\ L.mdh.ADSDropped = 0
        /\ L.mdh.AuxDataLen \in Nat \ {1} /\ L.mdh.State # 0
        /\ Len(L.c1) = scc_content1_size(L.mdh) /\ Len(L.c1) \in Nat
        /\ Len(L.c2) = (IF Size(L) = 4 THEN L.mdh.AuxDataLen - 2 ELSE 0) /\ Len(L.c2) \in Nat
        /\ (Size(L) = 4) = (L.mdh.AuxDataLen >= 2) /\ Size(L) \in {2, 4}
    BY Stored
  <1> HIDE DEF img
  <1>3. ASSUME NEW k \in 3 .. Len(img) PROVE img[k][1] # "siv" \/ img[k] = SealTwo(L, e)
    <2>1. CASE k \in Size(L) + 1 .. Len(img)
      BY <1>1, <2>1
    <2>2. CASE ~ (k \in Size(L) + 1 .. Len(img))
      <3>1. Size(L) = 4 /\ (k = 3 \/ k = 4)
        BY <1>1, <1>2, <2>2
      <3> QED
        BY <1>1, <3>1 DEF IsPlain
    <2> QED
      BY <2>1, <2>2
  <1>4. ASSUME NEW k \in 2 .. Len(img) PROVE IsBlock(img[k], L, e)
    <2>1. CASE k = 2
      BY <1>1, <2>1 DEF IsBlock
    <2>2. CASE k # 2
      <3>1. k \in 3 .. Len(img)
        BY <1>1, <1>2, <2>2
      <3> QED
        BY <1>3, <3>1 DEF IsBlock
    <2> QED
      BY <2>1, <2>2
  <1>5. IsImage(img, L, e)
    BY <1>1, <1>4 DEF IsImage
  <1>6. Len(img) = scc_size(L.mdh) /\ Len(img) >= 1
    <2> DEFINE f == L.mdh
    <2>1. ~ scc_invalid(f) /\ Supported(f) /\ f.ADSDropped = 0 /\ f.State # 0 /\ f.AuxDataLen \in Nat \ {1}
      BY <1>2
    <2> HIDE DEF f
    <2>2. scc_size(f) = (IF f.AuxDataLen = 0 THEN 2 ELSE 4) + scc_content1_size(f) + scc_content2_size(f)
      BY <2>1 DEF scc_size
    <2>3. scc_content2_size(f) = IF f.AuxDataLen >= 2 THEN f.AuxDataLen - 2 ELSE 0
      BY <2>1 DEF scc_content2_size
    <2>4. /\ Len(L.c1) = scc_content1_size(f) /\ (Size(L) = 4) = (f.AuxDataLen >= 2) /\ Size(L) \in {2, 4}
          /\ Len(L.c2) = (IF Size(L) = 4 THEN f.AuxDataLen - 2 ELSE 0)
      BY <1>2 DEF f
    <2>5. Len(img) = scc_size(f)
      BY <1>1, <1>2, <2>1, <2>2, <2>3, <2>4
    <2> QED
      BY <1>1, <1>2, <2>5 DEF f
  <1> QED
    BY <1>1, <1>3, <1>5, <1>6 DEF img

-----------------------------------------------------------------------------
\* The invariant holds of a locker that was not yet exported.
LEMMA Inits ==
  ASSUME SCCAssumption, Init
  PROVE  IInv
  <1>1. PICK L \in Encoded, clear \in Clears, csk \in CSKs, lst \in LSTs, impq \in Impqs :
          m = [alg |-> "scc", stage |-> "locker", L |-> L, clear |-> clear, env |-> Env(csk, lst, impq, 64, Nothing),
               img |-> <<>>, changed |-> FALSE, used |-> Nothing, r |-> Nothing]
    BY DEF Init
  <1>2. clear \in Nat \X Nat /\ IsPlain(impq)
    BY DEF SCCAssumption
  <1>3. m.stage = "locker" /\ m.L = L /\ m.clear = clear /\ m.env = Env(csk, lst, impq, 64, Nothing) /\ m = [x \in MFields |-> m[x]]
    BY <1>1 DEF MFields
  <1> DEFINE e == Env(csk, lst, impq, 64, Nothing)
  <1>4. e = [x \in EFields |-> e[x]] /\ e.impq = impq /\ e.max_ads = 64 /\ e.ml = Nothing
    BY DEF Env, EFields
  <1> HIDE DEF e
  <1>5. TypeInv
    BY <1>2, <1>3, <1>4 DEF TypeInv, e
  <1>6. Unexported /\ Made /\ Got
    BY <1>3, <1>4 DEF Unexported, Made, Got, e
  <1> QED
    BY <1>5, <1>6 DEF IInv

\* An export keeps the invariant, whether the header says that it goes on or not.
LEMMA Exporting ==
  ASSUME SCCAssumption, IInv, Export
  PROVE  IInv'
  <1> DEFINE L == m.L
             e == m.env
             clear == m.clear
  <1>1. /\ m = [x \in MFields |-> m[x]] /\ e = [x \in EFields |-> e[x]] /\ L \in Encoded /\ clear \in Nat \X Nat
        /\ IsPlain(e.impq) /\ e.max_ads \in Nat /\ m.stage = "locker" /\ e.ml = Nothing /\ IsLocker(L)
    BY DEF IInv, TypeInv, Unexported, Export, SCCAssumption
  <1>2. Image(L) = IF IsError(L) THEN <<Block(L.mdh)>> ELSE ImageOf(Block(L.mdh), L, e, clear)
    BY <1>1, Exports DEF Image
  <1>3. Header(L.mdh)
    BY <1>1 DEF IsLocker, Header
  <1>4. CASE m' = [m EXCEPT !.stage = "image", !.img = Image(m.L)]
    <2>1. /\ m' = [x \in MFields |-> m'[x]] /\ m'.stage = "image" /\ m'.img = Image(L) /\ m'.L = L /\ m'.env = e /\ m'.clear = clear
          /\ m'.changed = m.changed
      BY <1>1, <1>4 DEF MFields
    <2>2. Image(L) = Exported(L, e, clear)
      BY <1>1, <1>2 DEF Exported, HeaderOf
    <2>3. IsImage(Image(L), L, e) /\ Len(Image(L)) >= 1 /\ Image(L)[1] = Block(L.mdh)
      <3>1. CASE IsError(L)
        <4>1. Image(L) = <<Block(L.mdh)>>
          BY <1>2, <3>1
        <4> QED
          BY <4>1, One DEF IsImage
      <3>2. CASE ~ IsError(L)
        <4>1. Image(L) = ImageOf(Block(L.mdh), L, e, clear)
          BY <1>2, <3>2
        <4> QED
          BY <1>1, <3>2, <4>1, Fresh
      <3> QED
        BY <3>1, <3>2
    <2> HIDE DEF L, e, clear
    <2>4. TypeInv'
      BY <1>1, <2>1 DEF TypeInv
    <2>5. Made'
      BY <1>1, <1>3, <2>1, <2>2, <2>3 DEF Made
    <2> QED
      BY <2>1, <2>4, <2>5 DEF IInv, Unexported, Got
  <1>5. CASE /\ L.mdh.State \in 1 .. 55
             /\ m' = [m EXCEPT !.stage = "image", !.env.ml = <<L.mdh.State>>,
                               !.img = [Image(L) EXCEPT ![1] = Block([L.mdh EXCEPT !.State = 57])]]
    <2> DEFINE d == [e EXCEPT !.ml = <<L.mdh.State>>]
               g == [L.mdh EXCEPT !.State = 57]
               img == [Image(L) EXCEPT ![1] = Block(g)]
    <2>1. /\ m' = [x \in MFields |-> m'[x]] /\ m'.stage = "image" /\ m'.img = img /\ m'.L = L /\ m'.env = d /\ m'.clear = clear
          /\ m'.changed = m.changed
      <3>1. m' = [m EXCEPT !.stage = "image", !.env = d, !.img = img]
        BY <1>5
      <3> HIDE DEF d, img
      <3> QED
        BY <1>1, <3>1 DEF MFields
    <2>2. /\ d = [x \in EFields |-> d[x]] /\ d.csk = e.csk /\ d.lst = e.lst /\ d.impq = e.impq /\ d.max_ads = e.max_ads
          /\ d.ml = <<L.mdh.State>>
      BY <1>1 DEF EFields
    <2>3. Header(g)
      BY <1>3 DEF Header, Fields
    <2>4. ~ IsError(L) /\ L.mdh.State # 0
      BY <1>5 DEF IsError
    <2>5. img = ImageOf(Block(g), L, e, clear)
      <3> DEFINE a == Block(L.mdh)
                 b == Block(g)
      <3>1. Image(L) = ImageOf(a, L, e, clear)
        BY <1>2, <2>4
      <3> HIDE DEF a, b
      <3>2. [ImageOf(a, L, e, clear) EXCEPT ![1] = b] = ImageOf(b, L, e, clear)
        BY <1>1, Headed
      <3> QED
        BY <3>1, <3>2 DEF b
    <2> HIDE DEF d
    <2>6. ImageOf(Block(g), L, d, clear) = ImageOf(Block(g), L, e, clear) /\ IsImage(img, L, d) = IsImage(img, L, e)
      BY <2>2, SameEnv
    <2>7. IsImage(img, L, e) /\ Len(img) >= 1 /\ img[1] = Block(g)
      <3> DEFINE b == Block(g)
      <3> HIDE DEF b
      <3>1. IsImage(ImageOf(b, L, e, clear), L, e) /\ Len(ImageOf(b, L, e, clear)) >= 1 /\ ImageOf(b, L, e, clear)[1] = b
        BY <1>1, <2>4, Fresh
      <3> QED
        BY <2>5, <3>1 DEF b
    <2>8. img = Exported(L, d, clear)
      <3>1. HeaderOf(L.mdh, d.ml) = g
        BY <2>2 DEF HeaderOf, Nothing
      <3> QED
        BY <2>4, <2>5, <2>6, <3>1 DEF Exported
    <2> HIDE DEF img, L, e, clear, g
    <2>9. TypeInv'
      BY <1>1, <2>1, <2>2 DEF TypeInv
    <2>10. Made'
      BY <2>1, <2>2, <2>3, <2>4, <2>6, <2>7, <2>8 DEF Made
    <2> QED
      BY <2>1, <2>9, <2>10 DEF IInv, Unexported, Got
  <1> QED
    BY <1>4, <1>5 DEF Export

\* The image as it was exported, whose blocks a change puts in the place of others.
Spliced(s, t, n) == [k \in 1 .. Len(s) |-> IF k \in {3, 4} \/ k > 4 + n THEN t[k] ELSE s[k]]
LEMMA SplicedIs ==
  ASSUME NEW L \in Encoded, \A X \in Encoded : IsLocker(X), NEW clear \in Nat \X Nat, NEW e, IsPlain(e.impq),
         NEW s, IsImage(s, L, e), Len(s) >= 1, NEW X \in Encoded, NEW t, Len(t) = Len(s),
         t = IF IsError(X) THEN <<Block(X.mdh)>> ELSE ImageOf(Block(X.mdh), X, e, clear), NEW n \in Nat
  PROVE  IsImage(Spliced(s, t, n), L, e) /\ Len(Spliced(s, t, n)) = Len(s) /\ Spliced(s, t, n)[1] = s[1]
  <1> DEFINE img == [k \in 1 .. Len(s) |-> IF k \in {3, 4} \/ k > 4 + n THEN t[k] ELSE s[k]]
             S == {img[i] : i \in 1 .. Len(s)}
  <1>1. Len(s) \in Nat
    BY DEF IsImage, IsSeq
  <1>2. \A i \in 1 .. Len(s) : img[i] \in S
    OBVIOUS
  <1>3. \A k \in 1 .. Len(s) : img[k] = IF k \in {3, 4} \/ k > 4 + n THEN t[k] ELSE s[k]
    OBVIOUS
  <1>4. img = [k \in 1 .. Len(s) |-> img[k]]
    OBVIOUS
  <1> HIDE DEF img, S
  <1>5. img \in Seq(S) /\ Len(img) = Len(s)
    BY <1>1, <1>2, <1>4
  <1>6. img[1] = s[1]
    BY <1>1, <1>3
  <1>7. ASSUME NEW k \in 2 .. Len(s) PROVE IsBlock(img[k], L, e)
    <2>1. CASE k \in {3, 4} \/ k > 4 + n
      <3>1. k \in 3 .. Len(t) /\ img[k] = t[k]
        BY <1>1, <1>3, <2>1
      <3>2. ~ IsError(X)
        <4> SUFFICES ASSUME IsError(X) PROVE FALSE
          OBVIOUS
        <4>1. Len(t) = 1
          BY One
        <4> QED
          BY <3>1, <4>1
      <3>3. t[k][1] # "siv" \/ t[k] = SealTwo(X, e)
        <4> DEFINE b == Block(X.mdh)
        <4>1. t = ImageOf(b, X, e, clear)
          BY <3>2
        <4> HIDE DEF b
        <4>2. IsLocker(X)
          OBVIOUS
        <4>3. \A i \in 3 .. Len(ImageOf(b, X, e, clear)) : ImageOf(b, X, e, clear)[i][1] # "siv" \/ ImageOf(b, X, e, clear)[i] = SealTwo(X, e)
          BY <3>2, <4>2, Fresh
        <4> QED
          BY <3>1, <4>1, <4>3
      <3> QED
        BY <3>1, <3>2, <3>3 DEF IsBlock
    <2>2. CASE ~ (k \in {3, 4} \/ k > 4 + n)
      <3>1. img[k] = s[k]
        BY <1>1, <1>3, <2>2
      <3> QED
        BY <3>1 DEF IsImage
    <2> QED
      BY <2>1, <2>2
  <1>8. IsImage(img, L, e)
    BY <1>5, <1>7, IsSeqs DEF IsImage
  <1> QED
    BY <1>5, <1>6, <1>8 DEF img, Spliced

\* A change leaves an image of which no tag is new, with a header.
IsOk(img) == IsImage(img, m.L, m.env) /\ Len(img) >= 1 /\ \E g : Header(g) /\ img[1] = Block(g)

\* A field of the header.
LEMMA HeaderChanged ==
  ASSUME SCCAssumption, IsOk(m.img), NEW img \in WithHeader
  PROVE  IsOk(img)
  <1> DEFINE s == m.img
  <1>1. PICK g : Header(g) /\ s[1] = Block(g)
    BY DEF IsOk
  <1>2. IsSeq(s) /\ Len(s) \in Nat /\ Len(s) >= 1 /\ \A k \in 2 .. Len(s) : IsBlock(s[k], m.L, m.env)
    BY DEF IsOk, IsImage, IsSeq
  <1>3. PICK h \in Headers : img = [s EXCEPT ![1] = Block([s[1][2] EXCEPT ![h.field] = h.value])]
    BY DEF WithHeader
  <1> DEFINE f == [g EXCEPT ![h.field] = h.value]
             b == Block(f)
  <1> HIDE DEF s
  <1>4. img = [s EXCEPT ![1] = b]
    BY <1>1, <1>3 DEF Block
  <1>5. Header(f)
    <2>1. g = [x \in Fields |-> g[x]] /\ g.AuxDataLen \in Nat
      BY <1>1 DEF Header
    <2>2. h.field = "AuxDataLen" => h.value \in Nat
      BY DEF SCCAssumption
    <2> QED
      BY <2>1, <2>2 DEF Header, Fields
  <1> HIDE DEF b
  <1>6. 1 \in 1 .. Len(s)
    BY <1>2
  <1>7. IsSeq(img) /\ Len(img) = Len(s) /\ img[1] = b /\ \A i \in 1 .. Len(s) : i # 1 => img[i] = s[i]
    <2> DEFINE k == 1
    <2>1. IsSeq(s) /\ k \in 1 .. Len(s)
      BY <1>2, <1>6
    <2> HIDE DEF k
    <2>2. LET t == [s EXCEPT ![k] = b] IN IsSeq(t) /\ Len(t) = Len(s) /\ t[k] = b /\ \A i \in 1 .. Len(s) : i # k => t[i] = s[i]
      BY <2>1, Put
    <2> QED
      BY <1>4, <2>2 DEF k
  <1>8. IsImage(img, m.L, m.env)
    BY <1>2, <1>7 DEF IsImage
  <1>9. img[1] = Block(f) /\ Len(img) >= 1
    BY <1>2, <1>7 DEF b
  <1> HIDE DEF f
  <1> QED
    BY <1>5, <1>8, <1>9 DEF IsOk

\* A block, for another of the image or for none that it holds.
LEMMA BlockChanged ==
  ASSUME IsOk(m.img), NEW img \in WithBlock
  PROVE  IsOk(img)
  <1> DEFINE s == m.img
  <1>1. IsSeq(s) /\ Len(s) \in Nat /\ Len(s) >= 1 /\ \A k \in 2 .. Len(s) : IsBlock(s[k], m.L, m.env)
    BY DEF IsOk, IsImage, IsSeq
  <1>2. PICK k \in 2 .. Len(s), b \in {Junk} \cup {s[j] : j \in 2 .. Len(s)} : img = [s EXCEPT ![k] = b]
    BY DEF WithBlock
  <1>3. IsBlock(b, m.L, m.env)
    <2>1. IsBlock(Junk, m.L, m.env)
      BY DEF IsBlock, Junk
    <2> QED
      BY <1>1, <2>1
  <1>4. k \in 1 .. Len(s)
    OBVIOUS
  <1>5. \E g : Header(g) /\ s[1] = Block(g)
    BY DEF IsOk
  <1> HIDE DEF s
  <1>6. IsSeq(img) /\ Len(img) = Len(s) /\ img[k] = b /\ \A i \in 1 .. Len(s) : i # k => img[i] = s[i]
    <2>1. IsSeq(s) /\ k \in 1 .. Len(s)
      BY <1>1, <1>4
    <2>2. LET t == [s EXCEPT ![k] = b] IN IsSeq(t) /\ Len(t) = Len(s) /\ t[k] = b /\ \A i \in 1 .. Len(s) : i # k => t[i] = s[i]
      BY <2>1, Put
    <2> QED
      BY <1>2, <2>2
  <1>7. IsImage(img, m.L, m.env)
    BY <1>1, <1>3, <1>6 DEF IsImage
  <1>8. img[1] = s[1]
    BY <1>1, <1>6
  <1> QED
    BY <1>1, <1>5, <1>6, <1>7, <1>8 DEF IsOk

\* The end of the image.
LEMMA EndCut ==
  ASSUME IsOk(m.img), NEW img \in CutOff
  PROVE  IsOk(img)
  <1> DEFINE s == m.img
             S == {s[i] : i \in 1 .. Len(s)}
  <1>1. IsSeq(s) /\ Len(s) \in Nat /\ \A k \in 2 .. Len(s) : IsBlock(s[k], m.L, m.env)
    BY DEF IsOk, IsImage, IsSeq
  <1>2. PICK n \in 1 .. Len(s) : img = Upto(s, n)
    BY DEF CutOff
  <1>3. \E g : Header(g) /\ s[1] = Block(g)
    BY DEF IsOk
  <1> HIDE DEF s
  <1>4. s \in Seq(S) /\ n \in Nat
    BY <1>1 DEF IsSeq
  <1> HIDE DEF S
  <1>5. img \in Seq(S) /\ Len(img) = Least(n, Len(s)) /\ \A i \in 1 .. Least(n, Len(s)) : img[i] = s[i]
    BY <1>2, <1>4, Cuts
  <1>6. Least(n, Len(s)) = n
    BY <1>1 DEF Least
  <1>7. IsImage(img, m.L, m.env)
    BY <1>1, <1>5, <1>6, IsSeqs DEF IsImage
  <1>8. img[1] = s[1] /\ Len(img) >= 1
    BY <1>1, <1>5, <1>6
  <1> QED
    BY <1>3, <1>7, <1>8 DEF IsOk

\* The ADS, for that of another locker's image.
LEMMA ADSOfOther ==
  ASSUME SCCAssumption, m.L \in Encoded, m.clear \in Nat \X Nat, IsPlain(m.env.impq), IsOk(m.img), NEW img \in WithADSOf
  PROVE  IsOk(img)
  <1> DEFINE L == m.L
             e == m.env
             clear == m.clear
             s == m.img
             n == Len(L.c1)
  <1>1. \A X \in Encoded : IsLocker(X)
    BY DEF SCCAssumption
  <1>2. PICK X \in Encoded : /\ Len(Image(X)) = Len(s)
                             /\ img = [k \in 1 .. Len(s) |-> IF k \in {3, 4} \/ k > 4 + Len(L.c1) THEN Image(X)[k] ELSE s[k]]
    BY DEF WithADSOf
  <1> DEFINE t == Image(X)
  <1>3. t = IF IsError(X) THEN <<Block(X.mdh)>> ELSE ImageOf(Block(X.mdh), X, e, clear)
    BY <1>1, Exports DEF Image
  <1>4. n \in Nat
    <2>1. IsLocker(L)
      BY <1>1
    <2> HIDE DEF L
    <2>2. IsContent(L.c1)
      BY <2>1 DEF IsLocker
    <2> QED
      BY <2>2 DEF IsContent
  <1>5. Len(t) = Len(s) /\ img = [k \in 1 .. Len(s) |-> IF k \in {3, 4} \/ k > 4 + n THEN t[k] ELSE s[k]]
    BY <1>2
  <1>6. IsImage(s, L, e) /\ Len(s) >= 1 /\ L \in Encoded /\ clear \in Nat \X Nat /\ IsPlain(e.impq)
    BY DEF IsOk
  <1>7. \E g : Header(g) /\ s[1] = Block(g)
    BY DEF IsOk
  <1> HIDE DEF t, n, L, e, clear, s
  <1> DEFINE i == Spliced(s, t, n)
  <1>8. IsImage(i, L, e) /\ Len(i) = Len(s) /\ i[1] = s[1]
    <2>1. Len(t) = Len(s)
      BY <1>5
    <2> QED
      BY <1>1, <1>3, <1>4, <1>6, <2>1, SplicedIs
  <1>9. img = i
    BY <1>5 DEF Spliced
  <1> HIDE DEF i
  <1> QED
    BY <1>6, <1>7, <1>8, <1>9 DEF IsOk, L, e

\* A change of an image keeps the invariant.
LEMMA Changing ==
  ASSUME SCCAssumption, IInv, Change
  PROVE  IInv'
  <1>1. /\ m = [x \in MFields |-> m[x]] /\ m.env = [x \in EFields |-> m.env[x]] /\ m.L \in Encoded /\ m.clear \in Nat \X Nat
        /\ IsPlain(m.env.impq) /\ m.env.max_ads \in Nat /\ m.stage = "image"
    BY DEF IInv, TypeInv, Change
  <1>2. IsOk(m.img) /\ m.env.ml \in {Nothing, <<m.L.mdh.State>>}
    BY <1>1 DEF IInv, Made, IsOk
  <1>3. PICK img \in WithHeader \cup WithBlock \cup CutOff \cup WithADSOf : m' = [m EXCEPT !.img = img, !.changed = TRUE]
    BY DEF Change
  <1>4. IsOk(img)
    BY <1>1, <1>2, <1>3, HeaderChanged, BlockChanged, EndCut, ADSOfOther
  <1>5. /\ m' = [x \in MFields |-> m'[x]] /\ m'.stage = "image" /\ m'.img = img /\ m'.L = m.L /\ m'.env = m.env /\ m'.clear = m.clear
        /\ m'.changed = TRUE
    BY <1>1, <1>3 DEF MFields
  <1>6. TypeInv'
    BY <1>1, <1>5 DEF TypeInv
  <1>7. Made'
    BY <1>2, <1>4, <1>5 DEF Made, IsOk
  <1> QED
    BY <1>5, <1>6, <1>7 DEF IInv, Unexported, Got

\* An import keeps the invariant: of an image as it was exported by Backs, and of any other by Genuine.
LEMMA Importing ==
  ASSUME SCCAssumption, IInv, Import
  PROVE  IInv'
  <1> DEFINE L == m.L
             e == m.env
             clear == m.clear
             img == m.img
  <1>1. /\ m = [x \in MFields |-> m[x]] /\ e = [x \in EFields |-> e[x]] /\ L \in Encoded /\ clear \in Nat \X Nat
        /\ IsPlain(e.impq) /\ e.max_ads \in Nat /\ m.stage = "image" /\ (\A X \in Encoded : IsLocker(X)) /\ IsLocker(L)
    BY DEF IInv, TypeInv, Import, SCCAssumption
  <1>2. /\ IsImage(img, L, e) /\ e.ml \in {Nothing, <<L.mdh.State>>}
        /\ ~ m.changed => img = Exported(L, e, clear) /\ (L.mdh.State = 0 => e.ml = Nothing)
    BY <1>1 DEF IInv, Made
  <1>3. PICK g : Header(g) /\ img[1] = Block(g)
    BY <1>1 DEF IInv, Made
  <1>4. PICK x : /\ x.max_ads \in Nat
                 /\ m' = [m EXCEPT !.stage = "imported", !.used = x,
                                  !.r = Imported(img, x.csk, x.lst, x.impq, clear, x.max_ads, x.ml)]
    <2> DEFINE E == {e} \cup {[e EXCEPT !.csk = k] : k \in CSKs} \cup {[e EXCEPT !.lst = s] : s \in LSTs}
                      \cup {[e EXCEPT !.impq = q] : q \in Impqs} \cup {[e EXCEPT !.max_ads = n] : n \in Limits}
                      \cup {[e EXCEPT !.ml = s] : s \in IF e.ml = Nothing THEN {Nothing} ELSE {<<1>>, <<2>>, <<61>>}}
    <2>1. ASSUME NEW x \in E PROVE x.max_ads \in Nat
      <3>1. \A k, d : [e EXCEPT !.csk = k].max_ads = e.max_ads /\ [e EXCEPT !.lst = k].max_ads = e.max_ads
                       /\ [e EXCEPT !.impq = k].max_ads = e.max_ads /\ [e EXCEPT !.ml = k].max_ads = e.max_ads
                       /\ [e EXCEPT !.max_ads = k].max_ads = k
        BY <1>1 DEF EFields
      <3>2. e.max_ads \in Nat /\ \A n \in Limits : n \in Nat
        BY <1>1 DEF SCCAssumption
      <3>3. \/ x = e \/ (\E k : x = [e EXCEPT !.csk = k]) \/ (\E k : x = [e EXCEPT !.lst = k])
            \/ (\E k : x = [e EXCEPT !.impq = k]) \/ (\E k \in Limits : x = [e EXCEPT !.max_ads = k]) \/ (\E k : x = [e EXCEPT !.ml = k])
        OBVIOUS
      <3> HIDE DEF e, E
      <3>4. CASE x = e
        BY <3>2, <3>4
      <3>5. CASE \E k \in Limits : x = [e EXCEPT !.max_ads = k]
        BY <3>1, <3>2, <3>5
      <3>6. CASE \/ (\E k : x = [e EXCEPT !.csk = k]) \/ (\E k : x = [e EXCEPT !.lst = k])
                 \/ (\E k : x = [e EXCEPT !.impq = k]) \/ (\E k : x = [e EXCEPT !.ml = k])
        BY <3>1, <3>2, <3>6
      <3> QED
        BY <3>3, <3>4, <3>5, <3>6
    <2>2. \E x \in E : m' = [m EXCEPT !.stage = "imported", !.used = x,
                                        !.r = Imported(img, x.csk, x.lst, x.impq, clear, x.max_ads, x.ml)]
      BY DEF Import, Imported
    <2> HIDE DEF E
    <2> QED
      BY <2>1, <2>2
  <1> DEFINE r == Imported(img, x.csk, x.lst, x.impq, clear, x.max_ads, x.ml)
  <1>5. /\ m' = [y \in MFields |-> m'[y]] /\ m'.stage = "imported" /\ m'.used = x /\ m'.r = r /\ m'.L = L /\ m'.env = e
        /\ m'.clear = clear /\ m'.changed = m.changed
    <2> HIDE DEF r
    <2>1. m' = [m EXCEPT !.stage = "imported", !.used = x, !.r = r]
      BY <1>4 DEF r
    <2> QED
      BY <1>1, <2>1 DEF MFields
  <1> HIDE DEF L, e, clear, img, r
  <1>6. SameSCC' <=> x.csk = e.csk /\ Entries(L.mdh, x.lst) = Entries(L.mdh, e.lst)
    <2> DEFINE s == x.lst
               t == e.lst
               f == L.mdh
    <2>1. m'.used.csk = x.csk /\ m'.env.csk = e.csk /\ m'.used.lst = s /\ m'.env.lst = t /\ m'.L.mdh = f
      BY <1>5
    <2> HIDE DEF s, t, f
    <2>2. SameSCC' <=> x.csk = e.csk /\ SameEntries(f, s, t)
      BY <2>1 DEF SameSCC, SameEntries
    <2>3. Entries(f, s) = Entries(f, t) <=> SameEntries(f, s, t)
      BY EntriesAre
    <2> QED
      BY <2>2, <2>3 DEF s, t, f
  <1>7. ASSUME ~ m.changed, x.csk = e.csk, Entries(L.mdh, x.lst) = Entries(L.mdh, e.lst), x.ml = e.ml, L.mdh.State # 0
        PROVE  r = Comes(L, Wanted(L, e, x.impq, x.max_ads))
    <2> DEFINE lst == x.lst
               impq == x.impq
               n == x.max_ads
               ml == e.ml
    <2>1. Returns(L, clear, e, lst, n, ml)
      BY <1>1, <1>2, <1>4, <1>7 DEF Before, Returns
    <2>2. img = ImageOf(Block(HeaderOf(L.mdh, ml)), L, e, clear)
      BY <1>2, <1>7 DEF Exported, IsError
    <2>3. r = Imported(img, e.csk, lst, impq, clear, n, ml)
      BY <1>7 DEF r
    <2> HIDE DEF lst, impq, n, ml
    <2>4. Imported(ImageOf(Block(HeaderOf(L.mdh, ml)), L, e, clear), e.csk, lst, impq, clear, n, ml) = Back(L, e, impq, n)
      BY <2>1, ImportsBack
    <2> QED
      BY <2>2, <2>3, <2>4 DEF n, impq, Back
  <1>8. RoundTrips'
    <2>1. ASSUME ~ m'.changed, SameSCC', m'.used.ml = m'.env.ml, m'.L.mdh.State # 0
          PROVE  /\ m'.r.status = "ok"
                 /\ IF m'.used.impq = m'.env.impq /\ m'.L.mdh.AuxDataLen \in 2 .. m'.used.max_ads
                    THEN m'.r.mdh = m'.L.mdh /\ m'.r.c1 = m'.L.c1 /\ m'.r.c2 = m'.L.c2
                    ELSE m'.r.mdh = WithoutADS(m'.L.mdh) /\ m'.r.c1 = m'.L.c1 /\ m'.r.c2 = <<>>
      <3> DEFINE whole == Wanted(L, e, x.impq, x.max_ads)
      <3>1. r = Comes(L, whole)
        <4>1. ~ m.changed /\ x.ml = e.ml /\ L.mdh.State # 0
          BY <1>5, <2>1
        <4> QED
          BY <1>6, <1>7, <2>1, <4>1
      <3>2. whole <=> m'.used.impq = m'.env.impq /\ m'.L.mdh.AuxDataLen \in 2 .. m'.used.max_ads
        BY <1>5 DEF Wanted
      <3> HIDE DEF whole
      <3>3. r.status = "ok" /\ r.mdh = (IF whole THEN L.mdh ELSE WithoutADS(L.mdh)) /\ r.c1 = L.c1 /\ r.c2 = (IF whole THEN L.c2 ELSE <<>>)
        BY <3>1 DEF Comes
      <3>4. CASE whole
        BY <1>5, <3>2, <3>3, <3>4
      <3>5. CASE ~ whole
        BY <1>5, <3>2, <3>3, <3>5
      <3> QED
        BY <3>4, <3>5
    <2>2. m'.stage # "image"
      BY <1>5
    <2> QED
      BY <2>1, <2>2 DEF RoundTrips, Whole, WithoutItsADS
  <1>9. OnlyTheOriginal'
    <2>1. ASSUME m'.r.status = "ok", m'.r.mdh.State # 0
          PROVE  /\ SameSCC'
                 /\ \/ m'.r.mdh = WithoutADS(m'.L.mdh) /\ m'.r.c1 = m'.L.c1 /\ m'.r.c2 = <<>>
                    \/ m'.used.impq = m'.env.impq /\ \E X \in Encoded : /\ X.mdh = m'.L.mdh /\ X.c1 = m'.L.c1
                                                                      /\ m'.r.mdh = X.mdh /\ m'.r.c1 = X.c1 /\ m'.r.c2 = X.c2
      <3> DEFINE csk == x.csk
                 lst == x.lst
                 impq == x.impq
                 n == x.max_ads
                 ml == x.ml
      <3>1. Imported(img, csk, lst, impq, clear, n, ml).status = "ok" /\ Imported(img, csk, lst, impq, clear, n, ml).mdh.State # 0
        BY <1>5, <2>1 DEF r
      <3> HIDE DEF csk, lst, impq, n, ml
      <3>2. Original(Imported(img, csk, lst, impq, clear, n, ml), L, e, csk, lst, impq)
        BY <1>1, <1>2, <1>3, <3>1, ImportsGenuine
      <3>3. Original(r, L, e, x.csk, x.lst, x.impq)
        BY <3>2 DEF r, csk, lst, impq, n, ml
      <3>4. x.csk = e.csk /\ Entries(L.mdh, x.lst) = Entries(L.mdh, e.lst) /\ r.c1 = L.c1
            /\ (\/ r.mdh = WithoutADS(L.mdh) /\ r.c2 = <<>>
                \/ x.impq = e.impq /\ \E X \in Encoded : X.mdh = L.mdh /\ X.c1 = L.c1 /\ r.mdh = X.mdh /\ r.c2 = X.c2)
        BY <3>3 DEF Original
      <3> QED
        BY <1>5, <1>6, <3>4
    <2> QED
      BY <2>1 DEF OnlyTheOriginal, Whole, WithoutItsADS
  <1>10. TypeInv'
    BY <1>1, <1>5 DEF TypeInv
  <1> QED
    BY <1>5, <1>8, <1>9, <1>10 DEF IInv, Unexported, Made, Got

\* A step that changes nothing keeps it.
LEMMA Stutters ==
  ASSUME IInv, UNCHANGED m
  PROVE  IInv'
  BY DEF IInv, TypeInv, Unexported, Made, Got, RoundTrips, OnlyTheOriginal, SameSCC, WithoutItsADS, Whole

\* The invariant holds of every behaviour of exports, changes of an image and imports.
THEOREM Invariance ==
  ASSUME SCCAssumption
  PROVE  Spec => []IInv
  <1>1. Init => IInv
    BY Inits
  <1>2. IInv /\ [Next]_m => IInv'
    BY Exporting, Changing, Importing, Stutters DEF Next
  <1> QED
    BY <1>1, <1>2, PTL DEF Spec

\* What the invariant says of an image and of an import.
LEMMA IInvSays ==
  ASSUME IInv, SCCAssumption
  PROVE  RoundTrips /\ OnlyTheOriginal
  <1>1. m.stage = "image" /\ ~ m.changed => Len(m.img) = scc_size(m.L.mdh)
    <2> SUFFICES ASSUME m.stage = "image", ~ m.changed PROVE Len(m.img) = scc_size(m.L.mdh)
      OBVIOUS
    <2> DEFINE L == m.L
               b == Block(HeaderOf(L.mdh, m.env.ml))
    <2>1. m.img = (IF IsError(L) THEN <<Block(L.mdh)>> ELSE ImageOf(b, L, m.env, m.clear)) /\ L \in Encoded /\ IsLocker(L)
          /\ m.clear \in Nat \X Nat /\ IsPlain(m.env.impq)
      BY DEF IInv, Made, TypeInv, Exported, SCCAssumption
    <2> HIDE DEF L, b
    <2>2. CASE IsError(L)
      <3>1. scc_size(L.mdh) = 1
        BY <2>2 DEF scc_size, IsError
      <3> QED
        BY <2>1, <2>2, <3>1, One DEF L
    <2>3. CASE ~ IsError(L)
      <3>1. Len(ImageOf(b, L, m.env, m.clear)) = scc_size(L.mdh)
        BY <2>1, <2>3, Fresh
      <3> QED
        BY <2>1, <2>3, <3>1 DEF L
    <2> QED
      BY <2>2, <2>3
  <1>2. m.stage = "imported" => RoundTrips /\ OnlyTheOriginal
    BY DEF IInv, Got
  <1> QED
    BY <1>1, <1>2 DEF RoundTrips, OnlyTheOriginal

\* scc_import gives back the locker that scc_export was given, for every locker, CSK, entries of the SCC and length in clear:
\* whole to an implementation of the same IMPQUAL and an AuxDataLen that it takes, without the ADS to any other; and the
\* image is as long as scc_size says.
THEOREM ImagesRoundTrip ==
  ASSUME SCCAssumption
  PROVE  Spec => []RoundTrips
  <1>1. IInv => RoundTrips
    BY IInvSays
  <1> QED
    BY <1>1, Invariance, PTL

\* Whatever was changed in an image, in its header or in what an import is given, scc_import gives nothing that was not
\* exported: it fails, gives an Error State, or gives the locker with the SCC it was exported in, without its ADS or, in the
\* implementation of the export, with an ADS that was exported beside the same header and first part.
THEOREM OriginalsOnly ==
  ASSUME SCCAssumption
  PROVE  Spec => []OnlyTheOriginal
  <1>1. IInv => OnlyTheOriginal
    BY IInvSays
  <1> QED
    BY <1>1, Invariance, PTL
=============================================================================
