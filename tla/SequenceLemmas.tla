---------------------------- MODULE SequenceLemmas ----------------------------
(***************************************************************************)
(* Facts about numbers and sequences that the proofs about the modules     *)
(* need: induction over the natural numbers for a set (the theorems of     *)
(* NaturalsInduction take an operator), functions defined by recursion,    *)
(* and the concatenation of the members of a sequence, FlattenSeq.         *)
(***************************************************************************)
EXTENDS SequencesExt, SequenceTheorems, WellFoundedInduction, TLAPS

\* A set that has 0, and with every number the next one, has all numbers.
LEMMA NatSetInduction ==
  ASSUME NEW S, 0 \in S, \A n \in Nat : n \in S => n + 1 \in S
  PROVE  Nat \subseteq S
<1>1. SUFFICES ASSUME Nat \ S # {}
               PROVE  FALSE
  OBVIOUS
<1>. DEFINE Less == {p \in Nat \X Nat : p[1] < p[2]}
<1>2. IsWellFoundedOn(Less, Nat)
  BY NatLessThanWellFounded, Zenon DEF OpToRel
<1>. HIDE DEF Less
<1>3. PICK x \in Nat \ S : \A y \in Nat \ S : <<y, x>> \notin Less
  BY <1>1, <1>2, WFMin, Zenon
<1>4. x # 0 /\ x - 1 \in Nat /\ x - 1 < x
  BY <1>3
<1>5. <<x - 1, x>> \in Less
  BY <1>3, <1>4 DEF Less
<1>6. x - 1 \in S
  BY <1>3, <1>4, <1>5
<1>. QED
  BY <1>3, <1>4, <1>6

\* The least member of a set of natural numbers.
LEMMA LeastExists ==
  ASSUME NEW S, S \subseteq Nat, S # {}
  PROVE  \E x \in S : \A y \in S : x <= y
<1>. DEFINE A == {n \in Nat : \A m \in Nat : m <= n => m \notin S}
<1>1. SUFFICES ASSUME \A x \in S : \E y \in S : y < x
               PROVE  FALSE
  OBVIOUS
<1>2. 0 \in A
  BY <1>1
<1>3. ASSUME NEW n \in Nat, n \in A
      PROVE  n + 1 \in A
  <2>1. n + 1 \notin S
    BY <1>1, <1>3
  <2>. QED
    BY <1>3, <2>1
<1>4. Nat \subseteq A
  <2>. HIDE DEF A
  <2>. QED
    BY <1>2, <1>3, NatSetInduction
<1>5. PICK x \in Nat : x \in S
  OBVIOUS
<1>6. x \in A
  BY <1>4
<1>. QED
  BY <1>5, <1>6

\* Induction up to a bound, for the indices of a function.
LEMMA UpToInduction ==
  ASSUME NEW n \in Nat, NEW S, 0 \in S, \A i \in 0 .. n - 1 : i \in S => i + 1 \in S
  PROVE  0 .. n \subseteq S
<1>. DEFINE A == {k \in Nat : k <= n => k \in S}
<1>1. 0 \in A
  OBVIOUS
<1>2. \A k \in Nat : k \in A => k + 1 \in A
  OBVIOUS
<1>3. Nat \subseteq A
  <2>. HIDE DEF A
  <2>. QED
    BY <1>1, <1>2, NatSetInduction
<1>. QED
  BY <1>3

\* f has the first value base, and goes from each value to the next with step.
IsRecursive(f, n, T, base, step) ==
  /\ f \in [0 .. n -> T]
  /\ f[0] = base
  /\ \A i \in 1 .. n : f[i] = step[<<i, f[i - 1]>>]

\* There is such a function.
LEMMA RecursionExists ==
  ASSUME NEW n \in Nat, NEW T, NEW base \in T, NEW step \in [(1 .. n) \X T -> T]
  PROVE  \E f : IsRecursive(f, n, T, base, step)
<1>. DEFINE Good(k, f) == f[0] = base /\ \A i \in 1 .. k : f[i] = step[<<i, f[i - 1]>>]
            S == {k \in Nat : k <= n => \E f \in [0 .. k -> T] : Good(k, f)}
<1>1. 0 \in S
  <2>. DEFINE f == [i \in 0 .. 0 |-> base]
  <2>1. f \in [0 .. 0 -> T] /\ Good(0, f)
    OBVIOUS
  <2>. QED
    BY <2>1, Zenon DEF S
<1>2. ASSUME NEW k \in Nat, k \in S
      PROVE  k + 1 \in S
  <2>1. SUFFICES ASSUME k + 1 <= n
                 PROVE  \E f \in [0 .. k + 1 -> T] : Good(k + 1, f)
    OBVIOUS
  <2>2. PICK f \in [0 .. k -> T] : Good(k, f)
    BY <1>2, <2>1
  <2>. DEFINE g == [i \in 0 .. k + 1 |-> IF i <= k THEN f[i] ELSE step[<<k + 1, f[k]>>]]
  <2>3. step[<<k + 1, f[k]>>] \in T
    BY <2>1
  <2>4. g \in [0 .. k + 1 -> T]
    BY <2>3
  <2>5. \A i \in 1 .. k + 1 : g[i] = step[<<i, g[i - 1]>>]
    BY <2>2
  <2>6. g[0] = base
    BY <2>2
  <2>. QED
    BY <2>4, <2>5, <2>6
<1>3. n \in S
  <2>. HIDE DEF S
  <2>1. Nat \subseteq S
    BY <1>1, <1>2, NatSetInduction
  <2>. QED
    BY <2>1
<1>. QED
  BY <1>3 DEF IsRecursive

\* f and g start alike and go on alike.
GoAlike(f, g, n) ==
  /\ f[0] = g[0]
  /\ \A i \in 1 .. n : f[i - 1] = g[i - 1] => f[i] = g[i]

\* Two such functions are the same.
LEMMA RecursionUnique ==
  ASSUME NEW n \in Nat, NEW f, NEW g, GoAlike(f, g, n)
  PROVE  \A i \in 0 .. n : f[i] = g[i]
<1>. DEFINE A == {k \in Nat : k <= n => f[k] = g[k]}
<1>. USE DEF GoAlike
<1>1. 0 \in A
  OBVIOUS
<1>2. ASSUME NEW k \in Nat, k \in A
      PROVE  k + 1 \in A
  <2>1. CASE k + 1 <= n
    <3>1. k + 1 \in 1 .. n /\ (k + 1) - 1 = k /\ k <= n /\ k + 1 \in Nat
      BY <2>1
    <3>2. f[k] = g[k]
      BY <1>2, <3>1
    <3>. QED
      BY <3>1, <3>2
  <2>2. CASE ~(k + 1 <= n)
    BY <2>2
  <2>. QED
    BY <2>1, <2>2
<1>. HIDE DEF A
<1>3. Nat \subseteq A
  BY <1>1, <1>2, NatSetInduction
<1>. QED
  BY <1>3 DEF A

-----------------------------------------------------------------------------
(* Sequences.                                                              *)

\* The length and the members of a sequence over S.
LEMMA Members ==
  \A S : \A s \in Seq(S) :
    /\ Len(s) \in Nat
    /\ DOMAIN s = 1 .. Len(s)
    /\ s # <<>> => Len(s) \in Nat \ {0} /\ Len(s) \in 1 .. Len(s)
    /\ \A i \in 1 .. Len(s) : s[i] \in S
OBVIOUS

\* A function on 1 .. n is a sequence of length n.
LEMMA FunctionIsSeq ==
  \A S : \A n \in Nat : \A f \in [1 .. n -> S] : f \in Seq(S) /\ Len(f) = n
OBVIOUS

\* The last m members of a sequence.
LEMMA LastMembers ==
  ASSUME NEW S, NEW s \in Seq(S), NEW m \in Nat, m <= Len(s)
  PROVE  /\ SubSeq(s, Len(s) - m + 1, Len(s)) \in Seq(S)
         /\ Len(SubSeq(s, Len(s) - m + 1, Len(s))) = m
         /\ m > 0 => SubSeq(s, Len(s) - m + 1, Len(s))[m] = s[Len(s)]
<1>1. PICK n \in Nat : n = Len(s) /\ m <= n
  OBVIOUS
<1>2. \A i \in n - m + 1 .. n : s[i] \in S
  BY <1>1
<1>3. /\ SubSeq(s, n - m + 1, n) \in Seq(S)
      /\ Len(SubSeq(s, n - m + 1, n)) = IF n - m + 1 <= n THEN n - (n - m + 1) + 1 ELSE 0
      /\ \A i \in 1 .. n - (n - m + 1) + 1 : SubSeq(s, n - m + 1, n)[i] = s[n - m + 1 + i - 1]
  <2>1. PICK a \in Int : a = n - m + 1
    OBVIOUS
  <2>2. \A i \in a .. n : s[i] \in S
    BY <1>2, <2>1, Zenon
  <2>3. n \in Int
    OBVIOUS
  <2>4. /\ SubSeq(s, a, n) \in Seq(S)
        /\ Len(SubSeq(s, a, n)) = IF a <= n THEN n - a + 1 ELSE 0
        /\ \A i \in 1 .. n - a + 1 : SubSeq(s, a, n)[i] = s[a + i - 1]
    BY <2>2, <2>3, SubSeqProperties
  <2>. QED
    BY <2>1, <2>4, Zenon
<1>4. (IF n - m + 1 <= n THEN n - (n - m + 1) + 1 ELSE 0) = m
  BY <1>1
<1>5. m > 0 => m \in 1 .. n - (n - m + 1) + 1 /\ n - m + 1 + m - 1 = n
  BY <1>1
<1>. QED
  BY <1>1, <1>3, <1>4, <1>5, Zenon

-----------------------------------------------------------------------------
(* FlattenSeq.                                                             *)

\* ConcatAssociative and ConcatEmptySeq, to be instantiated.
LEMMA Concatenation ==
  \A S : /\ \A s, t, u \in Seq(S) : (s \o t) \o u = s \o (t \o u)
         /\ \A s \in Seq(S) : s \o <<>> = s /\ <<>> \o s = s
BY ConcatAssociative, ConcatEmptySeq

\* There is nothing in nothing.
LEMMA FlattenEmpty == FlattenSeq(<<>>) = <<>>
BY DEF FlattenSeq

\* The recursion of FlattenSeq.
LEMMA FlattenUnfolded ==
  ASSUME NEW S, NEW ss \in Seq(Seq(S)), ss # <<>>
  PROVE  LET g == CHOOSE g : g = [i \in 1 .. Len(ss) |-> IF i = 1 THEN ss[i] ELSE g[i - 1] \o ss[i]]
         IN FlattenSeq(ss) = g[Len(ss)]
BY DEF FlattenSeq

\* f[i] is the concatenation of the first i members.
IsPrefixes(f, S, ss) ==
  /\ f \in [0 .. Len(ss) -> Seq(S)]
  /\ f[0] = <<>>
  /\ \A i \in 1 .. Len(ss) : f[i] = f[i - 1] \o ss[i]

\* They exist.
LEMMA PrefixesExist ==
  ASSUME NEW S, NEW ss \in Seq(Seq(S))
  PROVE  \E f : IsPrefixes(f, S, ss)
<1>1. PICK n \in Nat : n = Len(ss)
  OBVIOUS
<1>. DEFINE step == [p \in (1 .. n) \X Seq(S) |-> p[2] \o ss[p[1]]]
<1>2. ASSUME NEW i \in 1 .. n, NEW s \in Seq(S)
      PROVE  s \o ss[i] \in Seq(S)
  BY <1>1
<1>3. step \in [(1 .. n) \X Seq(S) -> Seq(S)]
  BY <1>2
<1>4. \A i \in 1 .. n, s \in Seq(S) : step[<<i, s>>] = s \o ss[i]
  OBVIOUS
<1>. HIDE DEF step
<1>5. <<>> \in Seq(S)
  OBVIOUS
<1>6. PICK f : IsRecursive(f, n, Seq(S), <<>>, step)
  BY <1>3, <1>5, RecursionExists
<1>8. /\ f \in [0 .. n -> Seq(S)]
      /\ f[0] = <<>> /\ \A i \in 1 .. n : f[i] = step[<<i, f[i - 1]>>]
  BY <1>6, Zenon DEF IsRecursive
<1>7. ASSUME NEW i \in 1 .. n
      PROVE  f[i] = f[i - 1] \o ss[i]
  <2>1. i - 1 \in 0 .. n
    OBVIOUS
  <2>2. f[i - 1] \in Seq(S)
    BY <1>8, <2>1, Zenon
  <2>. QED
    BY <1>4, <1>8, <2>2, Zenon
<1>. QED
  BY <1>1, <1>7, <1>8, Zenon DEF IsPrefixes

\* FlattenSeq is the last of them.
LEMMA FlattenIsLastPrefix ==
  ASSUME NEW S, NEW ss \in Seq(Seq(S)), NEW f, IsPrefixes(f, S, ss)
  PROVE  FlattenSeq(ss) = f[Len(ss)]
<1>1. CASE ss = <<>>
  BY <1>1, FlattenEmpty DEF IsPrefixes
<1>2. CASE ss # <<>>
  <2>1. PICK n \in Nat : n = Len(ss) /\ n >= 1
    BY <1>2
  <2>. DEFINE Flat(g) == g = [i \in 1 .. n |-> IF i = 1 THEN ss[i] ELSE g[i - 1] \o ss[i]]
              g == CHOOSE g : Flat(g)
              h == [i \in 1 .. n |-> f[i]]
  <2>2. f[1] = ss[1]
    <3>1. 1 \in 1 .. n /\ 1 - 1 = 0 /\ ss[1] \in Seq(S)
      BY <2>1
    <3>2. f[1] = <<>> \o ss[1]
      BY <2>1, <3>1, Zenon DEF IsPrefixes
    <3>. QED
      BY <3>1, <3>2, Concatenation, Zenon
  <2>3. ASSUME NEW i \in 1 .. n
        PROVE  f[i] = IF i = 1 THEN ss[i] ELSE h[i - 1] \o ss[i]
    <3>1. CASE i = 1
      BY <2>2, <3>1
    <3>2. CASE i # 1
      <4>1. i - 1 \in 1 .. n
        BY <3>2
      <4>2. h[i - 1] = f[i - 1]
        BY <4>1, Zenon
      <4>3. f[i] = f[i - 1] \o ss[i]
        BY <2>1, Zenon DEF IsPrefixes
      <4>. QED
        BY <3>2, <4>2, <4>3, Zenon
    <3>. QED
      BY <3>1, <3>2, Zenon
  <2>4. Flat(h)
    BY <2>3, Zenon
  <2>5. Flat(g)
    BY <2>4, Zenon
  <2>6. FlattenSeq(ss) = g[n]
    BY <1>2, <2>1, FlattenUnfolded, Zenon
  <2>. HIDE DEF g
  <2>7. ASSUME NEW i \in 1 .. n
        PROVE  g[i] = IF i = 1 THEN ss[i] ELSE g[i - 1] \o ss[i]
    BY <2>5, Zenon
  <2>. DEFINE gg == [k \in 0 .. n |-> IF k = 0 THEN <<>> ELSE g[k]]
  <2>8. gg[0] = f[0]
    BY <2>1 DEF IsPrefixes
  <2>9. ASSUME NEW i \in 1 .. n, gg[i - 1] = f[i - 1]
        PROVE  gg[i] = f[i]
    <3>1. gg[i] = g[i]
      OBVIOUS
    <3>2. CASE i = 1
      BY <2>2, <2>7, <3>1, <3>2, Zenon
    <3>3. CASE i # 1
      <4>1. gg[i - 1] = g[i - 1]
        BY <3>3
      <4>2. f[i] = f[i - 1] \o ss[i]
        BY <2>1, Zenon DEF IsPrefixes
      <4>3. g[i] = g[i - 1] \o ss[i]
        BY <2>7, <3>3, Zenon
      <4>. QED
        BY <2>9, <3>1, <4>1, <4>2, <4>3, Zenon
    <3>. QED
      BY <3>2, <3>3
  <2>10. gg[n] = g[n] /\ n \in 0 .. n
    BY <2>1
  <2>. HIDE DEF gg
  <2>11. \A i \in 1 .. n : gg[i - 1] = f[i - 1] => gg[i] = f[i]
    BY <2>9
  <2>12. GoAlike(gg, f, n)
    BY <2>8, <2>11, Zenon DEF GoAlike
  <2>13. \A i \in 0 .. n : gg[i] = f[i]
    BY <2>12, RecursionUnique, Zenon
  <2>. QED
    BY <2>1, <2>6, <2>10, <2>13, Zenon
<1>. QED
  BY <1>1, <1>2, Zenon

\* The concatenation of sequences over S is one.
LEMMA FlattenType ==
  ASSUME NEW S, NEW ss \in Seq(Seq(S))
  PROVE  FlattenSeq(ss) \in Seq(S)
<1>1. PICK f : IsPrefixes(f, S, ss)
  BY PrefixesExist
<1>2. Len(ss) \in 0 .. Len(ss)
  OBVIOUS
<1>3. f[Len(ss)] \in Seq(S)
  BY <1>1, <1>2, Zenon DEF IsPrefixes
<1>. QED
  BY <1>1, <1>3, FlattenIsLastPrefix, Zenon

\* A further member comes at the end.
LEMMA FlattenAppend ==
  ASSUME NEW S, NEW ss \in Seq(Seq(S)), NEW s \in Seq(S)
  PROVE  FlattenSeq(Append(ss, s)) = FlattenSeq(ss) \o s
<1>1. PICK n \in Nat : n = Len(ss)
  OBVIOUS
<1>2. PICK tt \in Seq(Seq(S)) : tt = Append(ss, s)
  BY AppendProperties
<1>3. Len(tt) = n + 1 /\ tt[n + 1] = s /\ \A i \in 1 .. n : tt[i] = ss[i]
  BY <1>1, <1>2
<1>4. PICK f : IsPrefixes(f, S, ss)
  BY PrefixesExist
<1>5. PICK g : IsPrefixes(g, S, tt)
  BY PrefixesExist
<1>6. f[0] = g[0]
  BY <1>4, <1>5, Zenon DEF IsPrefixes
<1>7. ASSUME NEW i \in 1 .. n, f[i - 1] = g[i - 1]
      PROVE  f[i] = g[i]
  <2>1. i \in 1 .. n + 1
    OBVIOUS
  <2>2. f[i] = f[i - 1] \o ss[i]
    BY <1>1, <1>4, Zenon DEF IsPrefixes
  <2>3. g[i] = g[i - 1] \o tt[i]
    BY <1>3, <1>5, <2>1, Zenon DEF IsPrefixes
  <2>. QED
    BY <1>3, <1>7, <2>2, <2>3, Zenon
<1>12. GoAlike(f, g, n)
  BY <1>6, <1>7, Zenon DEF GoAlike
<1>8. f[n] = g[n]
  <2>1. n \in 0 .. n
    OBVIOUS
  <2>. QED
    BY <1>12, <2>1, RecursionUnique, Zenon
<1>9. g[n + 1] = g[n] \o s
  <2>1. n + 1 \in 1 .. n + 1 /\ (n + 1) - 1 = n
    OBVIOUS
  <2>. QED
    BY <1>3, <1>5, <2>1, Zenon DEF IsPrefixes
<1>10. FlattenSeq(ss) = f[n]
  BY <1>1, <1>4, FlattenIsLastPrefix, Zenon
<1>11. FlattenSeq(tt) = g[n + 1]
  BY <1>3, <1>5, FlattenIsLastPrefix, Zenon
<1>. QED
  BY <1>2, <1>8, <1>9, <1>10, <1>11, Zenon

\* The first member comes first.
LEMMA FlattenHeadTail ==
  ASSUME NEW S, NEW ss \in Seq(Seq(S)), ss # <<>>
  PROVE  FlattenSeq(ss) = Head(ss) \o FlattenSeq(Tail(ss))
<1>1. PICK tt \in Seq(Seq(S)) : tt = Tail(ss)
  BY HeadTailProperties
<1>2. PICK m \in Nat : m = Len(tt)
  OBVIOUS
<1>3. Len(ss) = m + 1 /\ Head(ss) = ss[1] /\ ss[1] \in Seq(S)
  BY <1>1, <1>2
<1>4. \A i \in 1 .. m : tt[i] = ss[i + 1] /\ tt[i] \in Seq(S)
  BY <1>1, <1>2, HeadTailProperties
<1>5. PICK f : IsPrefixes(f, S, ss)
  BY PrefixesExist
<1>6. PICK g : IsPrefixes(g, S, tt)
  BY PrefixesExist
<1>7. f[1] = ss[1]
  <2>1. 1 \in 1 .. m + 1 /\ 1 - 1 = 0
    OBVIOUS
  <2>2. f[1] = <<>> \o ss[1]
    BY <1>3, <1>5, <2>1, Zenon DEF IsPrefixes
  <2>. QED
    BY <1>3, <2>2, Concatenation, Zenon
<1>. DEFINE ff == [i \in 0 .. m |-> f[i + 1]]
            gg == [i \in 0 .. m |-> ss[1] \o g[i]]
<1>8. ff[0] = gg[0]
  <2>1. 0 \in 0 .. m /\ 0 + 1 = 1
    OBVIOUS
  <2>2. gg[0] = ss[1] \o <<>>
    BY <1>6, <2>1, Zenon DEF IsPrefixes
  <2>3. gg[0] = ss[1]
    BY <1>3, <2>2, Concatenation, Zenon
  <2>. QED
    BY <1>7, <2>1, <2>3, Zenon
<1>9. ASSUME NEW i \in 1 .. m, ff[i - 1] = gg[i - 1]
      PROVE  ff[i] = gg[i]
  <2>1. /\ i \in 0 .. m /\ i - 1 \in 0 .. m /\ i + 1 \in 1 .. m + 1
        /\ (i + 1) - 1 = i /\ (i - 1) + 1 = i
    OBVIOUS
  <2>2. f[i + 1] = f[i] \o tt[i]
    BY <1>3, <1>4, <1>5, <2>1, Zenon DEF IsPrefixes
  <2>3. g[i] = g[i - 1] \o tt[i]
    BY <1>2, <1>6, Zenon DEF IsPrefixes
  <2>4. f[i] = ss[1] \o g[i - 1]
    BY <1>9, <2>1, Zenon
  <2>5. g[i - 1] \in Seq(S) /\ tt[i] \in Seq(S)
    BY <1>2, <1>4, <1>6, <2>1, Zenon DEF IsPrefixes
  <2>6. (ss[1] \o g[i - 1]) \o tt[i] = ss[1] \o (g[i - 1] \o tt[i])
    <3>1. \A s, t, u \in Seq(S) : (s \o t) \o u = s \o (t \o u)
      BY Concatenation, Zenon
    <3>. QED
      BY <1>3, <2>5, <3>1, Zenon
  <2>. QED
    BY <2>1, <2>2, <2>3, <2>4, <2>6, Zenon
<1>10. ff[m] = f[m + 1] /\ gg[m] = ss[1] \o g[m] /\ m \in 0 .. m
  <2>1. m \in 0 .. m
    OBVIOUS
  <2>. QED
    BY <2>1, Zenon
<1>. HIDE DEF ff, gg
<1>14. GoAlike(ff, gg, m)
  BY <1>8, <1>9, Zenon DEF GoAlike
<1>15. \A i \in 0 .. m : ff[i] = gg[i]
  BY <1>14, RecursionUnique, Zenon
<1>11. ff[m] = gg[m]
  BY <1>10, <1>15, Zenon
<1>12. FlattenSeq(ss) = f[m + 1]
  BY <1>3, <1>5, FlattenIsLastPrefix, Zenon
<1>13. FlattenSeq(tt) = g[m]
  BY <1>2, <1>6, FlattenIsLastPrefix, Zenon
<1>. QED
  BY <1>1, <1>3, <1>10, <1>11, <1>12, <1>13, Zenon

\* What is left of a concatenation without its first member.
LEMMA TailOfConcatenation ==
  ASSUME NEW S, NEW s \in Seq(S), NEW t \in Seq(S), s # <<>>
  PROVE  s \o t # <<>> /\ Head(s \o t) = Head(s) /\ Tail(s \o t) = Tail(s) \o t
<1>1. PICK u \in Seq(S) : u = s \o t
  BY ConcatProperties
<1>2. PICK r \in Seq(S) : r = Tail(s)
  BY HeadTailProperties
<1>3. PICK m \in Nat, n \in Nat : m = Len(r) /\ n = Len(t) /\ Len(s) = m + 1
  BY <1>2, HeadTailProperties
<1>4. /\ Len(u) = (m + 1) + n
      /\ \A i \in 1 .. (m + 1) + n : u[i] = IF i <= m + 1 THEN s[i] ELSE t[i - (m + 1)]
  <2>1. /\ Len(u) = Len(s) + Len(t)
        /\ \A i \in 1 .. Len(s) + Len(t) : u[i] = IF i <= Len(s) THEN s[i] ELSE t[i - Len(s)]
    BY <1>1, ConcatProperties
  <2>. QED
    BY <1>3, <2>1, Zenon
<1>5. u # <<>> /\ Head(u) = Head(s)
  BY <1>3, <1>4
<1>6. PICK v \in Seq(S) : v = Tail(u)
  BY <1>5, HeadTailProperties
<1>7. PICK w \in Seq(S) : w = r \o t
  BY ConcatProperties
<1>8. Len(v) = m + n /\ \A i \in 1 .. m + n : v[i] = u[i + 1]
  <2>1. Len(v) = Len(u) - 1 /\ \A i \in 1 .. Len(v) : v[i] = u[i + 1]
    BY <1>5, <1>6, HeadTailProperties
  <2>2. Len(u) - 1 = m + n
    BY <1>4
  <2>. QED
    BY <2>1, <2>2, Zenon
<1>9. /\ Len(w) = m + n
      /\ \A i \in 1 .. m + n : w[i] = IF i <= m THEN r[i] ELSE t[i - m]
  BY <1>3, <1>7, ConcatProperties
<1>10. \A i \in 1 .. m : r[i] = s[i + 1]
  BY <1>2, <1>3, HeadTailProperties
<1>11. ASSUME NEW i \in 1 .. m + n
       PROVE  v[i] = w[i]
  <2>1. i + 1 \in 1 .. (m + 1) + n /\ (i + 1) - (m + 1) = i - m /\ (i + 1 <= m + 1 <=> i <= m)
    OBVIOUS
  <2>2. v[i] = IF i + 1 <= m + 1 THEN s[i + 1] ELSE t[(i + 1) - (m + 1)]
    BY <1>4, <1>8, <2>1, Zenon
  <2>3. v[i] = IF i <= m THEN s[i + 1] ELSE t[i - m]
    BY <2>1, <2>2, Zenon
  <2>4. i <= m => i \in 1 .. m
    OBVIOUS
  <2>. QED
    BY <1>9, <1>10, <2>3, <2>4, Zenon
<1>12. v = w
  <2>1. \A i \in 1 .. Len(v) : v[i] = w[i]
    BY <1>8, <1>11, Zenon
  <2>2. Len(v) = Len(w)
    BY <1>8, <1>9, Zenon
  <2>. QED
    BY <2>1, <2>2, SeqEqual
<1>. QED
  BY <1>1, <1>2, <1>5, <1>6, <1>7, <1>12, Zenon

\* A concatenation is flattened part by part.
LEMMA FlattenConcatenation ==
  ASSUME NEW S, NEW tt \in Seq(Seq(S))
  PROVE  \A ss \in Seq(Seq(S)) : FlattenSeq(ss \o tt) = FlattenSeq(ss) \o FlattenSeq(tt)
<1>. DEFINE A == {n \in Nat : \A ss \in Seq(Seq(S)) :
                    Len(ss) = n => FlattenSeq(ss \o tt) = FlattenSeq(ss) \o FlattenSeq(tt)}
<1>1. PICK f \in Seq(S) : f = FlattenSeq(tt)
  BY FlattenType
<1>2. 0 \in A
  <2>. SUFFICES ASSUME NEW ss \in Seq(Seq(S)), Len(ss) = 0
                PROVE  FlattenSeq(ss \o tt) = FlattenSeq(ss) \o f
    BY <1>1
  <2>1. ss = <<>>
    OBVIOUS
  <2>2. <<>> \o tt = tt
    OBVIOUS
  <2>3. <<>> \o f = f
    OBVIOUS
  <2>. QED
    BY <1>1, <2>1, <2>2, <2>3, FlattenEmpty, Zenon
<1>3. ASSUME NEW n \in Nat, n \in A
      PROVE  n + 1 \in A
  <2>. SUFFICES ASSUME NEW ss \in Seq(Seq(S)), Len(ss) = n + 1
                PROVE  FlattenSeq(ss \o tt) = FlattenSeq(ss) \o f
    BY <1>1
  <2>1. ss # <<>>
    OBVIOUS
  <2>2. PICK h \in Seq(S) : h = Head(ss)
    BY <2>1, HeadTailProperties
  <2>10. PICK rest \in Seq(Seq(S)) : rest = Tail(ss) /\ Len(rest) = n
    <3>1. Tail(ss) \in Seq(Seq(S)) /\ Len(Tail(ss)) = Len(ss) - 1
      BY <2>1, HeadTailProperties, Zenon
    <3>2. (n + 1) - 1 = n
      OBVIOUS
    <3>. QED
      BY <3>1, <3>2, Zenon
  <2>3. PICK uu \in Seq(Seq(S)) : uu = ss \o tt
    BY ConcatProperties
  <2>4. uu # <<>> /\ Head(uu) = h /\ Tail(uu) = rest \o tt
    BY <2>1, <2>2, <2>3, <2>10, TailOfConcatenation, Zenon
  <2>5. PICK g \in Seq(S) : g = FlattenSeq(rest)
    BY FlattenType
  <2>6. FlattenSeq(rest \o tt) = g \o f
    BY <1>1, <1>3, <2>5, <2>10
  <2>7. FlattenSeq(uu) = h \o (g \o f)
    BY <2>4, <2>6, FlattenHeadTail
  <2>8. FlattenSeq(ss) = h \o g
    BY <2>1, <2>2, <2>5, <2>10, FlattenHeadTail
  <2>9. (h \o g) \o f = h \o (g \o f)
    BY ConcatAssociative, SMTT(40)
  <2>. QED
    BY <2>3, <2>7, <2>8, <2>9, Zenon
<1>4. Nat \subseteq A
  <2>. HIDE DEF A
  <2>. QED
    BY <1>2, <1>3, NatSetInduction
<1>. QED
  BY <1>4
=============================================================================
