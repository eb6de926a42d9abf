---------------------------- MODULE Lists_proofs ----------------------------
(***************************************************************************)
(* Facts about numbers, sets and sequences that the proofs share.          *)
(***************************************************************************)
EXTENDS Lists, FiniteSetTheorems, WellFoundedInduction, TLAPS

-----------------------------------------------------------------------------
(* Induction and recursion                                                 *)

(* A non-empty set of naturals has a least element.                         *)
LEMMA LeastNatural ==
    ASSUME NEW S \in SUBSET Nat, S # {}
    PROVE  \E n \in S : \A m \in S : n <= m
<1> DEFINE R == {ss \in Nat \X Nat : ss[1] < ss[2]}
<1>1. IsWellFoundedOn(R, Nat)
  BY NatLessThanWellFounded DEF OpToRel
<1>2. PICK n \in S : \A m \in S : ~(<<m, n>> \in R)
  <2> HIDE DEF R
  <2> QED
    BY <1>1, WFMin
<1>3. ASSUME NEW m \in S PROVE n <= m
  <2>1. m < n => <<m, n>> \in R
    OBVIOUS
  <2>2. ~(m < n)
    BY <1>2, <2>1
  <2> QED
    BY <2>2
<1> QED
  BY <1>3

(* Induction over the naturals, for a set in place of a predicate.          *)
LEMMA NaturalInduction ==
    ASSUME NEW S, 0 \in S, \A n \in Nat : n \in S => n + 1 \in S
    PROVE  Nat \subseteq S
<1>1. SUFFICES ASSUME Nat \ S # {} PROVE FALSE
  OBVIOUS
<1>2. PICK n \in Nat \ S : \A m \in Nat \ S : n <= m
  BY <1>1, LeastNatural
<1>3. n - 1 \in Nat /\ n - 1 \notin Nat \ S
  BY <1>2
<1> QED
  BY <1>2, <1>3

(* Induction up to a bound, for a set in place of a predicate.              *)
LEMMA BoundedInduction ==
    ASSUME NEW S, NEW n \in Nat, 0 \in S, \A m \in 1..n : m - 1 \in S => m \in S
    PROVE  0..n \subseteq S
<1> DEFINE U == {m \in 0..n : m \notin S}
<1>1. SUFFICES ASSUME U # {} PROVE FALSE
  OBVIOUS
<1>2. U \in SUBSET Nat
  OBVIOUS
<1>3. PICK m \in U : \A k \in U : m <= k
  <2> HIDE DEF U
  <2> QED
    BY <1>1, <1>2, LeastNatural
<1>4. m # 0 /\ m \in 1..n /\ m - 1 \in 0..n /\ ~(m <= m - 1)
  OBVIOUS
<1>5. m - 1 \notin U
  BY <1>3, <1>4
<1> QED
  BY <1>4, <1>5

Steps(D, n) == [D \X (1..n) -> D]
Recurs(f, D, b, n, G) ==
    f \in [0..n -> D] /\ f[0] = b /\ \A i \in 1..n : f[i] = G[<<f[i - 1], i>>]

(* A function may be defined by recursion over 0..n.                        *)
LEMMA Recursion ==
    ASSUME NEW D, NEW b \in D, NEW n \in Nat, NEW G \in Steps(D, n)
    PROVE  \E f : Recurs(f, D, b, n, G)
<1> DEFINE Upto(f, m) == f \in [0..m -> D] /\ f[0] = b /\ \A i \in 1..m : f[i] = G[<<f[i - 1], i>>]
           S == {m \in 0..n : \E f : Upto(f, m)}
<1>1. 0 \in S
  <2>1. Upto([i \in 0..0 |-> b], 0)
    OBVIOUS
  <2>2. 0 \in 0..n
    OBVIOUS
  <2> HIDE DEF Upto
  <2> QED
    BY <2>1, <2>2
<1>2. ASSUME NEW m \in 1..n, m - 1 \in S
      PROVE  m \in S
  <2>1. PICK f : Upto(f, m - 1)
    BY <1>2
  <2> DEFINE v == G[<<f[m - 1], m>>]
             g == [i \in 0..m |-> IF i = m THEN v ELSE f[i]]
  <2>2. v \in D
    BY <2>1 DEF Steps
  <2>3. \A i \in 0..(m - 1) : g[i] = f[i]
    OBVIOUS
  <2>4. g \in [0..m -> D] /\ g[m] = v
    BY <2>1, <2>2
  <2>5. \A i \in 1..m : g[i] = G[<<g[i - 1], i>>]
    <3> TAKE i \in 1..m
    <3>1. CASE i = m
      <4>1. m - 1 \in 0..(m - 1)
        OBVIOUS
      <4>2. g[m - 1] = f[m - 1]
        BY <2>3, <4>1
      <4> HIDE DEF g
      <4> QED
        BY <3>1, <2>4, <4>2
    <3>2. CASE i # m
      <4>1. i \in 1..(m - 1) /\ i \in 0..(m - 1) /\ i - 1 \in 0..(m - 1)
        BY <3>2
      <4> QED
        BY <4>1, <2>1, <2>3
    <3> QED
      BY <3>1, <3>2
  <2>6. Upto(g, m)
    <3>1. 0 \in 0..(m - 1)
      OBVIOUS
    <3> QED
      BY <3>1, <2>1, <2>3, <2>4, <2>5
  <2> HIDE DEF Upto, g
  <2> QED
    BY <2>6
<1>3. 0..n \subseteq S
  <2> HIDE DEF S
  <2> QED
    BY <1>1, <1>2, BoundedInduction
<1>4. n \in 0..n
  OBVIOUS
<1>5. PICK f : Upto(f, n)
  BY <1>3, <1>4
<1> QED
  BY <1>5 DEF Recurs

(* What Min picks from a set of naturals.                                   *)
LEMMA MinIsLeast ==
    ASSUME NEW T \in SUBSET Nat, T # {}
    PROVE  Min(T) \in T /\ \A m \in T : Min(T) <= m
BY LeastNatural DEF Min

(* A finite set of naturals is bounded, by induction on its size.           *)
LEMMA FiniteBounded ==
    ASSUME NEW T \in SUBSET Nat, IsFiniteSet(T)
    PROVE  \E n \in Nat : \A m \in T : m <= n
<1> DEFINE Has(c) == \A U \in SUBSET Nat : IsFiniteSet(U) /\ Cardinality(U) = c =>
                        \E n \in Nat : \A m \in U : m <= n
           S == {c \in Nat : Has(c)}
<1>1. 0 \in S
  <2>1. \A U : IsFiniteSet(U) /\ Cardinality(U) = 0 => U = {}
    BY FS_EmptySet
  <2> QED
    BY <2>1
<1>2. ASSUME NEW c \in Nat, c \in S
      PROVE  c + 1 \in S
  <2>1. SUFFICES ASSUME NEW U \in SUBSET Nat, IsFiniteSet(U), Cardinality(U) = c + 1
                 PROVE  \E n \in Nat : \A m \in U : m <= n
    OBVIOUS
  <2>2. U # {}
    BY <2>1, FS_EmptySet
  <2>3. PICK x \in U : TRUE
    BY <2>2
  <2>4. IsFiniteSet(U \ {x}) /\ Cardinality(U \ {x}) = c
    <3>1. IsFiniteSet(U \ {x}) /\ Cardinality(U \ {x}) = Cardinality(U) - 1
      BY <2>1, FS_RemoveElement
    <3> QED
      BY <2>1, <3>1
  <2>5. PICK n \in Nat : \A m \in U \ {x} : m <= n
    BY <1>2, <2>1, <2>4
  <2>6. \A m \in U : m <= n + x
    BY <2>1, <2>5
  <2> QED
    BY <2>1, <2>6
<1>3. Nat \subseteq S
  <2> HIDE DEF S
  <2> QED
    BY <1>1, <1>2, NaturalInduction
<1>4. Cardinality(T) \in S
  BY <1>3, FS_CardinalityType
<1> QED
  BY <1>4

(* What Max picks from a finite set of naturals.                            *)
LEMMA MaxIsGreatest ==
    ASSUME NEW T \in SUBSET Nat, IsFiniteSet(T), T # {}
    PROVE  Max(T) \in T /\ \A m \in T : Max(T) >= m
<1> DEFINE B == {n \in Nat : \A m \in T : m <= n}
<1>1. B \in SUBSET Nat /\ B # {}
  BY FiniteBounded
<1>2. PICK b \in B : \A n \in B : b <= n
  <2> HIDE DEF B
  <2> QED
    BY <1>1, LeastNatural
<1>3. b \in T
  <2>1. SUFFICES ASSUME b \notin T PROVE FALSE
    OBVIOUS
  <2>2. \A m \in T : m < b
    BY <1>2, <2>1
  <2>3. b \in Nat /\ b # 0
    <3>1. PICK m \in T : m \in Nat /\ m < b
      BY <2>2
    <3>2. b \in Nat
      BY <1>2
    <3> QED
      BY <3>1, <3>2
  <2>4. b - 1 \in Nat /\ \A m \in T : m <= b - 1
    BY <2>2, <2>3
  <2>5. b - 1 \in B
    BY <2>4
  <2> QED
    BY <1>2, <2>3, <2>5
<1>4. \E x \in T : \A y \in T : x >= y
  BY <1>2, <1>3
<1> QED
  BY <1>4 DEF Max

-----------------------------------------------------------------------------
(* Sequences                                                               *)

(* The elements of a concatenation.                                         *)
LEMMA ConcatSet ==
    ASSUME NEW T, NEW a \in Seq(T), NEW b \in Seq(T)
    PROVE  a \o b \in Seq(T) /\ Range(a \o b) = Range(a) \cup Range(b)
<1>1. a \o b \in Seq(T)
  OBVIOUS
<1>2. ASSUME NEW x \in Range(a \o b) PROVE x \in Range(a) \cup Range(b)
  <2>1. PICK i \in DOMAIN (a \o b) : x = (a \o b)[i]
    BY <1>2 DEF Range
  <2>2. CASE i \in DOMAIN a
    BY <2>1, <2>2 DEF Range
  <2>3. CASE i \notin DOMAIN a
    <3>1. i - Len(a) \in DOMAIN b /\ x = b[i - Len(a)]
      BY <2>1, <2>3
    <3> QED
      BY <3>1 DEF Range
  <2> QED
    BY <2>2, <2>3
<1>3. ASSUME NEW x \in Range(a) PROVE x \in Range(a \o b)
  <2>1. PICK i \in DOMAIN a : x = a[i]
    BY <1>3 DEF Range
  <2>2. i \in DOMAIN (a \o b) /\ x = (a \o b)[i]
    BY <2>1
  <2> QED
    BY <2>2 DEF Range
<1>4. ASSUME NEW x \in Range(b) PROVE x \in Range(a \o b)
  <2>1. PICK i \in DOMAIN b : x = b[i]
    BY <1>4 DEF Range
  <2>2. i + Len(a) \in DOMAIN (a \o b) /\ x = (a \o b)[i + Len(a)]
    BY <2>1
  <2> QED
    BY <2>2 DEF Range
<1> QED
  BY <1>1, <1>2, <1>3, <1>4

(* The elements of a sequence of none or one.                               *)
LEMMA SmallSets == Range(<<>>) = {} /\ \A x : Range(<<x>>) = {x}
  BY DEF Range

(* The elements of a sequence with one more at its end.                     *)
LEMMA ExtendSet ==
    ASSUME NEW T, NEW a \in Seq(T), NEW x \in T
    PROVE  Range(a \o <<x>>) = Range(a) \cup {x}
<1>1. <<x>> \in Seq(T)
  OBVIOUS
<1>2. Range(a \o <<x>>) = Range(a) \cup Range(<<x>>)
  BY <1>1, ConcatSet
<1> QED
  BY <1>2, SmallSets

FlattenEq(ss, f) == f = [n \in 0..Len(ss) |-> IF n = 0 THEN <<>> ELSE f[n - 1] \o ss[n]]

(* The definition of FlattenSeq recurs over the indices of the sequence.    *)
LEMMA FlattenRec ==
    ASSUME NEW T, NEW ss \in Seq(Seq(T))
    PROVE  \E f : FlattenEq(ss, f) /\ FlattenSeq(ss) = f[Len(ss)]
<1> DEFINE n == Len(ss)
           D == Seq(T)
           b == <<>>
           G == [q \in D \X (1..n) |-> q[1] \o ss[q[2]]]
<1>1. n \in Nat /\ b \in D /\ \A i \in 1..n : ss[i] \in D
  OBVIOUS
<1>2. \A t \in D : \A i \in 1..n : t \o ss[i] \in D
  BY <1>1
<1>3. G \in Steps(D, n)
  <2> HIDE DEF D, n
  <2> QED
    BY <1>2 DEF Steps
<1>4. PICK f : Recurs(f, D, b, n, G)
  <2> HIDE DEF n, G, b, D
  <2> QED
    BY <1>1, <1>3, Recursion, Zenon
<1>f. f \in [0..n -> D] /\ f[0] = b /\ \A i \in 1..n : f[i] = G[<<f[i - 1], i>>]
  BY <1>4 DEF Recurs
<1>5. ASSUME NEW i \in 1..n PROVE f[i] = f[i - 1] \o ss[i]
  <2>1. i - 1 \in 0..n
    OBVIOUS
  <2>2. <<f[i - 1], i>> \in D \X (1..n)
    BY <2>1, <1>f
  <2>3. G[<<f[i - 1], i>>] = f[i - 1] \o ss[i]
    BY <2>2
  <2> QED
    BY <1>f, <2>3
<1>6. FlattenEq(ss, f)
  <2> DEFINE g == [i \in 0..n |-> IF i = 0 THEN <<>> ELSE f[i - 1] \o ss[i]]
  <2>1. \A i \in 0..n : f[i] = g[i]
    <3>1. \A i \in 0..n : i = 0 \/ i \in 1..n
      BY <1>1
    <3>2. f[0] = g[0] /\ \A i \in 1..n : f[i] = g[i]
      <4>1. 0 \in 0..n /\ \A i \in 1..n : i \in 0..n /\ i # 0
        BY <1>1
      <4>2. \A i \in 1..n : f[i] = f[i - 1] \o ss[i]
        BY <1>5
      <4>3. f[0] = <<>>
        BY <1>f, Zenon
      <4> HIDE DEF n, D, G
      <4> QED
        BY <4>1, <4>2, <4>3
    <3> QED
      BY <3>1, <3>2
  <2>2. f = [i \in 0..n |-> f[i]]
    BY <1>f
  <2>3. [i \in 0..n |-> f[i]] = g
    BY <2>1
  <2> QED
    BY <2>2, <2>3 DEF FlattenEq
<1>7. FlattenSeq(ss) = (CHOOSE h : FlattenEq(ss, h))[n]
  BY DEF FlattenSeq, FlattenEq
<1> QED
  <2> HIDE DEF n
  <2>1. FlattenEq(ss, CHOOSE h : FlattenEq(ss, h))
    BY <1>6
  <2> QED
    BY <1>7, <2>1, Zenon DEF n

(* The elements of a concatenation are those of its parts.                  *)
LEMMA FlattenElements ==
    ASSUME NEW T, NEW ss \in Seq(Seq(T))
    PROVE  /\ FlattenSeq(ss) \in Seq(T)
           /\ Range(FlattenSeq(ss)) = UNION {Range(ss[i]) : i \in DOMAIN ss}
<1> DEFINE n == Len(ss)
<1>0. n \in Nat /\ DOMAIN ss = 1..n /\ \A i \in 1..n : ss[i] \in Seq(T)
  OBVIOUS
<1>1. PICK f : FlattenEq(ss, f) /\ FlattenSeq(ss) = f[n]
  BY FlattenRec
<1>2. f[0] = <<>> /\ \A i \in 1..n : f[i] = f[i - 1] \o ss[i]
  <2>1. f = [i \in 0..n |-> IF i = 0 THEN <<>> ELSE f[i - 1] \o ss[i]]
    BY <1>1, Zenon DEF FlattenEq
  <2>2. 0 \in 0..n /\ \A i \in 1..n : i \in 0..n /\ i # 0
    BY <1>0
  <2> HIDE DEF n
  <2> QED
    BY <2>1, <2>2
<1> DEFINE Good(m) == /\ f[m] \in Seq(T)
                      /\ \A x : x \in Range(f[m]) <=> \E i \in 1..m : x \in Range(ss[i])
           A == {m \in 0..n : Good(m)}
<1>3. 0 \in A
  <2>1. 0 \in 0..n /\ 1..0 = {} /\ <<>> \in Seq(T)
    BY <1>0
  <2>2. Good(0)
    BY <1>2, <2>1, SmallSets, Zenon
  <2> HIDE DEF Good, n
  <2> QED
    BY <2>1, <2>2
<1>4. ASSUME NEW m \in 1..n, m - 1 \in A
      PROVE  m \in A
  <2>1. f[m] = f[m - 1] \o ss[m]
    BY <1>2
  <2>2. Good(m - 1)
    BY <1>4
  <2>3. f[m] \in Seq(T) /\ Range(f[m]) = Range(f[m - 1]) \cup Range(ss[m])
    BY <1>0, <2>1, <2>2, ConcatSet
  <2>4. \A x : (\E i \in 1..m : x \in Range(ss[i]))
             <=> (\E i \in 1..(m - 1) : x \in Range(ss[i])) \/ x \in Range(ss[m])
    OBVIOUS
  <2>5. Good(m)
    BY <2>2, <2>3, <2>4
  <2> HIDE DEF Good
  <2> QED
    BY <2>5
<1>5. 0..n \subseteq A
  <2> HIDE DEF A, n
  <2> QED
    BY <1>0, <1>3, <1>4, BoundedInduction
<1>6. Good(n)
  <2>1. n \in 0..n
    BY <1>0
  <2> HIDE DEF Good, n
  <2> QED
    BY <1>5, <2>1
<1>7. Range(f[n]) = UNION {Range(ss[i]) : i \in 1..n}
  BY <1>6
<1> QED
  BY <1>0, <1>1, <1>6, <1>7

(* IsSuffix, element by element.                                            *)
LEMMA SuffixIs ==
    ASSUME NEW S, NEW T, NEW s \in Seq(S), NEW t \in Seq(T)
    PROVE  IsSuffix(s, t) <=> /\ Len(s) <= Len(t)
                              /\ \A i \in 1..Len(s) : s[i] = t[Len(t) - Len(s) + i]
<1> DEFINE m == Len(s)  n == Len(t)  u == SubSeq(t, n - m + 1, n)
<1>1. m \in Nat /\ n \in Nat
  OBVIOUS
<1>2. IsSuffix(s, t) <=> m <= n /\ s = u
  BY DEF IsSuffix
<1>3. ASSUME m <= n
      PROVE  u \in Seq(T) /\ Len(u) = m /\ \A i \in 1..m : u[i] = t[n - m + i]
  <2>1. n - m + 1 \in 1..(n + 1) /\ n - (n - m + 1) + 1 = m
    BY <1>1, <1>3
  <2>2. \A i \in 1..m : n - m + i \in 1..n /\ (n - m + 1) + i - 1 = n - m + i
    BY <1>1, <1>3
  <2> QED
    BY <1>1, <1>3, <2>1, <2>2
<1> HIDE DEF u
<1>4. ASSUME m <= n PROVE s = u <=> \A i \in 1..m : s[i] = t[n - m + i]
  BY <1>3, <1>4
<1> QED
  BY <1>2, <1>4

-----------------------------------------------------------------------------
(* Finite sets                                                             *)

(* The range of a function with a finite domain is finite.                  *)
LEMMA FiniteRange ==
    ASSUME NEW D, IsFiniteSet(D), NEW T, NEW f \in [D -> T]
    PROVE  IsFiniteSet({f[x] : x \in D})
<1>1. f \in Surjection(D, {f[x] : x \in D})
  BY DEF Surjection
<1> QED
  BY <1>1, FS_Surjection

(* A sequence has finitely many elements.                                   *)
LEMMA FiniteElements ==
    ASSUME NEW T, NEW s \in Seq(T)
    PROVE  IsFiniteSet(Range(s))
<1>1. Len(s) \in Nat /\ s \in [1..Len(s) -> T]
  OBVIOUS
<1>2. IsFiniteSet(1..Len(s))
  BY <1>1, FS_Interval
<1>3. Range(s) = {s[x] : x \in 1..Len(s)}
  BY <1>1 DEF Range
<1>4. IsFiniteSet({s[x] : x \in 1..Len(s)})
  BY <1>1, <1>2, FiniteRange
<1> QED
  BY <1>3, <1>4

(* An enumeration of a finite set has all its members.                      *)
LEMMA EnumerationIs ==
    ASSUME NEW S, IsFiniteSet(S), NEW s \in SetToSeqs(S)
    PROVE  s \in Seq(S) /\ Len(s) = Cardinality(S) /\ s \in [1..Cardinality(S) -> S] /\ Range(s) = S
<1> DEFINE n == Cardinality(S)
<1>1. n \in Nat /\ s \in Injection(1..n, S)
  BY FS_CardinalityType DEF SetToSeqs
<1> HIDE DEF n
<1>2. s \in [1..n -> S]
  BY <1>1 DEF Injection
<1>3. s \in Surjection(1..n, S)
  <2>1. IsFiniteSet(1..n) /\ Cardinality(1..n) = n
    BY <1>1, FS_Interval
  <2> QED
    BY <1>1, <2>1, FS_Injection DEF n
<1>4. Range(s) = S
  BY <1>2, <1>3 DEF Surjection, Range
<1> QED
  BY <1>1, <1>2, <1>4 DEF n

\* R orders the members of S one after the other.
Orders(R, S) ==
    /\ \A x, y \in S : ~(<<x, y>> \in R /\ <<y, x>> \in R)
    /\ \A x, y \in S : x # y => <<x, y>> \in R \/ <<y, x>> \in R
    /\ \A x, y, z \in S : <<x, y>> \in R /\ <<y, z>> \in R => <<x, z>> \in R

(* The rank of a member, the number of members ahead of it, numbers them    *)
(* from 1 on, so that a finite set can be sorted.                           *)
LEMMA SortExists ==
    ASSUME NEW S, NEW R, IsFiniteSet(S), Orders(R, S)
    PROVE  \E s \in SetToSeqs(S) : \A i, j \in DOMAIN s : i < j => <<s[i], s[j]>> \in R
<1> DEFINE Ahead(i) == {j \in S : <<j, i>> \in R}
           n == Cardinality(S)
           rank == [i \in S |-> Cardinality(Ahead(i)) + 1]
<1>1. IsFiniteSet(S) /\ n \in Nat
  BY FS_CardinalityType
<1>2. ASSUME NEW i \in S
      PROVE  IsFiniteSet(Ahead(i)) /\ Cardinality(Ahead(i)) \in Nat /\ Cardinality(Ahead(i)) < n
  <2>1. Ahead(i) \in SUBSET S /\ i \notin Ahead(i)
    BY DEF Orders
  <2>2. IsFiniteSet(Ahead(i)) /\ Cardinality(Ahead(i)) <= n /\ (n = Cardinality(Ahead(i)) => S = Ahead(i))
    <3> HIDE DEF Ahead
    <3> QED
      BY <1>1, <2>1, FS_Subset
  <2>3. Cardinality(Ahead(i)) \in Nat
    BY <2>2, FS_CardinalityType
  <2> HIDE DEF Ahead, n
  <2> QED
    BY <1>1, <2>1, <2>2, <2>3
<1>3. ASSUME NEW i \in S, NEW j \in S, <<j, i>> \in R
      PROVE  rank[j] < rank[i]
  <2>1. Ahead(j) \in SUBSET Ahead(i) /\ j \in Ahead(i) /\ j \notin Ahead(j)
    BY <1>3 DEF Orders
  <2>2. IsFiniteSet(Ahead(i)) /\ Cardinality(Ahead(i)) \in Nat /\ Cardinality(Ahead(j)) \in Nat
    BY <1>2
  <2>3. rank[i] = Cardinality(Ahead(i)) + 1 /\ rank[j] = Cardinality(Ahead(j)) + 1
    OBVIOUS
  <2> HIDE DEF Ahead, rank
  <2>4. Cardinality(Ahead(j)) <= Cardinality(Ahead(i)) /\ Cardinality(Ahead(i)) # Cardinality(Ahead(j))
    BY <2>1, <2>2, FS_Subset
  <2> QED
    BY <2>2, <2>3, <2>4
<1>4. rank \in [S -> 1..n]
  <2> HIDE DEF Ahead, n
  <2> QED
    BY <1>1, <1>2
<1> HIDE DEF rank, n, Ahead
<1>5. \A i, j \in S : i # j => rank[i] # rank[j]
  <2>1. \A i \in S : rank[i] \in Int
    BY <1>1, <1>4
  <2>2. \A i, j \in S : i # j => rank[i] < rank[j] \/ rank[j] < rank[i]
    BY <1>3, Zenon DEF Orders
  <2> QED
    BY <2>1, <2>2
<1>6. \A k \in 1..n : \E i \in S : rank[i] = k
  <2>1. rank \in Injection(S, 1..n)
    BY <1>4, <1>5 DEF Injection, IsInjective
  <2>2. IsFiniteSet(1..n) /\ Cardinality(1..n) = n
    BY <1>1, FS_Interval
  <2>3. rank \in Surjection(S, 1..n)
    BY <2>1, <2>2, FS_Injection DEF n
  <2> QED
    BY <2>3 DEF Surjection
<1> DEFINE s == [k \in 1..n |-> CHOOSE i \in S : rank[i] = k]
<1>7. s \in [1..n -> S] /\ \A k \in 1..n : rank[s[k]] = k
  BY <1>6
<1> HIDE DEF s
<1>8. s \in SetToSeqs(S)
  BY <1>7 DEF SetToSeqs, n, Injection, IsInjective
<1>9. ASSUME NEW i \in DOMAIN s, NEW j \in DOMAIN s, i < j
      PROVE  <<s[i], s[j]>> \in R
  <2>1. s[i] \in S /\ s[j] \in S /\ rank[s[i]] = i /\ rank[s[j]] = j /\ i \in Int /\ j \in Int
    BY <1>1, <1>7
  <2>2. s[i] # s[j] /\ ~(rank[s[j]] < rank[s[i]])
    BY <1>9, <2>1
  <2> QED
    BY <1>3, <2>1, <2>2, Zenon DEF Orders
<1> QED
  BY <1>8, <1>9
=============================================================================
