-------------------------- MODULE TunnelSync_proofs --------------------------
(***************************************************************************)
(* What a sync leaves in a tunnel's document, for every set of routes,     *)
(* Gateways, tunnels and entries, whatever document it found.              *)
(***************************************************************************)
EXTENDS TunnelSync, Lists_proofs

-----------------------------------------------------------------------------
(* Filtering                                                               *)

Step(s, S, n) == IF s[n] \in S THEN <<s[n]>> ELSE <<>>
KeepEq(s, S, f) ==
    f = [n \in 0..Len(s) |-> IF n = 0 THEN <<>> ELSE f[n - 1] \o Step(s, S, n)]

(* The definition of Where recurs over the indices of the sequence.         *)
LEMMA WhereRec ==
    ASSUME NEW T, NEW s \in Seq(T), NEW S
    PROVE  \E f : KeepEq(s, S, f) /\ Where(s, S) = f[Len(s)]
<1> DEFINE n == Len(s)
           G == [p \in Seq(T) \X (1..n) |-> p[1] \o Step(s, S, p[2])]
<1> DEFINE D == Seq(T)
           b == <<>>
<1>1. n \in Nat /\ b \in D
  OBVIOUS
<1>2. \A i \in 1..n : Step(s, S, i) \in Seq(T)
  BY DEF Step
<1>3. G \in Steps(D, n)
  BY <1>2 DEF Steps
<1>4. PICK f : Recurs(f, D, b, n, G)
  <2> HIDE DEF n, G, D, b
  <2> QED
    BY <1>1, <1>3, Recursion, Zenon
<1>f. f \in [0..n -> D] /\ f[0] = b /\ \A i \in 1..n : f[i] = G[<<f[i - 1], i>>]
  BY <1>4 DEF Recurs
<1>5. \A i \in 1..n : f[i] = f[i - 1] \o Step(s, S, i)
  <2> TAKE i \in 1..n
  <2>1. i - 1 \in 0..n
    OBVIOUS
  <2>2. <<f[i - 1], i>> \in Seq(T) \X (1..n)
    BY <2>1, <1>f
  <2>3. G[<<f[i - 1], i>>] = f[i - 1] \o Step(s, S, i)
    BY <2>2
  <2> QED
    BY <1>f, <2>3
<1>6. KeepEq(s, S, f)
  <2> DEFINE g == [i \in 0..n |-> IF i = 0 THEN <<>> ELSE f[i - 1] \o Step(s, S, i)]
  <2>1. \A i \in 0..n : f[i] = g[i]
    BY <1>f, <1>5
  <2>2. f = [i \in 0..n |-> f[i]]
    BY <1>f
  <2>3. [i \in 0..n |-> f[i]] = g
    BY <2>1
  <2> QED
    BY <2>2, <2>3 DEF KeepEq
<1>7. Where(s, S) = (CHOOSE h : KeepEq(s, S, h))[n]
  BY DEF Where, KeepEq, Step
<1> QED
  <2> HIDE DEF n
  <2>1. KeepEq(s, S, CHOOSE h : KeepEq(s, S, h))
    BY <1>6
  <2> QED
    BY <1>7, <2>1 DEF n

Pairwise(s, R) == \A j, k \in 1..Len(s) : j < k => <<s[j], s[k]>> \in R

(* The indices up to the next one.                                          *)
LEMMA NextIndex ==
    ASSUME NEW n \in Nat, NEW i \in 1..(n + 1)
    PROVE  i \in 1..n \/ i = n + 1
  OBVIOUS

(* The length of a concatenation.                                           *)
LEMMA ConcatLen ==
    ASSUME NEW T, NEW a \in Seq(T), NEW b \in Seq(T)
    PROVE  a \o b \in Seq(T) /\ Len(a \o b) = Len(a) + Len(b)
  OBVIOUS

(* One more element keeps or drops it.                                      *)
LEMMA WhereStep ==
    ASSUME NEW T, NEW s \in Seq(T), NEW S, NEW R, NEW m \in 1..Len(s), NEW t \in Seq(T),
           \A x : x \in Range(t) <=> \E i \in 1..(m - 1) : s[i] = x /\ x \in S,
           Pairwise(s, R), Pairwise(t, R)
    PROVE  /\ t \o Step(s, S, m) \in Seq(T)
           /\ \A x : x \in Range(t \o Step(s, S, m)) <=> \E i \in 1..m : s[i] = x /\ x \in S
           /\ Pairwise(t \o Step(s, S, m), R)
<1> DEFINE u == t \o Step(s, S, m)
<1>1. CASE s[m] \notin S
  <2>1. u = t
    BY <1>1 DEF Step
  <2>2. \A x : (\E i \in 1..m : s[i] = x /\ x \in S) <=> (\E i \in 1..(m - 1) : s[i] = x /\ x \in S)
    BY <1>1
  <2> QED
    BY <2>1, <2>2
<1>2. CASE s[m] \in S
  <2>1. /\ u = t \o <<s[m]>> /\ u \in Seq(T) /\ Len(u) = Len(t) + 1 /\ Len(t) \in Nat
        /\ \A k \in 1..Len(t) : u[k] = t[k]
        /\ u[Len(t) + 1] = s[m]
    BY <1>2 DEF Step
  <2> HIDE DEF u
  <2>2. \A x : x \in Range(u) <=> x \in Range(t) \/ x = s[m]
    <3>1. s[m] \in T
      OBVIOUS
    <3>2. Range(u) = Range(t) \cup {s[m]}
      BY <2>1, <3>1, ExtendSet
    <3> QED
      BY <3>2
  <2>3. \A x : (\E i \in 1..m : s[i] = x /\ x \in S)
             <=> (\E i \in 1..(m - 1) : s[i] = x /\ x \in S) \/ x = s[m]
    BY <1>2
  <2>4. ASSUME NEW j \in 1..Len(u), NEW k \in 1..Len(u), j < k
        PROVE  <<u[j], u[k]>> \in R
    <3>1. CASE k \in 1..Len(t)
      <4>1. j \in 1..Len(t)
        BY <2>1, <2>4, <3>1
      <4> QED
        BY <2>1, <2>4, <3>1, <4>1 DEF Pairwise
    <3>2. CASE k = Len(t) + 1
      <4>1. j \in 1..Len(t) /\ u[j] = t[j] /\ u[k] = s[m]
        BY <2>1, <2>4, <3>2
      <4>2. u[j] \in Range(t)
        BY <4>1 DEF Range
      <4>3. PICK i \in 1..(m - 1) : s[i] = u[j]
        BY <4>2
      <4> QED
        BY <4>1, <4>3 DEF Pairwise
    <3>3. k \in 1..Len(t) \/ k = Len(t) + 1
      BY <2>1, NextIndex
    <3> QED
      BY <3>1, <3>2, <3>3
  <2>5. Pairwise(u, R)
    BY <2>4 DEF Pairwise
  <2>6. \A x : x \in Range(u) <=> \E i \in 1..m : s[i] = x /\ x \in S
    BY <2>2, <2>3
  <2> QED
    BY <2>1, <2>5, <2>6 DEF u
<1> QED
  BY <1>1, <1>2

(* Where keeps the elements of the set, in their order.                     *)
LEMMA WhereKeeps ==
    ASSUME NEW T, NEW s \in Seq(T), NEW S, NEW R, Pairwise(s, R)
    PROVE  /\ Where(s, S) \in Seq(T)
           /\ Range(Where(s, S)) = Range(s) \cap S
           /\ Pairwise(Where(s, S), R)
<1> DEFINE n == Len(s)
<1>1. PICK f : KeepEq(s, S, f) /\ Where(s, S) = f[n]
  BY WhereRec
<1>n. n \in Nat
  OBVIOUS
<1>2. f[0] = <<>> /\ \A i \in 1..n : f[i] = f[i - 1] \o Step(s, S, i)
  <2>1. f = [i \in 0..n |-> IF i = 0 THEN <<>> ELSE f[i - 1] \o Step(s, S, i)]
    BY <1>1, Zenon DEF KeepEq
  <2> HIDE DEF n
  <2> QED
    BY <1>n, <2>1
<1> DEFINE Good(m) == /\ f[m] \in Seq(T)
                      /\ \A x : x \in Range(f[m]) <=> \E i \in 1..m : s[i] = x /\ x \in S
                      /\ Pairwise(f[m], R)
           A == {m \in 0..n : Good(m)}
<1>3. 0 \in A
  <2>1. Good(0)
    BY <1>2 DEF Range, Pairwise
  <2> QED
    BY <2>1
<1>4. ASSUME NEW m \in 1..n, m - 1 \in A
      PROVE  m \in A
  <2>1. Good(m - 1)
    BY <1>4
  <2>2. f[m] = f[m - 1] \o Step(s, S, m)
    BY <1>2
  <2>3. Good(m)
    <3> DEFINE t == f[m - 1]
    <3>1. t \in Seq(T) /\ Pairwise(t, R) /\ \A x : x \in Range(t) <=> \E i \in 1..(m - 1) : s[i] = x /\ x \in S
      BY <2>1
    <3> HIDE DEF t
    <3>2. /\ t \o Step(s, S, m) \in Seq(T) /\ Pairwise(t \o Step(s, S, m), R)
          /\ \A x : x \in Range(t \o Step(s, S, m)) <=> \E i \in 1..m : s[i] = x /\ x \in S
      BY <3>1, WhereStep
    <3> QED
      BY <2>2, <3>2 DEF t
  <2> HIDE DEF Good
  <2> QED
    BY <2>3
<1>5. 0..n \subseteq A
  <2> HIDE DEF A, n
  <2> QED
    BY <1>n, <1>3, <1>4, BoundedInduction
<1>6. Good(n)
  <2>1. n \in 0..n
    OBVIOUS
  <2> HIDE DEF Good, n
  <2> QED
    BY <1>5, <2>1
<1>7. \A x : x \in Range(s) <=> \E i \in 1..n : s[i] = x
  BY DEF Range
<1> QED
  BY <1>1, <1>6, <1>7

(* The same without an order.                                               *)
LEMMA WhereSet ==
    ASSUME NEW T, NEW s \in Seq(T), NEW S
    PROVE  Where(s, S) \in Seq(T) /\ Range(Where(s, S)) = Range(s) \cap S
<1> DEFINE R == T \X T
<1>1. Pairwise(s, R)
  BY DEF Pairwise
<1> HIDE DEF R
<1> QED
  BY <1>1, WhereKeeps

-----------------------------------------------------------------------------
(* Sorting                                                                 *)

(* There is a place for every element.                                      *)
LEMMA PlaceIs ==
    ASSUME NEW T, NEW t \in Seq(T), NEW x, NEW less
    PROVE  /\ Place(t, x, less) \in 1..(Len(t) + 1)
           /\ \A k \in Place(t, x, less)..Len(t) : <<x, t[k]>> \in less
           /\ Place(t, x, less) > 1 => <<x, t[Place(t, x, less) - 1]>> \notin less
<1> DEFINE n == Len(t)
           Behind(p) == \A k \in p..n : <<x, t[k]>> \in less
           A == {p \in 1..(n + 1) : Behind(p)}
<1>1. n \in Nat
  OBVIOUS
<1> HIDE DEF n
<1>2. n + 1 \in A /\ A \in SUBSET Nat
  BY <1>1
<1>3. PICK p \in A : \A q \in A : p <= q
  <2> HIDE DEF A
  <2> QED
    BY <1>2, LeastNatural
<1>4. ASSUME p > 1, <<x, t[p - 1]>> \in less PROVE FALSE
  <2>1. p \in 1..(n + 1) /\ p - 1 \in 1..(n + 1) /\ ~(p <= p - 1)
    BY <1>1, <1>3, <1>4
  <2>2. Behind(p - 1)
    <3> TAKE k \in (p - 1)..n
    <3>1. k = p - 1 \/ k \in p..n
      BY <2>1, <1>1
    <3>2. Behind(p)
      BY <1>3
    <3> QED
      BY <1>4, <3>1, <3>2
  <2>3. p - 1 \in A
    <3> HIDE DEF Behind
    <3> QED
      BY <2>1, <2>2
  <2> HIDE DEF A
  <2> QED
    BY <1>3, <2>1, <2>3
<1> DEFINE P(q) == /\ \A k \in q..n : <<x, t[k]>> \in less
                   /\ q > 1 => <<x, t[q - 1]>> \notin less
<1>5. p \in 1..(n + 1) /\ P(p)
  BY <1>3, <1>4
<1>6. Place(t, x, less) = CHOOSE q \in 1..(n + 1) : P(q)
  BY DEF Place, n
<1>7. Place(t, x, less) \in 1..(n + 1) /\ P(Place(t, x, less))
  <2> HIDE DEF P
  <2> QED
    BY <1>5, <1>6
<1> QED
  BY <1>7 DEF n

(* What an insertion does, index by index.                                  *)
LEMMA InsertIs ==
    ASSUME NEW T, NEW t \in Seq(T), NEW x \in T, NEW p \in 1..(Len(t) + 1)
    PROVE  /\ Insert(t, p, x) \in Seq(T)
           /\ Len(Insert(t, p, x)) = Len(t) + 1
           /\ \A k \in 1..(Len(t) + 1) :
                Insert(t, p, x)[k] = IF k < p THEN t[k] ELSE IF k = p THEN x ELSE t[k - 1]
<1> DEFINE a == SubSeq(t, 1, p - 1)
           c == SubSeq(t, p, Len(t))
<1>1. /\ a \in Seq(T) /\ Len(a) = p - 1 /\ \A k \in 1..(p - 1) : a[k] = t[k]
  OBVIOUS
<1>2. /\ c \in Seq(T) /\ Len(c) = Len(t) - p + 1
      /\ \A k \in 1..(Len(t) - p + 1) : c[k] = t[p + k - 1]
  OBVIOUS
<1>3. Insert(t, p, x) = a \o <<x>> \o c
  BY DEF Insert
<1> HIDE DEF a, c
<1> DEFINE b == a \o <<x>>
<1>4. /\ b \in Seq(T) /\ Len(b) = p /\ b[p] = x /\ \A k \in 1..(p - 1) : b[k] = t[k]
  BY <1>1
<1>5. Insert(t, p, x) = b \o c
  BY <1>3
<1> HIDE DEF b
<1>6. b \o c \in Seq(T) /\ Len(b \o c) = Len(t) + 1
  <2>1. b \o c \in Seq(T) /\ Len(b \o c) = Len(b) + Len(c)
    BY <1>2, <1>4, ConcatLen
  <2>2. \A l \in Nat : \A q \in 1..(l + 1) : q + (l - q + 1) = l + 1
    OBVIOUS
  <2>3. p + (Len(t) - p + 1) = Len(t) + 1
    BY <2>2
  <2> QED
    BY <1>2, <1>4, <2>1, <2>3
<1>7. ASSUME NEW k \in 1..(Len(t) + 1)
      PROVE  (b \o c)[k] = IF k < p THEN t[k] ELSE IF k = p THEN x ELSE t[k - 1]
  <2>1. CASE k \in 1..p
    <3>1. (b \o c)[k] = b[k]
      BY <1>2, <1>4, <2>1
    <3> QED
      BY <1>4, <2>1, <3>1
  <2>2. CASE k \notin 1..p
    <3>1. k - p \in 1..(Len(t) - p + 1) /\ p + (k - p) - 1 = k - 1 /\ k > p
      BY <2>2
    <3>2. (b \o c)[k] = c[k - p]
      BY <1>2, <1>4, <3>1
    <3> QED
      BY <1>2, <3>1, <3>2
  <2> QED
    BY <2>1, <2>2
<1> QED
  BY <1>5, <1>6, <1>7

\* A strict weak order on T, and a sequence in its order.
WeakOrder(T, less) ==
    /\ \A a, b \in T : <<a, b>> \in less => <<b, a>> \notin less
    /\ \A a, b, c \in T : <<b, a>> \notin less /\ <<c, b>> \notin less => <<c, a>> \notin less
Sorted(t, less) == \A i, j \in 1..Len(t) : i < j => <<t[j], t[i]>> \notin less

(* An insertion adds its element and nothing else.                          *)
LEMMA InsertSet ==
    ASSUME NEW T, NEW t \in Seq(T), NEW x \in T, NEW p \in 1..(Len(t) + 1)
    PROVE  Range(Insert(t, p, x)) = Range(t) \cup {x}
<1> DEFINE u == Insert(t, p, x)
           n == Len(t)
<1>1. /\ u \in Seq(T) /\ Len(u) = n + 1 /\ n \in Nat /\ p \in 1..(n + 1)
      /\ \A k \in 1..(n + 1) : u[k] = IF k < p THEN t[k] ELSE IF k = p THEN x ELSE t[k - 1]
  BY InsertIs
<1>2. DOMAIN u = 1..(n + 1) /\ DOMAIN t = 1..n
  BY <1>1
<1> HIDE DEF u, n
<1>3. ASSUME NEW k \in 1..(n + 1) PROVE u[k] \in Range(t) \cup {x}
  <2>1. CASE k < p
    <3>1. k \in 1..n /\ u[k] = t[k]
      BY <1>1, <2>1
    <3> QED
      BY <1>2, <3>1 DEF Range
  <2>2. CASE k > p
    <3>1. k - 1 \in 1..n /\ u[k] = t[k - 1]
      BY <1>1, <2>2
    <3> QED
      BY <1>2, <3>1 DEF Range
  <2>3. CASE k = p
    BY <1>1, <2>3
  <2> QED
    BY <1>1, <2>1, <2>2, <2>3
<1>4. ASSUME NEW k \in 1..n PROVE t[k] \in Range(u)
  <2>1. CASE k < p
    <3>1. k \in 1..(n + 1) /\ u[k] = t[k]
      BY <1>1, <2>1
    <3> QED
      BY <1>2, <3>1 DEF Range
  <2>2. CASE ~(k < p)
    <3>1. k + 1 \in 1..(n + 1) /\ ~(k + 1 < p) /\ k + 1 # p /\ (k + 1) - 1 = k
      BY <1>1, <2>2
    <3>2. u[k + 1] = t[k]
      BY <1>1, <3>1
    <3> QED
      BY <1>2, <3>1, <3>2 DEF Range
  <2> QED
    BY <2>1, <2>2
<1>5. x \in Range(u)
  <2>1. u[p] = x
    BY <1>1
  <2> QED
    BY <1>1, <1>2, <2>1 DEF Range
<1>6. Range(u) \subseteq Range(t) \cup {x}
  BY <1>2, <1>3 DEF Range
<1>7. Range(t) \subseteq Range(u)
  BY <1>2, <1>4 DEF Range
<1> QED
  BY <1>5, <1>6, <1>7 DEF u

(* An insertion at the element's place keeps the order.                     *)
LEMMA InsertSorted ==
    ASSUME NEW T, NEW t \in Seq(T), NEW x \in T, NEW less, WeakOrder(T, less), Sorted(t, less)
    PROVE  Sorted(Insert(t, Place(t, x, less), x), less)
<1> DEFINE p == Place(t, x, less)
           u == Insert(t, p, x)
           n == Len(t)
<1>1. /\ p \in 1..(n + 1) /\ \A k \in p..n : <<x, t[k]>> \in less
      /\ p > 1 => <<x, t[p - 1]>> \notin less
  BY PlaceIs
<1> HIDE DEF p
<1>2. /\ Len(u) = n + 1 /\ n \in Nat
      /\ \A k \in 1..(n + 1) : u[k] = IF k < p THEN t[k] ELSE IF k = p THEN x ELSE t[k - 1]
  BY <1>1, InsertIs
<1>t. \A k \in 1..n : t[k] \in T
  OBVIOUS
<1>s. \A i, j \in 1..n : i < j => <<t[j], t[i]>> \notin less
  BY DEF Sorted
<1> HIDE DEF u, n
<1>3. ASSUME NEW k \in 1..n, k < p PROVE <<x, t[k]>> \notin less
  <2>1. p > 1 /\ p - 1 \in 1..n /\ (k = p - 1 \/ k < p - 1)
    BY <1>1, <1>2, <1>3
  <2>2. k < p - 1 => <<t[p - 1], t[k]>> \notin less
    BY <1>s, <2>1
  <2> QED
    BY <1>1, <1>t, <2>1, <2>2 DEF WeakOrder
<1>4. ASSUME NEW k \in 1..n, ~(k < p) PROVE <<t[k], x>> \notin less
  <2>1. k \in p..n
    BY <1>1, <1>2, <1>4
  <2> QED
    BY <1>1, <1>t, <2>1 DEF WeakOrder
<1>5. ASSUME NEW i \in 1..(n + 1), NEW j \in 1..(n + 1), i < j
      PROVE  <<u[j], u[i]>> \notin less
  <2>1. CASE i < p /\ j < p
    <3>1. i \in 1..n /\ j \in 1..n /\ u[i] = t[i] /\ u[j] = t[j]
      BY <1>1, <1>2, <2>1
    <3> QED
      BY <1>s, <1>5, <3>1
  <2>2. CASE i < p /\ j = p
    <3>1. i \in 1..n /\ u[i] = t[i] /\ u[j] = x
      BY <1>1, <1>2, <2>2
    <3> QED
      BY <1>3, <2>2, <3>1
  <2>3. CASE i < p /\ j > p
    <3>1. i \in 1..n /\ j - 1 \in 1..n /\ i < j - 1 /\ u[i] = t[i] /\ u[j] = t[j - 1]
      BY <1>1, <1>2, <2>3
    <3> QED
      BY <1>s, <3>1
  <2>4. CASE i = p
    <3>1. j - 1 \in 1..n /\ ~(j - 1 < p) /\ u[i] = x /\ u[j] = t[j - 1]
      BY <1>1, <1>2, <1>5, <2>4
    <3> QED
      BY <1>4, <3>1
  <2>5. CASE i > p
    <3>1. i - 1 \in 1..n /\ j - 1 \in 1..n /\ i - 1 < j - 1 /\ u[i] = t[i - 1] /\ u[j] = t[j - 1]
      BY <1>1, <1>2, <1>5, <2>5
    <3> QED
      BY <1>s, <3>1
  <2> QED
    BY <1>1, <1>5, <2>1, <2>2, <2>3, <2>4, <2>5
<1>6. Sorted(u, less)
  BY <1>2, <1>5 DEF Sorted
<1> QED
  BY <1>6 DEF u, p

SortEq(s, less, f) ==
    f = [n \in 0..Len(s) |->
            IF n = 0 THEN <<>> ELSE Insert(f[n - 1], Place(f[n - 1], s[n], less), s[n])]

(* The definition of StableSort recurs over the indices of the sequence.    *)
LEMMA SortRec ==
    ASSUME NEW T, NEW s \in Seq(T), NEW less
    PROVE  \E f : SortEq(s, less, f) /\ StableSort(s, less) = f[Len(s)]
<1> DEFINE n == Len(s)
           D == Seq(T)
           b == <<>>
           New(t, i) == Insert(t, Place(t, s[i], less), s[i])
           G == [q \in D \X (1..n) |-> New(q[1], q[2])]
<1>1. n \in Nat /\ b \in D
  OBVIOUS
<1>2. \A t \in D : \A i \in 1..n : New(t, i) \in D
  <2> TAKE t \in D
  <2> TAKE i \in 1..n
  <2>1. s[i] \in T
    OBVIOUS
  <2>2. Place(t, s[i], less) \in 1..(Len(t) + 1)
    BY PlaceIs
  <2> QED
    BY <2>1, <2>2, InsertIs
<1> HIDE DEF New, D
<1>3. G \in Steps(D, n)
  BY <1>2 DEF Steps
<1>4. PICK f : Recurs(f, D, b, n, G)
  <2> HIDE DEF n, G, b
  <2> QED
    BY <1>1, <1>3, Recursion, Zenon
<1>f. f \in [0..n -> D] /\ f[0] = b /\ \A i \in 1..n : f[i] = G[<<f[i - 1], i>>]
  BY <1>4 DEF Recurs
<1>5. ASSUME NEW i \in 1..n PROVE f[i] = New(f[i - 1], i)
  <2>1. i - 1 \in 0..n
    OBVIOUS
  <2>2. <<f[i - 1], i>> \in D \X (1..n)
    BY <2>1, <1>f
  <2>3. G[<<f[i - 1], i>>] = New(f[i - 1], i)
    BY <2>2
  <2> QED
    BY <1>f, <2>3
<1>6. SortEq(s, less, f)
  <2> DEFINE g == [i \in 0..n |-> IF i = 0 THEN b ELSE New(f[i - 1], i)]
  <2>1. \A i \in 0..n : f[i] = g[i]
    BY <1>f, <1>5
  <2>2. f = [i \in 0..n |-> f[i]]
    BY <1>f
  <2>3. [i \in 0..n |-> f[i]] = g
    BY <2>1
  <2> QED
    BY <2>2, <2>3 DEF SortEq, New
<1>7. StableSort(s, less) = (CHOOSE h : SortEq(s, less, h))[n]
  BY DEF StableSort, SortEq
<1> QED
  <2> HIDE DEF n
  <2>1. SortEq(s, less, CHOOSE h : SortEq(s, less, h))
    BY <1>6
  <2> QED
    BY <1>7, <2>1 DEF n

(* The sort returns the elements it was given, and in order when the        *)
(* comparison is a strict weak order.                                       *)
LEMMA SortIs ==
    ASSUME NEW T, NEW s \in Seq(T), NEW less
    PROVE  /\ StableSort(s, less) \in Seq(T)
           /\ Range(StableSort(s, less)) = Range(s)
           /\ WeakOrder(T, less) => Sorted(StableSort(s, less), less)
<1> DEFINE n == Len(s)
<1>1. PICK f : SortEq(s, less, f) /\ StableSort(s, less) = f[n]
  BY SortRec
<1>n. n \in Nat /\ \A i \in 1..n : s[i] \in T
  OBVIOUS
<1> DEFINE New(t, i) == Insert(t, Place(t, s[i], less), s[i])
<1>2. f[0] = <<>> /\ \A i \in 1..n : f[i] = New(f[i - 1], i)
  <2>1. f = [i \in 0..n |-> IF i = 0 THEN <<>> ELSE New(f[i - 1], i)]
    BY <1>1, Zenon DEF SortEq
  <2> HIDE DEF n, New
  <2> QED
    BY <1>n, <2>1
<1> DEFINE Good(m) == /\ f[m] \in Seq(T)
                      /\ \A x : x \in Range(f[m]) <=> \E i \in 1..m : s[i] = x
                      /\ WeakOrder(T, less) => Sorted(f[m], less)
           A == {m \in 0..n : Good(m)}
<1>3. 0 \in A
  <2>1. Good(0)
    BY <1>2 DEF Range, Sorted
  <2> QED
    BY <2>1
<1>4. ASSUME NEW m \in 1..n, m - 1 \in A
      PROVE  m \in A
  <2>1. Good(m - 1)
    BY <1>4
  <2> DEFINE t == f[m - 1]
             p == Place(t, s[m], less)
  <2>2. t \in Seq(T) /\ s[m] \in T
    BY <1>n, <2>1
  <2>3. p \in 1..(Len(t) + 1)
    BY <2>2, PlaceIs
  <2>4. f[m] = Insert(t, p, s[m])
    BY <1>2
  <2>5. f[m] \in Seq(T)
    BY <2>2, <2>3, <2>4, InsertIs
  <2>6. Range(f[m]) = Range(t) \cup {s[m]}
    BY <2>2, <2>3, <2>4, InsertSet
  <2>7. WeakOrder(T, less) => Sorted(f[m], less)
    BY <2>1, <2>2, <2>4, InsertSorted
  <2>8. \A x : (\E i \in 1..m : s[i] = x) <=> (\E i \in 1..(m - 1) : s[i] = x) \/ x = s[m]
    OBVIOUS
  <2>9. Good(m)
    BY <2>1, <2>5, <2>6, <2>7, <2>8
  <2> HIDE DEF Good
  <2> QED
    BY <2>9
<1>5. 0..n \subseteq A
  <2> HIDE DEF A, n
  <2> QED
    BY <1>n, <1>3, <1>4, BoundedInduction
<1>6. Good(n)
  <2>1. n \in 0..n
    OBVIOUS
  <2> HIDE DEF Good, n
  <2> QED
    BY <1>5, <2>1
<1>7. \A x : x \in Range(s) <=> \E i \in 1..n : s[i] = x
  BY DEF Range
<1> QED
  BY <1>1, <1>6, <1>7

-----------------------------------------------------------------------------
(* Keeping the first of each                                               *)

First(all) == {i \in DOMAIN all : \A j \in 1..(i - 1) : all[j] # all[i]}
Once(all) ==
    LET first == Where([i \in DOMAIN all |-> i], First(all))
    IN  [i \in DOMAIN first |-> all[first[i]]]

(* Keeping each element once keeps the elements.                            *)
LEMMA OnceIs ==
    ASSUME NEW T, NEW all \in Seq(T)
    PROVE  Once(all) \in Seq(T) /\ Range(Once(all)) = Range(all)
<1> DEFINE D == DOMAIN all
           id == [i \in D |-> i]
           first == Where(id, First(all))
           o == [i \in DOMAIN first |-> all[first[i]]]
<1>1. id \in Seq(D) /\ Range(id) = D
  <2>1. PICK n \in Nat : D = 1..n
    BY Len(all) \in Nat
  <2> HIDE DEF D
  <2>2. id \in [1..n -> D]
    BY <2>1
  <2>3. id \in Seq(D)
    BY <2>2
  <2>4. {id[i] : i \in D} = D /\ DOMAIN id = D
    OBVIOUS
  <2> HIDE DEF id
  <2> QED
    BY <2>3, <2>4 DEF Range
<1>2. first \in Seq(D) /\ Range(first) = D \cap First(all)
  <2> HIDE DEF id
  <2> QED
    BY <1>1, WhereSet
<1>3. Once(all) = o
  BY DEF Once
<1> HIDE DEF first
<1>4. \A i \in DOMAIN first : first[i] \in D
  BY <1>2
<1>5. o \in Seq(T) /\ DOMAIN o = DOMAIN first
  <2>1. PICK n \in Nat : DOMAIN first = 1..n
    BY <1>2, Len(first) \in Nat
  <2>2. \A i \in DOMAIN first : all[first[i]] \in T
    BY <1>4
  <2>3. o \in [1..n -> T]
    BY <2>1, <2>2
  <2> QED
    BY <2>1, <2>3
<1>6. Range(o) = {all[i] : i \in Range(first)}
  BY <1>5 DEF Range
<1>7. First(all) \subseteq D
  BY DEF First
<1>8. ASSUME NEW i \in D PROVE \E j \in First(all) : all[j] = all[i]
  <2> DEFINE S == {j \in D : all[j] = all[i]}
  <2>1. S \in SUBSET Nat /\ i \in S
    OBVIOUS
  <2>2. PICK j \in S : \A k \in S : j <= k
    <3> HIDE DEF S
    <3> QED
      BY <2>1, LeastNatural
  <2>3. j \in First(all)
    <3>1. ASSUME NEW k \in 1..(j - 1) PROVE all[k] # all[j]
      <4>1. k \in D /\ ~(j <= k)
        BY <2>2
      <4> QED
        BY <2>2, <4>1
    <3> QED
      BY <3>1 DEF First
  <2> QED
    BY <2>3
<1>9. Range(o) = Range(all)
  <2>1. Range(o) = {all[i] : i \in First(all)}
    BY <1>2, <1>6, <1>7
  <2>2. Range(all) = {all[i] : i \in D}
    BY DEF Range
  <2> HIDE DEF D
  <2> QED
    BY <1>7, <1>8, <2>1, <2>2
<1> QED
  BY <1>3, <1>5, <1>9

-----------------------------------------------------------------------------
(* Documents                                                               *)

(* A sequence is one over its elements.                                     *)
LEMMA OverElements ==
    ASSUME NEW T, NEW s \in Seq(T)
    PROVE  s \in Seq(Range(s)) /\ Range(s) \subseteq T
  BY DEF Range

(* A hostname of a document rule is a number.                               *)
LEMMA HostIsNat == \A r \in Rule : r.host \in Nat /\ Len(r.path) \in Nat
<1> TAKE r \in Rule
<1>1. r.host \in Hosts \cup {NoHost} /\ r.path \in Seq(Nat)
  BY DEF Rule
<1>2. Hosts \subseteq Nat
  BY IngressAssumption
<1>3. NoHost \in Nat
  BY DEF NoHost
<1>4. r.host \in Nat
  BY <1>1, <1>2, <1>3, Zenon
<1> QED
  BY <1>1, <1>4

(* What a pair that is in order says of the hostnames and paths.            *)
LEMMA InOrder ==
    ASSUME NEW a \in Rule, NEW b \in Rule, ~RuleBefore(b, a), b.host # NoHost
    PROVE  a.host <= b.host /\ (a.host = b.host => Len(a.path) >= Len(b.path))
<1>1. \A h, k, l, m \in Nat : ~(k < h) /\ ~(k = h /\ m > l) => h <= k /\ (h = k => l >= m)
  OBVIOUS
<1>2. ~(b.host < a.host) /\ ~(b.host = a.host /\ Len(b.path) > Len(a.path))
  BY DEF RuleBefore
<1> QED
  BY <1>1, <1>2, HostIsNat

(* The comparison of sortIngressRules is a strict weak order.               *)
LEMMA RuleOrder ==
    ASSUME NEW S \in SUBSET Rule
    PROVE  WeakOrder(S, {r \in S \X S : RuleBefore(r[1], r[2])})
<1> DEFINE less == {r \in S \X S : RuleBefore(r[1], r[2])}
<1>1. \A a, b \in S : <<a, b>> \in less <=> RuleBefore(a, b)
  OBVIOUS
<1>2. ASSUME NEW a \in S, NEW b \in S, RuleBefore(a, b) PROVE ~RuleBefore(b, a)
  <2>1. a.host \in Nat /\ b.host \in Nat /\ Len(a.path) \in Nat /\ Len(b.path) \in Nat
    BY HostIsNat
  <2> QED
    BY <1>2, <2>1 DEF RuleBefore, NoHost
<1>3. ASSUME NEW a \in S, NEW b \in S, NEW c \in S, ~RuleBefore(b, a), ~RuleBefore(c, b)
      PROVE  ~RuleBefore(c, a)
  <2>1. /\ a.host \in Nat /\ b.host \in Nat /\ Len(a.path) \in Nat /\ Len(b.path) \in Nat
        /\ c.host \in Nat /\ Len(c.path) \in Nat
    BY HostIsNat
  <2> QED
    BY <1>3, <2>1 DEF RuleBefore, NoHost
<1> HIDE DEF less
<1> QED
  BY <1>1, <1>2, <1>3 DEF WeakOrder, less

(* What the sort of the rules does.                                         *)
LEMMA SortedRules ==
    ASSUME NEW d \in Seq(Rule)
    PROVE  /\ SortIngressRules(d) \in Seq(Rule)
           /\ Range(SortIngressRules(d)) = Range(d)
           /\ \A i, j \in 1..Len(SortIngressRules(d)) :
                i < j => ~RuleBefore(SortIngressRules(d)[j], SortIngressRules(d)[i])
<1> DEFINE S == Range(d)
           less == {r \in S \X S : RuleBefore(r[1], r[2])}
           w == SortIngressRules(d)
<1>1. d \in Seq(S) /\ S \in SUBSET Rule
  BY OverElements
<1>2. w = StableSort(d, less)
  BY DEF SortIngressRules
<1>3. WeakOrder(S, less)
  BY <1>1, RuleOrder
<1> HIDE DEF w
<1>4. w \in Seq(S) /\ Range(w) = S /\ Sorted(w, less)
  <2> HIDE DEF S, less
  <2> QED
    BY <1>1, <1>2, <1>3, SortIs, SortIs DEF S
<1>5. ASSUME NEW i \in 1..Len(w), NEW j \in 1..Len(w), i < j
      PROVE  ~RuleBefore(w[j], w[i])
  <2>1. w[i] \in S /\ w[j] \in S
    BY <1>4
  <2>2. <<w[j], w[i]>> \notin less
    BY <1>4, <1>5 DEF Sorted
  <2> QED
    BY <2>1, <2>2
<1>6. w \in Seq(Rule)
  BY <1>1, <1>4
<1> QED
  BY <1>4, <1>5, <1>6 DEF w

(* FilterOutCatchAll leaves the real rules.                                 *)
LEMMA FilterIs ==
    ASSUME NEW d \in Seq(Rule)
    PROVE  FilterOutCatchAll(d) \in Seq(Rule) /\ Range(FilterOutCatchAll(d)) = RealRules(d)
<1>1. FilterOutCatchAll(d) \in Seq(Rule) /\ Range(FilterOutCatchAll(d)) = Range(d) \cap RealRules(d)
  BY WhereSet DEF FilterOutCatchAll
<1> QED
  BY <1>1 DEF RealRules

(* The diff leaves the desired rules, whatever was deployed.                *)
LEMMA DiffIs ==
    ASSUME NEW cur \in Seq(Rule), NEW des \in Seq(Rule)
    PROVE  LET d == ApplyDiff(cur, ToAdd(cur, des), ToRemove(cur, des))
           IN  d \in Seq(Rule) /\ Range(d) = RealRules(des)
<1> DEFINE add == ToAdd(cur, des)
           rem == ToRemove(cur, des)
           kept == Where(cur, RealRules(cur) \ Range(rem))
<1>1. add \in Seq(Rule) /\ Range(add) = Range(des) \cap (RealRules(des) \ RealRules(cur))
  BY WhereSet DEF ToAdd
<1>2. rem \in Seq(Rule) /\ Range(rem) = Range(cur) \cap (RealRules(cur) \ RealRules(des))
  BY WhereSet DEF ToRemove
<1>3. kept \in Seq(Rule) /\ Range(kept) = Range(cur) \cap (RealRules(cur) \ Range(rem))
  BY WhereSet
<1> HIDE DEF add, rem, kept
<1>4. kept \o add \in Seq(Rule) /\ Range(kept \o add) = Range(kept) \cup Range(add)
  BY <1>1, <1>3, ConcatSet
<1>5. Range(kept) \cup Range(add) = RealRules(des)
  <2>1. RealRules(des) \subseteq Range(des) /\ RealRules(cur) \subseteq Range(cur)
    BY DEF RealRules
  <2>2. RealRules(des) \cap Range(cur) \subseteq RealRules(cur)
    BY DEF RealRules
  <2> QED
    BY <1>1, <1>2, <1>3, <2>1, <2>2
<1> QED
  BY <1>4, <1>5 DEF ApplyDiff, add, rem, kept

(* The document a sync writes: the desired rules in order, then the         *)
(* catch-all.                                                               *)
LEMMA FinalIs ==
    ASSUME NEW cur \in Seq(Rule), NEW des \in Seq(Rule),
           \A r \in RealRules(des) : r.host # NoHost
    PROVE  /\ FinalRules(cur, des) \in Seq(Rule)
           /\ RealRules(FinalRules(cur, des)) = RealRules(des)
           /\ Closed(FinalRules(cur, des))
           /\ Ordered(FinalRules(cur, des))
<1> DEFINE d == ApplyDiff(cur, ToAdd(cur, des), ToRemove(cur, des))
           w == SortIngressRules(d)
           v == FilterOutCatchAll(w)
           final == Append(v, CatchAll)
           n == Len(v)
           R == {p \in Rule \X Rule : ~RuleBefore(p[2], p[1])}
<1>1. d \in Seq(Rule) /\ Range(d) = RealRules(des)
  BY DiffIs
<1> HIDE DEF d
<1>2. /\ w \in Seq(Rule) /\ Range(w) = RealRules(des)
      /\ \A i, j \in 1..Len(w) : i < j => ~RuleBefore(w[j], w[i])
  BY <1>1, SortedRules
<1>3. FinalRules(cur, des) = final
  BY DEF FinalRules, EnsureCatchAll, d
<1> HIDE DEF w
<1>4. Pairwise(w, R)
  <2>1. \A i \in 1..Len(w) : w[i] \in Rule
    BY <1>2
  <2> QED
    BY <1>2, <2>1 DEF Pairwise
<1>5. v \in Seq(Rule) /\ Range(v) = Range(w) \cap RealRules(w) /\ Pairwise(v, R)
  <2> HIDE DEF R
  <2> QED
    BY <1>2, <1>4, WhereKeeps DEF FilterOutCatchAll
<1>6. \A r \in RealRules(des) : Real(r)
  BY DEF RealRules
<1>7. Range(v) = RealRules(des)
  BY <1>2, <1>5, <1>6 DEF RealRules
<1> HIDE DEF v
<1>c. CatchAll \in Rule /\ ~Real(CatchAll)
  BY DEF CatchAll, Rule, Real, IsCatchAll
<1>8. /\ final \in Seq(Rule) /\ Len(final) = n + 1 /\ n \in Nat /\ final[n + 1] = CatchAll
      /\ DOMAIN final = 1..(n + 1) /\ \A i \in 1..n : final[i] = v[i]
  BY <1>5, <1>c
<1>9. \A i \in 1..n : v[i] \in Rule /\ Real(v[i]) /\ v[i].host # NoHost
  <2>1. \A i \in 1..n : v[i] \in Range(v)
    BY <1>5 DEF Range
  <2> QED
    BY <1>5, <1>6, <1>7, <2>1
<1> HIDE DEF final, n
<1>10. RealRules(final) = RealRules(des)
  <2>2. Range(final) = Range(v) \cup {CatchAll}
    <3>1. final = v \o <<CatchAll>>
      BY <1>5, <1>c DEF final
    <3> QED
      BY <1>5, <1>c, <3>1, ExtendSet
  <2> QED
    BY <1>6, <1>7, <1>c, <2>2 DEF RealRules
<1>11. Closed(final)
  <2>1. ASSUME NEW i \in 1..(n + 1) PROVE IsCatchAll(final[i]) <=> i = n + 1
    <3>1. i \in 1..n \/ i = n + 1
      BY <1>8, NextIndex
    <3>2. i \in 1..n => i # n + 1
      BY <1>8
    <3> QED
      BY <1>8, <1>9, <1>c, <3>1, <3>2 DEF Real
  <2>2. final # <<>>
    BY <1>8
  <2> QED
    BY <1>8, <2>1, <2>2 DEF Closed
<1>12. Ordered(final)
  <2>1. ASSUME NEW i \in 1..(n + 1), NEW j \in 1..(n + 1), i < j
        PROVE  /\ final[i].host = NoHost => final[j].host = NoHost
               /\ final[i].host # NoHost /\ final[j].host # NoHost => final[i].host <= final[j].host
               /\ final[i].host = final[j].host /\ Real(final[j]) => Len(final[i].path) >= Len(final[j].path)
    <3>1. CASE j = n + 1
      <4>1. final[j].host = NoHost /\ ~Real(final[j])
        BY <1>8, <1>c, <3>1 DEF CatchAll
      <4> QED
        BY <4>1
    <3>2. CASE j \in 1..n
      <4>1. i \in 1..n
        BY <1>8, <2>1, <3>2
      <4>2. <<v[i], v[j]>> \in R
        BY <1>5, <2>1, <3>2, <4>1 DEF Pairwise, n
      <4>3. ~RuleBefore(v[j], v[i])
        BY <4>2
      <4>4. v[i].host # NoHost /\ v[j].host # NoHost /\ v[i] \in Rule /\ v[j] \in Rule
        BY <1>9, <3>2, <4>1
      <4>6. /\ v[i].host <= v[j].host
            /\ v[i].host = v[j].host => Len(v[i].path) >= Len(v[j].path)
        BY <4>3, <4>4, InOrder
      <4>7. final[i] = v[i] /\ final[j] = v[j]
        BY <1>8, <3>2, <4>1
      <4> HIDE DEF R
      <4> QED
        BY <4>4, <4>6, <4>7
    <3> QED
      BY <1>8, <3>1, <3>2, NextIndex
  <2> QED
    BY <1>8, <2>1 DEF Ordered
<1> QED
  BY <1>3, <1>8, <1>10, <1>11, <1>12
-----------------------------------------------------------------------------
(* Built rules                                                             *)

BuiltRules(es) == {RuleOf(e) : e \in {x \in es : x.host # AnyHost}}

(* An entry with a hostname makes a real rule for that hostname.            *)
LEMMA RuleOfEntry ==
    ASSUME NEW e \in Entry, e.host # AnyHost
    PROVE  RuleOf(e) \in Rule /\ RuleOf(e).host # NoHost /\ Real(RuleOf(e))
<1>1. e.host \in Hosts /\ e.service \in Services /\ e.path \in Seq(Nat \ {Star})
  BY DEF Entry
<1>2. e.path \in Seq(Nat) /\ Append(e.path, Star) \in Seq(Nat)
  BY <1>1 DEF Star
<1> DEFINE p == IF e.path # <<>> /\ e.prio = 0 THEN Append(e.path, Star) ELSE e.path
<1>3. p \in Seq(Nat)
  BY <1>2
<1>4. RuleOf(e) = [host |-> e.host, service |-> e.service, path |-> p]
  BY DEF RuleOf
<1> HIDE DEF p
<1>5. RuleOf(e) \in Rule
  BY <1>1, <1>3, <1>4 DEF Rule
<1>6. RuleOf(e).host = e.host
  BY <1>4
<1> QED
  BY <1>5, <1>6 DEF Real, IsCatchAll, AnyHost, NoHost

(* What the builders make of the entries.                                   *)
LEMMA BuildIs ==
    ASSUME NEW es \in Seq(Entry), NEW c \in BOOLEAN
    PROVE  /\ Build(es, c) \in Seq(Rule)
           /\ RealRules(Build(es, c)) = BuiltRules(Range(es))
<1> DEFINE w == SortRouteEntries(es)
           N == {e \in Range(w) : e.host # AnyHost}
           v == Where(w, N)
           m == [i \in DOMAIN v |-> RuleOf(v[i])]
           tail == IF c THEN <<CatchAll>> ELSE <<>>
<1>1. w \in Seq(Entry) /\ Range(w) = Range(es)
  BY SortIs DEF SortRouteEntries
<1>2. Build(es, c) = m \o tail
  BY DEF Build, EntriesToIngressRules
<1> HIDE DEF w
<1>3. v \in Seq(Entry) /\ Range(v) = N
  <2>1. v \in Seq(Entry) /\ Range(v) = Range(w) \cap N
    BY <1>1, WhereSet
  <2> QED
    BY <2>1
<1> HIDE DEF v
<1>4. \A i \in DOMAIN v : v[i] \in N /\ v[i] \in Entry
  <2>1. \A i \in DOMAIN v : v[i] \in Range(v)
    BY DEF Range
  <2> HIDE DEF N
  <2> QED
    BY <1>3, <2>1
<1>5. \A i \in DOMAIN v : RuleOf(v[i]) \in Rule /\ Real(RuleOf(v[i]))
  BY <1>4, RuleOfEntry
<1>6. m \in Seq(Rule) /\ DOMAIN m = DOMAIN v /\ \A i \in DOMAIN v : m[i] = RuleOf(v[i])
  BY <1>3, <1>5
<1> HIDE DEF m
<1>7. Range(m) = BuiltRules(Range(es))
  <2>1. Range(m) = {RuleOf(e) : e \in Range(v)}
    BY <1>6 DEF Range
  <2> QED
    BY <1>1, <1>3, <2>1 DEF BuiltRules
<1>c. CatchAll \in Rule /\ ~Real(CatchAll)
  BY DEF CatchAll, Rule, Real, IsCatchAll
<1>8. tail \in Seq(Rule) /\ Range(tail) \subseteq {CatchAll}
  <2>1. CASE c
    <3>1. tail = <<CatchAll>> /\ <<CatchAll>> \in Seq(Rule)
      BY <1>c, <2>1
    <3> QED
      BY <3>1, SmallSets
  <2>2. CASE ~c
    <3>1. tail = <<>> /\ <<>> \in Seq(Rule)
      BY <2>2
    <3> QED
      BY <3>1, SmallSets
  <2> QED
    BY <2>1, <2>2
<1> HIDE DEF tail
<1>9. m \o tail \in Seq(Rule) /\ Range(m \o tail) = Range(m) \cup Range(tail)
  BY <1>6, <1>8, ConcatSet
<1>10. \A r \in Range(m) : Real(r)
  BY <1>5, <1>6 DEF Range
<1>11. RealRules(m \o tail) = Range(m)
  BY <1>8, <1>9, <1>10, <1>c DEF RealRules
<1> QED
  BY <1>2, <1>7, <1>9, <1>11

-----------------------------------------------------------------------------
(* Desired rules                                                           *)

(* The rules of a route are those of its entries.                           *)
LEMMA RulesOfIs ==
    ASSUME NEW r \in Routes
    PROVE  RulesOf[r] = BuiltRules(Range(Entries[r]))
<1>1. Entries[r] \in Seq(Entry) /\ (Kind[r] = "http") \in BOOLEAN
  BY TunnelAssumption
<1>2. RulesOf[r] = RulesIn(Build(Entries[r], Kind[r] = "http"))
  BY DEF RulesOf
<1> QED
  BY <1>1, <1>2, BuildIs, FilterIs DEF RulesIn

Keys == Infra \cup {Shared}

(* The partitions on a tunnel.                                              *)
LEMMA GroupIs ==
    ASSUME NEW t \in TunnelSet, NEW down \in SUBSET Infra
    PROVE  /\ GroupPartitions(t, down) \in Seq(Keys)
           /\ Range(GroupPartitions(t, down)) =
                {k \in {Shared} \cup (Infra \ down) : TunnelOf[k] = t}
<1> DEFINE open == Where(OptedIn, Infra \ down)
           K == {k \in Keys : TunnelOf[k] = t}
<1>1. OptedIn \in Seq(Infra) /\ Range(OptedIn) = Infra
  BY TunnelAssumption DEF Infra
<1>2. open \in Seq(Infra) /\ Range(open) = Range(OptedIn) \cap (Infra \ down)
  BY <1>1, WhereSet
<1>3. PartitionKeys(down) = <<Shared>> \o open
  BY DEF PartitionKeys
<1> HIDE DEF open
<1>4. <<Shared>> \in Seq(Keys) /\ open \in Seq(Keys)
  BY <1>2 DEF Keys
<1>5. /\ PartitionKeys(down) \in Seq(Keys)
      /\ Range(PartitionKeys(down)) = Range(<<Shared>>) \cup Range(open)
  <2>1. <<Shared>> \o open \in Seq(Keys) /\ Range(<<Shared>> \o open) = Range(<<Shared>>) \cup Range(open)
    <3> DEFINE one == <<Shared>>
    <3>1. one \in Seq(Keys)
      BY <1>4
    <3> HIDE DEF one
    <3>2. one \o open \in Seq(Keys) /\ Range(one \o open) = Range(one) \cup Range(open)
      BY <3>1, <1>4, ConcatSet
    <3> QED
      BY <3>2 DEF one
  <2> QED
    BY <1>3, <2>1, Zenon
<1>6. Range(PartitionKeys(down)) = {Shared} \cup (Infra \ down)
  BY <1>1, <1>2, <1>5, SmallSets
<1>7. GroupPartitions(t, down) = Where(PartitionKeys(down), K)
  BY DEF GroupPartitions, Keys
<1>8. /\ GroupPartitions(t, down) \in Seq(Keys)
      /\ Range(GroupPartitions(t, down)) = Range(PartitionKeys(down)) \cap K
  <2> HIDE DEF K
  <2> QED
    BY <1>5, <1>7, WhereSet
<1> QED
  BY <1>6, <1>8 DEF Keys

(* The tunnels of a sync are tunnels.                                       *)
LEMMA GroupsAreTunnels ==
    ASSUME NEW down
    PROVE  BuildTunnelGroups(down) \in Seq(TunnelSet)
  BY TunnelAssumption, WhereSet DEF BuildTunnelGroups

(* The routes of a partition.                                               *)
LEMMA PartitionIs ==
    ASSUME NEW k, NEW down, NEW R \in SUBSET Routes
    PROVE  /\ PartitionRoutes(k, down, R) \in Seq(Routes)
           /\ Range(PartitionRoutes(k, down, R)) = {r \in R : k \in PartitionKeysFor(r, down)}
<1> DEFINE K == {r \in R : k \in PartitionKeysFor(r, down)}
<1>1. RouteList \in Seq(Routes) /\ Range(RouteList) = Routes
  BY TunnelAssumption DEF Routes
<1>2. PartitionRoutes(k, down, R) = Where(RouteList, K)
  BY DEF PartitionRoutes
<1>3. K \subseteq Routes
  OBVIOUS
<1>4. Where(RouteList, K) \in Seq(Routes) /\ Range(Where(RouteList, K)) = Range(RouteList) \cap K
  <2> HIDE DEF K
  <2> QED
    BY <1>1, WhereSet
<1> QED
  BY <1>1, <1>2, <1>3, <1>4

(* The routes of a group: those that a partition on its tunnel holds.       *)
LEMMA GroupRoutesIs ==
    ASSUME NEW t \in TunnelSet, NEW down \in SUBSET Infra, NEW R \in SUBSET Routes
    PROVE  /\ GroupRoutes(t, down, R) \in Seq(Routes)
           /\ Range(GroupRoutes(t, down, R)) =
                {r \in R : \E k \in Range(GroupPartitions(t, down)) : k \in PartitionKeysFor(r, down)}
<1> DEFINE keys == GroupPartitions(t, down)
           ss == [i \in DOMAIN keys |-> PartitionRoutes(keys[i], down, R)]
           all == FlattenSeq(ss)
<1>1. keys \in Seq(Keys)
  BY GroupIs
<1>2. GroupRoutes(t, down, R) = Once(all)
  BY DEF GroupRoutes, Once, First
<1> HIDE DEF keys
<1>3. ss \in Seq(Seq(Routes)) /\ DOMAIN ss = DOMAIN keys
  <2>1. \A i \in DOMAIN keys : PartitionRoutes(keys[i], down, R) \in Seq(Routes)
    BY PartitionIs
  <2> QED
    BY <1>1, <2>1
<1>4. \A i \in DOMAIN keys : Range(ss[i]) = {r \in R : keys[i] \in PartitionKeysFor(r, down)}
  BY PartitionIs
<1> HIDE DEF ss
<1>5. all \in Seq(Routes) /\ Range(all) = UNION {Range(ss[i]) : i \in DOMAIN ss}
  BY <1>3, FlattenElements
<1> HIDE DEF all
<1>6. GroupRoutes(t, down, R) \in Seq(Routes) /\ Range(GroupRoutes(t, down, R)) = Range(all)
  BY <1>2, <1>5, OnceIs
<1>7. Range(all) = {r \in R : \E i \in DOMAIN keys : keys[i] \in PartitionKeysFor(r, down)}
  BY <1>3, <1>4, <1>5
<1>8. \A r : (\E k \in Range(keys) : k \in PartitionKeysFor(r, down))
          <=> (\E i \in DOMAIN keys : keys[i] \in PartitionKeysFor(r, down))
  BY DEF Range
<1> QED
  BY <1>6, <1>7, <1>8 DEF keys

(* The entries of a list of routes.                                         *)
LEMMA EntriesIs ==
    ASSUME NEW rs \in Seq(Routes)
    PROVE  /\ RouteEntries(rs) \in Seq(Entry)
           /\ Range(RouteEntries(rs)) = UNION {Range(Entries[r]) : r \in Range(rs)}
<1> DEFINE ss == [i \in DOMAIN rs |-> Entries[rs[i]]]
<1>1. \A i \in DOMAIN rs : Entries[rs[i]] \in Seq(Entry)
  BY TunnelAssumption
<1>2. ss \in Seq(Seq(Entry)) /\ DOMAIN ss = DOMAIN rs /\ \A i \in DOMAIN rs : ss[i] = Entries[rs[i]]
  BY <1>1
<1>3. RouteEntries(rs) = FlattenSeq(ss)
  BY DEF RouteEntries
<1> HIDE DEF ss
<1>4. FlattenSeq(ss) \in Seq(Entry) /\ Range(FlattenSeq(ss)) = UNION {Range(ss[i]) : i \in DOMAIN ss}
  BY <1>2, FlattenElements
<1>5. {Range(ss[i]) : i \in DOMAIN ss} = {Range(Entries[rs[i]]) : i \in DOMAIN rs}
  BY <1>2
<1>6. {Range(Entries[rs[i]]) : i \in DOMAIN rs} = {Range(Entries[r]) : r \in {rs[i] : i \in DOMAIN rs}}
  OBVIOUS
<1>7. Range(rs) = {rs[i] : i \in DOMAIN rs}
  BY DEF Range
<1> QED
  BY <1>3, <1>4, <1>5, <1>6, <1>7

(* The rules built for a list of routes are those of its routes.            *)
LEMMA BuiltIs ==
    ASSUME NEW rs \in Seq(Routes), NEW c \in BOOLEAN
    PROVE  /\ Build(RouteEntries(rs), c) \in Seq(Rule)
           /\ RealRules(Build(RouteEntries(rs), c)) = UNION {RulesOf[r] : r \in Range(rs)}
<1> DEFINE es == RouteEntries(rs)
<1>1. es \in Seq(Entry) /\ Range(es) = UNION {Range(Entries[r]) : r \in Range(rs)}
  BY EntriesIs
<1>2. Range(rs) \subseteq Routes
  BY OverElements
<1> HIDE DEF es
<1>3. Build(es, c) \in Seq(Rule) /\ RealRules(Build(es, c)) = BuiltRules(Range(es))
  BY <1>1, BuildIs
<1>4. BuiltRules(Range(es)) = UNION {BuiltRules(Range(Entries[r])) : r \in Range(rs)}
  BY <1>1 DEF BuiltRules
<1>5. {BuiltRules(Range(Entries[r])) : r \in Range(rs)} = {RulesOf[r] : r \in Range(rs)}
  BY <1>2, RulesOfIs
<1> QED
  BY <1>3, <1>4, <1>5 DEF es

(* The routes with a parent that tunnel t serves and whose plane is up.     *)
Served(t, down, R) == {q \in R : \E g \in Parents[q] \ down : ServingTunnel(g) = t}

(* A partition on the tunnel holds a route exactly when the tunnel serves   *)
(* one of its parents.                                                      *)
LEMMA ServedIs ==
    ASSUME NEW t \in TunnelSet, NEW down \in SUBSET Infra, NEW R \in SUBSET Routes
    PROVE  /\ GroupRoutes(t, down, R) \in Seq(Routes)
           /\ Range(GroupRoutes(t, down, R)) = Served(t, down, R)
           /\ GroupPartitions(t, down) = <<>> => Served(t, down, R) = {}
<1> DEFINE K == Range(GroupPartitions(t, down))
<1>1. K = {k \in {Shared} \cup (Infra \ down) : TunnelOf[k] = t}
  BY GroupIs
<1>2. ASSUME NEW r \in Routes
      PROVE  (\E k \in K : k \in PartitionKeysFor(r, down))
             <=> \E g \in Parents[r] \ down : ServingTunnel(g) = t
  <2> HIDE DEF K
  <2>1. ASSUME NEW g \in Parents[r] \ down, ServingTunnel(g) = t
        PROVE  \E k \in K : k \in PartitionKeysFor(r, down)
    <3> DEFINE k == IF g \in Infra THEN g ELSE Shared
    <3>1. k \in PartitionKeysFor(r, down)
      BY DEF PartitionKeysFor
    <3>2. k \in {Shared} \cup (Infra \ down) /\ TunnelOf[k] = t
      BY <2>1 DEF ServingTunnel
    <3> QED
      BY <1>1, <3>1, <3>2
  <2>2. ASSUME NEW k \in K, k \in PartitionKeysFor(r, down)
        PROVE  \E g \in Parents[r] \ down : ServingTunnel(g) = t
    <3>1. PICK g \in Parents[r] \ down : k = IF g \in Infra THEN g ELSE Shared
      BY <2>2 DEF PartitionKeysFor
    <3> QED
      BY <1>1, <2>2, <3>1 DEF ServingTunnel
  <2> QED
    BY <2>1, <2>2
<1>3. /\ GroupRoutes(t, down, R) \in Seq(Routes)
      /\ Range(GroupRoutes(t, down, R)) = {r \in R : \E k \in K : k \in PartitionKeysFor(r, down)}
  BY GroupRoutesIs
<1>4. GroupPartitions(t, down) = <<>> => K = {}
  BY SmallSets
<1> HIDE DEF K
<1>5. {r \in R : \E k \in K : k \in PartitionKeysFor(r, down)} = Served(t, down, R)
  BY <1>2 DEF Served
<1> QED
  BY <1>3, <1>4, <1>5

(* The desired rules of a tunnel are those of the routes it serves, all of  *)
(* them with a hostname.                                                    *)
LEMMA DesiredIs ==
    ASSUME NEW t \in TunnelSet, NEW down \in SUBSET Infra, NEW R \in SUBSET Routes
    PROVE  /\ DesiredRules[t][down][R] \in Seq(Rule)
           /\ RealRules(DesiredRules[t][down][R]) = UNION {RulesOf[r] : r \in Served(t, down, R)}
           /\ \A r \in RealRules(DesiredRules[t][down][R]) : r.host # NoHost
<1> DEFINE G == GroupRoutes(t, down, R)
           Of(k) == Where(G, {r \in R : Kind[r] = k})
           http == Build(RouteEntries(Of("http")), TRUE)
           grpc == Build(RouteEntries(Of("grpc")), FALSE)
           merged == MergeAndSortRules(http, grpc)
           D == DesiredRules[t][down][R]
           S == Served(t, down, R)
<1>1. D = IF GroupPartitions(t, down) = <<>> THEN <<>> ELSE merged
  <2>1. D = GroupRules(t, down, R)
    BY DEF DesiredRules
  <2> QED
    BY <2>1 DEF GroupRules
<1>2. G \in Seq(Routes) /\ Range(G) = S /\ (GroupPartitions(t, down) = <<>> => S = {})
  BY ServedIs
<1>3. S \subseteq R
  BY DEF Served
<1> HIDE DEF G, S
<1>4. ASSUME NEW k PROVE Of(k) \in Seq(Routes) /\ Range(Of(k)) = {r \in S : Kind[r] = k}
  <2>1. Of(k) \in Seq(Routes) /\ Range(Of(k)) = Range(G) \cap {r \in R : Kind[r] = k}
    BY <1>2, WhereSet
  <2> HIDE DEF Of
  <2> QED
    BY <1>2, <1>3, <2>1
<1> HIDE DEF Of
<1>5. /\ http \in Seq(Rule)
      /\ RealRules(http) = UNION {RulesOf[r] : r \in Range(Of("http"))}
  BY <1>4, BuiltIs
<1>6. /\ grpc \in Seq(Rule)
      /\ RealRules(grpc) = UNION {RulesOf[r] : r \in Range(Of("grpc"))}
  BY <1>4, BuiltIs
<1> HIDE DEF http, grpc
<1>7. merged \in Seq(Rule) /\ Range(merged) = RealRules(http) \cup RealRules(grpc)
  <2> DEFINE a == FilterOutCatchAll(http)
             b == FilterOutCatchAll(grpc)
  <2>1. a \in Seq(Rule) /\ Range(a) = RealRules(http) /\ b \in Seq(Rule) /\ Range(b) = RealRules(grpc)
    BY <1>5, <1>6, FilterIs
  <2>2. merged = SortIngressRules(a \o b)
    BY DEF MergeAndSortRules
  <2> HIDE DEF a, b, merged
  <2>3. a \o b \in Seq(Rule) /\ Range(a \o b) = Range(a) \cup Range(b)
    BY <2>1, ConcatSet
  <2> QED
    BY <2>1, <2>2, <2>3, SortedRules
<1> HIDE DEF merged
<1>8. \A r \in RealRules(http) \cup RealRules(grpc) : Real(r)
  BY DEF RealRules
<1>9. RealRules(merged) = RealRules(http) \cup RealRules(grpc)
  BY <1>7, <1>8 DEF RealRules
<1>10. \A r \in S : Kind[r] = "http" \/ Kind[r] = "grpc"
  BY <1>3, TunnelAssumption DEF Kinds
<1>11. RealRules(merged) = UNION {RulesOf[r] : r \in S}
  BY <1>4, <1>5, <1>6, <1>9, <1>10
<1>12. <<>> \in Seq(Rule) /\ RealRules(<<>>) = {}
  BY SmallSets DEF RealRules
<1>13. D \in Seq(Rule) /\ RealRules(D) = UNION {RulesOf[r] : r \in S}
  <2>1. CASE GroupPartitions(t, down) = <<>>
    BY <1>1, <1>2, <1>12, <2>1
  <2>2. CASE GroupPartitions(t, down) # <<>>
    BY <1>1, <1>7, <1>11, <2>2
  <2> QED
    BY <2>1, <2>2
<1>14. \A r \in S : \A x \in RulesOf[r] : x.host # NoHost
  <2> TAKE r \in S
  <2>1. r \in Routes /\ Entries[r] \in Seq(Entry)
    BY <1>3, TunnelAssumption
  <2>2. RulesOf[r] = BuiltRules(Range(Entries[r])) /\ Range(Entries[r]) \subseteq Entry
    BY <2>1, RulesOfIs, OverElements
  <2> QED
    BY <2>2, RuleOfEntry DEF BuiltRules
<1> HIDE DEF D
<1>15. \A r \in RealRules(D) : r.host # NoHost
  BY <1>13, <1>14
<1> QED
  BY <1>13, <1>15 DEF D, S

-----------------------------------------------------------------------------
(* Documents are sequences of rules, and a sync works on routes, planes and *)
(* tunnels that exist.                                                      *)
TypeOK ==
    /\ routes \subseteq Routes
    /\ broken \subseteq Infra
    /\ doc \in [TunnelSet -> Seq(Rule)]
    /\ foreign \in [TunnelSet -> BOOLEAN]
    /\ synced \in [TunnelSet -> [some : BOOLEAN, routes : SUBSET Routes, down : SUBSET Infra]]
    /\ sync \in [routes : SUBSET Routes, down : SUBSET Infra, transient : BOOLEAN,
                 todo : Seq(TunnelSet), cur : [read : BOOLEAN, rules : Seq(Rule)],
                 failed : SUBSET TunnelSet, failedPartitions : SUBSET Keys]

(* What Exact says of one tunnel.                                           *)
ExactFor(t, d, f, s) ==
    s.some /\ ~f =>
        /\ RulesIn(d) = UNION {RulesOf[r] : r \in Served(t, s.down, s.routes)}
        /\ Closed(d) /\ Ordered(d) /\ Len(d) <= MaxIngressRules

LEMMA ExactIs == Exact <=> \A t \in TunnelSet : ExactFor(t, doc[t], foreign[t], synced[t])
  BY DEF Exact, ExactFor, Served

(* A sync that starts is typed.                                             *)
LEMMA NoSyncTyped ==
    NoSync \in [routes : SUBSET Routes, down : SUBSET Infra, transient : BOOLEAN,
                todo : Seq(TunnelSet), cur : [read : BOOLEAN, rules : Seq(Rule)],
                failed : SUBSET TunnelSet, failedPartitions : SUBSET Keys]
  BY SMTT(60) DEF NoSync, NoDoc

LEMMA TypeInit == Init => TypeOK
<1> SUFFICES ASSUME Init PROVE TypeOK
  OBVIOUS
<1>1. routes \subseteq Routes /\ broken \subseteq Infra
  BY TunnelAssumption DEF Init
<1>2. doc \in [TunnelSet -> Seq(Rule)] /\ foreign \in [TunnelSet -> BOOLEAN]
  BY DEF Init
<1>3. synced \in [TunnelSet -> [some : BOOLEAN, routes : SUBSET Routes, down : SUBSET Infra]]
  BY DEF Init, NoSnapshot
<1> QED
  BY <1>1, <1>2, <1>3, NoSyncTyped DEF Init, TypeOK

(* Taking a tunnel off the list of a sync.                                  *)
LEMMA FailTyped ==
    ASSUME TypeOK, NEW t \in TunnelSet, sync.todo # <<>>, GroupFailed(t)
    PROVE  sync' \in [routes : SUBSET Routes, down : SUBSET Infra, transient : BOOLEAN,
                      todo : Seq(TunnelSet), cur : [read : BOOLEAN, rules : Seq(Rule)],
                      failed : SUBSET TunnelSet, failedPartitions : SUBSET Keys]
<1>1. Range(GroupPartitions(t, sync.down)) \subseteq Keys
  <2>1. sync.down \in SUBSET Infra
    BY DEF TypeOK
  <2> QED
    BY <2>1, GroupIs, OverElements
<1>2. Tail(sync.todo) \in Seq(TunnelSet) /\ NoDoc \in [read : BOOLEAN, rules : Seq(Rule)]
  BY DEF TypeOK, NoDoc
<1> DEFINE gone == Range(GroupPartitions(t, sync.down))
<1> HIDE DEF gone
<1>3. sync' = [sync EXCEPT !.todo = Tail(@), !.cur = NoDoc, !.failed = @ \cup {t},
                           !.failedPartitions = @ \cup gone]
  BY DEF GroupFailed, gone
<1>4. gone \subseteq Keys
  BY <1>1 DEF gone
<1> HIDE DEF GroupFailed
<1> QED
  BY <1>2, <1>3, <1>4 DEF TypeOK

LEMMA DoneTyped ==
    ASSUME TypeOK, NEW t \in TunnelSet, sync.todo # <<>>, GroupDone(t)
    PROVE  /\ sync' \in [routes : SUBSET Routes, down : SUBSET Infra, transient : BOOLEAN,
                         todo : Seq(TunnelSet), cur : [read : BOOLEAN, rules : Seq(Rule)],
                         failed : SUBSET TunnelSet, failedPartitions : SUBSET Keys]
           /\ synced' \in [TunnelSet -> [some : BOOLEAN, routes : SUBSET Routes, down : SUBSET Infra]]
           /\ synced'[t] = [some |-> TRUE, routes |-> sync.routes, down |-> sync.down]
           /\ \A u \in TunnelSet \ {t} : synced'[u] = synced[u]
<1>1. Tail(sync.todo) \in Seq(TunnelSet) /\ NoDoc \in [read : BOOLEAN, rules : Seq(Rule)]
  BY DEF TypeOK, NoDoc
<1>2. sync' \in [routes : SUBSET Routes, down : SUBSET Infra, transient : BOOLEAN,
                 todo : Seq(TunnelSet), cur : [read : BOOLEAN, rules : Seq(Rule)],
                 failed : SUBSET TunnelSet, failedPartitions : SUBSET Keys]
  BY <1>1 DEF GroupDone, TypeOK
<1> QED
  BY <1>2 DEF GroupDone, TypeOK

(* The step that writes: whether it skips, writes or fails, the tunnel's    *)
(* document is exact for what the tunnel was last synced for.               *)
LEMMA UpdateKeeps ==
    ASSUME TypeOK, Exact, NEW w \in Workers, UpdateConfig(w)
    PROVE  TypeOK' /\ Exact'
<1> DEFINE t == Head(sync.todo)
           cur == sync.cur.rules
           des == DesiredRules[t][sync.down][sync.routes]
           final == FinalRules(cur, des)
           snap == [some |-> TRUE, routes |-> sync.routes, down |-> sync.down]
<1>1. /\ t \in TunnelSet /\ cur \in Seq(Rule) /\ sync.down \in SUBSET Infra
      /\ sync.routes \in SUBSET Routes /\ sync.todo # <<>>
  <2>1. sync.todo # <<>>
    BY Zenon DEF UpdateConfig
  <2> QED
    BY <2>1 DEF TypeOK
<1>2. routes' = routes /\ broken' = broken
  BY Zenon DEF UpdateConfig
<1> DEFINE Skip == /\ Len(final) <= MaxIngressRules /\ RulesUnchanged(cur, final) /\ GroupDone(t)
                   /\ foreign' = [foreign EXCEPT ![t] = doc[t] # cur] /\ doc' = doc
           Write == /\ Len(final) <= MaxIngressRules
                    /\ doc' = [doc EXCEPT ![t] = final] /\ foreign' = [foreign EXCEPT ![t] = FALSE]
                    /\ \/ GroupDone(t)
                       \/ GroupFailed(t) /\ synced' = [synced EXCEPT ![t] = snap]
           Fail == GroupFailed(t) /\ doc' = doc /\ foreign' = foreign /\ synced' = synced
<1>3. Skip \/ Write \/ Fail
  BY DEF UpdateConfig
<1>4. /\ des \in Seq(Rule)
      /\ RealRules(des) = UNION {RulesOf[r] : r \in Served(t, sync.down, sync.routes)}
      /\ \A r \in RealRules(des) : r.host # NoHost
  <2> HIDE DEF t
  <2> QED
    BY <1>1, DesiredIs
<1> HIDE DEF des, cur, t
<1>5. /\ final \in Seq(Rule) /\ RulesIn(final) = RealRules(des)
      /\ Closed(final) /\ Ordered(final)
  <2>1. /\ final \in Seq(Rule) /\ RealRules(final) = RealRules(des)
        /\ Closed(final) /\ Ordered(final)
    BY <1>1, <1>4, FinalIs
  <2> HIDE DEF final
  <2> QED
    BY <2>1, FilterIs DEF RulesIn
<1>6. Len(final) <= MaxIngressRules => \A f : ExactFor(t, final, f, snap)
  <2> HIDE DEF final
  <2> QED
    BY <1>4, <1>5 DEF ExactFor
<1>7. \A u \in TunnelSet : ExactFor(u, doc[u], foreign[u], synced[u])
  BY ExactIs
<1>8. (\A u \in TunnelSet : ExactFor(u, doc'[u], foreign'[u], synced'[u])) => Exact'
  BY DEF Exact, ExactFor, Served
<1> HIDE DEF final
<1>9. CASE Skip
  <2>1. GroupDone(t) /\ doc' = doc /\ foreign' = [foreign EXCEPT ![t] = doc[t] # cur] /\ cur = final
    BY <1>9 DEF RulesUnchanged
  <2>2. TypeOK'
    BY <1>1, <1>2, <2>1, DoneTyped DEF TypeOK
  <2>3. synced'[t] = snap /\ \A u \in TunnelSet \ {t} : synced'[u] = synced[u]
    BY <1>1, <2>1, DoneTyped
  <2>4. (foreign'[t] <=> doc[t] # final) /\ \A u \in TunnelSet \ {t} : foreign'[u] = foreign[u]
    BY <1>1, <2>1 DEF TypeOK
  <2>5. ExactFor(t, doc'[t], foreign'[t], synced'[t])
    <3>1. CASE doc[t] = final
      BY <1>6, <1>9, <2>1, <2>3, <3>1
    <3>2. CASE doc[t] # final
      BY <2>4, <3>2 DEF ExactFor
    <3> QED
      BY <3>1, <3>2
  <2>6. ASSUME NEW u \in TunnelSet \ {t} PROVE ExactFor(u, doc'[u], foreign'[u], synced'[u])
    BY <1>7, <2>1, <2>3, <2>4
  <2> QED
    BY <1>8, <2>2, <2>5, <2>6
<1>10. CASE Write
  <2>1. /\ sync' \in [routes : SUBSET Routes, down : SUBSET Infra, transient : BOOLEAN,
                      todo : Seq(TunnelSet), cur : [read : BOOLEAN, rules : Seq(Rule)],
                      failed : SUBSET TunnelSet, failedPartitions : SUBSET Keys]
        /\ synced' \in [TunnelSet -> [some : BOOLEAN, routes : SUBSET Routes, down : SUBSET Infra]]
        /\ synced'[t] = snap /\ \A u \in TunnelSet \ {t} : synced'[u] = synced[u]
    <3>1. CASE GroupDone(t)
      BY <1>1, <3>1, DoneTyped
    <3>2. CASE GroupFailed(t) /\ synced' = [synced EXCEPT ![t] = snap]
      <4>1. synced \in [TunnelSet -> [some : BOOLEAN, routes : SUBSET Routes, down : SUBSET Infra]]
        BY DEF TypeOK
      <4>2. snap \in [some : BOOLEAN, routes : SUBSET Routes, down : SUBSET Infra]
        BY <1>1
      <4> HIDE DEF snap
      <4> QED
        BY <1>1, <3>2, <4>1, <4>2, FailTyped
    <3> QED
      BY <1>10, <3>1, <3>2
  <2>2. TypeOK'
    BY <1>1, <1>2, <1>5, <1>10, <2>1 DEF TypeOK
  <2>3. doc'[t] = final /\ \A u \in TunnelSet \ {t} : doc'[u] = doc[u] /\ foreign'[u] = foreign[u]
    BY <1>1, <1>10 DEF TypeOK
  <2>4. ExactFor(t, doc'[t], foreign'[t], synced'[t])
    BY <1>6, <1>10, <2>1, <2>3
  <2>5. ASSUME NEW u \in TunnelSet \ {t} PROVE ExactFor(u, doc'[u], foreign'[u], synced'[u])
    BY <1>7, <2>1, <2>3
  <2> QED
    BY <1>8, <2>2, <2>4, <2>5
<1>11. CASE Fail
  <2>1. TypeOK'
    BY <1>1, <1>2, <1>11, FailTyped DEF TypeOK
  <2> QED
    BY <1>7, <1>8, <1>11, <2>1
<1> QED
  BY <1>3, <1>9, <1>10, <1>11

(* Every other step leaves the documents and their history alone, except an *)
(* edit by somebody else, which is recorded as one.                         *)
LEMMA OthersKeep ==
    ASSUME TypeOK, Exact, Next, \A w \in Workers : ~UpdateConfig(w)
    PROVE  TypeOK' /\ Exact'
<1> DEFINE Same == doc' = doc /\ foreign' = foreign /\ synced' = synced
<1>1. Same => Exact'
  BY DEF Exact
<1>2. Same /\ sync' = sync /\ broken' \subseteq Infra /\ routes' \subseteq Routes => TypeOK'
  BY DEF TypeOK
<1>3. ASSUME NEW w \in Workers, Begin(w) PROVE TypeOK' /\ Exact'
  <2>1. Same /\ routes' = routes /\ broken' = broken
    BY <1>3 DEF Begin
  <2>2. PICK blips \in SUBSET (Infra \ broken) :
          sync' = [NoSync EXCEPT !.routes = routes, !.down = broken \cup blips,
                                 !.transient = blips # {},
                                 !.todo = BuildTunnelGroups(broken \cup blips)]
    BY <1>3 DEF Begin
  <2> DEFINE todo == BuildTunnelGroups(broken \cup blips)
  <2>3. todo \in Seq(TunnelSet)
    BY GroupsAreTunnels
  <2> HIDE DEF todo
  <2>4. sync' = [NoSync EXCEPT !.routes = routes, !.down = broken \cup blips,
                               !.transient = blips # {}, !.todo = todo]
    BY <2>2 DEF todo
  <2>5. sync' \in [routes : SUBSET Routes, down : SUBSET Infra, transient : BOOLEAN,
                   todo : Seq(TunnelSet), cur : [read : BOOLEAN, rules : Seq(Rule)],
                   failed : SUBSET TunnelSet, failedPartitions : SUBSET Keys]
    BY <2>3, <2>4, NoSyncTyped DEF TypeOK
  <2>6. TypeOK'
    BY <2>1, <2>5 DEF TypeOK
  <2> QED
    BY <1>1, <2>1, <2>6
<1>4. ASSUME NEW w \in Workers, EarlyError(w) \/ UpdateRoutesStatus(w) PROVE TypeOK' /\ Exact'
  <2>1. Same /\ sync' = sync /\ routes' = routes /\ broken' = broken
    BY <1>4 DEF EarlyError, UpdateRoutesStatus
  <2>2. broken' \subseteq Infra /\ routes' \subseteq Routes
    BY <2>1 DEF TypeOK
  <2> QED
    BY <1>1, <1>2, <2>1, <2>2
<1>5. ASSUME NEW w \in Workers, GetConfig(w) PROVE TypeOK' /\ Exact'
  <2>1. Same /\ routes' = routes /\ broken' = broken /\ sync.todo # <<>>
    BY <1>5 DEF GetConfig
  <2> DEFINE t == Head(sync.todo)
  <2>2. t \in TunnelSet
    BY <2>1 DEF TypeOK
  <2>3. sync' = [sync EXCEPT !.cur = [read |-> TRUE, rules |-> doc[t]]] \/ GroupFailed(t)
    BY <1>5 DEF GetConfig
  <2> HIDE DEF t
  <2>4. sync' \in [routes : SUBSET Routes, down : SUBSET Infra, transient : BOOLEAN,
                   todo : Seq(TunnelSet), cur : [read : BOOLEAN, rules : Seq(Rule)],
                   failed : SUBSET TunnelSet, failedPartitions : SUBSET Keys]
    <3>1. CASE sync' = [sync EXCEPT !.cur = [read |-> TRUE, rules |-> doc[t]]]
      <4>1. doc[t] \in Seq(Rule)
        BY <2>2 DEF TypeOK
      <4> DEFINE got == [read |-> TRUE, rules |-> doc[t]]
      <4>2. got \in [read : BOOLEAN, rules : Seq(Rule)]
        BY <4>1
      <4> HIDE DEF got
      <4>3. sync' = [sync EXCEPT !.cur = got]
        BY <3>1 DEF got
      <4> QED
        BY <4>2, <4>3 DEF TypeOK
    <3>2. CASE GroupFailed(t)
      BY <2>1, <2>2, <3>2, FailTyped
    <3> QED
      BY <2>3, <3>1, <3>2
  <2>5. TypeOK'
    BY <2>1, <2>4 DEF TypeOK
  <2> QED
    BY <1>1, <2>1, <2>5
<1>6. ASSUME NEW w \in Workers, EndSync(w) PROVE TypeOK' /\ Exact'
  <2>1. Same /\ routes' = routes /\ broken' = broken /\ sync' = NoSync
    BY <1>6 DEF EndSync
  <2>2. TypeOK'
    BY <2>1, NoSyncTyped DEF TypeOK
  <2> QED
    BY <1>1, <2>1, <2>2
<1>7. ASSUME NEW r \in Routes, ChangeRoute(r) PROVE TypeOK' /\ Exact'
  <2>1. Same /\ sync' = sync /\ broken' = broken
        /\ routes' = IF r \in routes THEN routes \ {r} ELSE routes \cup {r}
    BY <1>7 DEF ChangeRoute
  <2>2. broken' \subseteq Infra /\ routes' \subseteq Routes
    BY <2>1 DEF TypeOK
  <2> QED
    BY <1>1, <1>2, <2>1, <2>2
<1>8. ASSUME NEW g \in Infra, ChangePlane(g) PROVE TypeOK' /\ Exact'
  <2>1. Same /\ sync' = sync /\ routes' = routes
        /\ broken' = IF g \in broken THEN broken \ {g} ELSE broken \cup {g}
    BY <1>8 DEF ChangePlane
  <2>2. broken' \subseteq Infra /\ routes' \subseteq Routes
    BY <2>1 DEF TypeOK
  <2> QED
    BY <1>1, <1>2, <2>1, <2>2
<1>9. ASSUME NEW t \in TunnelSet, NEW d \in Edits, EditDocument(t, d) PROVE TypeOK' /\ Exact'
  <2>1. /\ doc' = [doc EXCEPT ![t] = d] /\ foreign' = [foreign EXCEPT ![t] = TRUE]
        /\ synced' = synced /\ sync' = sync /\ routes' = routes /\ broken' = broken
    BY <1>9 DEF EditDocument
  <2>2. d \in Seq(Rule)
    BY TunnelAssumption
  <2>3. TypeOK'
    BY <2>1, <2>2 DEF TypeOK
  <2>4. \A u \in TunnelSet : ExactFor(u, doc[u], foreign[u], synced[u])
    BY ExactIs
  <2>5. foreign'[t] = TRUE /\ \A u \in TunnelSet \ {t} : foreign'[u] = foreign[u] /\ doc'[u] = doc[u]
    BY <2>1 DEF TypeOK
  <2>6. \A u \in TunnelSet : ExactFor(u, doc'[u], foreign'[u], synced'[u])
    BY <2>1, <2>4, <2>5 DEF ExactFor
  <2>7. (\A u \in TunnelSet : ExactFor(u, doc'[u], foreign'[u], synced'[u])) => Exact'
    BY DEF Exact, ExactFor, Served
  <2> QED
    BY <2>3, <2>6, <2>7
<1> QED
  BY <1>3, <1>4, <1>5, <1>6, <1>7, <1>8, <1>9, Zenon DEF Next, WorkerStep, Environment

(* Whatever a sync finds deployed and whatever interleaves with it, a       *)
(* document that a sync of its tunnel left behind and nobody else edited    *)
(* holds the rules of exactly the routes with a serving parent on that      *)
(* tunnel, one catch-all at the end, its rules in the order that            *)
(* cloudflared accepts, and no more of them than the limit                  *)
(* (syncTunnelGroup, DiffRules, ApplyDiff, EnsureCatchAll).                 *)
THEOREM ExactHolds == Spec => []Exact
<1>1. Init => TypeOK /\ Exact
  <2>1. Init => Exact
    BY DEF Init, Exact, NoSnapshot
  <2> QED
    BY <2>1, TypeInit
<1>2. TypeOK /\ Exact /\ [Next]_vars => (TypeOK /\ Exact)'
  <2> SUFFICES ASSUME TypeOK, Exact, [Next]_vars PROVE TypeOK' /\ Exact'
    OBVIOUS
  <2>1. CASE UNCHANGED vars
    <3>1. /\ routes' = routes /\ broken' = broken /\ doc' = doc /\ sync' = sync
          /\ foreign' = foreign /\ synced' = synced
      BY <2>1, Zenon DEF vars
    <3>2. TypeOK'
      BY <3>1, Zenon DEF TypeOK
    <3> QED
      BY <3>1, <3>2, Zenon DEF Exact
  <2>2. CASE \E w \in Workers : UpdateConfig(w)
    BY <2>2, UpdateKeeps
  <2>3. CASE Next /\ \A w \in Workers : ~UpdateConfig(w)
    BY <2>3, OthersKeep
  <2> QED
    BY <2>1, <2>2, <2>3, Zenon
<1> QED
  BY <1>1, <1>2, PTL DEF Spec
=============================================================================
