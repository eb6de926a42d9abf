---------------------------- MODULE Handler_proofs ----------------------------
(***************************************************************************)
(* The router and the handler, for every set of configurations and of      *)
(* requests.  First the score of a rule: "Each tier's per-unit value       *)
(* strictly dominates the total possible contribution of all lower tiers   *)
(* combined" (router.go), for paths and counts within the bounds of        *)
(* RulePriority.  Then what sortRules, the buckets and Route find in the   *)
(* table of a configuration, and what Handler.tla promises of routing.     *)
(***************************************************************************)
EXTENDS Handler, Lists_proofs

-----------------------------------------------------------------------------
(* The score of a rule                                                     *)

\* What the tiers below the path length are worth.
Rest(f) == MethodWorth(f) + f.headers * priorityPerHeader + f.query * priorityPerQueryParam

MaxRest == priorityMethod + MaxTierItems * (priorityPerHeader + priorityPerQueryParam)

(* The ranges of the figures.                                               *)
LEMMA FieldTypes ==
    ASSUME NEW f, Bounded(f)
    PROVE  /\ f.type \in PathTypeScores /\ f.type \in Int /\ f.len \in 0..MaxPathLength
           /\ f.headers \in 0..MaxTierItems /\ f.query \in 0..MaxTierItems
BY SMT DEF Bounded, Figures, PathTypeScores, priorityExactPath, priorityRegexPath, priorityPrefixPath,
           MaxPathLength, MaxTierItems

(* Method, headers and parameters together are worth less than one          *)
(* character of a path.                                                     *)
LEMMA RestBound ==
    ASSUME NEW f, Bounded(f)
    PROVE  Rest(f) \in 0..MaxRest
<1>1. f.headers \in 0..MaxTierItems /\ f.query \in 0..MaxTierItems
  BY FieldTypes, Zenon
<1>2. MethodWorth(f) \in {0, priorityMethod}
  BY Zenon DEF MethodWorth
<1> QED
  BY SMT, <1>1, <1>2 DEF MaxRest, MaxTierItems, Rest, priorityMethod, priorityPerHeader, priorityPerQueryParam

(* Sums of integers can be regrouped.                                       *)
LEMMA Regroup ==
    ASSUME NEW a \in Int, NEW b \in Int, NEW c \in Int, NEW d \in Int, NEW e \in Int
    PROVE  a + b + c + d + e = a + b + (c + d + e) /\ a + b + c + d + e \in Int /\ a + b \in Int
OBVIOUS

(* The worth of a figure is an integer.                                     *)
LEMMA Products ==
    ASSUME NEW l \in 0..MaxPathLength, NEW h \in 0..MaxTierItems, NEW q \in 0..MaxTierItems
    PROVE  l * priorityPathLength \in Int /\ h * priorityPerHeader \in Int /\ q * priorityPerQueryParam \in Int
BY SMT DEF MaxPathLength, MaxTierItems, priorityPathLength, priorityPerHeader, priorityPerQueryParam

(* The score is the worth of the type, of the length and of the rest.       *)
LEMMA ScoreSplit ==
    ASSUME NEW f, Bounded(f)
    PROVE  /\ Score(f) = f.type + f.len * priorityPathLength + Rest(f)
           /\ Score(f) \in Int /\ f.type + f.len * priorityPathLength \in Int
<1>1. /\ f.type \in Int /\ f.len \in 0..MaxPathLength
      /\ f.headers \in 0..MaxTierItems /\ f.query \in 0..MaxTierItems
  BY FieldTypes, Zenon
<1>2. /\ f.len * priorityPathLength \in Int
      /\ f.headers * priorityPerHeader \in Int /\ f.query * priorityPerQueryParam \in Int
  BY Zenon, <1>1, Products
<1>3. MethodWorth(f) \in Int
  <2>1. MethodWorth(f) \in {0, priorityMethod}
    BY Zenon DEF MethodWorth
  <2> QED
    BY SMT, <2>1 DEF priorityMethod
<1>4. Score(f) = f.type + f.len * priorityPathLength + MethodWorth(f)
                    + f.headers * priorityPerHeader + f.query * priorityPerQueryParam
  BY Zenon DEF Score
<1> QED
  BY SMT, <1>1, <1>2, <1>3, <1>4, Regroup DEF Rest

(* A longer path of one type outweighs whatever is in the tiers below it,   *)
(* and a better type whatever the length of the path: on numbers.           *)
LEMMA PathArithmetic ==
    ASSUME NEW s \in PathTypeScores, NEW t \in PathTypeScores, NEW k \in 0..MaxPathLength, NEW l \in 0..MaxPathLength,
           NEW q \in 0..MaxRest, NEW r \in 0..MaxRest,
           s > t \/ (s = t /\ k > l)
    PROVE  s + k * priorityPathLength + q > t + l * priorityPathLength + r
BY SMT DEF PathTypeScores, priorityExactPath, priorityRegexPath, priorityPrefixPath, priorityPathLength,
           priorityMethod, priorityPerHeader, priorityPerQueryParam, MaxPathLength, MaxTierItems, MaxRest

(* The same of rules.                                                       *)
LEMMA PathDominates ==
    ASSUME NEW f, NEW g, Bounded(f), Bounded(g),
           f.type > g.type \/ (f.type = g.type /\ f.len > g.len)
    PROVE  Score(f) > Score(g)
<1>1. f.type \in PathTypeScores /\ f.len \in 0..MaxPathLength /\ Rest(f) \in 0..MaxRest
  BY FieldTypes, RestBound, Zenon
<1>2. g.type \in PathTypeScores /\ g.len \in 0..MaxPathLength /\ Rest(g) \in 0..MaxRest
  BY FieldTypes, RestBound, Zenon
<1>3. f.type + f.len * priorityPathLength + Rest(f) > g.type + g.len * priorityPathLength + Rest(g)
  BY <1>1, <1>2, PathArithmetic, Zenon
<1>4. /\ Score(f) = f.type + f.len * priorityPathLength + Rest(f)
      /\ Score(g) = g.type + g.len * priorityPathLength + Rest(g)
  BY ScoreSplit, Zenon
<1> QED
  BY SMT, <1>3, <1>4

(* Method before headers before parameters: on numbers.                     *)
LEMMA RestArithmetic ==
    ASSUME NEW m \in {0, priorityMethod}, NEW n \in {0, priorityMethod},
           NEW h \in 0..MaxTierItems, NEW i \in 0..MaxTierItems,
           NEW q \in 0..MaxTierItems, NEW r \in 0..MaxTierItems,
           \/ m = priorityMethod /\ n = 0
           \/ m = n /\ h > i
           \/ m = n /\ h = i /\ q > r
    PROVE  m + h * priorityPerHeader + q * priorityPerQueryParam > n + i * priorityPerHeader + r * priorityPerQueryParam
BY SMT DEF MaxTierItems, priorityMethod, priorityPerHeader, priorityPerQueryParam

(* The same addend on both sides changes nothing.                           *)
LEMMA AddBoth ==
    ASSUME NEW a \in Int, NEW b \in Int, NEW c \in Int, b > c
    PROVE  a + b > a + c
OBVIOUS

(* Among rules of equal paths the lower tiers decide, method before headers *)
(* before parameters.                                                       *)
LEMMA RestDecides ==
    ASSUME NEW f, NEW g, Bounded(f), Bounded(g), f.type = g.type, f.len = g.len, Outranks(f, g)
    PROVE  Score(f) > Score(g)
<1>1. /\ f.headers \in 0..MaxTierItems /\ f.query \in 0..MaxTierItems
      /\ g.headers \in 0..MaxTierItems /\ g.query \in 0..MaxTierItems
  BY FieldTypes, Zenon
<1>2. f.type \in Int /\ f.len \in Int /\ f.type + f.len * priorityPathLength \in Int
  <2>1. f.type \in Int /\ f.len \in 0..MaxPathLength
    BY FieldTypes, Zenon
  <2>2. f.len \in Int
    BY SMT, <2>1
  <2> QED
    BY Zenon, <2>1, <2>2, ScoreSplit
<1>3. MethodWorth(f) \in {0, priorityMethod} /\ MethodWorth(g) \in {0, priorityMethod}
  BY Zenon DEF MethodWorth
<1>4. \/ MethodWorth(f) = priorityMethod /\ MethodWorth(g) = 0
      \/ MethodWorth(f) = MethodWorth(g) /\ f.headers > g.headers
      \/ MethodWorth(f) = MethodWorth(g) /\ f.headers = g.headers /\ f.query > g.query
  <2>1. \A a \in Int : ~(a > a)
    OBVIOUS
  <2> QED
    BY Zenon, <1>2, <2>1 DEF Outranks, MethodWorth
<1>5. Rest(f) > Rest(g)
  BY Zenon, <1>1, <1>3, <1>4, RestArithmetic DEF Rest
<1>6. Rest(f) \in Int /\ Rest(g) \in Int
  <2>1. Rest(f) \in 0..MaxRest /\ Rest(g) \in 0..MaxRest
    BY RestBound, Zenon
  <2> QED
    BY SMT, <2>1 DEF MaxRest, MaxTierItems, priorityMethod, priorityPerHeader, priorityPerQueryParam
<1>7. /\ Score(f) = f.type + f.len * priorityPathLength + Rest(f)
      /\ Score(g) = f.type + f.len * priorityPathLength + Rest(g)
  BY ScoreSplit, Zenon
<1> QED
  BY Zenon, <1>2, <1>5, <1>6, <1>7, AddBoth

(* A rule that outranks another has the larger score.                       *)
LEMMA OutranksScores ==
    ASSUME NEW f, NEW g, Bounded(f), Bounded(g), Outranks(f, g)
    PROVE  Score(f) > Score(g)
<1>1. CASE f.type > g.type \/ (f.type = g.type /\ f.len > g.len)
  BY SMT, <1>1, PathDominates
<1>2. CASE f.type = g.type /\ f.len = g.len
  BY SMT, <1>2, RestDecides
<1> QED
  BY SMT, <1>1, <1>2 DEF Outranks

(* Of two rules with different figures one outranks the other.              *)
LEMMA OutranksTotal ==
    ASSUME NEW f, NEW g, Bounded(f), Bounded(g), f # g
    PROVE  Outranks(f, g) \/ Outranks(g, f)
<1>1. /\ f.type \in Int /\ f.len \in Int /\ f.method \in BOOLEAN /\ f.headers \in Int /\ f.query \in Int
      /\ g.type \in Int /\ g.len \in Int /\ g.method \in BOOLEAN /\ g.headers \in Int /\ g.query \in Int
  BY SMT DEF Bounded, Figures, PathTypeScores, priorityExactPath, priorityRegexPath, priorityPrefixPath
<1>2. f.type # g.type \/ f.len # g.len \/ f.method # g.method \/ f.headers # g.headers \/ f.query # g.query
  BY SMT DEF Bounded, Figures
<1> QED
  BY SMT, <1>1, <1>2 DEF Outranks

(* The router's comparison of scores is the precedence of the Gateway API:  *)
(* for paths of up to MaxPathLength characters and up to MaxTierItems       *)
(* headers and parameters, a rule has the larger score of computePriority   *)
(* exactly when its figures outrank the other's tier by tier, and equal     *)
(* scores mean equal figures.                                               *)
THEOREM ScoreIsPrecedence ==
    ASSUME NEW f, NEW g, Bounded(f), Bounded(g)
    PROVE  /\ Score(f) > Score(g) <=> Outranks(f, g)
           /\ Score(f) = Score(g) <=> f = g
<1>1. Score(f) \in Int /\ Score(g) \in Int
  BY ScoreSplit, Zenon
<1>2. CASE f = g
  <2>1. ~Outranks(f, g)
    BY SMT, <1>2 DEF Bounded, Figures, Outranks, PathTypeScores, priorityExactPath, priorityRegexPath, priorityPrefixPath
  <2> QED
    BY SMT, <1>1, <1>2, <2>1
<1>3. CASE f # g
  BY SMT, <1>1, <1>3, OutranksScores, OutranksTotal
<1> QED
  BY SMT, <1>2, <1>3

-----------------------------------------------------------------------------
(* First elements                                                          *)

(* SelectInSeq as FirstResult uses it: the first result of a list.          *)
LEMMA FirstResultIs ==
    ASSUME NEW results, IsSeq(results)
    PROVE  \/ /\ FirstResult(results) = NoResult
              /\ \A k \in DOMAIN results : results[k] = NoResult
           \/ \E k \in DOMAIN results :
                 /\ results[k] # NoResult /\ FirstResult(results) = results[k]
                 /\ \A j \in DOMAIN results : j < k => results[j] = NoResult
<1> DEFINE I == {i \in 1..Len(results) : results[i] # NoResult}
<1>1. Len(results) \in Nat /\ DOMAIN results = 1..Len(results)
  BY DEF IsSeq
<1>2. FirstResult(results) = LET k == IF I = {} THEN 0 ELSE Min(I)
                             IN  IF k = 0 THEN NoResult ELSE results[k]
  <2>1. {i \in DOMAIN results : results[i] # NoResult} = I
    BY <1>1
  <2> QED
    BY <2>1 DEF FirstResult, SelectInSeq
<1>3. CASE I = {}
  BY <1>1, <1>2, <1>3
<1>4. CASE I # {}
  <2>1. Min(I) \in I /\ \A m \in I : Min(I) <= m
    BY <1>1, <1>4, MinIsLeast
  <2>2. PICK k \in I : k = Min(I) /\ \A m \in I : k <= m
    BY <2>1
  <2>3. k \in DOMAIN results /\ results[k] # NoResult /\ FirstResult(results) = results[k]
    BY <1>1, <1>2, <1>4, <2>2
  <2>4. \A j \in DOMAIN results : j < k => results[j] = NoResult
    BY <1>1, <2>2
  <2> QED
    BY <2>3, <2>4
<1> QED
  BY <1>3, <1>4

-----------------------------------------------------------------------------
(* Sorting a bucket                                                        *)

\* Rules whose priorities can be compared.
Scored(rules, S) ==
    /\ S \subseteq Nat /\ IsFiniteSet(S)
    /\ \A i \in S : computePriority(rules[i]) \in Int

(* The order of sortRulesByPrecedence is strict and total.                  *)
LEMMA BeforeOrders ==
    ASSUME NEW rules, NEW S, Scored(rules, S)
    PROVE  /\ \A i, j \in S : ~(Before(rules, i, j) /\ Before(rules, j, i))
           /\ \A i, j \in S : i # j => Before(rules, i, j) \/ Before(rules, j, i)
           /\ \A i, j, k \in S : Before(rules, i, j) /\ Before(rules, j, k) => Before(rules, i, k)
BY DEF Before, Precedes, Scored

(* A sorted bucket lists every one of its rules, in the order of precedence. *)
LEMMA SortIs ==
    ASSUME NEW rules, NEW S, Scored(rules, S)
    PROVE  LET s == sortRulesByPrecedence(rules, S)
           IN  /\ s \in [1..Cardinality(S) -> S] /\ Cardinality(S) \in Nat
               /\ \A i, j \in DOMAIN s : i < j => Before(rules, s[i], s[j])
               /\ \A x \in S : \E k \in DOMAIN s : s[k] = x
<1> DEFINE s == sortRulesByPrecedence(rules, S)
           R == {p \in S \X S : Before(rules, p[1], p[2])}
<1>1. IsFiniteSet(S) /\ \A i, j \in S : <<i, j>> \in R <=> Before(rules, i, j)
  BY DEF Scored
<1>2. Orders(R, S)
  <2> HIDE DEF R
  <2> QED
    BY <1>1, BeforeOrders DEF Orders
<1>3. PICK t \in SetToSeqs(S) : \A i, j \in DOMAIN t : i < j => <<t[i], t[j]>> \in R
  <2> HIDE DEF R
  <2> QED
    BY <1>1, <1>2, SortExists
<1>4. \A i, j \in DOMAIN t : i < j => Before(rules, t[i], t[j])
  BY <1>3
<1>5. s \in SetToSeqs(S) /\ \A i, j \in DOMAIN s : i < j => Before(rules, s[i], s[j])
  BY <1>4 DEF sortRulesByPrecedence, SetToSortSeq
<1>6. s \in [1..Cardinality(S) -> S] /\ Range(s) = S
  <2> HIDE DEF s
  <2> QED
    BY <1>1, <1>5, EnumerationIs
<1> HIDE DEF s
<1> QED
  BY <1>1, <1>5, <1>6, FS_CardinalityType DEF s, Range

-----------------------------------------------------------------------------
(* Walking a bucket                                                        *)

\* Some match of the rule fires, or it has none.
Hits(rule, req) == rule.matches = <<>> \/ \E m \in Range(rule.matches) : Matches(m, req)

NoHit(rules, S, req) == \A i \in S : ~Hits(rules[i], req)

\* Result r is the first rule of S, in the order of precedence, that hits.
Best(r, rules, S, bucket, req) ==
    /\ r # NoResult /\ r.bucket = bucket
    /\ r.rule \in S /\ Hits(rules[r.rule], req)
    /\ \A j \in S : j # r.rule /\ Hits(rules[j], req) => Before(rules, r.rule, j)

(* findMatchingIndex finds a match exactly when a rule hits.                *)
LEMMA FindHits ==
    ASSUME NEW rule, NEW req, IsSeq(rule.matches)
    PROVE  findMatchingIndex(rule, req) # 0 <=> Hits(rule, req)
<1> DEFINE I == {i \in DOMAIN rule.matches : Matches(rule.matches[i], req)}
<1>1. Len(rule.matches) \in Nat /\ DOMAIN rule.matches = 1..Len(rule.matches)
  BY DEF IsSeq
<1>2. findMatchingIndex(rule, req) =
          IF rule.matches = <<>> THEN 1 ELSE IF I = {} THEN 0 ELSE Min(I)
  BY DEF findMatchingIndex, SelectInSeq
<1>3. I # {} => Min(I) # 0
  <2>1. I \in SUBSET Nat /\ 0 \notin I
    BY <1>1
  <2> HIDE DEF I
  <2> QED
    BY <2>1, MinIsLeast
<1>4. I # {} <=> \E m \in Range(rule.matches) : Matches(m, req)
  BY <1>1 DEF Range
<1> HIDE DEF I
<1> QED
  BY <1>2, <1>3, <1>4 DEF Hits

(* matchRules returns the rule of the bucket that comes first among those   *)
(* that match, and nothing when none does.                                  *)
LEMMA MatchRulesIs ==
    ASSUME NEW rules, NEW S, Scored(rules, S), \A i \in S : IsSeq(rules[i].matches),
           NEW tab, tab.rules = rules, NEW bucket, NEW req
    PROVE  LET r == matchRules(tab, sortRulesByPrecedence(rules, S), bucket, req)
           IN  (r = NoResult /\ NoHit(rules, S, req)) \/ Best(r, rules, S, bucket, req)
<1> DEFINE s == sortRulesByPrecedence(rules, S)
           n == Cardinality(S)
           r == matchRules(tab, s, bucket, req)
           found == [k \in DOMAIN s |-> ResultOf(s[k], findMatchingIndex(tab.rules[s[k]], req), bucket)]
<1>1. /\ s \in [1..n -> S] /\ n \in Nat
      /\ \A i, j \in DOMAIN s : i < j => Before(rules, s[i], s[j])
      /\ \A x \in S : \E k \in DOMAIN s : s[k] = x
  BY SortIs
<1>2. r = FirstResult(found)
  BY DEF matchRules
<1> HIDE DEF s, n, r
<1>3. IsSeq(found) /\ DOMAIN found = 1..n
  BY <1>1 DEF IsSeq, Range
<1>4. ASSUME NEW k \in 1..n
      PROVE  /\ found[k] # NoResult <=> Hits(rules[s[k]], req)
             /\ found[k] # NoResult => found[k].rule = s[k] /\ found[k].bucket = bucket
  <2>1. s[k] \in S /\ k \in DOMAIN s
    BY <1>1
  <2>2. findMatchingIndex(rules[s[k]], req) # 0 <=> Hits(rules[s[k]], req)
    BY <2>1, FindHits
  <2>3. found[k] = ResultOf(s[k], findMatchingIndex(rules[s[k]], req), bucket)
    BY <2>1
  <2> QED
    BY <2>2, <2>3 DEF ResultOf, NoResult
<1> HIDE DEF found
<1>5. CASE r = NoResult /\ \A k \in DOMAIN found : found[k] = NoResult
  BY <1>1, <1>3, <1>4, <1>5 DEF NoHit, r, s
<1>6. CASE \E k \in DOMAIN found :
              /\ found[k] # NoResult /\ r = found[k]
              /\ \A j \in DOMAIN found : j < k => found[j] = NoResult
  <2>1. PICK k \in 1..n : /\ found[k] # NoResult /\ r = found[k]
                          /\ \A j \in 1..n : j < k => found[j] = NoResult
    BY <1>3, <1>6
  <2>2. r # NoResult /\ r.rule = s[k] /\ r.bucket = bucket /\ s[k] \in S /\ Hits(rules[s[k]], req)
    BY <1>1, <1>4, <2>1
  <2>3. ASSUME NEW j \in S, j # r.rule, Hits(rules[j], req)
        PROVE  Before(rules, r.rule, j)
    <3>1. PICK l \in 1..n : s[l] = j
      BY <1>1
    <3>2. ~(l < k) /\ l # k /\ l \in Int /\ k \in Int
      BY <1>1, <1>4, <2>1, <2>2, <2>3, <3>1
    <3> QED
      BY <1>1, <2>2, <3>1, <3>2
  <2> QED
    BY <2>2, <2>3 DEF Best, r, s
<1> QED
  BY <1>2, <1>3, <1>5, <1>6, FirstResultIs

-----------------------------------------------------------------------------
(* Hostnames                                                               *)

(* The hostnames of a configuration are finitely many.                      *)
LEMMA FiniteNames ==
    ASSUME NEW rules, IsConfig(rules), NEW wild
    PROVE  IsFiniteSet(Names(rules, wild))
<1> DEFINE D == DOMAIN rules
           all == [i \in D |-> Range(rules[i].hostnames)]
           U == UNION {all[i] : i \in D}
           V == {x \in U : x.wild = wild}
           lower == [x \in V |-> Lower(x)]
<1>1. IsFiniteSet(D)
  <2>1. Len(rules) \in Nat /\ D = 1..Len(rules)
    BY DEF IsConfig, IsSeq
  <2> QED
    BY <2>1, FS_Interval
<1>2. \A i \in D : IsFiniteSet(all[i])
  BY FiniteElements DEF IsConfig, IsRule, IsSeq
<1>3. IsFiniteSet({all[i] : i \in D})
  <2>1. all \in [D -> {all[i] : i \in D}]
    OBVIOUS
  <2> HIDE DEF all, D
  <2> QED
    BY <1>1, <2>1, FiniteRange
<1>4. IsFiniteSet(U)
  <2> DEFINE A == {all[i] : i \in D}
  <2>1. \A T \in A : IsFiniteSet(T)
    BY <1>2
  <2>2. IsFiniteSet(A)
    BY <1>3
  <2> HIDE DEF A
  <2>3. IsFiniteSet(UNION A)
    BY <2>1, <2>2, FS_UNION
  <2> QED
    BY <2>3 DEF A
<1>5. IsFiniteSet(V)
  <2>1. V \in SUBSET U
    OBVIOUS
  <2> HIDE DEF V, U
  <2> QED
    BY <1>4, <2>1, FS_Subset
<1>6. IsFiniteSet({lower[x] : x \in V})
  <2>1. lower \in [V -> {lower[x] : x \in V}]
    OBVIOUS
  <2> HIDE DEF lower, V
  <2> QED
    BY <1>5, <2>1, FiniteRange
<1>7. Names(rules, wild) = {lower[x] : x \in V}
  BY DEF Names
<1> QED
  BY <1>6, <1>7

(* Lower-casing keeps the shape of a name.                                  *)
LEMMA LowerShape ==
    ASSUME NEW n, n.labels \in Seq(STRING)
    PROVE  /\ Lower(n) = [wild |-> Lower(n).wild, labels |-> Lower(n).labels]
           /\ Lower(n).wild = n.wild /\ IsSeq(Lower(n).labels)
           /\ Len(Lower(n).labels) = Len(n.labels)
<1>1. Lower(n).wild = n.wild /\ Lower(n).labels = [i \in DOMAIN n.labels |-> LowerOf[n.labels[i]]]
  BY DEF Lower
<1>2. DOMAIN n.labels = 1..Len(n.labels) /\ Len(n.labels) \in Nat
  OBVIOUS
<1>3. IsSeq(Lower(n).labels) /\ Len(Lower(n).labels) = Len(n.labels)
  BY <1>1, <1>2 DEF IsSeq, Range
<1> QED
  BY <1>1, <1>3 DEF Lower

\* A name as it is found in a tab.
IsName(n, wild) ==
    /\ n = [wild |-> wild, labels |-> n.labels]
    /\ IsSeq(n.labels) /\ Len(n.labels) > 0

(* The names of a table are hostnames with at least one label.              *)
LEMMA NamesAre ==
    ASSUME NEW rules, IsConfig(rules), NEW wild, NEW n \in Names(rules, wild)
    PROVE  IsName(n, wild)
<1>1. PICK i \in DOMAIN rules : \E x \in Range(rules[i].hostnames) : n = Lower(x) /\ x.wild = wild
  BY DEF Names
<1>2. PICK x \in Range(rules[i].hostnames) : n = Lower(x) /\ x.wild = wild
  BY <1>1
<1>3. x.labels \in Seq(STRING) /\ x.labels # <<>>
  BY <1>1 DEF IsConfig, IsRule, IsHostname
<1>4. Len(x.labels) \in Nat /\ Len(x.labels) # 0
  BY <1>3
<1> QED
  BY <1>2, <1>3, <1>4, LowerShape DEF IsName

-----------------------------------------------------------------------------
(* The figures of a rule                                                   *)

(* The largest of finitely many figures, 0 if there is none.                *)
LEMMA MaxOfFigures ==
    ASSUME NEW M, IsFiniteSet(M), NEW g \in [M -> Nat]
    PROVE  LET T == {0} \cup {g[m] : m \in M}
           IN  Max(T) \in T /\ Max(T) \in Nat /\ \A m \in M : g[m] <= Max(T)
<1> DEFINE R == {g[m] : m \in M}
           T == {0} \cup R
<1>1. IsFiniteSet(R) /\ R \in SUBSET Nat
  BY FiniteRange
<1>2. T = R \cup {0}
  OBVIOUS
<1>3. IsFiniteSet(T)
  <2> HIDE DEF R
  <2> QED
    BY <1>1, <1>2, FS_AddElement
<1>4. T \in SUBSET Nat /\ T # {}
  BY <1>1
<1>5. Max(T) \in T /\ \A m \in T : Max(T) >= m
  <2> HIDE DEF T
  <2> QED
    BY <1>3, <1>4, MaxIsGreatest
<1>6. Max(T) \in Nat /\ \A m \in M : g[m] \in T /\ g[m] \in Nat
  BY <1>4, <1>5
<1>7. \A m \in M : g[m] <= Max(T)
  <2> HIDE DEF T
  <2> QED
    BY <1>5, <1>6
<1> QED
  BY <1>5, <1>6, <1>7

\* A rule whose figures the tiers keep apart: paths as long as the Gateway
\* API admits, no more headers and parameters than a tier has room for.
WithinTiers(rule) ==
    \A m \in Range(rule.matches) :
        /\ m.path.type # None => Len(m.path.value) <= MaxPathLength
        /\ Len(m.headers) <= MaxTierItems /\ Len(m.query) <= MaxTierItems

(* Each type of path has its score.                                         *)
LEMMA PathScores ==
    ASSUME NEW t \in PathTypes
    PROVE  PathTypeScore(t) \in PathTypeScores /\ PathTypeScore(t) \in Nat /\ PathTypeScore(t) # 0
BY DEF PathTypes, PathTypeScore, PathTypeScores, priorityExactPath, priorityPrefixPath, priorityRegexPath

(* The figures of computePriority are in the ranges of RulePriority, and     *)
(* within its bounds for rules within the tiers.                             *)
LEMMA FiguresAre ==
    ASSUME NEW rule, IsRule(rule)
    PROVE  FiguresOf(rule) \in Figures /\ (WithinTiers(rule) => Bounded(FiguresOf(rule)))
<1> DEFINE M == Range(rule.matches)
           pathed == {m \in M : m.path.type # None}
           scores == [m \in pathed |-> PathTypeScore(m.path.type)]
           type == Max({0} \cup {scores[m] : m \in pathed})
           best == {x \in pathed : PathTypeScore(x.path.type) = type}
           lens == [m \in best |-> Len(m.path.value)]
           len == Max({0} \cup {lens[m] : m \in best})
           headers == [m \in M |-> Len(m.headers)]
           query == [m \in M |-> Len(m.query)]
           hs == Max({0} \cup {headers[m] : m \in M})
           qs == Max({0} \cup {query[m] : m \in M})
<1>1. FiguresOf(rule) = [type |-> type, len |-> len, method |-> \E m \in M : m.method # None,
                         headers |-> hs, query |-> qs]
  <2>1. /\ {scores[m] : m \in pathed} = {PathTypeScore(m.path.type) : m \in pathed}
        /\ {lens[m] : m \in best} = {Len(m.path.value) : m \in best}
        /\ {headers[m] : m \in M} = {Len(m.headers) : m \in M}
        /\ {query[m] : m \in M} = {Len(m.query) : m \in M}
    OBVIOUS
  <2> QED
    BY Zenon, <2>1 DEF FiguresOf
<1>2. IsFiniteSet(M) /\ \A m \in M : IsMatch(m)
  BY FiniteElements DEF IsRule, IsSeq
<1>3. IsFiniteSet(pathed) /\ IsFiniteSet(best)
  <2>1. pathed \in SUBSET M /\ best \in SUBSET M
    OBVIOUS
  <2> HIDE DEF M, pathed, best
  <2> QED
    BY <1>2, <2>1, FS_Subset
<1>4. \A m \in pathed : m.path.type \in PathTypes /\ Len(m.path.value) \in Nat
  BY <1>2 DEF IsMatch, IsSeq
<1>5. /\ scores \in [pathed -> Nat] /\ \A m \in pathed : scores[m] \in PathTypeScores /\ scores[m] # 0
      /\ lens \in [best -> Nat]
  BY <1>4, PathScores
<1>6. headers \in [M -> Nat] /\ query \in [M -> Nat]
  BY <1>2 DEF IsMatch, IsSeq
<1>7. type \in {0} \cup {scores[m] : m \in pathed} /\ \A m \in pathed : scores[m] <= type
  <2> HIDE DEF scores, pathed
  <2> QED
    BY <1>3, <1>5, MaxOfFigures
<1>8. len \in {0} \cup {lens[m] : m \in best} /\ len \in Nat
  <2> HIDE DEF lens, best
  <2> QED
    BY <1>3, <1>5, MaxOfFigures
<1>9. hs \in {0} \cup {headers[m] : m \in M} /\ hs \in Nat
  <2> HIDE DEF headers, M
  <2> QED
    BY <1>2, <1>6, MaxOfFigures
<1>10. qs \in {0} \cup {query[m] : m \in M} /\ qs \in Nat
  <2> HIDE DEF query, M
  <2> QED
    BY <1>2, <1>6, MaxOfFigures
<1>11. type \in PathTypeScores
  <2>1. 0 \in PathTypeScores
    BY DEF PathTypeScores
  <2> HIDE DEF scores, type
  <2> QED
    BY <1>5, <1>7, <2>1
<1>12. type = 0 => len = 0
  <2>1. type = 0 => best = {}
    BY <1>4, PathScores
  <2> HIDE DEF best, type, len
  <2> QED
    BY <1>8, <2>1
<1>13. ASSUME WithinTiers(rule)
       PROVE  len <= MaxPathLength /\ hs <= MaxTierItems /\ qs <= MaxTierItems
  <2>1. /\ \A m \in best : lens[m] <= MaxPathLength
        /\ \A m \in M : headers[m] <= MaxTierItems /\ query[m] <= MaxTierItems
    BY <1>13 DEF WithinTiers
  <2> HIDE DEF best, lens, headers, query, M, len, hs, qs
  <2> QED
    BY <1>8, <1>9, <1>10, <2>1 DEF MaxPathLength, MaxTierItems
<1>14. FiguresOf(rule) \in Figures
  <2> HIDE DEF type, len, hs, qs, M
  <2> QED
    BY <1>1, <1>8, <1>9, <1>10, <1>11 DEF Figures
<1> HIDE DEF type, len, hs, qs, M
<1> QED
  BY <1>1, <1>12, <1>13, <1>14 DEF Bounded

(* Every rule of a configuration has a priority, and every bucket of them   *)
(* can be sorted and walked.                                                *)
LEMMA ConfigScored ==
    ASSUME NEW rules, IsConfig(rules), NEW S, S \subseteq DOMAIN rules
    PROVE  Scored(rules, S) /\ 0 \notin S /\ \A i \in S : IsSeq(rules[i].matches)
<1>1. DOMAIN rules = 1..Len(rules) /\ Len(rules) \in Nat
  BY DEF IsConfig, IsSeq
<1>2. IsFiniteSet(S)
  <2>1. IsFiniteSet(1..Len(rules))
    BY <1>1, FS_Interval
  <2> QED
    BY <1>1, <2>1, FS_Subset
<1>3. ASSUME NEW i \in S
      PROVE  computePriority(rules[i]) \in Int /\ IsSeq(rules[i].matches)
  <2>1. IsRule(rules[i])
    BY DEF IsConfig
  <2> DEFINE f == FiguresOf(rules[i])
  <2>2. f \in Figures
    BY <2>1, FiguresAre
  <2> HIDE DEF f
  <2>3. Score(f) \in Int
    BY <2>2 DEF Score, Figures, MethodWorth, PathTypeScores, priorityExactPath, priorityPrefixPath, priorityRegexPath,
                priorityPathLength, priorityMethod, priorityPerHeader, priorityPerQueryParam
  <2> QED
    BY <2>1, <2>3 DEF f, computePriority, IsRule
<1>4. S \subseteq Nat /\ 0 \notin S
  BY <1>1
<1> QED
  BY <1>2, <1>3, <1>4 DEF Scored

-----------------------------------------------------------------------------
(* Walking the buckets                                                     *)

\* The rules that claim a hostname, and those without one.
Claims(rules, name) == {i \in DOMAIN rules : \E n \in Range(rules[i].hostnames) : Lower(n) = name}
Unnamed(rules) == {i \in DOMAIN rules : rules[i].hostnames = <<>>}

\* What the exact bucket of a host, and its wildcard buckets, come to.
ExactMisses(rules, host, req) ==
    host \in Names(rules, FALSE) => NoHit(rules, Claims(rules, host), req)
WildcardMisses(rules, host, name, req) ==
    matchesWildcard(host, name) => NoHit(rules, Claims(rules, name), req)

\* The three ways in which a result can be right.
ByExact(r, rules, host, req) ==
    host \in Names(rules, FALSE) /\ Best(r, rules, Claims(rules, host), host, req)
ByWildcard(r, rules, host, req) ==
    /\ ExactMisses(rules, host, req)
    /\ \E name \in Names(rules, TRUE) :
         /\ matchesWildcard(host, name) /\ Best(r, rules, Claims(rules, name), name, req)
         /\ \A other \in Names(rules, TRUE) :
               Len(other.labels) > Len(name.labels) => WildcardMisses(rules, host, other, req)
ByDefault(r, rules, host, req) ==
    /\ ExactMisses(rules, host, req)
    /\ \A name \in Names(rules, TRUE) : WildcardMisses(rules, host, name, req)
    /\ \/ Best(r, rules, Unnamed(rules), AnyHost, req)
       \/ r = NoResult /\ NoHit(rules, Unnamed(rules), req)

(* The wildcard entries name every wildcard hostname, longer ones first.    *)
LEMMA OrdersAre ==
    ASSUME NEW rules, IsConfig(rules), NEW order \in WildcardOrders(rules)
    PROVE  /\ \E n \in Nat : order \in [1..n -> Names(rules, TRUE)]
           /\ \A name \in Names(rules, TRUE) : \E k \in DOMAIN order : order[k] = name
           /\ \A i, j \in DOMAIN order : i < j => Len(order[i].labels) >= Len(order[j].labels)
<1> DEFINE W == Names(rules, TRUE)
           n == Cardinality(W)
<1>1. IsFiniteSet(W) /\ n \in Nat
  BY FiniteNames, FS_CardinalityType
<1> HIDE DEF W
<1>2. order \in SetToSeqs(W)
  BY DEF WildcardOrders, W
<1>3. order \in [1..n -> W] /\ Range(order) = W
  BY <1>1, <1>2, EnumerationIs
<1>4. \A name \in W : \E k \in DOMAIN order : order[k] = name
  BY <1>3 DEF Range
<1>5. \A i, j \in DOMAIN order : i < j => Len(order[i].labels) >= Len(order[j].labels)
  BY DEF WildcardOrders
<1> QED
  BY <1>1, <1>3, <1>4, <1>5 DEF W

(* The walk of a named bucket, and of the default one.                      *)
LEMMA BucketIs ==
    ASSUME NEW rules, IsConfig(rules), NEW tab, tab.rules = rules, NEW name, NEW req
    PROVE  LET r == matchRules(tab, Bucket(rules, name), name, req)
           IN  \/ r = NoResult /\ NoHit(rules, Claims(rules, name), req)
               \/ Best(r, rules, Claims(rules, name), name, req)
<1>1. Claims(rules, name) \subseteq DOMAIN rules
      /\ Bucket(rules, name) = sortRulesByPrecedence(rules, Claims(rules, name))
  BY DEF Claims, Bucket
<1>2. Scored(rules, Claims(rules, name)) /\ \A i \in Claims(rules, name) : IsSeq(rules[i].matches)
  BY <1>1, ConfigScored
<1> QED
  BY <1>1, <1>2, MatchRulesIs

(* The default bucket gives the best of the rules without a hostname.       *)
LEMMA DefaultIs ==
    ASSUME NEW rules, IsConfig(rules), NEW tab, tab.rules = rules, NEW req
    PROVE  LET r == matchRules(tab, sortRulesByPrecedence(rules, Unnamed(rules)), AnyHost, req)
           IN  \/ r = NoResult /\ NoHit(rules, Unnamed(rules), req)
               \/ Best(r, rules, Unnamed(rules), AnyHost, req)
<1>1. Unnamed(rules) \subseteq DOMAIN rules
  BY DEF Unnamed
<1>2. Scored(rules, Unnamed(rules)) /\ \A i \in Unnamed(rules) : IsSeq(rules[i].matches)
  BY <1>1, ConfigScored
<1> QED
  BY <1>2, MatchRulesIs

(* Route finds the best rule of the first bucket with a rule that matches:  *)
(* of the exact hostname, of the longest wildcard, of no hostname.          *)
LEMMA RouteHostIs ==
    ASSUME NEW rules, IsConfig(rules), NEW order \in WildcardOrders(rules), NEW host, NEW req
    PROVE  LET r == RouteHost(compileRoutingTable(rules, order), host, req)
           IN  ByExact(r, rules, host, req) \/ ByWildcard(r, rules, host, req) \/ ByDefault(r, rules, host, req)
<1> DEFINE t == compileRoutingTable(rules, order)
           exact == IF host \in DOMAIN t.exact THEN matchRules(t, t.exact[host], host, req) ELSE NoResult
           wild == [i \in DOMAIN t.wildcard |->
                        IF matchesWildcard(host, t.wildcard[i].name)
                        THEN matchRules(t, t.wildcard[i].rules, t.wildcard[i].name, req) ELSE NoResult]
           default == matchRules(t, t.default, AnyHost, req)
           r == RouteHost(t, host, req)
<1>1. r = IF exact # NoResult THEN exact ELSE IF FirstResult(wild) # NoResult THEN FirstResult(wild) ELSE default
  BY Zenon DEF RouteHost
<1>2. /\ t.exact = [n \in Names(rules, FALSE) |-> Bucket(rules, n)]
      /\ t.wildcard = [i \in DOMAIN order |-> [name |-> order[i], rules |-> Bucket(rules, order[i])]]
      /\ t.default = sortRulesByPrecedence(rules, Unnamed(rules))
      /\ t.rules = rules
  BY DEF compileRoutingTable, Unnamed
<1> HIDE DEF t, r
<1>3. (exact = NoResult /\ ExactMisses(rules, host, req)) \/ ByExact(exact, rules, host, req)
  <2>1. CASE host \in Names(rules, FALSE)
    <3>1. exact = matchRules(t, Bucket(rules, host), host, req)
      BY <1>2, <2>1
    <3> HIDE DEF exact
    <3> QED
      BY <1>2, <2>1, <3>1, BucketIs DEF ExactMisses, ByExact
  <2>2. CASE host \notin Names(rules, FALSE)
    BY <1>2, <2>2 DEF ExactMisses
  <2> QED
    BY <2>1, <2>2
<1>4. ByExact(exact, rules, host, req) => exact # NoResult
  BY Zenon DEF ByExact, Best
<1> HIDE DEF exact
<1>5. PICK n \in Nat : order \in [1..n -> Names(rules, TRUE)]
  BY OrdersAre
<1>6. ASSUME NEW i \in 1..n
      PROVE  \/ wild[i] = NoResult /\ WildcardMisses(rules, host, order[i], req)
             \/ /\ wild[i] # NoResult /\ matchesWildcard(host, order[i])
                /\ Best(wild[i], rules, Claims(rules, order[i]), order[i], req)
  <2>1. wild[i] = IF matchesWildcard(host, order[i])
                  THEN matchRules(t, Bucket(rules, order[i]), order[i], req) ELSE NoResult
    BY <1>2, <1>5
  <2> HIDE DEF wild
  <2>2. CASE matchesWildcard(host, order[i])
    BY <1>2, <2>1, <2>2, BucketIs DEF WildcardMisses, Best
  <2>3. CASE ~matchesWildcard(host, order[i])
    BY <2>1, <2>3 DEF WildcardMisses
  <2> QED
    BY <2>2, <2>3
<1>7. DOMAIN wild = 1..n /\ IsSeq(wild)
  BY <1>2, <1>5 DEF IsSeq, Range
<1> HIDE DEF wild
<1>8. CASE exact # NoResult
  BY <1>1, <1>3, <1>8 DEF r, t
<1>9. CASE exact = NoResult /\ FirstResult(wild) # NoResult
  <2>1. ExactMisses(rules, host, req) /\ r = FirstResult(wild)
    BY <1>1, <1>3, <1>4, <1>9
  <2>2. PICK k \in 1..n : /\ wild[k] # NoResult /\ r = wild[k]
                          /\ \A j \in 1..n : j < k => wild[j] = NoResult
    BY <1>7, <1>9, <2>1, FirstResultIs
  <2>3. matchesWildcard(host, order[k]) /\ Best(r, rules, Claims(rules, order[k]), order[k], req)
        /\ order[k] \in Names(rules, TRUE)
    BY <1>5, <1>6, <2>2
  <2>4. ASSUME NEW other \in Names(rules, TRUE), Len(other.labels) > Len(order[k].labels)
        PROVE  WildcardMisses(rules, host, other, req)
    <3>1. PICK j \in 1..n : order[j] = other
      BY <1>5, OrdersAre
    <3>2. j < k
      <4>1. /\ j > k => Len(order[k].labels) >= Len(order[j].labels)
            /\ Len(order[k].labels) \in Int /\ Len(order[j].labels) \in Int
        <5>1. \A name \in Names(rules, TRUE) : Len(name.labels) \in Int
          BY NamesAre DEF IsName, IsSeq
        <5> QED
          BY <1>5, <5>1, OrdersAre
      <4> QED
        BY <2>4, <3>1, <4>1
    <3> QED
      BY <1>6, <2>2, <3>1, <3>2
  <2> QED
    BY <2>1, <2>3, <2>4 DEF ByWildcard, r, t
<1>10. CASE exact = NoResult /\ FirstResult(wild) = NoResult
  <2>1. ExactMisses(rules, host, req) /\ r = default
    BY <1>1, <1>3, <1>4, <1>10
  <2>2. \A k \in 1..n : wild[k] = NoResult
    BY <1>7, <1>10, FirstResultIs
  <2>3. \A name \in Names(rules, TRUE) : WildcardMisses(rules, host, name, req)
    <3>1. \A k \in 1..n : WildcardMisses(rules, host, order[k], req)
      BY Zenon, <1>6, <2>2
    <3>2. \A name \in Names(rules, TRUE) : \E k \in 1..n : order[k] = name
      BY <1>5, OrdersAre
    <3> QED
      BY Zenon, <3>1, <3>2
  <2>4. \/ default = NoResult /\ NoHit(rules, Unnamed(rules), req)
        \/ Best(default, rules, Unnamed(rules), AnyHost, req)
    BY <1>2, DefaultIs
  <2> HIDE DEF default
  <2> QED
    BY <2>1, <2>3, <2>4 DEF ByDefault, r, t
<1> QED
  BY <1>8, <1>9, <1>10

-----------------------------------------------------------------------------
(* Wildcards                                                               *)

(* A wildcard matches the hosts with one or more labels in front of it.     *)
LEMMA WildcardIs ==
    ASSUME NEW host, NEW name, IsSeq(host.labels), IsSeq(name.labels), Len(name.labels) > 0
    PROVE  matchesWildcard(host, name) <=>
               \E k \in 1..Len(host.labels) - 1 : SubSeq(host.labels, k + 1, Len(host.labels)) = name.labels
<1> DEFINE s == name.labels  t == host.labels  m == Len(s)  n == Len(t)
<1>1. m \in Nat /\ n \in Nat /\ m > 0 /\ s \in Seq(Range(s)) /\ t \in Seq(Range(t))
  BY DEF IsSeq
<1>2. matchesWildcard(host, name) <=> n > m /\ \A i \in 1..m : s[i] = t[n - m + i]
  <2>1. IsSuffix(s, t) <=> m <= n /\ \A i \in 1..m : s[i] = t[n - m + i]
    <3> HIDE DEF s, t
    <3> QED
      BY <1>1, SuffixIs
  <2>2. matchesWildcard(host, name) <=> IsSuffix(s, t) /\ n > m
    BY DEF matchesWildcard
  <2>3. n > m => m <= n
    BY <1>1
  <2> HIDE DEF m, n, s, t
  <2> QED
    BY <2>1, <2>2, <2>3
<1> HIDE DEF s, t, m, n
<1>3. ASSUME NEW k \in 1..n - 1
      PROVE  /\ SubSeq(t, k + 1, n) \in Seq(Range(t)) /\ Len(SubSeq(t, k + 1, n)) = n - k
             /\ \A i \in 1..(n - k) : SubSeq(t, k + 1, n)[i] = t[k + i]
  BY <1>1 DEF n
<1>4. ASSUME n > m, \A i \in 1..m : s[i] = t[n - m + i]
      PROVE  \E k \in 1..n - 1 : SubSeq(t, k + 1, n) = s
  <2> DEFINE k == n - m  u == SubSeq(t, k + 1, n)
  <2>1. k \in 1..n - 1 /\ n - k = m
    BY <1>1, <1>4
  <2>2. Len(u) = m /\ u \in Seq(Range(t)) /\ \A i \in 1..m : u[i] = s[i]
    BY <1>3, <1>4, <2>1
  <2> HIDE DEF u
  <2>3. u = s
    BY <1>1, <2>2 DEF m
  <2> QED
    BY <2>1, <2>3 DEF u
<1>5. ASSUME NEW k \in 1..n - 1, SubSeq(t, k + 1, n) = s
      PROVE  n > m /\ \A i \in 1..m : s[i] = t[n - m + i]
  <2>1. m = n - k
    BY <1>3, <1>5 DEF m
  <2>2. \A i \in 1..m : s[i] = t[k + i]
    BY <1>3, <1>5, <2>1
  <2> QED
    BY <1>1, <2>1, <2>2
<1> QED
  BY <1>2, <1>4, <1>5 DEF s, t, n

(* Two wildcards of one length that match one host are one.                 *)
LEMMA OneOfALength ==
    ASSUME NEW host, IsSeq(host.labels), NEW a, NEW b, IsName(a, TRUE), IsName(b, TRUE),
           matchesWildcard(host, a), matchesWildcard(host, b), Len(a.labels) = Len(b.labels)
    PROVE  a = b
<1>1. \A i \in 1..Len(a.labels) : a.labels[i] = b.labels[i]
  BY SuffixIs DEF IsName, matchesWildcard, IsSeq
<1>2. a.labels = b.labels
  BY <1>1 DEF IsName, IsSeq
<1> QED
  BY <1>2 DEF IsName

-----------------------------------------------------------------------------
(* Who could serve a request                                               *)

\* The host of a request in lower case.
IsHost(host) == host = [wild |-> FALSE, labels |-> host.labels] /\ IsSeq(host.labels)

(* extractHost gives a host in lower case.                                  *)
LEMMA HostIs ==
    ASSUME NEW req, IsRequest(req)
    PROVE  IsHost(extractHost(req))
<1> DEFINE original == ValuesOf(req.headers, "x-original-host")
           n == [wild |-> FALSE, labels |-> IF original # <<>> THEN Head(original) ELSE req.host]
<1>1. extractHost(req) = Lower(n)
  BY DEF extractHost
<1>2. original # <<>> => Head(original) \in Seq(STRING)
  <2>1. original \in Seq(Seq(STRING))
    BY DEF IsRequest
  <2> HIDE DEF original
  <2> QED
    BY <2>1
<1>3. n.labels \in Seq(STRING) /\ n.wild = FALSE
  <2> HIDE DEF original
  <2> QED
    BY <1>2 DEF IsRequest
<1> HIDE DEF n
<1> QED
  BY <1>1, <1>3, LowerShape DEF IsHost

\* How a candidate's name answers for the host.
ForHost(rules, host, c) ==
    \/ c.name = AnyHost /\ c.rule \in Unnamed(rules)
    \/ c.name = host /\ host \in Names(rules, FALSE) /\ c.rule \in Claims(rules, host)
    \/ /\ c.name \in Names(rules, TRUE) /\ matchesWildcard(host, c.name)
       /\ c.rule \in Claims(rules, c.name)

(* A name in a rule is one of the table's names.                            *)
LEMMA NamedIs ==
    ASSUME NEW rules, IsConfig(rules), NEW i \in DOMAIN rules, NEW name
    PROVE  name \in NamesOf(rules[i]) <=>
             \/ name = AnyHost /\ i \in Unnamed(rules)
             \/ name \in Names(rules, FALSE) /\ i \in Claims(rules, name)
             \/ name \in Names(rules, TRUE) /\ i \in Claims(rules, name)
<1> DEFINE hs == Range(rules[i].hostnames)
<1>1. /\ IsRule(rules[i]) /\ IsSeq(rules[i].hostnames)
      /\ \A x \in hs : x.wild \in BOOLEAN /\ x.labels \in Seq(STRING)
  BY DEF IsConfig, IsRule, IsHostname
<1>2. rules[i].hostnames = <<>> => hs = {}
  BY DEF Range
<1>3. \A x \in hs : Lower(x).wild = x.wild
  BY <1>1, LowerShape
<1>4. \A x \in hs : Lower(x) \in Names(rules, x.wild)
  BY DEF Names
<1>5. i \in Claims(rules, name) <=> \E x \in hs : Lower(x) = name
  BY DEF Claims
<1>6. i \in Unnamed(rules) <=> rules[i].hostnames = <<>>
  BY DEF Unnamed
<1>7. name \in NamesOf(rules[i]) <=> IF rules[i].hostnames = <<>> THEN name = AnyHost ELSE \E x \in hs : Lower(x) = name
  BY DEF NamesOf
<1>8. \A x \in hs : x.wild = TRUE \/ x.wild = FALSE
  BY <1>1
<1> HIDE DEF hs
<1> QED
  BY <1>2, <1>4, <1>5, <1>6, <1>7, <1>8

(* The name of the default bucket is the name of no other.                  *)
LEMMA AnyIsNoName ==
    ASSUME NEW rules, IsConfig(rules), NEW wild, NEW name \in Names(rules, wild)
    PROVE  name # AnyHost /\ name.wild = wild /\ IsSeq(name.labels) /\ Len(name.labels) > 0
<1>1. IsName(name, wild)
  BY NamesAre
<1>2. AnyHost.labels = <<>> /\ Len(<<>>) = 0
  BY DEF AnyHost
<1> QED
  BY <1>1, <1>2 DEF IsName

(* The candidates are the rules that hit in a bucket that answers.          *)
LEMMA CandidatesAre ==
    ASSUME NEW rules, IsConfig(rules), NEW req, IsRequest(req), NEW c
    PROVE  c \in Candidates(rules, req) <=>
             /\ c = [rule |-> c.rule, name |-> c.name] /\ c.rule \in DOMAIN rules
             /\ Hits(rules[c.rule], req) /\ ForHost(rules, extractHost(req), c)
<1> DEFINE host == extractHost(req)
           N == UNION {NamesOf(rules[i]) : i \in DOMAIN rules}
<1>1. IsHost(host)
  BY HostIs
<1> HIDE DEF host
<1>2. c \in Candidates(rules, req) <=>
         /\ c \in [rule : DOMAIN rules, name : N]
         /\ c.name \in NamesOf(rules[c.rule]) /\ Covers(c.name, host) /\ Hits(rules[c.rule], req)
  BY DEF Candidates, Hits, host
<1>3. c \in [rule : DOMAIN rules, name : N] /\ c.name \in NamesOf(rules[c.rule]) <=>
         /\ c = [rule |-> c.rule, name |-> c.name] /\ c.rule \in DOMAIN rules
         /\ c.name \in NamesOf(rules[c.rule])
  OBVIOUS
<1>4. ASSUME c.rule \in DOMAIN rules
      PROVE  c.name \in NamesOf(rules[c.rule]) /\ Covers(c.name, host) <=> ForHost(rules, host, c)
  <2>1. Covers(AnyHost, host)
    BY DEF Covers
  <2>2. ASSUME c.name \in Names(rules, FALSE)
        PROVE  Covers(c.name, host) <=> c.name = host
    BY <2>2, AnyIsNoName DEF Covers
  <2>3. ASSUME c.name \in Names(rules, TRUE)
        PROVE  Covers(c.name, host) <=> matchesWildcard(host, c.name)
    <3>1. c.name # AnyHost /\ c.name.wild = TRUE /\ IsSeq(c.name.labels) /\ Len(c.name.labels) > 0
      BY <2>3, AnyIsNoName
    <3>2. IsSeq(host.labels)
      BY <1>1 DEF IsHost
    <3>3. matchesWildcard(host, c.name) <=>
              \E k \in 1..Len(host.labels) - 1 : SubSeq(host.labels, k + 1, Len(host.labels)) = c.name.labels
      BY <3>1, <3>2, WildcardIs
    <3> QED
      BY <3>1, <3>3 DEF Covers
  <2>4. c.name \in NamesOf(rules[c.rule]) <=>
             \/ c.name = AnyHost /\ c.rule \in Unnamed(rules)
             \/ c.name \in Names(rules, FALSE) /\ c.rule \in Claims(rules, c.name)
             \/ c.name \in Names(rules, TRUE) /\ c.rule \in Claims(rules, c.name)
    BY <1>4, NamedIs
  <2> QED
    BY <2>1, <2>2, <2>3, <2>4 DEF ForHost
<1> QED
  BY <1>2, <1>3, <1>4 DEF host

-----------------------------------------------------------------------------
(* Who should serve it                                                     *)

(* Within the tiers the order of the scores is the Gateway API's.           *)
LEMMA BeforeBeats ==
    ASSUME NEW rules, IsConfig(rules), \A i \in DOMAIN rules : WithinTiers(rules[i]),
           NEW c, NEW d, c.rule \in DOMAIN rules, d.rule \in DOMAIN rules,
           Before(rules, c.rule, d.rule), ~MoreSpecific(d.name, c.name)
    PROVE  Beats(rules, c, d)
<1> DEFINE f == FiguresOf(rules[c.rule])
           g == FiguresOf(rules[d.rule])
<1>1. Bounded(f) /\ Bounded(g)
  BY FiguresAre DEF IsConfig
<1>2. Score(f) > Score(g) \/ (Score(f) = Score(g) /\ c.rule < d.rule)
  BY DEF Before, Precedes, computePriority
<1> HIDE DEF f, g
<1>3. Outranks(f, g) \/ (f = g /\ c.rule < d.rule)
  BY <1>1, <1>2, ScoreIsPrecedence
<1> QED
  BY <1>3 DEF Beats, f, g

(* No name is more specific than itself.                                    *)
LEMMA SameName ==
    ASSUME NEW rules, IsConfig(rules), NEW name,
           name = AnyHost \/ name \in Names(rules, FALSE) \/ name \in Names(rules, TRUE)
    PROVE  ~MoreSpecific(name, name)
<1>1. CASE name = AnyHost
  BY <1>1 DEF MoreSpecific, AnyHost
<1>2. CASE name \in Names(rules, FALSE) \/ name \in Names(rules, TRUE)
  <2>1. name # AnyHost /\ IsSeq(name.labels)
    BY <1>2, AnyIsNoName
  <2>2. Len(name.labels) \in Int
    BY <2>1 DEF IsSeq
  <2>3. ~(Len(name.labels) > Len(name.labels))
    BY <2>2
  <2> QED
    BY <2>1, <2>3 DEF MoreSpecific
<1> QED
  BY <1>1, <1>2

\* What RouteIsBest says of a result.
IsBest(r, rules, req) ==
    LET cs == Candidates(rules, req)
    IN  IF cs = {} THEN r.rule = 0
        ELSE \E c \in cs : /\ r.rule = c.rule /\ r.bucket = c.name
                           /\ \A d \in cs \ {c} : Beats(rules, c, d)

(* A result that is best in its bucket, in which nothing that answers for   *)
(* the host is more specific, is the best of all candidates.                *)
LEMMA BestOfAll ==
    ASSUME NEW rules, IsConfig(rules), \A i \in DOMAIN rules : WithinTiers(rules[i]),
           NEW req, IsRequest(req), NEW r, NEW S, NEW name,
           Best(r, rules, S, name, req), S \subseteq DOMAIN rules,
           ForHost(rules, extractHost(req), [rule |-> r.rule, name |-> name]),
           \A d \in Candidates(rules, req) : MoreSpecific(name, d.name) \/ (d.name = name /\ d.rule \in S)
    PROVE  IsBest(r, rules, req)
<1> DEFINE c == [rule |-> r.rule, name |-> name]
<1>1. c = [rule |-> c.rule, name |-> c.name] /\ c.rule = r.rule /\ c.name = name
  OBVIOUS
<1>2. r.rule \in S /\ r.bucket = name /\ Hits(rules[r.rule], req)
      /\ \A j \in S : j # r.rule /\ Hits(rules[j], req) => Before(rules, r.rule, j)
  BY DEF Best
<1>3. ForHost(rules, extractHost(req), c)
  OBVIOUS
<1> HIDE DEF c
<1>4. c \in Candidates(rules, req)
  BY <1>1, <1>2, <1>3, CandidatesAre
<1>5. ASSUME NEW d \in Candidates(rules, req), d # c
      PROVE  Beats(rules, c, d)
  <2>1. CASE MoreSpecific(name, d.name)
    BY <1>1, <2>1 DEF Beats
  <2>2. CASE d.name = name /\ d.rule \in S
    <3>1. d = [rule |-> d.rule, name |-> d.name] /\ d.rule \in DOMAIN rules /\ Hits(rules[d.rule], req)
      BY CandidatesAre
    <3>2. d.rule # r.rule
      BY <1>5, <2>2, <3>1 DEF c
    <3>3. Before(rules, c.rule, d.rule)
      BY <1>1, <1>2, <2>2, <3>1, <3>2
    <3>4. ~MoreSpecific(d.name, c.name)
      <4>1. name = AnyHost \/ name \in Names(rules, FALSE) \/ name \in Names(rules, TRUE)
        BY <1>1, <1>3 DEF ForHost
      <4> QED
        BY <1>1, <2>2, <4>1, SameName
    <3> QED
      BY <1>1, <1>2, <3>1, <3>3, <3>4, BeforeBeats
  <2> QED
    BY <2>1, <2>2
<1> QED
  BY <1>1, <1>2, <1>4, <1>5 DEF IsBest

(* Route (router.go) is right for every configuration within the tiers.     *)
LEMMA RouteBest ==
    ASSUME NEW rules, IsConfig(rules), \A i \in DOMAIN rules : WithinTiers(rules[i]),
           NEW order \in WildcardOrders(rules), NEW req, IsRequest(req)
    PROVE  IsBest(Route(compileRoutingTable(rules, order), req), rules, req)
<1> DEFINE host == extractHost(req)
           r == Route(compileRoutingTable(rules, order), req)
           cs == Candidates(rules, req)
<1>1. ByExact(r, rules, host, req) \/ ByWildcard(r, rules, host, req) \/ ByDefault(r, rules, host, req)
  BY RouteHostIs DEF Route
<1>2. IsHost(host)
  BY HostIs
<1> SUFFICES IsBest(r, rules, req)
  OBVIOUS
<1> HIDE DEF r
<1>3. ASSUME NEW d \in cs
      PROVE  d.rule \in DOMAIN rules /\ Hits(rules[d.rule], req) /\ ForHost(rules, host, d)
  BY CandidatesAre
<1> HIDE DEF host, cs
<1>4. \A name : Claims(rules, name) \subseteq DOMAIN rules
  BY DEF Claims
<1>5. Unnamed(rules) \subseteq DOMAIN rules
  BY DEF Unnamed
<1>6. ASSUME NEW name \in Names(rules, TRUE)
      PROVE  name # AnyHost /\ name.wild = TRUE /\ Len(name.labels) \in Int /\ IsName(name, TRUE)
  <2>1. name # AnyHost /\ name.wild = TRUE /\ IsName(name, TRUE)
    BY AnyIsNoName, NamesAre
  <2>2. Len(name.labels) \in Int
    BY <2>1 DEF IsName, IsSeq
  <2> QED
    BY <2>1, <2>2
<1>7. CASE ByExact(r, rules, host, req)
  <2>1. host \in Names(rules, FALSE) /\ Best(r, rules, Claims(rules, host), host, req)
    BY <1>7 DEF ByExact
  <2>2. host # AnyHost /\ host.wild = FALSE
    BY <2>1, AnyIsNoName
  <2>3. ASSUME NEW d \in cs
        PROVE  MoreSpecific(host, d.name) \/ (d.name = host /\ d.rule \in Claims(rules, host))
    BY <1>3, <1>6, <2>2 DEF ForHost, MoreSpecific
  <2>4. ForHost(rules, host, [rule |-> r.rule, name |-> host])
    BY <2>1 DEF ForHost, Best
  <2>5. Claims(rules, host) \subseteq DOMAIN rules
    BY <1>4
  <2> QED
    BY Zenon, <2>1, <2>3, <2>4, <2>5, BestOfAll DEF host, cs
<1>8. CASE ByWildcard(r, rules, host, req)
  <2>1. PICK name \in Names(rules, TRUE) :
               /\ matchesWildcard(host, name) /\ Best(r, rules, Claims(rules, name), name, req)
               /\ \A other \in Names(rules, TRUE) :
                     Len(other.labels) > Len(name.labels) => WildcardMisses(rules, host, other, req)
    BY <1>8 DEF ByWildcard
  <2>2. ASSUME NEW d \in cs
        PROVE  MoreSpecific(name, d.name) \/ (d.name = name /\ d.rule \in Claims(rules, name))
    <3>1. CASE d.name = AnyHost
      BY <1>6, <3>1 DEF MoreSpecific
    <3>2. CASE d.name = host /\ host \in Names(rules, FALSE) /\ d.rule \in Claims(rules, host)
      BY <1>3, <1>8, <3>2 DEF ByWildcard, ExactMisses, NoHit
    <3>3. CASE d.name \in Names(rules, TRUE) /\ matchesWildcard(host, d.name) /\ d.rule \in Claims(rules, d.name)
      <4>1. ~(Len(d.name.labels) > Len(name.labels))
        BY <1>3, <2>1, <3>3 DEF WildcardMisses, NoHit
      <4>2. CASE Len(d.name.labels) = Len(name.labels)
        <5>1. d.name = name
          BY <1>2, <1>6, <2>1, <3>3, <4>2, OneOfALength DEF IsHost
        <5> QED
          BY <3>3, <5>1
      <4>3. CASE Len(name.labels) > Len(d.name.labels)
        BY <1>6, <3>3, <4>3 DEF MoreSpecific
      <4> QED
        BY <1>6, <3>3, <4>1, <4>2, <4>3
    <3> QED
      BY <1>3, <3>1, <3>2, <3>3 DEF ForHost
  <2>3. ForHost(rules, host, [rule |-> r.rule, name |-> name])
    BY <2>1 DEF ForHost, Best
  <2>4. Claims(rules, name) \subseteq DOMAIN rules
    BY <1>4
  <2> QED
    BY Zenon, <2>1, <2>2, <2>3, <2>4, BestOfAll DEF host, cs
<1>9. CASE ByDefault(r, rules, host, req)
  <2>1. ASSUME NEW d \in cs
        PROVE  d.name = AnyHost /\ d.rule \in Unnamed(rules)
    BY <1>3, <1>9 DEF ForHost, ByDefault, ExactMisses, WildcardMisses, NoHit
  <2>2. CASE Best(r, rules, Unnamed(rules), AnyHost, req)
    <3>1. ForHost(rules, host, [rule |-> r.rule, name |-> AnyHost])
      BY <2>2 DEF ForHost, Best
    <3>2. \A d \in cs : MoreSpecific(AnyHost, d.name) \/ (d.name = AnyHost /\ d.rule \in Unnamed(rules))
      BY <2>1
    <3> QED
      BY Zenon, <1>5, <2>2, <3>1, <3>2, BestOfAll DEF host, cs
  <2>3. CASE r = NoResult /\ NoHit(rules, Unnamed(rules), req)
    <3>1. cs = {}
      BY <1>3, <2>1, <2>3 DEF NoHit
    <3>2. r.rule = 0
      BY <2>3 DEF NoResult
    <3> QED
      BY Zenon, <3>1, <3>2 DEF IsBest, cs
  <2> QED
    BY <1>9, <2>2, <2>3 DEF ByDefault
<1> QED
  BY <1>1, <1>7, <1>8, <1>9

-----------------------------------------------------------------------------
(* The handler                                                             *)

\* The table in use is compiled from a configuration that was valid.
Compiled ==
    /\ table.rules \in Configs \cup {<<>>} /\ Validate(table.rules)
    /\ \E order \in WildcardOrders(table.rules) : table = compileRoutingTable(table.rules, order)

\* The answer on its way was computed with the table in use.
Answered ==
    exchange # <<>> =>
        \E req \in Requests, draw \in Draws : \E pick \in Picks(table, req) :
            exchange = <<[req |-> req, out |-> ServeHTTP(table, req, pick, draw)]>>

HandlerInv == Compiled /\ Answered

(* A proxy without a configuration has an empty table.                      *)
LEMMA EmptyConfig ==
    IsConfig(<<>>) /\ Validate(<<>>) /\ <<>> \in WildcardOrders(<<>>)
<1>1. IsConfig(<<>>) /\ Validate(<<>>)
  BY DEF IsConfig, IsSeq, Validate
<1>2. Names(<<>>, TRUE) = {}
  BY DEF Names
<1>3. <<>> \in [1..0 -> {}] /\ DOMAIN <<>> = {}
  OBVIOUS
<1>4. <<>> \in SetToSeqs({})
  <2>1. Cardinality({}) = 0
    BY FS_EmptySet
  <2> QED
    BY <1>3, <2>1 DEF SetToSeqs, Injection, IsInjective
<1>5. <<>> \in WildcardOrders(<<>>)
  BY <1>2, <1>3, <1>4 DEF WildcardOrders
<1> QED
  BY <1>1, <1>5

(* A table carries the configuration it was compiled from.                  *)
LEMMA TableRules ==
    ASSUME NEW rules, NEW order
    PROVE  compileRoutingTable(rules, order).rules = rules
BY DEF compileRoutingTable

(* UpdateConfig installs compiled tables only, and Serve answers with one.  *)
LEMMA HandlerInvHolds == Spec => []HandlerInv
<1>1. Init => HandlerInv
  <2>1. SUFFICES ASSUME Init PROVE HandlerInv
    OBVIOUS
  <2>2. table = compileRoutingTable(<<>>, <<>>) /\ table.rules = <<>> /\ exchange = <<>>
    BY <2>1, TableRules DEF Init
  <2> QED
    BY <2>2, EmptyConfig DEF HandlerInv, Compiled, Answered
<1>2. HandlerInv /\ [Next]_vars => HandlerInv'
  <2>1. SUFFICES ASSUME HandlerInv, [Next]_vars PROVE HandlerInv'
    OBVIOUS
  <2>2. ASSUME NEW rules \in Configs, UpdateConfig(rules)
        PROVE  HandlerInv'
    <3>1. exchange = <<>> /\ exchange' = <<>>
      BY <2>2 DEF UpdateConfig
    <3>2. CASE table' = table
      BY <2>1, <3>1, <3>2 DEF HandlerInv, Compiled, Answered
    <3>3. CASE Tables[rules] # {} /\ table' \in Tables[rules]
      <4>1. Validate(rules) /\ \E order \in WildcardOrders(rules) : table' = compileRoutingTable(rules, order)
        BY <3>3 DEF Tables
      <4>2. table'.rules = rules
        BY <4>1, TableRules
      <4> QED
        BY <3>1, <4>1, <4>2 DEF HandlerInv, Compiled, Answered
    <3> QED
      BY <2>2, <3>2, <3>3 DEF UpdateConfig
  <2>3. ASSUME NEW req \in Requests, Serve(req)
        PROVE  HandlerInv'
    <3>1. table' = table /\ \E pick \in Picks(table, req), draw \in Draws :
             exchange' = <<[req |-> req, out |-> ServeHTTP(table, req, pick, draw)]>>
      BY <2>3 DEF Serve
    <3>2. Compiled'
      BY <2>1, <3>1 DEF HandlerInv, Compiled
    <3>3. Answered'
      BY <3>1 DEF Answered
    <3> QED
      BY <3>2, <3>3 DEF HandlerInv
  <2>4. CASE Done
    BY <2>1, <2>4 DEF Done, HandlerInv, Compiled, Answered
  <2>5. CASE UNCHANGED vars
    BY <2>1, <2>5 DEF vars, HandlerInv, Compiled, Answered
  <2> QED
    BY <2>1, <2>2, <2>3, <2>4, <2>5 DEF Next
<1> QED
  BY <1>1, <1>2, PTL DEF Spec

(* Whatever becomes of a request, the answer names the rule and the bucket  *)
(* it was routed to.                                                        *)
LEMMA OutcomeRoutes ==
    ASSUME NEW t, NEW req, NEW pick, NEW draw
    PROVE  LET out == ServeHTTP(t, req, pick, draw)
           IN  out.rule = Route(t, req).rule /\ out.bucket = Route(t, req).bucket
<1> DEFINE r == Route(t, req)
           Routed(out) == out.rule = r.rule /\ out.bucket = r.bucket
<1>1. \A status, headers, backend, sent, copies : Routed(Outcome(status, headers, r, backend, sent, copies))
  BY DEF Outcome
<1> HIDE DEF r, Routed
<1>2. \A p, rule, k : Routed(proxyToBackend(p, r, rule, k))
  BY SMT, <1>1 DEF proxyToBackend
<1>3. \A p, rule, k : Routed(AnswerFiltered(p, r, rule, k))
  BY Zenon, <1>1, <1>2 DEF AnswerFiltered
<1>4. \A rule, k : Routed(ServeRule(rule, k, r, req, draw))
  BY Zenon, <1>1, <1>3 DEF ServeRule
<1>5. Routed(ServeResult(r, t, req, pick, draw))
  BY SMT, <1>1, <1>4 DEF ServeResult
<1> QED
  BY <1>5 DEF ServeHTTP, r, Routed

\* Configurations whose rules the tiers of the score keep apart.
Tiered == \A rules \in Configs : \A i \in DOMAIN rules : WithinTiers(rules[i])

(* Route (router.go) sends every request to the rule that the Gateway API's *)
(* precedence names, for every set of configurations and requests: paths of *)
(* up to 1024 characters, up to nine headers and parameters in a match, any *)
(* number of rules, hostnames and matches.                                  *)
THEOREM RouteIsBestHolds ==
    ASSUME Tiered
    PROVE  Spec => []RouteIsBest
<1>1. HandlerInv => RouteIsBest
  <2>1. SUFFICES ASSUME HandlerInv, exchange # <<>>
                 PROVE  IsBest(exchange[1].out, table.rules, exchange[1].req)
    BY DEF RouteIsBest, IsBest
  <2>2. PICK req \in Requests, draw \in Draws : \E pick \in Picks(table, req) :
            exchange = <<[req |-> req, out |-> ServeHTTP(table, req, pick, draw)]>>
    BY <2>1 DEF HandlerInv, Answered
  <2>3. PICK pick \in Picks(table, req) :
            exchange = <<[req |-> req, out |-> ServeHTTP(table, req, pick, draw)]>>
    BY <2>2
  <2> DEFINE out == ServeHTTP(table, req, pick, draw)
             rules == table.rules
             r == Route(table, req)
  <2>4. exchange[1].req = req /\ exchange[1].out = out
    BY <2>3
  <2>5. out.rule = r.rule /\ out.bucket = r.bucket
    BY OutcomeRoutes
  <2>6. IsRequest(req)
    BY HandlerAssumption
  <2>7. IsConfig(rules) /\ \A i \in DOMAIN rules : WithinTiers(rules[i])
    <3>1. CASE rules \in Configs
      BY <3>1, HandlerAssumption DEF Tiered
    <3>2. CASE rules = <<>>
      BY <3>2, EmptyConfig
    <3> QED
      BY <2>1, <3>1, <3>2 DEF HandlerInv, Compiled
  <2>8. PICK order \in WildcardOrders(rules) : table = compileRoutingTable(rules, order)
    BY <2>1 DEF HandlerInv, Compiled
  <2> HIDE DEF out, rules
  <2>9. IsBest(r, rules, req)
    BY <2>6, <2>7, <2>8, RouteBest
  <2> HIDE DEF r
  <2>10. IsBest(out, rules, req)
    BY Zenon, <2>5, <2>9 DEF IsBest
  <2> QED
    BY <2>4, <2>10 DEF rules
<1> QED
  BY <1>1, HandlerInvHolds, PTL

------------------------------------------------------------------------------
(***************************************************************************)
(* What Handler.tla promises of the configuration it serves with, for      *)
(* every set of configurations and of requests: the report of shadowed     *)
(* matches is honest, and the weights of a rule are the shares of its      *)
(* backends.                                                               *)
(***************************************************************************)

-----------------------------------------------------------------------------
(* Weights                                                                 *)

(* The sums of the weights: a recursive function exists, which is what its  *)
(* CHOOSE needs, by induction on the length of its domain.                  *)
LEMMA CumulativeIs ==
    ASSUME NEW bs, IsSeq(bs)
    PROVE  /\ Cumulative(bs)[0] = 0
           /\ \A k \in DOMAIN bs : Cumulative(bs)[k] = Cumulative(bs)[k - 1] + bs[k].weight
<1> DEFINE n == Len(bs)
           Sums(f, m) == f = [k \in 0..m |-> IF k = 0 THEN 0 ELSE f[k - 1] + bs[k].weight]
           S == {m \in Nat : \E f : Sums(f, m)}
<1>1. n \in Nat /\ DOMAIN bs = 1..n
  BY DEF IsSeq
<1>2. 0 \in S
  <2>1. Sums([k \in 0..0 |-> 0], 0)
    OBVIOUS
  <2> QED
    BY <2>1
<1>3. ASSUME NEW m \in Nat, m \in S
      PROVE  m + 1 \in S
  <2>1. PICK f : Sums(f, m)
    BY <1>3
  <2> DEFINE g == [k \in 0..(m + 1) |-> IF k = m + 1 THEN f[m] + bs[m + 1].weight ELSE f[k]]
             h == [k \in 0..(m + 1) |-> IF k = 0 THEN 0 ELSE g[k - 1] + bs[k].weight]
  <2>2. ASSUME NEW k \in 0..(m + 1)
        PROVE  g[k] = h[k]
    <3>1. CASE k = 0
      BY <2>1, <3>1
    <3>2. CASE k = m + 1
      BY <3>2
    <3>3. CASE k # 0 /\ k # m + 1
      <4>1. k \in 0..m /\ k - 1 \in 0..(m + 1) /\ k - 1 # m + 1
        BY <3>3
      <4>2. f[k] = f[k - 1] + bs[k].weight
        BY <2>1, <3>3, <4>1
      <4> QED
        BY <3>3, <4>1, <4>2
    <3> QED
      BY <3>1, <3>2, <3>3
  <2>3. g = h
    <3> HIDE DEF Sums
    <3> QED
      BY <2>2
  <2>4. Sums(g, m + 1)
    BY <2>3
  <2> HIDE DEF Sums, g
  <2> QED
    BY <2>4
<1>4. PICK f : Sums(f, n)
  <2>1. Nat \subseteq S
    <3> HIDE DEF S
    <3> QED
      BY <1>2, <1>3, NaturalInduction
  <2> QED
    BY <1>1, <2>1
<1>5. Cumulative(bs) = CHOOSE f_1 : Sums(f_1, n)
  BY DEF Cumulative
<1>6. Sums(Cumulative(bs), n)
  <2> HIDE DEF Sums
  <2> QED
    BY <1>4, <1>5
<1>7. \A k \in 0..n : Cumulative(bs)[k] = IF k = 0 THEN 0 ELSE Cumulative(bs)[k - 1] + bs[k].weight
  BY <1>6
<1> HIDE DEF Sums
<1> QED
  BY <1>1, <1>7

(* The sums of natural weights are naturals and never fall.                 *)
LEMMA CumulativeGrows ==
    ASSUME NEW bs, IsSeq(bs), \A k \in DOMAIN bs : bs[k].weight \in Nat
    PROVE  /\ \A k \in 0..Len(bs) : Cumulative(bs)[k] \in Nat
           /\ \A j, k \in 0..Len(bs) : j <= k => Cumulative(bs)[j] <= Cumulative(bs)[k]
<1> DEFINE n == Len(bs)
           C == Cumulative(bs)
           S == {m \in Nat : m <= n => C[m] \in Nat}
           G == {m \in Nat : \A j \in 0..n : j + m <= n => C[j] <= C[j + m]}
<1>1. n \in Nat /\ DOMAIN bs = 1..n
  BY DEF IsSeq
<1>2. C[0] = 0 /\ \A k \in 1..n : C[k] = C[k - 1] + bs[k].weight /\ bs[k].weight \in Nat
  BY <1>1, CumulativeIs
<1> HIDE DEF C, n
<1>3. \A m \in 0..n : C[m] \in Nat
  <2>1. 0 \in S
    BY <1>2
  <2>2. ASSUME NEW m \in Nat, m \in S
        PROVE  m + 1 \in S
    <3>1. CASE m + 1 <= n
      <4>1. m + 1 \in 1..n /\ (m + 1) - 1 = m /\ C[m] \in Nat
        BY <1>1, <2>2, <3>1
      <4>2. C[m + 1] = C[(m + 1) - 1] + bs[m + 1].weight /\ bs[m + 1].weight \in Nat
        BY <1>2, <4>1
      <4> QED
        BY <4>1, <4>2
    <3> QED
      BY <3>1
  <2>3. Nat \subseteq S
    <3> HIDE DEF S
    <3> QED
      BY <2>1, <2>2, NaturalInduction
  <2> QED
    BY <1>1, <2>3
<1>4. Nat \subseteq G
  <2>1. 0 \in G
    BY <1>1, <1>3
  <2>2. ASSUME NEW m \in Nat, m \in G
        PROVE  m + 1 \in G
    <3>1. ASSUME NEW j \in 0..n, j + (m + 1) <= n
          PROVE  C[j] <= C[j + (m + 1)]
      <4>1. /\ j + m <= n /\ j + m \in 0..n /\ j + (m + 1) \in 1..n /\ j + (m + 1) \in 0..n
            /\ (j + (m + 1)) - 1 = j + m
        BY <1>1, <3>1
      <4>2. C[j] <= C[j + m]
        BY <2>2, <4>1
      <4>3. C[j + (m + 1)] = C[(j + (m + 1)) - 1] + bs[j + (m + 1)].weight /\ bs[j + (m + 1)].weight \in Nat
        BY <1>2, <4>1
      <4>4. C[j] \in Nat /\ C[j + m] \in Nat
        BY <1>3, <4>1
      <4> QED
        BY <4>1, <4>2, <4>3, <4>4
    <3> QED
      BY <3>1
  <2> HIDE DEF G
  <2> QED
    BY <2>1, <2>2, NaturalInduction
<1>5. ASSUME NEW j \in 0..n, NEW k \in 0..n, j <= k
      PROVE  C[j] <= C[k]
  <2>1. k - j \in Nat /\ j + (k - j) = k
    BY <1>1, <1>5
  <2>2. k - j \in G
    BY <1>4, <2>1
  <2> QED
    BY <1>1, <2>1, <2>2
<1> QED
  BY <1>3, <1>5 DEF C, n

(* The walk over the weights stops at the backend whose share the drawn     *)
(* number lies in.                                                          *)
LEMMA SelectIs ==
    ASSUME NEW bs, IsSeq(bs), \A k \in DOMAIN bs : bs[k].weight \in Nat, TotalWeight(bs) # 0,
           NEW p \in 0..(TotalWeight(bs) - 1), NEW k \in DOMAIN bs
    PROVE  selectBackend(bs, p) = k <=> p \in Cumulative(bs)[k - 1]..(Cumulative(bs)[k] - 1)
<1> DEFINE n == Len(bs)
           C == Cumulative(bs)
           T == {j \in 1..n : p < C[j]}
<1>1. n \in Nat /\ DOMAIN bs = 1..n
  BY DEF IsSeq
<1>2. C[0] = 0
  BY CumulativeIs
<1>3. /\ \A j \in 0..n : C[j] \in Nat
      /\ \A i, j \in 0..n : i <= j => C[i] <= C[j]
  BY CumulativeGrows
<1>4. TotalWeight(bs) = C[n]
  BY DEF TotalWeight
<1>5. selectBackend(bs, p) = IF C[n] <= 0 THEN 0 ELSE Min(T \cup {n})
  BY <1>1, <1>4 DEF selectBackend
<1> HIDE DEF C, n
<1>6. p \in Nat /\ p < C[n] /\ n \in T
  <2>1. C[n] \in Nat /\ C[n] # 0
    BY <1>1, <1>3, <1>4
  <2> QED
    BY <1>1, <1>2, <1>4, <2>1
<1>7. T \cup {n} = T /\ T \in SUBSET Nat /\ T # {}
  BY <1>1, <1>6
<1>8. PICK s \in T : s = selectBackend(bs, p) /\ \A j \in T : s <= j
  <2>1. Min(T) \in T /\ \A j \in T : Min(T) <= j
    <3> HIDE DEF T
    <3> QED
      BY <1>7, MinIsLeast
  <2>2. selectBackend(bs, p) = Min(T)
    <3>1. ~(C[n] <= 0)
      BY <1>1, <1>3, <1>6
    <3> HIDE DEF T
    <3> QED
      BY <1>5, <1>7, <3>1
  <2> HIDE DEF T
  <2> QED
    BY <2>1, <2>2
<1>9. k \in 1..n /\ k - 1 \in 0..n /\ C[k] \in Nat /\ C[k - 1] \in Nat
  BY <1>1, <1>3
<1>10. ASSUME s = k
       PROVE  p \in C[k - 1]..(C[k] - 1)
  <2>1. p < C[k]
    BY <1>8, <1>10
  <2>2. k - 1 \notin T
    BY <1>8, <1>9, <1>10
  <2>3. C[k - 1] <= p
    BY <1>2, <1>6, <1>9, <2>2
  <2> QED
    BY <1>6, <1>9, <2>1, <2>3
<1>11. ASSUME p \in C[k - 1]..(C[k] - 1)
       PROVE  s = k
  <2>1. k \in T
    BY <1>9, <1>11
  <2>2. s \in 1..n /\ s <= k /\ C[s] \in Nat /\ p < C[s]
    BY <1>1, <1>3, <1>8, <2>1
  <2>3. s <= k - 1 => C[s] <= C[k - 1]
    BY <1>3, <1>9, <2>2
  <2> QED
    BY <1>6, <1>9, <1>11, <2>2, <2>3
<1> QED
  BY <1>8, <1>10, <1>11 DEF C

(* Each backend is chosen for its weight's worth of the numbers.            *)
LEMMA SharesAre ==
    ASSUME NEW bs, IsSeq(bs), \A k \in DOMAIN bs : bs[k].weight \in Nat, TotalWeight(bs) # 0,
           NEW k \in DOMAIN bs
    PROVE  Cardinality({p \in 0..(TotalWeight(bs) - 1) : selectBackend(bs, p) = k}) = bs[k].weight
<1> DEFINE n == Len(bs)
           lo == Cumulative(bs)[k - 1]
           hi == Cumulative(bs)[k]
           total == TotalWeight(bs)
<1>1. n \in Nat /\ k \in 1..n /\ k - 1 \in 0..n
  BY DEF IsSeq
<1>2. lo \in Nat /\ hi \in Nat /\ hi <= total /\ total \in Nat
  BY <1>1, CumulativeGrows DEF TotalWeight
<1>3. hi = lo + bs[k].weight /\ bs[k].weight \in Nat
  BY CumulativeIs
<1>4. \A p \in 0..(total - 1) : selectBackend(bs, p) = k <=> p \in lo..(hi - 1)
  BY SelectIs
<1> HIDE DEF lo, hi, total
<1>5. {p \in 0..(total - 1) : selectBackend(bs, p) = k} = lo..(hi - 1)
  BY <1>2, <1>4
<1>6. Cardinality(lo..(hi - 1)) = bs[k].weight
  <2>1. Cardinality(lo..(hi - 1)) = IF lo > hi - 1 THEN 0 ELSE (hi - 1) - lo + 1
    BY <1>2, FS_Interval
  <2> QED
    BY <1>2, <1>3, <2>1
<1> QED
  BY <1>5, <1>6 DEF total

(* Whatever configuration the proxy is given, selectBackend of router.go    *)
(* gives each backend of each of its rules exactly its weight's share of    *)
(* the numbers that can be drawn, and finds none only when all weights are  *)
(* zero.                                                                    *)
THEOREM TrafficSplitHolds == Spec => []TrafficSplit
<1>1. HandlerInv => TrafficSplit
  <2>1. SUFFICES ASSUME HandlerInv, NEW i \in DOMAIN table.rules
                 PROVE  LET bs == table.rules[i].backends
                        IN  IF TotalWeight(bs) = 0 THEN selectBackend(bs, 0) = 0
                            ELSE \A k \in DOMAIN bs :
                                    Cardinality({p \in 0..(TotalWeight(bs) - 1) : selectBackend(bs, p) = k})
                                        = bs[k].weight
    BY DEF TrafficSplit
  <2> DEFINE bs == table.rules[i].backends
  <2>2. IsConfig(table.rules) /\ Validate(table.rules)
    BY <2>1, EmptyConfig, HandlerAssumption DEF HandlerInv, Compiled
  <2>3. IsSeq(bs) /\ \A b \in Range(bs) : b.weight \in Int /\ b.weight >= 0
    BY <2>2 DEF IsConfig, IsRule, Validate
  <2> HIDE DEF bs
  <2>4. \A k \in DOMAIN bs : bs[k].weight \in Nat
    BY <2>3 DEF Range
  <2>5. TotalWeight(bs) = 0 => selectBackend(bs, 0) = 0
    BY DEF selectBackend
  <2>6. ASSUME TotalWeight(bs) # 0
        PROVE  \A k \in DOMAIN bs :
                  Cardinality({p \in 0..(TotalWeight(bs) - 1) : selectBackend(bs, p) = k}) = bs[k].weight
    BY <2>3, <2>4, <2>6, SharesAre
  <2> QED
    BY <2>5, <2>6 DEF bs
<1> QED
  BY <1>1, HandlerInvHolds, PTL

-----------------------------------------------------------------------------
(* Shadowed matches                                                        *)

(* Matches with one canonical key match the same requests.                  *)
LEMMA SameKeySameMatch ==
    ASSUME NEW m, NEW n, IsMatch(m), IsMatch(n), canonicalMatchKey(m) = canonicalMatchKey(n), NEW req
    PROVE  Matches(m, req) <=> Matches(n, req)
<1> DEFINE lowered(x) == [i \in DOMAIN x.headers |-> lowerName(x.headers[i])]
           H(x) == {lowerName(x.headers[i]) : i \in DOMAIN x.headers}
           Q(x) == {x.query[i] : i \in DOMAIN x.query}
<1>1. m.path = n.path /\ m.method = n.method
  BY DEF canonicalMatchKey
<1>2. ToBag(m.query) = ToBag(n.query) /\ ToBag(lowered(m)) = ToBag(lowered(n))
  BY DEF canonicalMatchKey
<1>3. \A s : DOMAIN ToBag(s) = {s[i] : i \in DOMAIN s}
  BY DEF ToBag, Range
<1>4. Q(m) = Q(n)
  BY <1>2, <1>3
<1>5. H(m) = H(n)
  <2>1. \A x : {lowered(x)[i] : i \in DOMAIN lowered(x)} = H(x)
    OBVIOUS
  <2> HIDE DEF lowered, H
  <2> QED
    BY <1>2, <1>3, <2>1
<1>6. ASSUME NEW x, IsMatch(x)
      PROVE  (\A i \in DOMAIN x.headers : ValueOK(x.headers[i], ValuesOf(req.headers, LowerOf[x.headers[i].name])))
             <=> \A h \in H(x) : ValueOK(h, ValuesOf(req.headers, h.name))
  <2>1. ASSUME NEW i \in DOMAIN x.headers
        PROVE  ValueOK(x.headers[i], ValuesOf(req.headers, LowerOf[x.headers[i].name])) <=>
               ValueOK(lowerName(x.headers[i]), ValuesOf(req.headers, lowerName(x.headers[i]).name))
    <3> DEFINE h == x.headers[i]
               l == lowerName(h)
    <3>1. h = [name |-> h.name, type |-> h.type, value |-> h.value]
      BY <1>6 DEF IsMatch, Range
    <3>2. l.name = LowerOf[h.name] /\ l.type = h.type /\ l.value = h.value
      BY <3>1 DEF lowerName
    <3> HIDE DEF h, l
    <3>3. ValueOK(h, ValuesOf(req.headers, LowerOf[h.name])) <=> ValueOK(l, ValuesOf(req.headers, l.name))
      BY <3>2 DEF ValueOK
    <3> QED
      BY <3>3 DEF h, l
  <2> QED
    BY <2>1
<1>7. \A x : (\A i \in DOMAIN x.query : ValueOK(x.query[i], ValuesOf(req.query, x.query[i].name)))
             <=> \A q \in Q(x) : ValueOK(q, ValuesOf(req.query, q.name))
  OBVIOUS
<1> HIDE DEF H, Q
<1> QED
  BY Zenon, <1>1, <1>4, <1>5, <1>6, <1>7 DEF Matches

(* The claimants of a key hit together.                                     *)
LEMMA ClaimantsHit ==
    ASSUME NEW rule, NEW other, IsRule(rule), IsRule(other),
           NEW k \in ruleShadowKeys(rule) \cap ruleShadowKeys(other), NEW req,
           \/ k.match = CatchAll
           \/ \E m \in Range(rule.matches) : canonicalMatchKey(m) = k.match /\ Matches(m, req)
    PROVE  Hits(other, req) /\ Hits(rule, req)
<1>1. \A m \in Range(rule.matches) \cup Range(other.matches) : IsMatch(m)
  BY DEF IsRule
<1>2. ASSUME NEW m, IsMatch(m)
      PROVE  canonicalMatchKey(m) # CatchAll
  <2>1. canonicalMatchKey(m).path = m.path /\ m.path.type # "CatchAll"
    BY <1>2 DEF canonicalMatchKey, IsMatch, PathTypes, None
  <2>2. CatchAll.path.type = "CatchAll"
    BY DEF CatchAll
  <2> QED
    BY <2>1, <2>2
<1>3. ASSUME NEW x \in {rule, other}
      PROVE  k.match \in IF x.matches = <<>> THEN {CatchAll} ELSE {canonicalMatchKey(m) : m \in Range(x.matches)}
  BY DEF ruleShadowKeys
<1>4. CASE k.match = CatchAll
  BY <1>1, <1>2, <1>3, <1>4 DEF Hits
<1>5. CASE \E m \in Range(rule.matches) : canonicalMatchKey(m) = k.match /\ Matches(m, req)
  <2>1. PICK m \in Range(rule.matches) : canonicalMatchKey(m) = k.match /\ Matches(m, req)
    BY <1>5
  <2>2. other.matches # <<>>
    BY <1>1, <1>2, <1>3, <2>1
  <2>3. PICK n \in Range(other.matches) : canonicalMatchKey(n) = k.match
    BY <1>3, <2>2
  <2>4. Matches(n, req)
    BY <1>1, <2>1, <2>3, SameKeySameMatch
  <2> QED
    BY <2>1, <2>3, <2>4 DEF Hits
<1> QED
  BY <1>4, <1>5

(* A claimed key has a winner: the claimant that the router serves first.   *)
LEMMA WinnerIs ==
    ASSUME NEW rules, IsConfig(rules), NEW i \in DOMAIN rules, NEW k \in ruleShadowKeys(rules[i])
    PROVE  LET w == ShadowWinner(rules, k)
           IN  /\ w \in DOMAIN rules /\ k \in ruleShadowKeys(rules[w])
               /\ \A j \in DOMAIN rules \ {w} : k \in ruleShadowKeys(rules[j]) => Before(rules, w, j)
<1> DEFINE S == {j \in DOMAIN rules : k \in ruleShadowKeys(rules[j])}
           s == sortRulesByPrecedence(rules, S)
           n == Cardinality(S)
<1>1. Scored(rules, S) /\ S # {}
  BY ConfigScored
<1> HIDE DEF S
<1>2. /\ s \in [1..n -> S] /\ n \in Nat
      /\ \A a, b \in DOMAIN s : a < b => Before(rules, s[a], s[b])
      /\ \A x \in S : \E a \in DOMAIN s : s[a] = x
  BY <1>1, SortIs
<1> HIDE DEF s, n
<1>3. 1 \in 1..n
  BY <1>1, <1>2
<1>4. s[1] \in S /\ \A j \in S \ {s[1]} : Before(rules, s[1], j)
  <2>1. ASSUME NEW j \in S, j # s[1] PROVE Before(rules, s[1], j)
    <3>1. PICK a \in 1..n : s[a] = j
      BY <1>2
    <3>2. 1 < a
      BY <1>2, <2>1, <3>1
    <3> QED
      BY <1>2, <1>3, <3>1, <3>2
  <2> QED
    BY <1>2, <1>3, <2>1
<1>5. \E w \in DOMAIN rules : /\ k \in ruleShadowKeys(rules[w])
                              /\ \A j \in DOMAIN rules \ {w} : k \in ruleShadowKeys(rules[j]) => Before(rules, w, j)
  BY <1>4 DEF S
<1> QED
  BY Zenon, <1>5 DEF ShadowWinner

\* The bucket of a name.
InBucket(rules, name) == IF name = AnyHost THEN Unnamed(rules) ELSE Claims(rules, name)

(* A rule is in the bucket of each hostname it claims a key of.             *)
LEMMA KeyInBucket ==
    ASSUME NEW rules, IsConfig(rules), NEW i \in DOMAIN rules, NEW k \in ruleShadowKeys(rules[i])
    PROVE  i \in InBucket(rules, k.hostname)
<1>1. k.hostname \in IF rules[i].hostnames = <<>> THEN {AnyHost} ELSE {Lower(n) : n \in Range(rules[i].hostnames)}
  BY DEF ruleShadowKeys
<1>2. ASSUME NEW n \in Range(rules[i].hostnames) PROVE Lower(n) # AnyHost
  <2>1. Lower(n) \in Names(rules, n.wild)
    BY DEF Names
  <2> QED
    BY <2>1, AnyIsNoName
<1> QED
  BY <1>1, <1>2 DEF InBucket, Unnamed, Claims

(* A result is the best rule of its bucket; without a result no rule        *)
(* without a hostname matches.                                              *)
LEMMA RouteInBucket ==
    ASSUME NEW rules, IsConfig(rules), NEW order \in WildcardOrders(rules), NEW req
    PROVE  LET r == Route(compileRoutingTable(rules, order), req)
           IN  \/ r = NoResult /\ NoHit(rules, Unnamed(rules), req)
               \/ Best(r, rules, InBucket(rules, r.bucket), r.bucket, req)
<1> DEFINE host == extractHost(req)
           r == Route(compileRoutingTable(rules, order), req)
<1>1. ByExact(r, rules, host, req) \/ ByWildcard(r, rules, host, req) \/ ByDefault(r, rules, host, req)
  BY RouteHostIs DEF Route
<1> SUFFICES \/ r = NoResult /\ NoHit(rules, Unnamed(rules), req)
             \/ Best(r, rules, InBucket(rules, r.bucket), r.bucket, req)
  OBVIOUS
<1> HIDE DEF r, host
<1>2. ASSUME NEW name, name # AnyHost, Best(r, rules, Claims(rules, name), name, req)
      PROVE  Best(r, rules, InBucket(rules, r.bucket), r.bucket, req)
  BY <1>2 DEF Best, InBucket
<1>3. CASE ByExact(r, rules, host, req)
  BY <1>2, <1>3, AnyIsNoName DEF ByExact
<1>4. CASE ByWildcard(r, rules, host, req)
  BY <1>2, <1>4, AnyIsNoName DEF ByWildcard
<1>5. CASE ByDefault(r, rules, host, req)
  BY <1>5 DEF ByDefault, Best, InBucket
<1> QED
  BY <1>1, <1>3, <1>4, <1>5

\* The rule is the reported winner or before it, and is not the loser.
Overruled(rule, rules, d) ==
    /\ rule \in DOMAIN rules \ {d.loser}
    /\ rule = d.winner \/ Before(rules, rule, d.winner)

(* Of two claimants one is behind the winner, and a rule behind a claimant   *)
(* of the same key never serves it.                                          *)
LEMMA ShadowedNeverServes ==
    ASSUME NEW rules, IsConfig(rules), NEW order \in WildcardOrders(rules), NEW req,
           NEW d \in DetectShadowedRules(rules),
           Route(compileRoutingTable(rules, order), req).bucket = d.key.hostname,
           AsksFor(rules, d, req)
    PROVE  Overruled(Route(compileRoutingTable(rules, order), req).rule, rules, d)
<1> DEFINE r == Route(compileRoutingTable(rules, order), req)
<1>1. PICK i \in DOMAIN rules : \E x \in ruleShadowKeys(rules[i]) :
             /\ d = [loser |-> i, key |-> x, winner |-> ShadowWinner(rules, x)]
             /\ rules[ShadowWinner(rules, x)].route # rules[i].route
  BY DEF DetectShadowedRules
<1>2. PICK k \in ruleShadowKeys(rules[i]) :
             /\ d = [loser |-> i, key |-> k, winner |-> ShadowWinner(rules, k)]
             /\ rules[ShadowWinner(rules, k)].route # rules[i].route
  BY <1>1
<1> DEFINE w == ShadowWinner(rules, k)
<1>3. /\ w \in DOMAIN rules /\ k \in ruleShadowKeys(rules[w])
      /\ \A j \in DOMAIN rules \ {w} : k \in ruleShadowKeys(rules[j]) => Before(rules, w, j)
  BY WinnerIs
<1>4. d.loser = i /\ d.key = k /\ d.winner = w /\ w # i
  BY <1>2
<1>5. \/ r = NoResult /\ NoHit(rules, Unnamed(rules), req)
      \/ Best(r, rules, InBucket(rules, r.bucket), r.bucket, req)
  BY RouteInBucket
<1>6. r.bucket = k.hostname
  BY <1>4
<1> SUFFICES r.rule \in DOMAIN rules \ {i} /\ (r.rule = w \/ Before(rules, r.rule, w))
  BY <1>4 DEF Overruled
<1> HIDE DEF r, w
<1>7. i \in InBucket(rules, k.hostname) /\ w \in InBucket(rules, k.hostname)
  BY <1>3, KeyInBucket
<1>8. Hits(rules[i], req) /\ Hits(rules[w], req)
  <2>1. \/ k.match = CatchAll
        \/ \E m \in Range(rules[i].matches) : canonicalMatchKey(m) = k.match /\ Matches(m, req)
    BY <1>4 DEF AsksFor
  <2>2. IsRule(rules[i]) /\ IsRule(rules[w]) /\ k \in ruleShadowKeys(rules[i]) \cap ruleShadowKeys(rules[w])
    BY <1>3 DEF IsConfig
  <2> QED
    BY <2>1, <2>2, ClaimantsHit
<1>9. InBucket(rules, k.hostname) \subseteq DOMAIN rules
  BY DEF InBucket, Claims, Unnamed
<1>10. CASE r = NoResult /\ NoHit(rules, Unnamed(rules), req)
  <2>1. k.hostname = AnyHost
    BY <1>6, <1>10 DEF NoResult
  <2> QED
    BY <1>7, <1>8, <1>10, <2>1 DEF InBucket, NoHit
<1>11. CASE Best(r, rules, InBucket(rules, r.bucket), r.bucket, req)
  <2>1. r.rule \in InBucket(rules, k.hostname)
        /\ (w # r.rule => Before(rules, r.rule, w))
    BY <1>6, <1>7, <1>8, <1>11 DEF Best
  <2>2. Scored(rules, DOMAIN rules) /\ 0 \notin DOMAIN rules
    BY ConfigScored
  <2>3. ~(Before(rules, i, w) /\ Before(rules, w, i))
    BY <1>3, <2>2, BeforeOrders
  <2>4. Before(rules, w, i)
    BY <1>3, <1>4
  <2> QED
    BY <1>4, <1>9, <2>1, <2>2, <2>3, <2>4
<1> QED
  BY <1>5, <1>10, <1>11

(* The diagnostics of DetectShadowedRules (shadow.go) agree with the router *)
(* for every configuration and request: a match reported as shadowed never  *)
(* serves, the rule named as the winner or one before it does, and of two   *)
(* routes with one match of one hostname one is reported.  No bound on the  *)
(* tiers is needed.                                                         *)
THEOREM ShadowHonestHolds == Spec => []ShadowHonest
<1>1. HandlerInv => ShadowHonest
  <2>1. SUFFICES ASSUME HandlerInv PROVE ShadowHonest
    OBVIOUS
  <2> DEFINE rules == table.rules
             shadowed == DetectShadowedRules(rules)
  <2>2. IsConfig(rules)
    BY <2>1, HandlerAssumption, EmptyConfig DEF HandlerInv, Compiled
  <2>3. PICK order \in WildcardOrders(rules) : table = compileRoutingTable(rules, order)
    BY <2>1 DEF HandlerInv, Compiled
  <2> HIDE DEF rules
  <2>4. ASSUME exchange # <<>>, NEW d \in shadowed,
               exchange[1].out.bucket = d.key.hostname, AsksFor(rules, d, exchange[1].req)
        PROVE  Overruled(exchange[1].out.rule, rules, d)
    <3>1. PICK req \in Requests, draw \in Draws : \E pick \in Picks(table, req) :
              exchange = <<[req |-> req, out |-> ServeHTTP(table, req, pick, draw)]>>
      BY <2>1, <2>4 DEF HandlerInv, Answered
    <3>2. PICK pick \in Picks(table, req) :
              exchange = <<[req |-> req, out |-> ServeHTTP(table, req, pick, draw)]>>
      BY <3>1
    <3> DEFINE r == Route(table, req)
               out == ServeHTTP(table, req, pick, draw)
    <3>3. exchange[1].req = req /\ exchange[1].out = out
      BY <3>2
    <3>4. out.rule = r.rule /\ out.bucket = r.bucket
      BY OutcomeRoutes
    <3> HIDE DEF out
    <3>5. r.bucket = d.key.hostname /\ AsksFor(rules, d, req)
      BY <2>4, <3>3, <3>4
    <3>6. Overruled(r.rule, rules, d)
      BY <2>2, <2>3, <3>5, ShadowedNeverServes
    <3> QED
      BY <3>3, <3>4, <3>6
  <2>5. ASSUME NEW i \in DOMAIN rules, NEW j \in DOMAIN rules, rules[i].route # rules[j].route,
               NEW k \in ruleShadowKeys(rules[i]) \cap ruleShadowKeys(rules[j])
        PROVE  \E d \in shadowed : d.key = k /\ d.loser \in {i, j}
    <3> DEFINE w == ShadowWinner(rules, k)
               D(x) == [loser |-> x, key |-> k, winner |-> w]
    <3>1. ASSUME NEW x \in {i, j}, rules[w].route # rules[x].route
          PROVE  D(x) \in shadowed /\ D(x).key = k /\ D(x).loser = x
      BY <3>1 DEF DetectShadowedRules
    <3>2. rules[w].route # rules[i].route \/ rules[w].route # rules[j].route
      BY <2>5
    <3> HIDE DEF w, D, shadowed
    <3> QED
      BY <3>1, <3>2
  <2> QED
    BY <2>4, <2>5 DEF ShadowHonest, Overruled, rules
<1> QED
  BY <1>1, HandlerInvHolds, PTL
=============================================================================
