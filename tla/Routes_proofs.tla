---------------------------- MODULE Routes_proofs ----------------------------
(***************************************************************************)
(* What the passes of a sync make of the routes of a cluster, whatever the *)
(* cluster: the lemmas that ControlPlane_proofs steps through.             *)
(***************************************************************************)
EXTENDS RouteEvents, BackendPasses, Lists_proofs

-----------------------------------------------------------------------------
(* The cluster                                                             *)

(* The API server finds the routes it has.                                  *)
LEMMA StoredIs ==
    ASSUME NEW w, \A r \in w.routes : IsRoute(r), NEW k \in {Key(r) : r \in w.routes}
    PROVE  \E r \in w.routes : Key(r) = k /\ Stored(w, k[1], k) = <<r>>
<1>1. PICK r \in w.routes : Key(r) = k
  OBVIOUS
<1>2. k[1] \in Kinds
  BY <1>1 DEF Key, IsRoute
<1>3. Field(k[1]) = "routes"
  BY <1>2 DEF Field, Kinds
<1> DEFINE found == {o \in w.routes : Key(o) = k}
<1>4. Stored(w, k[1], k) = IF found = {} THEN <<>> ELSE <<CHOOSE o \in found : TRUE>>
  BY <1>3 DEF Stored, KeptInSet, ObjectKey
<1>5. found # {}
  BY <1>1
<1>6. (CHOOSE o \in found : TRUE) \in found
  BY <1>5
<1> QED
  BY <1>4, <1>5, <1>6

(* A change leaves a cluster.                                               *)
LEMMA ApplyIs ==
    ASSUME NEW w, IsWorld(w), NEW change, IsChange(change)
    PROVE  IsWorld(Apply(w, change))
<1> DEFINE old == Stored(w, change.kind, change.key)
           new == Stamp(old, change.kind, change.new)
           f == Field(change.kind)
           after == Apply(w, change)
           Sets == {"routes", "policies"}
           Functions == {"gateways", "listenerSets", "namespaces", "slices"}
<1>1. PICK x : after = [w EXCEPT ![f] = x]
               /\ (f \in Sets => x = (w[f] \ Range(old)) \cup Range(new))
               /\ (f \in Functions /\ new = <<>> => x = [k \in DOMAIN w[f] \ {change.key} |-> w[f][k]])
               /\ (f \in Functions /\ new # <<>> =>
                      x = [k \in DOMAIN w[f] \cup {change.key} |-> IF k = change.key THEN new[1] ELSE w[f][k]])
  <2> DEFINE x == IF KeptInSet(change.kind) THEN (w[f] \ Range(old)) \cup Range(new)
                  ELSE IF new = <<>> THEN [k \in DOMAIN w[f] \ {change.key} |-> w[f][k]]
                  ELSE [k \in DOMAIN w[f] \cup {change.key} |-> IF k = change.key THEN new[1] ELSE w[f][k]]
  <2>1. after = [w EXCEPT ![f] = x]
    BY Zenon DEF Apply, ApplyOver, Replace
  <2>2. (f \in Sets => KeptInSet(change.kind)) /\ (f \in Functions => ~KeptInSet(change.kind))
    BY DEF KeptInSet
  <2> HIDE DEF f, old, new, after, Sets, Functions
  <2>3. /\ f \in Sets => x = (w[f] \ Range(old)) \cup Range(new)
        /\ f \in Functions /\ new = <<>> => x = [k \in DOMAIN w[f] \ {change.key} |-> w[f][k]]
        /\ f \in Functions /\ new # <<>> =>
              x = [k \in DOMAIN w[f] \cup {change.key} |-> IF k = change.key THEN new[1] ELSE w[f][k]]
    BY <2>2
  <2> HIDE DEF x
  <2> QED
    BY <2>1, <2>3
<1>2. /\ Sets \cup Functions \subseteq DOMAIN after
      /\ \A g \in Sets \cup Functions : after[g] = IF g = f THEN x ELSE w[g]
  <2>1. Sets \cup Functions \subseteq DOMAIN w
    BY DEF IsWorld
  <2> HIDE DEF f, after, Sets, Functions
  <2> QED
    BY <1>1, <2>1
<1>3. IsFiniteSet(w.routes)
  BY DEF IsWorld
<1>4. CASE change.new = <<>>
  <2>1. new = <<>> /\ Range(new) = {}
    BY <1>4 DEF Stamp, Range
  <2> HIDE DEF f, after, new, old
  <2>2. after.routes \subseteq w.routes /\ after.policies \subseteq w.policies
    BY <1>1, <1>2, <2>1
  <2>3. ASSUME NEW g \in Functions, NEW k \in DOMAIN after[g]
        PROVE  k \in DOMAIN w[g] /\ after[g][k] = w[g][k]
    <3> HIDE DEF Sets, Functions
    <3> QED
      BY <1>1, <1>2, <2>1, <2>3
  <2>4. IsFiniteSet(after.routes)
    BY <1>3, <2>2, FS_Subset
  <2>5. \A k \in DOMAIN after.namespaces : Owns(after.namespaces[k])
    BY <2>3 DEF IsWorld
  <2>6. \A g \in {"gateways", "listenerSets"} : \A k \in DOMAIN after[g] : Listens(after[g][k])
    BY <2>3 DEF IsWorld
  <2>7. \A k \in DOMAIN after.slices : Sliced(after.slices[k])
    BY <2>3 DEF IsWorld
  <2>8. IsWorld(after)
    BY <1>2, <2>2, <2>4, <2>5, <2>6, <2>7 DEF IsWorld
  <2> QED
    BY <2>8 DEF after
<1>5. CASE change.new # <<>>
  <2> DEFINE c == change.new[1]
             s == IF Counted(change.kind) THEN [c EXCEPT !.gen = IF old = <<>> THEN 1 ELSE old[1].gen + 1] ELSE c
  <2>1. /\ f = "routes" => IsRoute(c) /\ Key(c) = change.key
        /\ f \in {"gateways", "listenerSets"} => Listens(c)
        /\ f = "policies" => IsPolicy(c) /\ change.key = <<c.ns, c.name>>
        /\ f = "namespaces" => Owns(c)
        /\ f = "slices" => Sliced(c)
        /\ change.new = <<c>>
    BY <1>5 DEF IsChange
  <2>2. new = <<s>>
    BY <1>5, <2>1, Zenon DEF Stamp
  <2>3. DOMAIN s = DOMAIN c /\ \A field \in DOMAIN c \ {"gen"} : s[field] = c[field]
    <3> HIDE DEF c
    <3> QED
      OBVIOUS
  <2>s. f = "slices" => s = c
    BY DEF Counted
  <2> HIDE DEF c, s
  <2>4. IsRoute(c) => IsRoute(s) /\ Key(s) = Key(c)
    <3>1. ASSUME IsRoute(c)
          PROVE  /\ s.kind = c.kind /\ s.ns = c.ns /\ s.name = c.name /\ s.created = c.created /\ s.parents = c.parents
                 /\ s.hostnames = c.hostnames /\ s.rules = c.rules
      BY <2>3, <3>1 DEF IsRoute
    <3> QED
      BY Zenon, <2>3, <3>1 DEF IsRoute, Key
  <2>5. Listens(c) => Listens(s)
    BY <2>3 DEF Listens
  <2>6. IsPolicy(c) => IsPolicy(s) /\ s.ns = c.ns /\ s.name = c.name
    BY <2>3 DEF IsPolicy
  <2>7. Owns(c) => Owns(s)
    BY <2>3 DEF Owns
  <2> DEFINE Named(o) == IF f = "routes" THEN Key(o) ELSE <<o.ns, o.name>>
  <2>8. f \in Sets => \A o \in w[f] : Named(o) = change.key => o \in Range(old)
    <3> DEFINE found == {o \in w[f] : Named(o) = change.key}
    <3>1. f \in Sets => old = IF found = {} THEN <<>> ELSE <<CHOOSE o \in found : TRUE>>
      BY DEF Stored, KeptInSet, ObjectKey
    <3>2. ASSUME f \in Sets, NEW o \in w[f], Named(o) = change.key
          PROVE  o \in Range(old)
      <4>1. found = {o}
        <5>1. \A p \in w[f] : Named(p) = Named(o) => p = o
          <6> HIDE DEF f
          <6> QED
            BY <3>2 DEF IsWorld
        <5> HIDE DEF Named
        <5> QED
          BY <3>2, <5>1
      <4>2. old = <<o>>
        BY <3>1, <3>2, <4>1
      <4> HIDE DEF old
      <4> QED
        BY <4>2 DEF Range
    <3> QED
      BY <3>2
  <2> HIDE DEF f, after, new, old
  <2>9. Range(new) = {s}
    BY <2>2 DEF Range
  <2>10. f \in Sets => Named(s) = change.key
    BY <2>1, <2>4, <2>6
  <2>11. ASSUME NEW g \in Sets, NEW o \in after[g]
         PROVE  \/ o \in w[g] /\ (g = f => Named(o) # change.key)
                \/ g = f /\ o = s
    <3> HIDE DEF Named, Sets, Functions
    <3> QED
      BY <1>1, <1>2, <2>8, <2>9, <2>11
  <2>12. (\A r \in after.routes : IsRoute(r)) /\ (\A r, q \in after.routes : Key(r) = Key(q) => r = q)
    <3>1. \A r \in after.routes : (r \in w.routes /\ (f = "routes" => Key(r) # Key(s))) \/ (f = "routes" /\ r = s)
      BY <2>10, <2>11
    <3> QED
      BY Zenon, <2>1, <2>4, <3>1 DEF IsWorld
  <2>13. (\A p \in after.policies : IsPolicy(p))
         /\ (\A p, q \in after.policies : p.ns = q.ns /\ p.name = q.name => p = q)
    <3>1. \A p \in after.policies :
              (p \in w.policies /\ (f = "policies" => p.ns # s.ns \/ p.name # s.name)) \/ (f = "policies" /\ p = s)
      BY <2>10, <2>11
    <3> QED
      BY Zenon, <2>1, <2>6, <3>1 DEF IsWorld
  <2>14. IsFiniteSet(after.routes)
    <3>1. IsFiniteSet(w.routes \cup {s})
      BY <1>3, FS_AddElement
    <3>2. after.routes \subseteq w.routes \cup {s}
      BY <2>11
    <3> QED
      BY <3>1, <3>2, FS_Subset
  <2>15. ASSUME NEW g \in Functions, NEW k \in DOMAIN after[g]
         PROVE  (k \in DOMAIN w[g] /\ after[g][k] = w[g][k]) \/ (g = f /\ after[g][k] = s)
    <3> HIDE DEF Sets, Functions
    <3>1. CASE g = f
      <4>1. after[g] = [j \in DOMAIN w[f] \cup {change.key} |-> IF j = change.key THEN s ELSE w[f][j]]
        BY <1>1, <1>2, <2>2, <3>1
      <4> QED
        BY <2>15, <3>1, <4>1
    <3>2. CASE g # f
      BY <1>2, <2>15, <3>2
    <3> QED
      BY <3>1, <3>2
  <2>16. \A g \in {"gateways", "listenerSets"} : \A k \in DOMAIN after[g] : Listens(after[g][k])
    BY <2>1, <2>5, <2>15 DEF IsWorld
  <2>17. \A k \in DOMAIN after.namespaces : Owns(after.namespaces[k])
    BY <2>1, <2>7, <2>15 DEF IsWorld
  <2>18. \A k \in DOMAIN after.slices : Sliced(after.slices[k])
    BY <2>1, <2>s, <2>15 DEF IsWorld
  <2>19. IsWorld(after)
    BY <1>2, <2>12, <2>13, <2>14, <2>16, <2>17, <2>18 DEF IsWorld
  <2> QED
    BY <2>19 DEF after
<1> QED
  BY <1>4, <1>5

-----------------------------------------------------------------------------
(* Which route wins                                                        *)

PlaceOf(n) == CHOOSE i \in DOMAIN Alphabet : Alphabet[i] = n

(* The lexical order is the order of the places.                            *)
LEMMA LexicalIs ==
    /\ \A n \in Range(Alphabet) : PlaceOf(n) \in Nat /\ Alphabet[PlaceOf(n)] = n
    /\ \A m, n \in Range(Alphabet) : Lexical(m, n) <=> PlaceOf(m) < PlaceOf(n)
<1>1. ASSUME NEW n \in Range(Alphabet)
      PROVE  PlaceOf(n) \in DOMAIN Alphabet /\ Alphabet[PlaceOf(n)] = n
  BY DEF PlaceOf, Range
<1>2. DOMAIN Alphabet \subseteq Nat
  BY AlphabetAssumption
<1>3. ASSUME NEW m \in Range(Alphabet), NEW n \in Range(Alphabet)
      PROVE  Lexical(m, n) <=> PlaceOf(m) < PlaceOf(n)
  BY <1>1, AlphabetAssumption DEF Lexical
<1> QED
  BY <1>1, <1>2, <1>3

\* r is turned away for s.
LosesTo(r, s) ==
    \/ r.kind = "GRPCRoute" /\ s.kind = "HTTPRoute" /\ routeWins(s, r)
    \/ r.kind = "HTTPRoute" /\ s.kind = "GRPCRoute" /\ ~routeWins(r, s)

(* Among any routes, one no younger than a given one loses to none of them. *)
LEMMA SomeoneWins ==
    ASSUME NEW A, \A r \in A : IsRoute(r), NEW r \in A
    PROVE  \E x \in A : x.created <= r.created /\ \A y \in A : ~LosesTo(x, y)
<1> DEFINE C == {x.created : x \in A}
<1>1. PICK c \in C : \A n \in C : c <= n
  <2>1. C \subseteq Nat /\ C # {}
    BY DEF IsRoute
  <2> QED
    BY <2>1, LeastNatural
<1> DEFINE A1 == {x \in A : x.created = c}
           N == {PlaceOf(x.ns) : x \in A1}
<1>2. PICK p \in N : \A n \in N : p <= n
  <2>1. N \subseteq Nat /\ N # {}
    BY LexicalIs DEF IsRoute
  <2> HIDE DEF N
  <2> QED
    BY <2>1, LeastNatural
<1> DEFINE A2 == {x \in A1 : PlaceOf(x.ns) = p}
           M == {PlaceOf(x.name) : x \in A2}
<1>3. PICK q \in M : \A n \in M : q <= n
  <2>1. M \subseteq Nat /\ M # {}
    BY LexicalIs DEF IsRoute
  <2> HIDE DEF M
  <2> QED
    BY <2>1, LeastNatural
<1> DEFINE A3 == {x \in A2 : PlaceOf(x.name) = q}
<1>4. A3 # {}
  OBVIOUS
<1>5. PICK x \in A3 : x.kind = "GRPCRoute" \/ \A y \in A3 : y.kind # "GRPCRoute"
  BY <1>4
<1>6. x \in A /\ x.created = c /\ PlaceOf(x.ns) = p /\ PlaceOf(x.name) = q
  OBVIOUS
<1>7. ASSUME NEW y \in A
      PROVE  ~LosesTo(x, y)
  <2>1. /\ c \in Nat /\ y.created \in Nat /\ c <= y.created
        /\ p \in Nat /\ PlaceOf(y.ns) \in Nat /\ (y.created = c => p <= PlaceOf(y.ns))
        /\ q \in Nat /\ PlaceOf(y.name) \in Nat /\ (y.created = c /\ PlaceOf(y.ns) = p => q <= PlaceOf(y.name))
    <3>1. c \in Nat /\ y.created \in Nat /\ c <= y.created
      BY <1>1 DEF IsRoute
    <3>2. PlaceOf(y.ns) \in Nat /\ PlaceOf(y.name) \in Nat /\ p \in Nat /\ q \in Nat
      BY <1>6, LexicalIs DEF IsRoute
    <3>3. y.created = c => p <= PlaceOf(y.ns)
      BY <1>2
    <3>4. y.created = c /\ PlaceOf(y.ns) = p => q <= PlaceOf(y.name)
      BY <1>3
    <3> QED
      BY <3>1, <3>2, <3>3, <3>4
  <2>2. /\ Lexical(x.ns, y.ns) <=> p < PlaceOf(y.ns)
        /\ Lexical(y.ns, x.ns) <=> PlaceOf(y.ns) < p
        /\ Lexical(x.name, y.name) <=> q < PlaceOf(y.name)
        /\ Lexical(y.name, x.name) <=> PlaceOf(y.name) < q
        /\ x.ns = y.ns <=> p = PlaceOf(y.ns)
    BY <1>6, LexicalIs DEF IsRoute
  <2>3. y.created = c /\ PlaceOf(y.ns) = p /\ PlaceOf(y.name) = q => y \in A3
    OBVIOUS
  <2> HIDE DEF A3
  <2>4. ~routeWins(y, x)
    BY <1>6, <2>1, <2>2 DEF routeWins
  <2>5. ~(x.kind = "HTTPRoute" /\ y.kind = "GRPCRoute" /\ ~routeWins(x, y))
    BY <1>5, <1>6, <2>1, <2>2, <2>3 DEF routeWins
  <2> QED
    BY <2>4, <2>5 DEF LosesTo
<1>8. x.created <= r.created
  BY <1>1, <1>6
<1> QED
  BY <1>6, <1>7, <1>8

-----------------------------------------------------------------------------
(* The bindings of a sync                                                  *)

(* Both routes of a pair see each other's hostnames.                        *)
LEMMA IntersectsBack ==
    ASSUME NEW a, NEW b, hostnamesIntersect(a, b)
    PROVE  hostnamesIntersect(b, a)
<1>1. \A l, r : hostnameMatches(l, r) => hostnameMatches(r, l)
  BY Zenon DEF hostnameMatches
<1> QED
  BY Zenon, <1>1 DEF hostnamesIntersect

IsBinding(b) == {"accepted", "gateways", "results"} \subseteq DOMAIN b

(* What marking a loser leaves.                                             *)
LEMMA MarkIs ==
    ASSUME NEW b, IsBinding(b)
    PROVE  LET m == markBindingConflicted(b) IN IsBinding(m) /\ ~m.accepted /\ m.gateways = b.gateways
<1> DEFINE R == [i \in DOMAIN b.results |-> IF b.results[i] # <<>> /\ b.results[i][1].accepted
                     THEN <<[b.results[i][1] EXCEPT !.accepted = FALSE, !.reason = "Conflicted"]>> ELSE b.results[i]]
<1>1. markBindingConflicted(b) = [b EXCEPT !.accepted = FALSE, !.results = R]
  BY Zenon DEF markBindingConflicted
<1> HIDE DEF R
<1> QED
  BY <1>1 DEF IsBinding

\* Two routes of different kinds that meet are not both accepted, and whoever
\* is marked has an accepted route that is no younger.
SettledFrom(first, routes, final) ==
    /\ DOMAIN final = DOMAIN first
    /\ \A r, s \in routes :
          final[Key(r)].accepted /\ final[Key(s)].accepted /\ r.kind # s.kind
          /\ hostnamesIntersect(r.hostnames, s.hostnames) =>
              final[Key(r)].gateways \cap final[Key(s)].gateways = {}
    /\ \A k \in DOMAIN first : final[k] # first[k] =>
          \E s, r \in routes : final[Key(s)].accepted /\ Key(r) = k /\ s.created <= r.created

(* SettleConflicts settles them.                                            *)
LEMMA SettleIs ==
    ASSUME NEW routes, \A r \in routes : IsRoute(r), \A r, s \in routes : Key(r) = Key(s) => r = s,
           NEW first, DOMAIN first = {Key(r) : r \in routes}, \A k \in DOMAIN first : IsBinding(first[k])
    PROVE  SettledFrom(first, routes, SettleConflicts(first, routes))
<1> DEFINE A == {x \in routes : first[Key(x)].accepted}
           L == resolveCrossTypeConflicts(first, A)
           losers == {Key(r) : r \in L}
           final == SettleConflicts(first, routes)
<1>1. final = [k \in DOMAIN first |-> IF k \in losers THEN markBindingConflicted(first[k]) ELSE first[k]]
  BY Zenon DEF SettleConflicts, MarkLosers
<1>2. /\ L \subseteq A
      /\ \A x \in L : \E y \in A : LosesTo(x, y)
      /\ \A h, g \in A : h.kind = "HTTPRoute" /\ g.kind = "GRPCRoute" /\ Meet(first, h, g) => h \in L \/ g \in L
  <2> HIDE DEF A
  <2> QED
    BY Zenon DEF resolveCrossTypeConflicts, LosesTo
<1> HIDE DEF L, final
<1>3. ASSUME NEW r \in routes
      PROVE  /\ Key(r) \in DOMAIN first /\ final[Key(r)].gateways = first[Key(r)].gateways
             /\ final[Key(r)].accepted => r \in A /\ r \notin L
             /\ r \in A /\ r \notin L => final[Key(r)].accepted
  <2>1. Key(r) \in DOMAIN first /\ IsBinding(first[Key(r)])
    OBVIOUS
  <2>2. Key(r) \in losers <=> r \in L
    BY <1>2
  <2> HIDE DEF losers
  <2>3. CASE r \in L
    <3>1. final[Key(r)] = markBindingConflicted(first[Key(r)])
      BY <1>1, <2>1, <2>2, <2>3
    <3> QED
      BY Zenon, <2>1, <2>3, <3>1, MarkIs
  <2>4. CASE r \notin L
    <3>1. final[Key(r)] = first[Key(r)]
      BY <1>1, <2>1, <2>2, <2>4
    <3> QED
      BY <2>1, <2>4, <3>1
  <2> QED
    BY <2>3, <2>4
<1>4. ASSUME NEW h \in routes, NEW g \in routes, h.kind = "HTTPRoute", g.kind = "GRPCRoute",
             final[Key(h)].accepted, final[Key(g)].accepted, hostnamesIntersect(h.hostnames, g.hostnames)
      PROVE  final[Key(h)].gateways \cap final[Key(g)].gateways = {}
  <2>1. h \in A /\ g \in A /\ ~Meet(first, h, g)
    <3> HIDE DEF A
    <3> QED
      BY <1>2, <1>3, <1>4
  <2>2. first[Key(h)].gateways \cap first[Key(g)].gateways = {}
    BY Zenon, <1>4, <2>1 DEF Meet
  <2> QED
    BY <1>3, <2>2
<1>5. ASSUME NEW r \in routes, NEW s \in routes, final[Key(r)].accepted, final[Key(s)].accepted, r.kind # s.kind,
             hostnamesIntersect(r.hostnames, s.hostnames)
      PROVE  final[Key(r)].gateways \cap final[Key(s)].gateways = {}
  <2>1. \/ r.kind = "HTTPRoute" /\ s.kind = "GRPCRoute"
        \/ s.kind = "HTTPRoute" /\ r.kind = "GRPCRoute"
    BY <1>5 DEF IsRoute, Kinds
  <2>2. hostnamesIntersect(s.hostnames, r.hostnames)
    BY <1>5, IntersectsBack
  <2> QED
    BY <1>4, <1>5, <2>1, <2>2
<1>6. ASSUME NEW k \in DOMAIN first, final[k] # first[k]
      PROVE  \E s, r \in routes : final[Key(s)].accepted /\ Key(r) = k /\ s.created <= r.created
  <2>1. k \in losers
    <3> HIDE DEF losers
    <3> QED
      BY <1>1, <1>6
  <2>2. PICK r \in L : Key(r) = k
    BY <2>1
  <2>3. r \in A /\ \A x \in A : IsRoute(x)
    BY <1>2
  <2>4. PICK x \in A : x.created <= r.created /\ \A y \in A : ~LosesTo(x, y)
    <3> HIDE DEF A
    <3> QED
      BY <2>3, SomeoneWins
  <2>5. x \notin L /\ x \in routes
    BY <1>2, <2>4
  <2>6. final[Key(x)].accepted
    BY <1>3, <2>5
  <2> QED
    BY <2>2, <2>3, <2>4, <2>5, <2>6
<1>7. DOMAIN final = DOMAIN first
  BY <1>1
<1> QED
  BY Zenon, <1>5, <1>6, <1>7 DEF SettledFrom, final

\* A result that no conflict between route types has touched.
Unsettled(b) == b = Bound(b.accepted, b.reason, b.matched) /\ b.reason # "Conflicted"

LEMMA UnsettledIs ==
    ASSUME NEW a, NEW reason, reason # "Conflicted", NEW m
    PROVE  Unsettled(Bound(a, reason, m))
  BY DEF Unsettled, Bound

LEMMA MatchingIs ==
    ASSUME NEW w, NEW listeners, listeners \in Seq(Range(listeners)), NEW ns, NEW route, NEW ref
    PROVE  Unsettled(findMatchingEntries(w, listeners, ns, route, ref))
<1> DEFINE asked == AskedFor(listeners, ref)
           verdicts == Verdicts(w, listeners, asked, ns, route)
           matched == {listeners[i].name : i \in {j \in DOMAIN verdicts : verdicts[j] = "Accepted"}}
           result == findMatchingEntries(w, listeners, ns, route, ref)
<1>1. result = IF \E i \in DOMAIN verdicts : verdicts[i] = "error" THEN Bound(FALSE, "error", {})
               ELSE IF matched # {} THEN Bound(TRUE, "Accepted", matched)
               ELSE IF ref.section # <<>> \/ ref.port # <<>> \/ listeners = <<>> THEN Bound(FALSE, "NoMatchingParent", {})
               ELSE Bound(FALSE, verdicts[Len(listeners)], {})
  BY Zenon DEF findMatchingEntries, SumUp
<1>2. ref.section = <<>> /\ ref.port = <<>> /\ listeners # <<>> => Len(listeners) \in asked
  <2>1. listeners # <<>> => Len(listeners) \in DOMAIN listeners
    OBVIOUS
  <2> QED
    BY Zenon, <2>1 DEF AskedFor
<1>3. \A l : evaluateListenerBinding(w, l, ns, route) # "Conflicted"
  BY DEF evaluateListenerBinding
<1>4. \A i \in asked : verdicts[i] # "Conflicted"
  <2> HIDE DEF asked
  <2> QED
    BY Zenon, <1>3 DEF Verdicts
<1>5. "error" # "Conflicted" /\ "Accepted" # "Conflicted" /\ "NoMatchingParent" # "Conflicted"
  OBVIOUS
<1> HIDE DEF asked, verdicts, result, matched
<1> QED
  BY Zenon, <1>1, <1>2, <1>4, <1>5, UnsettledIs DEF result

IsParentBinding(b) ==
    /\ b = [managed |-> b.managed, gateway |-> b.gateway, owner |-> b.owner, result |-> b.result]
    /\ Unsettled(b.result)

LEMMA ManagedIs ==
    /\ IsParentBinding(Unmanaged)
    /\ \A gateway, owner, result : Unsettled(result) => IsParentBinding(Managed(gateway, owner, result))
<1>1. IsParentBinding(Unmanaged)
  <2>1. Unsettled(Bound(FALSE, "", {}))
    BY UnsettledIs
  <2> QED
    BY <2>1 DEF IsParentBinding, Unmanaged
<1>2. ASSUME NEW gateway, NEW owner, NEW result, Unsettled(result)
      PROVE  IsParentBinding([managed |-> TRUE, gateway |-> gateway, owner |-> owner, result |-> result])
  BY <1>2 DEF IsParentBinding
<1> QED
  BY Zenon, <1>1, <1>2 DEF Managed

LEMMA CandidateIs ==
    ASSUME NEW w, IsWorld(w), NEW route, NEW ref
    PROVE  IsParentBinding(Candidate(w, route, ref))
<1> DEFINE key == RefKey(route, ref)
<1>1. Get(w, "Gateway", w.gateways, key) = "found" => w.gateways[key].listeners \in Seq(Range(w.gateways[key].listeners))
  <2> HIDE DEF key
  <2> QED
    BY DEF Get, IsWorld, Listens
<1>2. Get(w, "ListenerSet", w.listenerSets, key) = "found" =>
          w.listenerSets[key].listeners \in Seq(Range(w.listenerSets[key].listeners))
  <2> HIDE DEF key
  <2> QED
    BY DEF Get, IsWorld, Listens
<1>3. IsParentBinding(resolveGatewayParentBinding(w, route, ref))
  <2>1. Get(w, "Gateway", w.gateways, key) = "found" =>
            Unsettled(findMatchingEntries(w, w.gateways[key].listeners, key[1], route, ref))
    <3> HIDE DEF key
    <3> QED
      BY Zenon, <1>1, MatchingIs
  <2> QED
    BY Zenon, <2>1, ManagedIs DEF resolveGatewayParentBinding
<1>4. IsParentBinding(resolveListenerSetParentBinding(w, route, ref))
  <2>1. Get(w, "ListenerSet", w.listenerSets, key) = "found" =>
            Unsettled(findMatchingEntries(w, w.listenerSets[key].listeners, key[1], route, ref))
    <3> HIDE DEF key
    <3> QED
      BY Zenon, <1>2, MatchingIs
  <2>2. Unsettled(Bound(FALSE, "NoMatchingParent", {}))
    BY UnsettledIs
  <2> QED
    BY Zenon, <2>1, <2>2, ManagedIs DEF resolveListenerSetParentBinding
<1>5. Candidate(w, route, ref) \in {resolveGatewayParentBinding(w, route, ref), resolveListenerSetParentBinding(w, route, ref), Unmanaged}
  BY DEF Candidate
<1> QED
  BY Zenon, <1>3, <1>4, <1>5, ManagedIs

(* The conflicted listeners are taken out, and the hostnames that are not   *)
(* the namespace's refused.                                                 *)
LEMMA ParentBindingIs ==
    ASSUME NEW w, IsWorld(w), NEW st, NEW route, NEW ref, NEW denied
    PROVE  IsParentBinding(rejectIfHostnameNotOwned(resolveRouteParentBinding(w, st, route, ref), denied))
<1>1. ASSUME NEW b, IsParentBinding(b), NEW x, Unsettled(x)
      PROVE  IsParentBinding([b EXCEPT !.result = x])
  BY <1>1 DEF IsParentBinding
<1>2. ASSUME NEW view, NEW owner, NEW result, Unsettled(result)
      PROVE  Unsettled(filterMatchedListenersByConflict(view, owner, result))
  <2> DEFINE kept == {n \in result.matched : conflictReason(view, owner, n) = ""}
  <2>1. Unsettled([result EXCEPT !.matched = kept])
    <3> HIDE DEF kept
    <3> QED
      BY <1>2 DEF Unsettled, Bound
  <2>2. Unsettled(Bound(FALSE, "NoMatchingParent", {}))
    BY UnsettledIs
  <2> QED
    BY Zenon, <1>2, <2>1, <2>2 DEF filterMatchedListenersByConflict
<1> DEFINE c == Candidate(w, route, ref)
           b == resolveRouteParentBinding(w, st, route, ref)
<1>3. IsParentBinding(c)
  BY CandidateIs
<1>4. IsParentBinding(b)
  <2>1. Unsettled(c.result)
    BY <1>3, Zenon DEF IsParentBinding
  <2>2. b = IF ~c.managed THEN c ELSE [c EXCEPT !.result = filterMatchedListenersByConflict(View(w, st, c.gateway), c.owner, c.result)]
    BY Zenon DEF resolveRouteParentBinding, WithoutConflicted
  <2> HIDE DEF c, b
  <2> QED
    BY Zenon, <1>1, <1>2, <1>3, <2>1, <2>2
<1>5. Unsettled(Bound(FALSE, "HostnameNotPermitted", {}))
  BY UnsettledIs
<1> HIDE DEF b
<1> QED
  BY Zenon, <1>1, <1>4, <1>5 DEF rejectIfHostnameNotOwned, b

(* The bindings before the conflicts are settled.                           *)
LEMMA BindingIs ==
    ASSUME NEW w, IsWorld(w), NEW st, NEW route
    PROVE  LET b == bindRouteParents(w, st, route)
           IN  /\ IsBinding(b)
               /\ \A i \in DOMAIN b.results : b.results[i] = <<>> \/ \E x : b.results[i] = <<x>> /\ Unsettled(x)
<1> DEFINE bound == [i \in DOMAIN route.parents |->
                        rejectIfHostnameNotOwned(resolveRouteParentBinding(w, st, route, route.parents[i]),
                                                 ~evaluateHostnameOwnership(w, route))]
           b == bindRouteParents(w, st, route)
<1>1. \A i \in DOMAIN bound : Unsettled(bound[i].result)
  BY ParentBindingIs, Zenon DEF IsParentBinding
<1>2. b = BindingOf(bound)
  BY Zenon DEF bindRouteParents
<1> HIDE DEF bound
<1>3. IsBinding(b) /\ b.results = [i \in DOMAIN bound |-> IF bound[i].managed THEN <<bound[i].result>> ELSE <<>>]
  BY <1>2 DEF BindingOf, IsBinding
<1> HIDE DEF b
<1> QED
  BY <1>1, <1>3 DEF b

\* Someone who was turned away for a route of the other kind.
TurnedAway(b) == \E res \in Range(b.results) : \E x \in Range(res) : x.reason = "Conflicted"

\* What CrossTypeExclusive says of a sync that goes on to serve the accepted routes.
Settled(routes, bindings, seen) ==
    /\ \A r, s \in routes :
          bindings[Key(r)].accepted /\ bindings[Key(s)].accepted /\ r.kind # s.kind
          /\ hostnamesIntersect(r.hostnames, s.hostnames) =>
              bindings[Key(r)].gateways \cap bindings[Key(s)].gateways = {}
    /\ \A k \in DOMAIN bindings : TurnedAway(bindings[k]) =>
          \E s \in routes : /\ bindings[Key(s)].accepted /\ s.kind \in Kinds
                            /\ \E v \in seen : \E r \in v.routes : Key(r) = k /\ s.created <= r.created

(* SyncAllRoutes settles the conflicts of the routes it has listed.         *)
LEMMA BindAllIs ==
    ASSUME NEW w, IsWorld(w), NEW st
    PROVE  Settled(w.routes, BindAll(w, st), {w})
<1> DEFINE routes == w.routes
           first == [k \in {Key(r) : r \in routes} |-> bindRouteParents(w, st, CHOOSE r \in routes : Key(r) = k)]
           final == BindAll(w, st)
<1>1. final = SettleConflicts(first, routes)
  BY Zenon DEF BindAll
<1>2. \A k \in DOMAIN first : first[k] = bindRouteParents(w, st, CHOOSE r \in routes : Key(r) = k)
  BY Zenon
<1>3. DOMAIN first = {Key(r) : r \in routes}
  OBVIOUS
<1>4. (\A r \in routes : IsRoute(r)) /\ (\A r, s \in routes : Key(r) = Key(s) => r = s)
  BY DEF IsWorld
<1> HIDE DEF first, final, routes
<1>5. ASSUME NEW k \in DOMAIN first
      PROVE  /\ IsBinding(first[k])
             /\ \A i \in DOMAIN first[k].results : first[k].results[i] = <<>> \/ \E x : first[k].results[i] = <<x>> /\ Unsettled(x)
  <2> DEFINE route == CHOOSE r \in routes : Key(r) = k
  <2>1. first[k] = bindRouteParents(w, st, route)
    BY Zenon, <1>2
  <2> HIDE DEF route
  <2> QED
    BY <2>1, BindingIs
<1>6. ASSUME NEW k \in DOMAIN first
      PROVE  ~TurnedAway(first[k])
  <2> DEFINE b == first[k]
  <2>1. \A i \in DOMAIN b.results : b.results[i] = <<>> \/ \E x : b.results[i] = <<x>> /\ Unsettled(x)
    BY Zenon, <1>5
  <2> HIDE DEF b
  <2>2. \A res \in Range(b.results) : res = <<>> \/ \E x : res = <<x>> /\ Unsettled(x)
    BY Zenon, <2>1 DEF Range
  <2>3. Range(<<>>) = {} /\ \A x : Range(<<x>>) = {x}
    BY DEF Range
  <2>4. ASSUME NEW res \in Range(b.results), NEW x \in Range(res)
        PROVE  x.reason # "Conflicted"
    <3>1. res # <<>>
      BY <2>3, <2>4
    <3>2. PICK y : res = <<y>> /\ Unsettled(y)
      BY Zenon, <2>2, <3>1
    <3>3. x = y
      BY Zenon, <2>3, <2>4, <3>2
    <3> QED
      BY Zenon, <3>2, <3>3 DEF Unsettled
  <2> QED
    BY Zenon, <2>4 DEF TurnedAway, b
<1>7. SettledFrom(first, routes, final)
  <2>1. \A k \in DOMAIN first : IsBinding(first[k])
    BY Zenon, <1>5
  <2>2. SettledFrom(first, routes, SettleConflicts(first, routes))
    BY <1>3, <1>4, <2>1, SettleIs
  <2> QED
    BY <1>1, <2>2
<1>8. ASSUME NEW k \in DOMAIN final, TurnedAway(final[k])
      PROVE  \E s \in routes : /\ final[Key(s)].accepted /\ s.kind \in Kinds
                               /\ \E v \in {w} : \E r \in v.routes : Key(r) = k /\ s.created <= r.created
  <2>1. final[k] # first[k] /\ k \in DOMAIN first
    BY <1>6, <1>7, <1>8 DEF SettledFrom
  <2>2. PICK s \in routes, r \in routes : final[Key(s)].accepted /\ Key(r) = k /\ s.created <= r.created
    BY Zenon, <1>7, <2>1 DEF SettledFrom
  <2>3. s.kind \in Kinds
    BY <1>4 DEF IsRoute
  <2> QED
    BY Zenon, <2>2, <2>3 DEF routes
<1> QED
  BY Zenon, <1>7, <1>8 DEF Settled, SettledFrom, routes, final

(* A sync that has seen more is settled still.                              *)
LEMMA SettledGrows ==
    ASSUME NEW routes, NEW bindings, NEW seen, NEW more, seen \subseteq more, Settled(routes, bindings, seen)
    PROVE  Settled(routes, bindings, more)
  BY Zenon DEF Settled
=============================================================================
