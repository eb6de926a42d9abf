------------------------------- MODULE Router -------------------------------
(***************************************************************************)
(* The routing table that the proxy compiles from a pushed configuration   *)
(* (router.go, matcher.go), the rule it routes a request to, and the       *)
(* shadowed matches that the controller reports for the same rules         *)
(* (shadow.go).  Handler.tla puts it to work.                              *)
(*                                                                         *)
(* Abstractions.  A hostname is a sequence of labels and a wildcard one    *)
(* the labels behind the "*"; a label and its upper-case form are told     *)
(* apart by LowerOf.  A path is a sequence of the characters "/" and       *)
(* letters, without "." segments.  What a regular expression matches is    *)
(* Language; a pattern outside its domain does not compile.  Weighted      *)
(* random choice takes the drawn number as an argument.                    *)
(***************************************************************************)
EXTENDS RulePriority, Lists, TLC

CONSTANTS LowerOf,   \* [Labels and header names -> their lower-case form]
          Language   \* [patterns that compile -> the strings they match]

None == "None"
NoPath == <<>>
AnyHost == [wild |-> FALSE, labels |-> <<>>]   \* the bucket of rules without hostnames

-----------------------------------------------------------------------------
(* The shape of a configuration and of a request                           *)

IsSeq(s) == s \in Seq(Range(s))

IsHostname(n) ==
    /\ n = [wild |-> n.wild, labels |-> n.labels]
    /\ n.wild \in BOOLEAN /\ n.labels \in Seq(STRING) /\ n.labels # <<>>

PathTypes == {"Exact", "PathPrefix", "RegularExpression"}

\* A match without a path match has the path type None.
IsMatch(m) ==
    /\ m = [path |-> m.path, method |-> m.method, headers |-> m.headers, query |-> m.query]
    /\ m.path.type \in PathTypes \cup {None} /\ (m.path.type # None => IsSeq(m.path.value))
    /\ IsSeq(m.headers) /\ IsSeq(m.query)
    /\ \A h \in Range(m.headers) : h = [name |-> h.name, type |-> h.type, value |-> h.value]

IsRule(rule) ==
    /\ IsSeq(rule.hostnames) /\ \A n \in Range(rule.hostnames) : IsHostname(n)
    /\ IsSeq(rule.matches) /\ \A m \in Range(rule.matches) : IsMatch(m)
    /\ IsSeq(rule.backends) /\ \A b \in Range(rule.backends) : b.weight \in Int

IsConfig(rules) == IsSeq(rules) /\ \A i \in DOMAIN rules : IsRule(rules[i])

-----------------------------------------------------------------------------
(* Paths                                                                   *)

\* Non-empty segments of a path.
Segments(p) ==
    LET Step(acc, c) == IF c = "/" THEN Append(acc, <<>>)
                                   ELSE [acc EXCEPT ![Len(acc)] = Append(@, c)]
    IN  SelectSeq(FoldLeft(Step, << <<>> >>, p), LAMBDA s : s # <<>>)

\* path.Clean of a rooted path without "." segments.
Clean(p) ==
    LET segs == Segments(p)
    IN  IF segs = <<>> THEN <<"/">> ELSE FoldLeft(LAMBDA acc, s : acc \o <<"/">> \o s, <<>>, segs)

EndsInSlash(p) == p # <<>> /\ p[Len(p)] = "/"

PrefixMatches(prefix, path) ==
    /\ IsPrefix(prefix, path)
    /\ \/ Len(path) = Len(prefix)
       \/ EndsInSlash(prefix)
       \/ path[Len(prefix) + 1] = "/"

-----------------------------------------------------------------------------
(* Matching one request against one match                                  *)

PathOK(pm, path) ==
    CASE pm.type = "Exact" -> path = pm.value
      [] pm.type = "PathPrefix" -> PrefixMatches(pm.value, path)
      [] pm.type = "RegularExpression" -> path \in Language[pm.value]

\* A header or a query parameter: some value of that name satisfies it.
ValueOK(vm, values) ==
    \E v \in Range(values) : IF vm.type = "Exact" THEN v = vm.value ELSE v \in Language[vm.value]

\* Headers and parameters map a name to the sequence of its values.
ValuesOf(f, name) == IF name \in DOMAIN f THEN f[name] ELSE <<>>

\* CompiledMatch.Match; header names are looked up without their case.
Matches(m, req) ==
    /\ m.path.type # None => PathOK(m.path, req.path)
    /\ m.method # None => req.method = m.method
    /\ \A i \in DOMAIN m.headers :
          ValueOK(m.headers[i], ValuesOf(req.headers, LowerOf[m.headers[i].name]))
    /\ \A i \in DOMAIN m.query : ValueOK(m.query[i], ValuesOf(req.query, m.query[i].name))

\* CompileMatch fails on a regular expression that does not compile.
Compiles(m) ==
    /\ m.path.type # None /\ m.path.type = "RegularExpression" => m.path.value \in DOMAIN Language
    /\ \A vm \in Range(m.headers) \cup Range(m.query) :
          vm.type = "RegularExpression" => vm.value \in DOMAIN Language

\* The first match that fires; 1 for a rule without matches, 0 for none.
findMatchingIndex(rule, req) ==
    IF rule.matches = <<>> THEN 1 ELSE SelectInSeq(rule.matches, LAMBDA m : Matches(m, req))

getMatchedPathPrefix(rule, i) ==
    IF /\ i \in DOMAIN rule.matches
       /\ rule.matches[i].path.type = "PathPrefix"
    THEN rule.matches[i].path.value ELSE NoPath

-----------------------------------------------------------------------------
(* Precedence and the routing table                                        *)

PathTypeScore(type) ==
    CASE type = "Exact" -> priorityExactPath
      [] type = "PathPrefix" -> priorityPrefixPath
      [] type = "RegularExpression" -> priorityRegexPath

\* Each figure is maximised over the matches independently, the path length
\* among the matches of the best path type.
FiguresOf(rule) ==
    LET pathed == {m \in Range(rule.matches) : m.path.type # None}
        type   == Max({0} \cup {PathTypeScore(m.path.type) : m \in pathed})
    IN  [type    |-> type,
         len     |-> Max({0} \cup {Len(m.path.value) :
                                       m \in {x \in pathed : PathTypeScore(x.path.type) = type}}),
         method  |-> \E m \in Range(rule.matches) : m.method # None,
         headers |-> Max({0} \cup {Len(m.headers) : m \in Range(rule.matches)}),
         query   |-> Max({0} \cup {Len(m.query) : m \in Range(rule.matches)})]

computePriority(rule) == Score(FiguresOf(rule))

\* Mutant: among equals the later rule is served first.
Before_LastWins(rules, i, j) ==
    LET p == computePriority(rules[i])  q == computePriority(rules[j])
    IN  p > q \/ (p = q /\ i > j)

\* Rule i of priority p before rule j of priority q.
Precedes(p, i, q, j) == p > q \/ (p = q /\ i < j)

\* The order of sortRulesByPrecedence on the indices of a configuration.
Before(rules, i, j) == Precedes(computePriority(rules[i]), i, computePriority(rules[j]), j)

Lower(name) == [wild |-> name.wild, labels |-> [i \in DOMAIN name.labels |-> LowerOf[name.labels[i]]]]

\* The configured hostnames of a kind, in lower case, and the rules of one.
Names(rules, wild) ==
    {Lower(n) : n \in {x \in UNION {Range(rules[i].hostnames) : i \in DOMAIN rules} : x.wild = wild}}

sortRulesByPrecedence(rules, indices) ==
    SetToSortSeq(indices, LAMBDA i, j : Before(rules, i, j))

Bucket(rules, name) ==
    sortRulesByPrecedence(rules, {i \in DOMAIN rules : \E n \in Range(rules[i].hostnames) : Lower(n) = name})

\* The wildcard entries, longest suffix first; Go's map order decides among
\* suffixes of one length.
WildcardOrders(rules) ==
    {s \in SetToSeqs(Names(rules, TRUE)) :
        \A i, j \in DOMAIN s : i < j => Len(s[i].labels) >= Len(s[j].labels)}

\* compileRoutingTable; a rule that does not compile fails the whole table.
TableCompiles(rules) == \A i \in DOMAIN rules : \A m \in Range(rules[i].matches) : Compiles(m)

compileRoutingTable(rules, wildOrder) ==
    [exact    |-> [n \in Names(rules, FALSE) |-> Bucket(rules, n)],
     wildcard |-> [i \in DOMAIN wildOrder |-> [name |-> wildOrder[i], rules |-> Bucket(rules, wildOrder[i])]],
     default  |-> sortRulesByPrecedence(rules, {i \in DOMAIN rules : rules[i].hostnames = <<>>}),
     rules    |-> rules]

-----------------------------------------------------------------------------
(* Routing                                                                 *)

\* X-Original-Host before Host; the port is not part of a hostname here.
extractHost(req) ==
    LET original == ValuesOf(req.headers, "x-original-host")
    IN  Lower([wild |-> FALSE, labels |-> IF original # <<>> THEN Head(original) ELSE req.host])

matchesWildcard(host, name) ==
    IsSuffix(name.labels, host.labels) /\ Len(host.labels) > Len(name.labels)

NoResult == [rule |-> 0, match |-> 0, bucket |-> AnyHost]

\* The first of a list of results that is one.
FirstResult(results) ==
    LET k == SelectInSeq(results, LAMBDA r : r # NoResult)
    IN  IF k = 0 THEN NoResult ELSE results[k]

ResultOf(rule, match, bucket) ==
    IF match = 0 THEN NoResult ELSE [rule |-> rule, match |-> match, bucket |-> bucket]

\* The first rule of a sorted bucket that matches.
matchRules(table, indices, bucket, req) ==
    FirstResult([k \in DOMAIN indices |->
                    ResultOf(indices[k], findMatchingIndex(table.rules[indices[k]], req), bucket)])

\* Exact hostname, then wildcards in order, then the default rules; a bucket
\* in which no rule matches falls through to the next one.
RouteHost(table, host, req) ==
    LET exact == IF host \in DOMAIN table.exact
                 THEN matchRules(table, table.exact[host], host, req) ELSE NoResult
        wildcard == FirstResult([i \in DOMAIN table.wildcard |->
                        IF matchesWildcard(host, table.wildcard[i].name)
                        THEN matchRules(table, table.wildcard[i].rules, table.wildcard[i].name, req)
                        ELSE NoResult])
    IN  IF exact # NoResult THEN exact
        ELSE IF wildcard # NoResult THEN wildcard
        ELSE matchRules(table, table.default, AnyHost, req)

Route(table, req) == RouteHost(table, extractHost(req), req)

\* The sum of the first k weights.
Cumulative(backends) ==
    LET sum[k \in 0..Len(backends)] == IF k = 0 THEN 0 ELSE sum[k - 1] + backends[k].weight
    IN  sum

TotalWeight(backends) == Cumulative(backends)[Len(backends)]

\* Mutant: the walk stops one short of the weight.
selectBackend_OffByOne(backends, pick) ==
    IF TotalWeight(backends) <= 0 THEN 0
    ELSE Min({k \in DOMAIN backends : pick <= Cumulative(backends)[k]} \cup {Len(backends)})

\* selectBackend for the drawn number pick in 0..total-1; 0 for no backend.
selectBackend(backends, pick) ==
    IF TotalWeight(backends) <= 0 THEN 0
    ELSE Min({k \in DOMAIN backends : pick < Cumulative(backends)[k]} \cup {Len(backends)})

-----------------------------------------------------------------------------
(* Shadowed matches                                                        *)

CatchAll == [path |-> [type |-> "CatchAll"]]

lowerName(vm) == [vm EXCEPT !.name = LowerOf[@]]

\* canonicalMatchKey: equal for matches that differ in the order of their
\* headers and parameters or in the case of a header name.
canonicalMatchKey(m) ==
    [path |-> m.path, method |-> m.method, query |-> ToBag(m.query),
     headers |-> ToBag([i \in DOMAIN m.headers |-> lowerName(m.headers[i])])]

\* The (hostname, match) pairs a rule claims.
ruleShadowKeys(rule) ==
    [hostname : IF rule.hostnames = <<>> THEN {AnyHost} ELSE {Lower(n) : n \in Range(rule.hostnames)},
     match : IF rule.matches = <<>> THEN {CatchAll}
             ELSE {canonicalMatchKey(m) : m \in Range(rule.matches)}]

\* The claimant the router serves first.
ShadowWinner(rules, key) ==
    CHOOSE w \in DOMAIN rules :
        /\ key \in ruleShadowKeys(rules[w])
        /\ \A i \in DOMAIN rules \ {w} : key \in ruleShadowKeys(rules[i]) => Before(rules, w, i)

\* Mutant: the first claimant in the configuration is taken for the winner.
DetectShadowedRules_FirstClaim(rules) ==
    LET First(key) == Min({i \in DOMAIN rules : key \in ruleShadowKeys(rules[i])})
    IN  UNION {{[loser |-> i, key |-> k, winner |-> First(k)] :
                    k \in {x \in ruleShadowKeys(rules[i]) : rules[First(x)].route # rules[i].route}} :
               i \in DOMAIN rules}

\* One diagnostic per rule and claimed key whose winner is another route's.
DetectShadowedRules(rules) ==
    UNION {{[loser |-> i, key |-> k, winner |-> ShadowWinner(rules, k)] :
                k \in {x \in ruleShadowKeys(rules[i]) :
                           rules[ShadowWinner(rules, x)].route # rules[i].route}} :
           i \in DOMAIN rules}
=============================================================================
