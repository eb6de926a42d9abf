---------------------------- MODULE RulePriority ----------------------------
(***************************************************************************)
(* The precedence score of a routing rule (internal/proxy/router.go): the  *)
(* number by which the router orders the rules of one hostname bucket and  *)
(* by which the shadow detector decides who wins a match.                  *)
(*                                                                         *)
(* A rule's matches are summarised by the five figures the score reads;    *)
(* Router.tla computes them from the matches.                              *)
(***************************************************************************)
EXTENDS Integers

priorityExactPath == 1000000000
priorityRegexPath == 500000000
priorityPrefixPath == 100000000
priorityPathLength == 10000
priorityMethod == 100
priorityPerHeader == 10
priorityPerQueryParam == 1

\* No path match scores 0.
PathTypeScores == {0, priorityPrefixPath, priorityRegexPath, priorityExactPath}

\* The figures of a rule: score of its best path type, longest path of that
\* type, whether some match names a method, most headers, most parameters.
Figures == [type : PathTypeScores, len : Nat, method : BOOLEAN, headers : Nat, query : Nat]

MethodWorth(f) == IF f.method THEN priorityMethod ELSE 0

Score(f) ==
    f.type + f.len * priorityPathLength + MethodWorth(f)
        + f.headers * priorityPerHeader + f.query * priorityPerQueryParam

-----------------------------------------------------------------------------
\* The figures for which the tiers are strict: paths as long as the Gateway
\* API admits, and fewer headers and parameters than one unit of the tier
\* above is worth.
MaxPathLength == 1024
MaxTierItems == 9
Bounded(f) ==
    /\ f \in Figures
    /\ f.len <= MaxPathLength /\ (f.type = 0 => f.len = 0)
    /\ f.headers <= MaxTierItems /\ f.query <= MaxTierItems

\* Gateway API order: path type, path length, method, headers, parameters.
Outranks(f, g) ==
    \/ f.type > g.type
    \/ f.type = g.type /\ f.len > g.len
    \/ f.type = g.type /\ f.len = g.len /\ f.method /\ ~g.method
    \/ f.type = g.type /\ f.len = g.len /\ f.method = g.method /\ f.headers > g.headers
    \/ /\ f.type = g.type /\ f.len = g.len /\ f.method = g.method /\ f.headers = g.headers
       /\ f.query > g.query
=============================================================================
