---------------------------- MODULE IngressRules ----------------------------
(***************************************************************************)
(* The Cloudflare ingress document of a tunnel as a value: how the rules   *)
(* are built from the routes' entries (internal/ingress/generic_builder.go *)
(* and builder.go), merged and sorted (route_syncer.go), and diffed        *)
(* against the deployed document (internal/ingress/diff.go).               *)
(*                                                                         *)
(* Abstractions.  A hostname is a natural number whose order is the        *)
(* alphabetical one; NoHost is the absent hostname of a document rule and  *)
(* AnyHost the "*" of a route entry.  A path is a sequence of segments;    *)
(* its length stands for the string's length, <<>> for "" and "/", and     *)
(* the trailing Star for the "*" that a prefix match gets.  sort.Slice is  *)
(* an insertion sort, hence stable, up to 12 entries.                      *)
(***************************************************************************)
EXTENDS Lists

CONSTANTS Hosts, Services

NoHost == 0
AnyHost == 0
Star == 0
NotFound == "http_status:404"

ASSUME IngressAssumption == Hosts \subseteq Nat \ {NoHost} /\ NotFound \notin Services

\* routeEntry; prio is 1 for an exact match and 0 for a prefix match.
Entry == [host : Hosts \cup {AnyHost}, path : Seq(Nat \ {Star}), service : Services, prio : {0, 1}]
Rule == [host : Hosts \cup {NoHost}, path : Seq(Nat), service : Services \cup {NotFound}]

CatchAll == [host |-> NoHost, path |-> <<>>, service |-> NotFound]
IsCatchAll(r) == r.host = NoHost /\ r.service = NotFound
Real(r) == ~IsCatchAll(r)

-----------------------------------------------------------------------------
(* Filtering and sorting                                                   *)

\* The elements of s that are in S, in their order.
Where(s, S) ==
    LET kept[n \in 0..Len(s)] ==
            IF n = 0 THEN <<>>
            ELSE kept[n - 1] \o (IF s[n] \in S THEN <<s[n]>> ELSE <<>>)
    IN  kept[Len(s)]

Insert(s, p, x) == SubSeq(s, 1, p - 1) \o <<x>> \o SubSeq(s, p, Len(s))

\* Where x goes in a sorted sequence: it moves to the front as long as it is
\* less than the element before it.
Place(sorted, x, less) ==
    CHOOSE p \in 1..(Len(sorted) + 1) :
        /\ \A k \in p..Len(sorted) : <<x, sorted[k]>> \in less
        /\ p > 1 => <<x, sorted[p - 1]>> \notin less

\* Insertion sort; less holds the pairs <<a, b>> with a less than b.
StableSort(s, less) ==
    LET sorted[n \in 0..Len(s)] ==
            IF n = 0 THEN <<>>
            ELSE Insert(sorted[n - 1], Place(sorted[n - 1], s[n], less), s[n])
    IN  sorted[Len(s)]

\* Alphabetical order of paths of one length.
PathBefore(p, q) ==
    \E i \in DOMAIN p : p[i] < q[i] /\ \A j \in 1..(i - 1) : p[j] = q[j]

EntryBefore(a, b) ==
    \/ a.host # AnyHost /\ b.host = AnyHost
    \/ a.host # AnyHost /\ a.host < b.host
    \/ /\ a.host = b.host
       /\ \/ a.prio > b.prio
          \/ a.prio = b.prio /\ Len(a.path) > Len(b.path)
          \/ a.prio = b.prio /\ Len(a.path) = Len(b.path) /\ PathBefore(a.path, b.path)

SortRouteEntries(entries) ==
    StableSort(entries, {e \in Range(entries) \X Range(entries) : EntryBefore(e[1], e[2])})

\* Rules with a hostname first, by hostname, longer paths first.
RuleBefore(a, b) ==
    \/ a.host # NoHost /\ b.host = NoHost
    \/ a.host # NoHost /\ a.host < b.host
    \/ a.host = b.host /\ Len(a.path) > Len(b.path)

SortIngressRules(rules) ==
    StableSort(rules, {r \in Range(rules) \X Range(rules) : RuleBefore(r[1], r[2])})

-----------------------------------------------------------------------------
(* Building                                                                *)

\* A prefix match gets a trailing "*".
RuleOf(e) ==
    [host |-> e.host, service |-> e.service,
     path |-> IF e.path # <<>> /\ e.prio = 0 THEN Append(e.path, Star) ELSE e.path]

\* "*" entries are left to the proxy.
EntriesToIngressRules(entries) ==
    LET served == Where(entries, {e \in Range(entries) : e.host # AnyHost})
    IN  [i \in DOMAIN served |-> RuleOf(served[i])]

\* The HTTP builder closes its rules with a catch-all, the GRPC one does not
\* (AddCatchAll); FilterOutCatchAll takes it off again.
Build(entries, addCatchAll) ==
    EntriesToIngressRules(SortRouteEntries(entries)) \o
    (IF addCatchAll THEN <<CatchAll>> ELSE <<>>)

RealRules(rules) == {r \in Range(rules) : Real(r)}
FilterOutCatchAll(rules) == Where(rules, RealRules(rules))

MergeAndSortRules(http, grpc) ==
    SortIngressRules(FilterOutCatchAll(http) \o FilterOutCatchAll(grpc))

-----------------------------------------------------------------------------
(* Diffing                                                                 *)

\* In desired and not in current; in current and not in desired.
ToAdd(current, desired) == Where(desired, RealRules(desired) \ RealRules(current))
ToRemove(current, desired) == Where(current, RealRules(current) \ RealRules(desired))

ApplyDiff(current, toAdd, toRemove) ==
    Where(current, RealRules(current) \ Range(toRemove)) \o toAdd

EnsureCatchAll(rules) == Append(FilterOutCatchAll(rules), CatchAll)

\* The document a sync would write over current.
FinalRules(current, desired) ==
    EnsureCatchAll(SortIngressRules(
        ApplyDiff(current, ToAdd(current, desired), ToRemove(current, desired))))

\* Order-sensitive, over the whole document.
RulesUnchanged(current, desired) == current = desired

-----------------------------------------------------------------------------
(* What a document has to be                                               *)

\* Exactly one catch-all, at the end (cloudflared refuses anything else).
Closed(doc) ==
    /\ doc # <<>>
    /\ \A i \in DOMAIN doc : IsCatchAll(doc[i]) <=> i = Len(doc)

\* No rule without a hostname before one with a hostname (error 1056), and
\* the rules of one hostname together, longer paths first.
Ordered(doc) ==
    \A i, j \in DOMAIN doc : i < j =>
        /\ doc[i].host = NoHost => doc[j].host = NoHost
        /\ doc[i].host # NoHost /\ doc[j].host # NoHost => doc[i].host <= doc[j].host
        /\ doc[i].host = doc[j].host /\ Real(doc[j]) => Len(doc[i].path) >= Len(doc[j].path)
=============================================================================
