----------------------------- MODULE Listeners -----------------------------
(***************************************************************************)
(* Listeners and what attaches to them: hostname, namespace and kind       *)
(* checks (internal/routebinding), the merge of a Gateway's listeners with *)
(* those of its ListenerSets (internal/listenermerge), and the store that  *)
(* keeps merged views across reconciles (listenerset_view.go).             *)
(*                                                                         *)
(* A hostname is the sequence of its labels, "*" first for a wildcard, and *)
(* <<>> when there is none.  A listener is a record with name, port,       *)
(* protocol, hostname, from (the allowedRoutes namespaces) and kinds ({}   *)
(* when the protocol decides).  A route's hostnames are a set.             *)
(***************************************************************************)
EXTENDS Converter

-----------------------------------------------------------------------------
(* Hostnames (routebinding/hostname.go)                                    *)

IsWildcard(h) == Len(h) > 1 /\ h[1] = "*"

\* A wildcard covers every depth below its suffix, and not the suffix itself.
matchesWildcard(wildcard, host) == Len(host) >= Len(wildcard) /\ IsSuffix(Tail(wildcard), host)

hostnameMatches(a, b) ==
    \/ a = b
    \/ IsWildcard(a) /\ IsWildcard(b) /\ (IsSuffix(Tail(a), Tail(b)) \/ IsSuffix(Tail(b), Tail(a)))
    \/ IsWildcard(a) /\ ~IsWildcard(b) /\ matchesWildcard(a, b)
    \/ IsWildcard(b) /\ ~IsWildcard(a) /\ matchesWildcard(b, a)

HostnamesIntersect(listenerHostname, hostnames) ==
    listenerHostname = <<>> \/ hostnames = {} \/ \E h \in hostnames : hostnameMatches(listenerHostname, h)

\* The narrower of the two, or {} when they do not meet.
HostnameIntersection(listenerHostname, h) ==
    IF listenerHostname = <<>> THEN {h}
    ELSE IF ~hostnameMatches(listenerHostname, h) THEN {}
    ELSE IF ~IsWildcard(h) \/ (IsWildcard(listenerHostname) /\ Len(h) > Len(listenerHostname)) THEN {h}
    ELSE {listenerHostname}

EffectiveListenerHostnames(listenerHostname, hostnames) ==
    IF hostnames = {} THEN {listenerHostname} \ {<<>>}
    ELSE UNION {HostnameIntersection(listenerHostname, h) : h \in hostnames}

-----------------------------------------------------------------------------
(* Namespaces and kinds (routebinding/namespace.go, kind.go).  A selector   *)
(* is known by the namespaces it selects; "BadSelector" does not parse.     *)

namespaceMatchesSelector(w, ns) ==
    ns \in DOMAIN w.namespaces /\ "Namespace" \notin w.broken /\ w.namespaces[ns].selected

\* "yes", "no" or "error".
IsNamespaceAllowed(w, from, parentNs, ns) ==
    CASE from = "All" -> "yes"
      [] from = "None" -> "no"
      [] from = "Selector" -> IF namespaceMatchesSelector(w, ns) THEN "yes" ELSE "no"
      [] from = "BadSelector" -> "error"
      [] OTHER -> IF parentNs = ns THEN "yes" ELSE "no"

getDefaultKindsForProtocol(protocol) ==
    CASE protocol = "TLS" -> {"TLSRoute"} [] protocol = "TCP" -> {"TCPRoute"} [] protocol = "UDP" -> {"UDPRoute"}
      [] OTHER -> {"HTTPRoute", "GRPCRoute"}

IsRouteKindAllowed(l, kind) ==
    kind \in IF l.kinds # {} THEN l.kinds ELSE getDefaultKindsForProtocol(l.protocol)

\* What the listener's status lists as supported.
FilterSupportedKinds(l) ==
    LET supported == (IF l.kinds # {} THEN l.kinds ELSE getDefaultKindsForProtocol(l.protocol))
                     \cap {"HTTPRoute", "GRPCRoute"}
    IN  [kinds |-> supported, hasValid |-> supported # {}, hasInvalid |-> l.kinds \ supported # {}]

-----------------------------------------------------------------------------
(* Binding a route to a sequence of listeners (routebinding/binding.go)     *)

Bound(accepted, reason, matched) == [accepted |-> accepted, reason |-> reason, matched |-> matched]

evaluateListenerBinding(w, l, parentNs, route) ==
    LET ns == IsNamespaceAllowed(w, l.from, parentNs, route.ns)
    IN  IF ~HostnamesIntersect(l.hostname, route.hostnames) THEN "NoMatchingListenerHostname"
        ELSE IF ns = "error" THEN "error"
        ELSE IF ns = "yes" /\ IsRouteKindAllowed(l, route.kind) THEN "Accepted" ELSE "NotAllowedByListeners"

\* The listeners a parentRef asks for, by position, their verdicts, and what
\* these amount to: a parentRef that asks for every listener is refused with
\* the verdict of the last.
AskedFor(listeners, ref) ==
    {i \in DOMAIN listeners : ref.section \in {<<>>, <<listeners[i].name>>} /\ ref.port \in {<<>>, <<listeners[i].port>>}}

Verdicts(w, listeners, asked, parentNs, route) ==
    [i \in asked |-> evaluateListenerBinding(w, listeners[i], parentNs, route)]

SumUp(listeners, verdicts, ref) ==
    LET matched == {listeners[i].name : i \in {j \in DOMAIN verdicts : verdicts[j] = "Accepted"}}
    IN  IF \E i \in DOMAIN verdicts : verdicts[i] = "error" THEN Bound(FALSE, "error", {})
        ELSE IF matched # {} THEN Bound(TRUE, "Accepted", matched)
        ELSE IF ref.section # <<>> \/ ref.port # <<>> \/ listeners = <<>> THEN Bound(FALSE, "NoMatchingParent", {})
        ELSE Bound(FALSE, verdicts[Len(listeners)], {})

\* ValidateBinding and ValidateBindingForListenerSet, which differ in where
\* the listeners come from: the names of the listeners that accept the route.
findMatchingEntries(w, listeners, parentNs, route, ref) ==
    SumUp(listeners, Verdicts(w, listeners, AskedFor(listeners, ref), parentNs, route), ref)

-----------------------------------------------------------------------------
(* ListenerSets of a Gateway (routebinding/listenerset.go,                  *)
(* listenerset_collect.go).  allowed is the allowedListeners namespaces.    *)

EvaluateListenerSetAcceptance(w, gateway, set) ==
    LET from == w.gateways[gateway].allowed
    IN  CASE from = "All" -> "yes"
          [] from = "Same" -> IF gateway[1] = set[1] THEN "yes" ELSE "no"
          [] from = "Selector" -> IF namespaceMatchesSelector(w, set[1]) THEN "yes" ELSE "no"
          [] from = "BadSelector" -> "error"
          [] OTHER -> "no"

\* listenerSetParentGateway and listenerSetTargetsGateway
ParentOf(w, set) == <<Default(w.listenerSets[set].parent.ns, set[1]), w.listenerSets[set].parent.name>>

listTargetingListenerSets(w, gateway) == {s \in DOMAIN w.listenerSets : ParentOf(w, s) = gateway}

-----------------------------------------------------------------------------
(* The merged view (listenermerge/merge.go)                                 *)

sortListenerSets(w, sets) ==
    SetToSortSeq(sets, LAMBDA s, t : Precedes([created |-> w.listenerSets[s].created, ns |-> s[1], name |-> s[2]],
                                              [created |-> w.listenerSets[t].created, ns |-> t[1], name |-> t[2]]))

\* In order of precedence; an entry that lost claims neither port nor hostname.
annotateConflicts(entries) ==
    LET Step(acc, e) ==
            LET above == {f \in Range(acc) : f.port = e.port /\ f.conflict = ""}
                reason == IF \E f \in above : f.protocol # e.protocol THEN "ProtocolConflict"
                          ELSE IF \E f \in above : f.hostname = e.hostname THEN "HostnameConflict" ELSE ""
            IN  Append(acc, [e EXCEPT !.conflict = reason])
    IN  FoldLeft(Step, <<>>, entries)

\* owner is <<>> for the Gateway's own listeners.
Merge(w, gateway, sets) ==
    LET Entries(owner, listeners) ==
            [i \in DOMAIN listeners |-> [owner |-> owner, name |-> listeners[i].name, port |-> listeners[i].port,
                 protocol |-> listeners[i].protocol, hostname |-> listeners[i].hostname, conflict |-> ""]]
        sorted == sortListenerSets(w, sets)
    IN  annotateConflicts(Entries(<<>>, w.gateways[gateway].listeners)
            \o FlattenSeq([i \in DOMAIN sorted |-> Entries(sorted[i], w.listenerSets[sorted[i]].listeners)]))

-----------------------------------------------------------------------------
(* The view store (listenerset_view.go).  A view is <<>> when it could not  *)
(* be built.                                                                *)

viewFromCandidates(w, gateway, candidates) ==
    IF \E s \in candidates : EvaluateListenerSetAcceptance(w, gateway, s) = "error" THEN <<>>
    ELSE LET accepted == {s \in candidates : EvaluateListenerSetAcceptance(w, gateway, s) = "yes"}
         IN  <<[sets |-> accepted, merged |-> Merge(w, gateway, accepted)]>>

\* Mutant: the fingerprint is the Gateway's generation alone.
mergeViewFingerprint_GatewayOnly(w, gateway, candidates) == <<w.gateways[gateway].gen, {}>>

mergeViewFingerprint(w, gateway, candidates) ==
    <<w.gateways[gateway].gen, {<<s, w.listenerSets[s].gen, w.listenerSets[s].created>> : s \in candidates}>>

gatewayUsesNamespaceSelector(w, gateway) == w.gateways[gateway].allowed \in {"Selector", "BadSelector"}

\* The store with a fresh view in it, unless there is none or it may not be
\* kept; a hit gives the stored view.
KeepView(store, gateway, keep, fp, fresh) ==
    IF keep /\ gateway \in DOMAIN store /\ store[gateway].fp = fp
    THEN [view |-> <<store[gateway].view>>, store |-> store]
    ELSE [view |-> fresh,
          store |-> IF keep /\ fresh # <<>> THEN (gateway :> [fp |-> fp, view |-> fresh[1]]) @@ store ELSE store]

\* mergeViewStore.resolve: what a caller gets, and the store it leaves.
ResolveFrom(w, store, gateway, candidates) ==
    IF "ListenerSet" \in w.broken THEN [view |-> <<>>, store |-> store]
    ELSE KeepView(store, gateway, ~gatewayUsesNamespaceSelector(w, gateway),
                  mergeViewFingerprint(w, gateway, candidates), viewFromCandidates(w, gateway, candidates))

Resolve(w, store, gateway) == ResolveFrom(w, store, gateway, listTargetingListenerSets(w, gateway))

\* The store after a pass that asked for the views of several Gateways.
ResolveAll(w, store, gateways) == FoldSet(LAMBDA g, s : Resolve(w, s, g).store, store, gateways)

forget(store, gateway) == [g \in DOMAIN store \ {gateway} |-> store[g]]

\* findMergedEntry, findMergedGatewayEntry and the conflict reasons read from
\* them: "" when there is no view or no such entry.
conflictReason(view, owner, name) ==
    LET found == IF view = <<>> THEN <<>>
                 ELSE SelectSeq(view[1].merged, LAMBDA e : e.owner = owner /\ e.name = name)
    IN  IF found = <<>> THEN "" ELSE found[1].conflict
=============================================================================
