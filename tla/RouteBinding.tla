---------------------------- MODULE RouteBinding ----------------------------
(***************************************************************************)
(* Which routes a sync takes on and under which hostnames: the binding of  *)
(* each parentRef (route_parent_binding.go), the hostname-ownership policy *)
(* (internal/hostnameownership), the conflict between route types          *)
(* (route_crosstype.go), and the two passes that rewrite accepted routes   *)
(* before conversion (route_effective_hostnames.go,                        *)
(* route_redirect_scheme.go).                                              *)
(*                                                                         *)
(* A parentRef is a record with kind, ns, name, section and port, the last *)
(* two and ns optional.  store is the view store of Listeners.             *)
(***************************************************************************)
EXTENDS Listeners

Key(route) == <<route.kind, route.ns, route.name>>
RefKey(route, ref) == <<Default(ref.ns, route.ns), ref.name>>
View(w, store, gateway) == Resolve(w, store, gateway).view

-----------------------------------------------------------------------------
(* One parentRef.  A binding that is not managed is not this controller's  *)
(* business, whether the parent is missing, foreign or could not be read.  *)

Unmanaged == [managed |-> FALSE, gateway |-> <<>>, owner |-> <<>>, result |-> Bound(FALSE, "", {})]

\* A listener that could not be evaluated leaves the binding unmanaged.
Managed(gateway, owner, result) ==
    IF result.reason = "error" THEN Unmanaged
    ELSE [managed |-> TRUE, gateway |-> gateway, owner |-> owner, result |-> result]

resolveGatewayParentBinding(w, route, ref) ==
    LET gateway == RefKey(route, ref)
    IN  IF Get(w, "Gateway", w.gateways, gateway) # "found" \/ ~gatewayManagedByController(w, gateway) THEN Unmanaged
        ELSE Managed(gateway, <<>>, findMatchingEntries(w, w.gateways[gateway].listeners, gateway[1], route, ref))

resolveListenerSetParentBinding(w, route, ref) ==
    LET set == RefKey(route, ref)
        parent == ParentOf(w, set)
        allowed == EvaluateListenerSetAcceptance(w, parent, set)
    IN  IF \/ Get(w, "ListenerSet", w.listenerSets, set) # "found"
           \/ Get(w, "Gateway", w.gateways, parent) # "found"
           \/ ~gatewayManagedByController(w, parent)
           \/ allowed = "error" THEN Unmanaged
        ELSE IF allowed = "no" THEN Managed(parent, set, Bound(FALSE, "NoMatchingParent", {}))
        ELSE Managed(parent, set, findMatchingEntries(w, w.listenerSets[set].listeners, set[1], route, ref))

\* Before the conflicted listeners are taken out.
Candidate(w, route, ref) ==
    CASE ref.kind = "Gateway" -> resolveGatewayParentBinding(w, route, ref)
      [] ref.kind = "ListenerSet" -> resolveListenerSetParentBinding(w, route, ref)
      [] OTHER -> Unmanaged

\* filterMatchedGatewayListenersByConflict and filterMatchedListenersByConflict;
\* without a view every match stays.
filterMatchedListenersByConflict(view, owner, result) ==
    LET kept == {n \in result.matched : conflictReason(view, owner, n) = ""}
    IN  IF ~result.accepted THEN result
        ELSE IF kept = {} THEN Bound(FALSE, "NoMatchingParent", {}) ELSE [result EXCEPT !.matched = kept]

WithoutConflicted(w, store, b) ==
    IF ~b.managed THEN b
    ELSE [b EXCEPT !.result = filterMatchedListenersByConflict(View(w, store, b.gateway), b.owner, @)]

resolveRouteParentBinding(w, store, route, ref) == WithoutConflicted(w, store, Candidate(w, route, ref))

\* The Gateways whose view the binding of a route asks for.
BindingViews(w, route) ==
    {b.gateway : b \in {c \in {Candidate(w, route, ref) : ref \in Range(route.parents)} : c.result.accepted}}

-----------------------------------------------------------------------------
(* Hostname ownership.  A namespace outside the policy's selector has       *)
(* policed = FALSE; suffix is <<>> without the label.                       *)

hostnameWithinSuffix(h, suffix) == IsSuffix(suffix, IF IsWildcard(h) THEN Tail(h) ELSE h)

Evaluate(namespace, hostnames) ==
    \/ ~namespace.policed
    \/ /\ namespace.suffix # <<>> /\ hostnames # {}
       /\ \A h \in hostnames : hostnameWithinSuffix(h, namespace.suffix)

\* A namespace that cannot be read denies.
evaluateHostnameOwnership(w, route) ==
    \/ ~w.ownership
    \/ /\ route.ns \in DOMAIN w.namespaces /\ "Namespace" \notin w.broken
       /\ Evaluate(w.namespaces[route.ns], route.hostnames)

-----------------------------------------------------------------------------
(* A route's binding: one result per parentRef, <<>> where unmanaged, and   *)
(* the Gateways it is accepted on.                                          *)

\* rejectIfHostnameNotOwned
rejectIfHostnameNotOwned(b, denied) ==
    IF denied /\ b.result.accepted THEN [b EXCEPT !.result = Bound(FALSE, "HostnameNotPermitted", {})] ELSE b

BindingOf(bound) ==
    LET accepted == {i \in DOMAIN bound : bound[i].managed /\ bound[i].result.accepted}
    IN  [results |-> [i \in DOMAIN bound |-> IF bound[i].managed THEN <<bound[i].result>> ELSE <<>>],
         gateways |-> {bound[i].gateway : i \in accepted},
         parentGateways |-> [i \in DOMAIN bound |-> bound[i].gateway],
         accepted |-> accepted # {}, referencesUs |-> \E i \in DOMAIN bound : bound[i].managed]

bindRouteParents(w, store, route) ==
    BindingOf([i \in DOMAIN route.parents |->
                  rejectIfHostnameNotOwned(resolveRouteParentBinding(w, store, route, route.parents[i]),
                                           ~evaluateHostnameOwnership(w, route))])

-----------------------------------------------------------------------------
(* An HTTPRoute and a GRPCRoute that meet on a Gateway and a hostname        *)

hostnamesIntersect(left, right) ==
    left = {} \/ right = {} \/ \E l \in left, r \in right : hostnameMatches(l, r)

routeWins(left, right) ==
    \/ left.created < right.created
    \/ left.created = right.created /\ (Lexical(left.ns, right.ns) \/ (left.ns = right.ns /\ Lexical(left.name, right.name)))

Meet(bindings, http, grpc) ==
    bindings[Key(http)].gateways \cap bindings[Key(grpc)].gateways # {} /\ hostnamesIntersect(http.hostnames, grpc.hostnames)

\* Mutant: the HTTPRoute wins whatever its age.
resolveCrossTypeConflicts_HTTPOnly(bindings, accepted) ==
    {g \in {r \in accepted : r.kind = "GRPCRoute"} : \E h \in accepted :
        h.kind = "HTTPRoute" /\ Meet(bindings, h, g)}

\* The losers, every pair compared over the routes accepted so far.
resolveCrossTypeConflicts(bindings, accepted) ==
    LET http == {r \in accepted : r.kind = "HTTPRoute"}
        grpc == {r \in accepted : r.kind = "GRPCRoute"}
    IN  {g \in grpc : \E h \in http : Meet(bindings, h, g) /\ routeWins(h, g)}
        \cup {h \in http : \E g \in grpc : Meet(bindings, h, g) /\ ~routeWins(h, g)}

markBindingConflicted(binding) ==
    [binding EXCEPT !.accepted = FALSE,
        !.results = [i \in DOMAIN @ |-> IF @[i] # <<>> /\ @[i][1].accepted
                                        THEN <<[@[i][1] EXCEPT !.accepted = FALSE, !.reason = "Conflicted"]>> ELSE @[i]]]

MarkLosers(first, losers) ==
    [k \in DOMAIN first |-> IF k \in losers THEN markBindingConflicted(first[k]) ELSE first[k]]

SettleConflicts(first, routes) ==
    MarkLosers(first, {Key(r) : r \in resolveCrossTypeConflicts(first, {x \in routes : first[Key(x)].accepted})})

\* getRelevantHTTPRoutes, getRelevantGRPCRoutes and the conflict between them.
BindAll(w, store) ==
    SettleConflicts([k \in {Key(r) : r \in w.routes} |->
                        bindRouteParents(w, store, CHOOSE r \in w.routes : Key(r) = k)], w.routes)

-----------------------------------------------------------------------------
(* The hostnames and the redirect scheme of an accepted route.  Both passes *)
(* ask the binding validator again; for a ListenerSet they drop conflicted  *)
(* listeners, for a Gateway they do not.                                    *)

\* Of the listeners of one parent, the ones that accept the route.
MatchedListeners(w, listeners, ns, route, ref) ==
    LET names == findMatchingEntries(w, listeners, ns, route, ref).matched
    IN  {l \in Range(listeners) : l.name \in names}

NonConflicted(listeners, owner, view) == {l \in listeners : conflictReason(view, owner, l.name) = ""}

\* The listeners of one parentRef that accept the route.
resolveParentRefListeners(w, store, route, ref) ==
    LET key == RefKey(route, ref)
        parent == ParentOf(w, key)
    IN  CASE ref.kind = "Gateway" /\ Get(w, "Gateway", w.gateways, key) = "found" ->
                MatchedListeners(w, w.gateways[key].listeners, key[1], route, ref)
          [] ref.kind = "ListenerSet" /\ Get(w, "ListenerSet", w.listenerSets, key) = "found" ->
                NonConflicted(MatchedListeners(w, w.listenerSets[key].listeners, key[1], route, ref), key,
                              IF Get(w, "Gateway", w.gateways, parent) = "found" THEN View(w, store, parent) ELSE <<>>)
          [] OTHER -> {}

\* The Gateways whose view these passes ask for.
SectionViews(w, route) ==
    {ParentOf(w, RefKey(route, ref)) : ref \in {r \in Range(route.parents) :
        /\ r.kind = "ListenerSet" /\ Get(w, "ListenerSet", w.listenerSets, RefKey(route, r)) = "found"
        /\ findMatchingEntries(w, w.listenerSets[RefKey(route, r)].listeners, RefKey(route, r)[1], route, r).accepted
        /\ Get(w, "Gateway", w.gateways, ParentOf(w, RefKey(route, r))) = "found"}}

\* effectiveHostnamesForSections: <<>> stands for the catch-all sentinel.
effectiveHostnamesForSections(listeners, hostnames) ==
    UNION {IF hostnames = {} /\ l.hostname = <<>> THEN {<<>>}
           ELSE EffectiveListenerHostnames(l.hostname, hostnames) : l \in listeners}

collectEffectiveListenerHostnames(w, store, route) ==
    UNION {effectiveHostnamesForSections(resolveParentRefListeners(w, store, route, ref), route.hostnames) :
           ref \in Range(route.parents)}

\* Mutant: a declared hostname is kept whatever the listeners serve.
withEffectiveHostnames_KeepsDeclared(w, store, route) ==
    IF route.hostnames # {} THEN route
    ELSE [route EXCEPT !.hostnames = collectEffectiveListenerHostnames(w, store, route) \ {<<>>}]

Narrowed(route, effective) ==
    IF (<<>> \in effective /\ route.hostnames = {}) \/ effective \ {<<>>} = {} THEN route
    ELSE [route EXCEPT !.hostnames = effective \ {<<>>}]

\* withEffectiveHostnames and withEffectiveHostnamesGRPC.
withEffectiveHostnames(w, store, route) ==
    Narrowed(route, collectEffectiveListenerHostnames(w, store, route))

isEmptySchemeRedirect(f) == f.type = "RequestRedirect" /\ f.cfg # <<>> /\ f.cfg[1].scheme = ""

\* HTTPS wins over HTTP; "" when no listener says.
SchemeOf(protocols) == IF "HTTPS" \in protocols THEN "https" ELSE IF "HTTP" \in protocols THEN "http" ELSE ""

acceptedListenerScheme(w, store, route) ==
    SchemeOf(UNION {{l.protocol : l \in resolveParentRefListeners(w, store, route, ref)} :
                    ref \in Range(route.parents)})

\* defaultRedirectSchemeForRoute: rule filters and backend filters alike.
FillScheme(route, scheme) ==
    LET Fill(fs) == [i \in DOMAIN fs |-> IF isEmptySchemeRedirect(fs[i])
                        THEN [fs[i] EXCEPT !.cfg = <<[@[1] EXCEPT !.scheme = scheme]>>] ELSE fs[i]]
    IN  IF route.kind # "HTTPRoute" THEN route
        ELSE [route EXCEPT !.rules = [k \in DOMAIN @ |-> [@[k] EXCEPT !.filters = Fill(@),
                 !.refs = [i \in DOMAIN @ |-> [@[i] EXCEPT !.filters = Fill(@)]]]]]

withDefaultRedirectScheme(w, store, route) == FillScheme(route, acceptedListenerScheme(w, store, route))
=============================================================================
