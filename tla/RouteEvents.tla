---------------------------- MODULE RouteEvents ----------------------------
(***************************************************************************)
(* Which routes a change of the cluster puts in the work queues: the       *)
(* watches and predicates of the route controllers (reconcile_route.go),   *)
(* and the functions that map an object to routes (mappers.go,             *)
(* listenerset_route_mapper.go, httproute_controller.go and                *)
(* grpcroute_controller.go).                                               *)
(*                                                                         *)
(* A change is a record with kind, key and new: <<>> deletes the object,   *)
(* <<object>> creates or replaces it.  The key of a ReferenceGrant is      *)
(* <<ns, name>>, that of a route also holds its kind.                      *)
(***************************************************************************)
EXTENDS RouteBinding

-----------------------------------------------------------------------------
(* The API server                                                          *)

Field(kind) ==
    CASE kind = "Service" -> "services" [] kind = "EndpointSlice" -> "slices" [] kind = "ServiceImport" -> "imports"
      [] kind = "ExternalBackend" -> "externals" [] kind = "ConfigMap" -> "configMaps" [] kind = "Secret" -> "secrets"
      [] kind = "Gateway" -> "gateways" [] kind = "ListenerSet" -> "listenerSets" [] kind = "Namespace" -> "namespaces"
      [] kind = "ReferenceGrant" -> "grants" [] kind = "BackendTLSPolicy" -> "policies"
      [] kind = "GatewayClass" -> "classes" [] kind = "GatewayClassConfig" -> "classConfigs" [] kind = "GatewayConfig" -> "configs"
      [] OTHER -> "routes"

ObjectKey(kind, o) == IF Field(kind) = "routes" THEN Key(o) ELSE <<o.ns, o.name>>
KeptInSet(kind) == Field(kind) \in {"routes", "grants", "policies"}

\* The object as it is stored: <<>> or <<object>>.
Stored(w, kind, key) ==
    IF KeptInSet(kind)
    THEN LET found == {o \in w[Field(kind)] : ObjectKey(kind, o) = key}
         IN  IF found = {} THEN <<>> ELSE <<CHOOSE o \in found : TRUE>>
    ELSE IF key \in DOMAIN w[Field(kind)] THEN <<w[Field(kind)][key]>> ELSE <<>>

\* The generation starts at 1 and grows with every change of the spec;
\* Services, Secrets, ConfigMaps and Namespaces have none.
Counted(kind) == Field(kind) \in {"routes", "gateways", "listenerSets", "policies", "classes", "classConfigs"}
Stamp(old, kind, new) ==
    IF new = <<>> \/ ~Counted(kind) THEN new
    ELSE <<[new[1] EXCEPT !.gen = IF old = <<>> THEN 1 ELSE old[1].gen + 1]>>

Replace(w, kind, key, old, new) ==
    [w EXCEPT ![Field(kind)] = IF KeptInSet(kind) THEN (@ \ Range(old)) \cup Range(new)
                               ELSE IF new = <<>> THEN [k \in DOMAIN @ \ {key} |-> @[k]]
                               ELSE [k \in DOMAIN @ \cup {key} |-> IF k = key THEN new[1] ELSE @[k]]]

ApplyOver(w, change, old) == Replace(w, change.kind, change.key, old, Stamp(old, change.kind, change.new))

Apply(w, change) == ApplyOver(w, change, Stored(w, change.kind, change.key))

-----------------------------------------------------------------------------
(* What the API server admits                                              *)

Kinds == {"HTTPRoute", "GRPCRoute"}

\* A route has a kind, a name, an age, hostnames, and lists of parents and of
\* rules; a Gateway or a ListenerSet has a list of listeners; a policy has a
\* name and an age; the suffix of a namespace is a hostname; a Service has
\* lists of slices, of endpoints and of addresses.
Hostname == Seq(STRING)
HasRefs(rule) ==
    /\ {"refs", "filters"} \subseteq DOMAIN rule /\ rule.refs \in Seq(Range(rule.refs))
    /\ \A ref \in Range(rule.refs) : {"kind", "ns", "name", "port", "weight", "filters"} \subseteq DOMAIN ref
IsRoute(r) ==
    /\ {"kind", "ns", "name", "created", "parents", "hostnames", "rules"} \subseteq DOMAIN r
    /\ r.kind \in Kinds /\ r.ns \in Range(Alphabet) /\ r.name \in Range(Alphabet) /\ r.created \in Nat
    /\ r.parents \in Seq(Range(r.parents)) /\ r.hostnames \subseteq Hostname \ {<<>>}
    /\ r.rules \in Seq(Range(r.rules)) /\ \A rule \in Range(r.rules) : HasRefs(rule)
Listens(o) ==
    /\ "listeners" \in DOMAIN o /\ o.listeners \in Seq(Range(o.listeners))
    /\ \A l \in Range(o.listeners) : l.hostname \in Hostname
IsPolicy(p) == {"ns", "name", "created"} \subseteq DOMAIN p /\ p.name \in Range(Alphabet) /\ p.created \in Nat
Owns(namespace) == "suffix" \in DOMAIN namespace /\ namespace.suffix \in Hostname
Sliced(slices) ==
    /\ slices \in Seq(Range(slices))
    /\ \A slice \in Range(slices) :
          /\ slice.endpoints \in Seq(Range(slice.endpoints))
          /\ \A e \in Range(slice.endpoints) : e.addrs \in Seq(Range(e.addrs))

\* Finitely many routes, and one of each kind and name.
IsWorld(w) ==
    /\ {"routes", "gateways", "listenerSets", "policies", "namespaces", "slices"} \subseteq DOMAIN w
    /\ IsFiniteSet(w.routes) /\ \A r \in w.routes : IsRoute(r)
    /\ \A r, s \in w.routes : Key(r) = Key(s) => r = s
    /\ \A f \in {"gateways", "listenerSets"} : \A k \in DOMAIN w[f] : Listens(w[f][k])
    /\ \A p \in w.policies : IsPolicy(p)
    /\ \A p, q \in w.policies : p.ns = q.ns /\ p.name = q.name => p = q
    /\ \A k \in DOMAIN w.namespaces : Owns(w.namespaces[k])
    /\ \A k \in DOMAIN w.slices : Sliced(w.slices[k])

\* A change puts an object under its own key.
IsChange(change) ==
    LET field == Field(change.kind)
        o == change.new[1]
    IN  \/ change.new = <<>>
        \/ /\ change.new = <<o>>
           /\ field = "routes" => IsRoute(o) /\ Key(o) = change.key
           /\ field \in {"gateways", "listenerSets"} => Listens(o)
           /\ field = "policies" => IsPolicy(o) /\ change.key = <<o.ns, o.name>>
           /\ field = "namespaces" => Owns(o)
           /\ field = "slices" => Sliced(o)

-----------------------------------------------------------------------------
(* Watches                                                                 *)

Watched(w, kind) ==
    kind \in {"HTTPRoute", "GRPCRoute", "Gateway", "ListenerSet", "Secret", "ReferenceGrant", "Service",
              "EndpointSlice", "ExternalBackend", "BackendTLSPolicy", "ConfigMap"}
             \cup (IF w.ownership THEN {"Namespace"} ELSE {})

\* GenerationChangedPredicate drops the update of an object without a
\* generation; LabelChangedPredicate passes a change of labels.
Delivered(w, change, old) ==
    /\ Watched(w, change.kind)
    /\ old = <<>> \/ change.new = <<>> \/ change.kind \notin {"Service", "Secret", "ConfigMap"}

-----------------------------------------------------------------------------
(* From an object to routes                                                *)

\* An unmanaged binding accepts nothing.
Accepts(w, store, route, ref) == resolveRouteParentBinding(w, store, route, ref).result.accepted

IsRouteAcceptedByGateway(w, store, route) == \E ref \in Range(route.parents) : Accepts(w, store, route, ref)

\* getAllRelevantRoutes
FilterAcceptedRoutes(w, store) == {r \in w.routes : IsRouteAcceptedByGateway(w, store, r)}

BackendRefs(route) == UNION {Range(rule.refs) : rule \in Range(route.rules)}

ReferencesService(route, ns, name) ==
    \E ref \in BackendRefs(route) : TargetKind(ref) = "Service" /\ resolveBackendNamespace(ref, route.ns) = ns /\ ref.name = name

ReferencesExternalBackend(route, ns, name) ==
    \E ref \in BackendRefs(route) : ref.kind = "ExternalBackend" /\ resolveBackendNamespace(ref, route.ns) = ns /\ ref.name = name

\* Backends only: a mirror or a client certificate does not count.
GetCrossNamespaceBackendNamespaces(route) == {ref.ns[1] : ref \in {r \in BackendRefs(route) : r.ns # <<>>}} \ {route.ns}

\* Any parentRef with the Gateway's name will do, whatever its kind.
FindRoutesForGateway(w, key, gateway) ==
    IF "GatewayClass" \in w.broken \/ ~gateway.ours THEN {}
    ELSE {r \in w.routes : \E ref \in Range(r.parents) : RefKey(r, ref) = key}

findRoutesAttachedToListenerSet(w, key, set) ==
    LET parent == <<Default(set.parent.ns, key[1]), set.parent.name>>
    IN  IF Get(w, "Gateway", w.gateways, parent) # "found" \/ ~gatewayManagedByController(w, parent) THEN {}
        ELSE {r \in w.routes : \E ref \in Range(r.parents) : ref.kind = "ListenerSet" /\ RefKey(r, ref) = key}

\* isConfigMapReferencedByBackendTLSPolicy
IsReferencedConfigMap(w, key) ==
    "BackendTLSPolicy" \notin w.broken /\ \E p \in w.policies : p.ns = key[1] /\ policyReferencesConfigMap(p, key[2])

\* gatewayReferencesSecret: grants that cannot be listed count as given.
gatewayReferencesSecret(w, gateway, secret) ==
    LET ref == w.gateways[gateway].certRef
    IN  /\ ref # <<>>
        /\ ref[1].kind = "Secret" /\ <<Default(ref[1].ns, gateway[1]), ref[1].name>> = secret
        /\ secret[1] = gateway[1] \/ checkSecretReferenceGrantForGateway(w, gateway[1], secret[1], secret[2]) # "no"

isSecretReferencedByManagedGateway(w, secret) ==
    /\ {"GatewayClass", "Gateway"} \cap w.broken = {}
    /\ \E g \in DOMAIN w.gateways : w.gateways[g].ours /\ gatewayReferencesSecret(w, g, secret)

\* The accepted routes that depend on an object of any other kind.
Dependents(w, all, kind, key) ==
    CASE kind = "ReferenceGrant" -> {r \in all : key[1] \in GetCrossNamespaceBackendNamespaces(r)}
      [] kind \in {"Service", "EndpointSlice"} -> {r \in all : ReferencesService(r, key[1], key[2])}
      [] kind = "ExternalBackend" -> {r \in all : ReferencesExternalBackend(r, key[1], key[2])}
      [] kind = "BackendTLSPolicy" -> all
      [] kind = "ConfigMap" -> IF IsReferencedConfigMap(w, key) THEN all ELSE {}
      [] kind = "Secret" -> IF isSecretReferencedByManagedGateway(w, key) THEN all ELSE {}
      [] kind = "Namespace" -> {r \in all : r.ns = key}

\* The routes that one object, old or new, maps to.
MapObject(w, store, kind, key, object) ==
    CASE kind = "Gateway" -> FindRoutesForGateway(w, key, object)
      [] kind = "ListenerSet" -> findRoutesAttachedToListenerSet(w, key, object)
      [] OTHER -> Dependents(w, FilterAcceptedRoutes(w, store), kind, key)

\* An update maps the old object and the new one, both against the cluster
\* as it is after the change; a route maps to itself.
Enqueued(after, store, change, old) ==
    IF ~Delivered(after, change, old) THEN {}
    ELSE IF Field(change.kind) = "routes" THEN {change.key}
    ELSE {Key(r) : r \in UNION {MapObject(after, store, change.kind, change.key, o) :
                                    o \in Range(old \o Stored(after, change.kind, change.key))}}

\* The views an event's mapping asks for: a route is looked at up to the first
\* parentRef that accepts it, and an object nobody refers to stops the search.
UpTo(route, first) == IF first = 0 THEN route ELSE [route EXCEPT !.parents = SubSeq(@, 1, first)]

MappedViews(w, store, kind, key) ==
    IF \/ kind \in {"HTTPRoute", "GRPCRoute", "Gateway", "ListenerSet"}
       \/ kind = "ConfigMap" /\ ~IsReferencedConfigMap(w, key)
       \/ kind = "Secret" /\ ~isSecretReferencedByManagedGateway(w, key) THEN {}
    ELSE UNION {BindingViews(w, UpTo(r, SelectInSeq(r.parents, LAMBDA ref : Accepts(w, store, r, ref)))) : r \in w.routes}

-----------------------------------------------------------------------------
(* The check at the start of a reconcile: does some parentRef lead to one   *)
(* of our Gateways, directly or through a ListenerSet?                      *)

resolveParentGatewayFromRef(w, route, ref) ==
    LET key == RefKey(route, ref)
    IN  CASE ref.kind = "Gateway" -> IF Get(w, "Gateway", w.gateways, key) = "found" THEN {key} ELSE {}
          [] ref.kind = "ListenerSet" ->
                IF /\ Get(w, "ListenerSet", w.listenerSets, key) = "found"
                   /\ Get(w, "Gateway", w.gateways, ParentOf(w, key)) = "found" THEN {ParentOf(w, key)} ELSE {}
          [] OTHER -> {}

routeReferencesOurGateways(w, route) ==
    \E ref \in Range(route.parents) :
        \E key \in resolveParentGatewayFromRef(w, route, ref) : gatewayManagedByController(w, key)
=============================================================================
