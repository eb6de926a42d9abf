---------------------------- MODULE ControlPlane ----------------------------
(***************************************************************************)
(* The route controllers end to end: a change of the cluster, the routes   *)
(* it enqueues, the reconcile that binds and converts every route and      *)
(* sends the result to the proxy, and the statuses it writes back.         *)
(*                                                                         *)
(* A sync is not atomic: the cluster changes between its passes, which all *)
(* read it afresh.  The steps here are the points where the code starts a  *)
(* new round of reads.  Syncs follow one another; ConfigPush.tla has the   *)
(* ones that overlap, with the versions and the delivery of a config that  *)
(* are one step here, and TunnelSync.tla the writes to Cloudflare.         *)
(*                                                                         *)
(* Each behaviour starts from one of the Scenarios, a cluster and the      *)
(* changes that may happen to it, in any order.                            *)
(***************************************************************************)
EXTENDS RouteStatus

CONSTANT Scenarios   \* sequence of [world, changes, bounds]; the bounds are
                     \*   crashes  restarts of the controller
                     \*   errors   syncs that fail at Cloudflare, in part or altogether
                     \*   foreign  entries other controllers add to a status

ASSUME ScenariosAssumption ==
    \A s \in DOMAIN Scenarios :
        IsWorld(Scenarios[s].world) /\ \A i \in DOMAIN Scenarios[s].changes : IsChange(Scenarios[s].changes[i])

VARIABLES
    scenario,   \* the scenario of this behaviour
    world,      \* the cluster
    left,       \* the changes still to come
    startup,    \* the startup sync of each controller: first, retrying or done
    queue,      \* keys of the routes to reconcile
    store,      \* the view store
    sync,       \* the sync in progress
    served,     \* what the proxy serves, with the worlds it was built from
    status,     \* the status of each route
    crashes, errors

vars == <<scenario, world, left, startup, queue, store, sync, served, status, crashes, errors>>

Bounds == Scenarios[scenario].bounds

\* The stages of a sync, in order.
Idle == [stage |-> "idle", kind |-> "", key |-> <<>>, routes |-> {}, bindings |-> <<>>,
         httpFailed |-> {}, grpcFailed |-> {}, views |-> <<>>, rules |-> <<>>, diags |-> {}, failed |-> {}, outage |-> FALSE,
         todo |-> <<>>, read |-> <<>>, retry |-> FALSE, seen |-> {}]

Init ==
    /\ scenario \in DOMAIN Scenarios
    /\ world = Scenarios[scenario].world
    /\ left = DOMAIN Scenarios[scenario].changes
    /\ startup = [kind \in Kinds |-> "first"]
    /\ queue = {Key(r) : r \in world.routes}
    /\ store = <<>>
    /\ sync = Idle
    /\ served = [rules |-> <<>>, routes |-> {}, bindings |-> <<>>, views |-> <<>>, seen |-> {}]
    /\ status = [k \in {Key(r) : r \in world.routes} |-> NoStatus]
    /\ crashes = 0 /\ errors = 0

-----------------------------------------------------------------------------
(* The cluster                                                             *)

\* The events of a change.  Mapping an event asks for views; the status of a
\* route goes with it.
Notice(change, old, after) ==
    /\ world' = after
    /\ queue' = queue \cup Enqueued(after, store, change, old)
    /\ store' = IF Delivered(after, change, old) THEN ResolveAll(after, store, MappedViews(after, store, change.kind, change.key)) ELSE store
    /\ status' = [k \in {Key(r) : r \in after.routes} |->
                      IF k \in DOMAIN status /\ Stored(world, k[1], k) # <<>> THEN status[k] ELSE NoStatus]

Change(i) ==
    LET change == Scenarios[scenario].changes[i]
    IN  /\ i \in left
        /\ left' = left \ {i}
        /\ Notice(change, Stored(world, change.kind, change.key), Apply(world, change))
        /\ UNCHANGED <<scenario, startup, sync, served, crashes, errors>>

\* Reads of a kind fail until its informer has synced; its first list is an
\* event for each object.
Creation(w, kind, key) == [kind |-> kind, key |-> key, new |-> Stored(w, kind, key)]
KeysOf(w, kind) == IF KeptInSet(kind) THEN {ObjectKey(kind, o) : o \in w[Field(kind)]} ELSE DOMAIN w[Field(kind)]

Synced(kind) ==
    LET after == [world EXCEPT !.broken = @ \ {kind}]
    IN  /\ world' = after
        /\ queue' = queue \cup UNION {Enqueued(after, store, Creation(after, kind, k), <<>>) : k \in KeysOf(after, kind)}
        /\ store' = ResolveAll(after, store, UNION {MappedViews(after, store, kind, k) : k \in KeysOf(after, kind)})
        /\ UNCHANGED <<scenario, left, startup, sync, served, status, crashes, errors>>

\* Another controller adds its entry, where the API server has room for it.
Foreign(k) ==
    /\ Len(status[k].foreign) < Bounds.foreign
    /\ Len(status[k].ours) + Len(status[k].foreign) < RouteParentStatusMaxCount
    /\ status' = [status EXCEPT ![k].foreign = Append(@, Len(@) + 1)]
    /\ UNCHANGED <<scenario, world, left, startup, queue, store, sync, served, crashes, errors>>

\* The controller restarts with nothing but what is in the cluster; every
\* route is listed again.
Crash ==
    /\ crashes < Bounds.crashes
    /\ crashes' = crashes + 1
    /\ startup' = [kind \in Kinds |-> "first"] /\ queue' = {Key(r) : r \in world.routes} /\ store' = <<>> /\ sync' = Idle
    /\ UNCHANGED <<scenario, world, left, served, status, errors>>

-----------------------------------------------------------------------------
(* Starting a sync                                                         *)

\* SyncAllRoutes lists and binds every route of both kinds.
Bind(kind, key) ==
    /\ sync' = [Idle EXCEPT !.stage = "bound", !.kind = kind, !.key = key, !.routes = world.routes,
                            !.bindings = BindAll(world, store), !.seen = {world}]
    /\ store' = ResolveAll(world, store, UNION {BindingViews(world, r) : r \in world.routes})

\* runStartupSync: reconciles wait for the first attempt, and it is repeated
\* until it succeeds.
StartupSync(kind) ==
    /\ sync.stage = "idle" /\ startup[kind] # "done"
    /\ Bind(kind, <<>>)
    /\ UNCHANGED <<scenario, world, left, startup, queue, served, status, crashes, errors>>

\* Mutant: a reconcile takes the early return for the routes that are ours.
Departs_Ours(route) == route # <<>> /\ routeReferencesOurGateways(world, route[1])

\* A route that no longer leads to one of our Gateways needs no sync.
Departs(route) == route # <<>> /\ ~routeReferencesOurGateways(world, route[1])

\* reconcileRoute; a route that is gone syncs too.
Reconcile(k) ==
    /\ sync.stage = "idle" /\ k \in queue /\ startup[k[1]] # "first"
    /\ queue' = queue \ {k}
    /\ IF Departs(Stored(world, k[1], k)) THEN UNCHANGED <<sync, store>> ELSE Bind(k[1], k)
    /\ UNCHANGED <<scenario, world, left, startup, served, status, crashes, errors>>

-----------------------------------------------------------------------------
(* The passes of a sync                                                    *)

See(s) == [s EXCEPT !.seen = @ \cup {world}]

Accepted(s, kind) == {r \in s.routes : r.kind = kind /\ s.bindings[Key(r)].accepted}

\* The Gateways whose routes a sync writes to a tunnel.
Ours(w) == {g \in DOMAIN w.gateways : w.gateways[g].ours}

\* syncTunnelGroups: the references that fail; the write to some tunnels, or
\* to all of them, may fail too (TunnelSync.tla has the tunnels).
Build ==
    /\ sync.stage = "bound"
    /\ \E failed \in SUBSET Ours(world), outage \in BOOLEAN :
        /\ failed # {} => errors < Bounds.errors
        /\ outage => failed # {} /\ failed = Ours(world)
        /\ errors' = IF failed # {} THEN errors + 1 ELSE errors
        /\ sync' = See([sync EXCEPT !.stage = "built", !.failed = failed, !.outage = outage,
                            !.httpFailed = FailedRefs(world, Accepted(sync, "HTTPRoute")),
                            !.grpcFailed = FailedRefs(world, Accepted(sync, "GRPCRoute"))])
    /\ UNCHANGED <<scenario, world, left, startup, queue, store, served, status, crashes>>

\* The first half of buildProxyConfig: hostnames, redirects, conversion and
\* the marks of failed references, HTTP before gRPC.
ConvertGRPC(w, views, rules, grpc, failed) ==
    IF grpc = {} THEN rules
    ELSE markUnavailableBackends(rules \o ConvertRoutes(w, {withEffectiveHostnames(w, views, r) : r \in grpc}), failed)

ConvertAll(w, views, http, grpc, httpFailed, grpcFailed) ==
    ConvertGRPC(w, views,
        markUnavailableBackends(
            ConvertRoutes(w, {withDefaultRedirectScheme(w, views, withEffectiveHostnames(w, views, r)) : r \in http}),
            httpFailed),
        grpc, grpcFailed)

AcceptedRoutes(s) == Accepted(s, "HTTPRoute") \cup Accepted(s, "GRPCRoute")

WithRules(s, views, rules) ==
    [s EXCEPT !.stage = "converted", !.views = views, !.rules = rules, !.diags = Diagnostics(rules)]

Convert ==
    /\ sync.stage = "built"
    /\ sync' = See(WithRules(sync, store, ConvertAll(world, store, Accepted(sync, "HTTPRoute"), Accepted(sync, "GRPCRoute"),
                                                     sync.httpFailed, sync.grpcFailed)))
    /\ store' = ResolveAll(world, store, UNION {SectionViews(world, r) : r \in AcceptedRoutes(sync)})
    /\ UNCHANGED <<scenario, world, left, startup, queue, served, status, crashes, errors>>

Expand ==
    /\ sync.stage = "converted"
    /\ sync' = See([sync EXCEPT !.stage = "expanded", !.rules = expandHeadlessBackends(world, @, AcceptedRoutes(sync))])
    /\ UNCHANGED <<scenario, world, left, startup, queue, store, served, status, crashes, errors>>

MarkEmpty ==
    /\ sync.stage = "expanded"
    /\ sync' = See([sync EXCEPT !.stage = "marked", !.rules = markZeroEndpointBackends(world, @, AcceptedRoutes(sync))])
    /\ UNCHANGED <<scenario, world, left, startup, queue, store, served, status, crashes, errors>>

\* gRPC over an explicit quic tunnel loses its trailers.
GRPCOverride(route) == IF route.kind = "GRPCRoute" /\ world.protocol = "quic" THEN <<"UnsupportedProtocol">> ELSE <<>>

\* http/grpcStatusEntries: the accepted routes of the kind, then the rejected
\* ones, which have neither failed references nor diagnostics.
StatusEntries(s) ==
    LET Outcome(r) == [route |-> r, binding |-> s.bindings[Key(r)], failed |-> s.failed, outage |-> s.outage,
                       override |-> GRPCOverride(r),
                       refs |-> filterFailedRefs(IF r.kind = "HTTPRoute" THEN s.httpFailed ELSE s.grpcFailed, r),
                       diags |-> filterDiagnostics(s.diags, r)]
        rejected == {r \in s.routes : r.kind = s.kind /\ ~s.bindings[Key(r)].accepted /\ s.bindings[Key(r)].referencesUs}
        Plain(r) == [Outcome(r) EXCEPT !.refs = {}, !.diags = {}]
    IN  SetToSeq({Outcome(r) : r \in Accepted(s, s.kind)}) \o SetToSeq({Plain(r) : r \in rejected})

\* resolveExternalBackends, and the push.
Publish ==
    /\ sync.stage = "marked"
    /\ LET rules == resolveExternalBackends(world, sync.rules)
           s == See([sync EXCEPT !.rules = rules])
       IN  /\ served' = [rules |-> rules, routes |-> AcceptedRoutes(s), bindings |-> s.bindings, views |-> s.views, seen |-> s.seen]
           /\ sync' = [s EXCEPT !.stage = "status", !.todo = StatusEntries(s)]
    /\ UNCHANGED <<scenario, world, left, startup, queue, store, status, crashes, errors>>

-----------------------------------------------------------------------------
(* Statuses                                                                *)

\* The first half of updateRouteParentStatuses; a route that is gone is an
\* error, for which the whole sync is retried.
ReadStatus ==
    /\ sync.stage = "status" /\ sync.todo # <<>> /\ sync.read = <<>>
    /\ LET k == Key(sync.todo[1].route)
       IN  sync' = IF k \in DOMAIN status THEN [sync EXCEPT !.read = <<[route |-> Stored(world, k[1], k)[1], status |-> status[k]]>>]
                   ELSE [sync EXCEPT !.todo = Tail(@), !.retry = TRUE]
    /\ UNCHANGED <<scenario, world, left, startup, queue, store, served, status, crashes, errors>>

\* Mutant: the write does not look whether the object has changed.
Unchanged_Blind(k) == k \in DOMAIN status

\* The object is still the one that was read.
Unchanged(k) == k \in DOMAIN status /\ sync.read = <<[route |-> Stored(world, k[1], k)[1], status |-> status[k]]>>

\* The update, refused when the object has changed: RetryOnConflict.
WriteStatus ==
    /\ sync.stage = "status" /\ sync.read # <<>>
    /\ LET k == Key(sync.todo[1].route)
       IN  IF Unchanged(k)
           THEN /\ status' = [status EXCEPT ![k] = updateRouteParentStatuses(world, sync.todo[1], sync.read[1].route, sync.read[1].status)]
                /\ sync' = [sync EXCEPT !.read = <<>>, !.todo = Tail(@)]
           ELSE sync' = [sync EXCEPT !.read = <<>>] /\ UNCHANGED status
    /\ UNCHANGED <<scenario, world, left, startup, queue, store, served, crashes, errors>>

\* The reconcile returns; a failed sync or status update comes back.
Finish ==
    /\ sync.stage = "status" /\ sync.todo = <<>>
    /\ LET again == sync.failed # {} \/ sync.retry
       IN  /\ startup' = IF sync.key # <<>> THEN startup
                         ELSE [startup EXCEPT ![sync.kind] = IF again THEN "retrying" ELSE "done"]
           /\ queue' = IF again /\ sync.key # <<>> THEN queue \cup {sync.key} ELSE queue
    /\ sync' = Idle
    /\ UNCHANGED <<scenario, world, left, store, served, status, crashes, errors>>

-----------------------------------------------------------------------------
Step ==
    \/ \E kind \in Kinds : StartupSync(kind)
    \/ \E k \in queue : Reconcile(k)
    \/ Build \/ Convert \/ Expand \/ MarkEmpty \/ Publish
    \/ ReadStatus \/ WriteStatus \/ Finish

Environment ==
    \/ \E i \in left : Change(i)
    \/ \E kind \in world.broken : Synced(kind)
    \/ \E k \in DOMAIN status : Foreign(k)
    \/ Crash

Next == Step \/ Environment

\* The controller keeps working; nothing has to change or fail.
Spec == Init /\ [][Next]_vars /\ WF_vars(Step)
-----------------------------------------------------------------------------
(* Properties.  A property about what is served speaks of the worlds that  *)
(* its sync saw.                                                           *)

Quiet == queue = {} /\ sync.stage = "idle" /\ \A kind \in Kinds : startup[kind] = "done"

RouteOf(key) == CHOOSE r \in served.routes : Key(r) = key

\* Every served backend with the route, the rule and the reference it is for.
ServedBackends ==
    UNION {{[route |-> RouteOf(rule.route), backend |-> b, ref |-> RouteOf(rule.route).rules[rule.rule].refs[b.ref]] :
            b \in Range(rule.backends)} : rule \in Range(served.rules)}

\* What a sync of the cluster as it is now would serve, from an empty store.
TargetFor(w, http, grpc) ==
    LET converted == ConvertAll(w, <<>>, http, grpc, FailedRefs(w, http), FailedRefs(w, grpc))
        expanded == expandHeadlessBackends(w, converted, http \cup grpc)
    IN  resolveExternalBackends(w, markZeroEndpointBackends(w, expanded, http \cup grpc))

TargetOf(w, bindings) ==
    LET Of(kind) == {r \in w.routes : r.kind = kind /\ bindings[Key(r)].accepted}
    IN  TargetFor(w, Of("HTTPRoute"), Of("GRPCRoute"))

Target(w) == TargetOf(w, BindAll(w, <<>>))

\* The proxy ends up serving the cluster as it is: no change, and no mix of
\* old and new reads in a sync, is left behind once the queues are empty
\* (reconcile_route.go, mappers.go).
Converges == <>[](Quiet /\ served.rules = Target(world))

\* A reference keeps its share of the traffic of its rule, whether it is
\* refused, expanded into endpoints or forwarded (expand_headless.go,
\* markInvalidBackend, mark_unavailable.go).
SharesKept ==
    \A rule \in Range(served.rules) :
        LET refs == RouteOf(rule.route).rules[rule.rule].refs
            Declared(i) == effectiveBackendWeight(refs[i])
            Weight(bs) == FoldLeft(LAMBDA sum, b : sum + b.weight, 0, bs)
            Share(i) == Weight(SelectSeq(rule.backends, LAMBDA b : b.ref = i))
        IN  \A i \in DOMAIN refs :
                Share(i) * MapThenSumSet(Declared, DOMAIN refs) = Declared(i) * Weight(rule.backends)

Permitted(v, route, ref) ==
    LET ns == resolveBackendNamespace(ref, route.ns)
    IN  ns = route.ns \/ \E g \in v.grants : /\ g.ns = ns /\ [kind |-> route.kind, ns |-> route.ns] \in g.from
                                             /\ \E t \in g.to : t.kind = ref.kind /\ t.name \in {<<>>, <<ref.name>>}

Present(v, route, ref) ==
    LET key == <<resolveBackendNamespace(ref, route.ns), ref.name>>
    IN  CASE ref.kind = "Service" -> key \in DOMAIN v.services
          [] ref.kind = "ExternalBackend" -> key \in DOMAIN v.externals /\ v.externals[key].valid
          [] ref.kind = "ServiceImport" -> key \in DOMAIN v.imports /\ resolveBackendPort(ref) \in v.imports[key]
          [] OTHER -> FALSE

Ready(v, route, ref) ==
    LET key == <<resolveBackendNamespace(ref, route.ns), ref.name>>
    IN  ref.kind = "Service" /\ key \in DOMAIN v.services /\ v.services[key].type # "ExternalName" =>
            key \in DOMAIN v.slices /\ \E slice \in Range(v.slices[key]) : \E e \in Range(slice.endpoints) : e.ready = "true"

UnsupportedFilter(ref) == \E f \in Range(ref.filters) : f.type \notin HTTPFilters

\* A backend is forwarded to only if, while the sync ran, its reference was
\* once permitted, present and ready; and it is refused with the status of
\* something that was then wrong with it.  Grants that cannot be read refuse;
\* a backend or its endpoints that cannot be read count as present and ready
\* (service_resolver.go, buildProxyConfig, serviceHasReadyEndpoint).
VerdictsJustified ==
    \A s \in ServedBackends :
        LET Unread(v, kinds) == kinds \cap v.broken # {}
        IN  CASE s.backend.status = 0 ->
                    /\ \E v \in served.seen : Permitted(v, s.route, s.ref)
                    /\ \E v \in served.seen : Present(v, s.route, s.ref) \/ Unread(v, {s.ref.kind})
                    /\ \E v \in served.seen : Ready(v, s.route, s.ref) \/ Unread(v, {"Service", "EndpointSlice"})
              [] s.backend.status = 500 ->
                    \/ UnsupportedFilter(s.ref)
                    \/ \E v \in served.seen : \/ ~Permitted(v, s.route, s.ref) \/ ~Present(v, s.route, s.ref)
                                              \/ Unread(v, {"ReferenceGrant"}) /\ resolveBackendNamespace(s.ref, s.route.ns) # s.route.ns
              [] s.backend.status = 503 -> \E v \in served.seen : ~Ready(v, s.route, s.ref) /\ ~Unread(v, {"EndpointSlice"})
              [] OTHER -> s.backend.tls = <<>>

Covering(v, ns, name, port) == {p \in v.policies : p.ns = ns /\ policyTargetsServicePort(v, p, name, port)}

\* A Service port under a BackendTLSPolicy is dialled in the clear only if the
\* policies could not be listed while the sync ran, for which the resolver
\* fails open (proxy_syncer.go:316-328); otherwise it is dialled with the CA of
\* its oldest policy, or with none that verifies.  A port that asks for TLS
\* without a policy is not dialled (newBackendTLSResolver, resolveBackendProtocol).
NoDowngrade ==
    \A s \in {x \in ServedBackends : x.backend.status = 0 /\ x.ref.kind = "Service"} :
        LET ns == resolveBackendNamespace(s.ref, s.route.ns)
            port == resolveBackendPort(s.ref)
            b == s.backend
            Oldest(v) == {p \in Covering(v, ns, s.ref.name, port) :
                              \A q \in Covering(v, ns, s.ref.name, port) : p.created <= q.created}
        IN  /\ (\A v \in served.seen : "BackendTLSPolicy" \notin v.broken /\ Covering(v, ns, s.ref.name, port) # {}) =>
                    b.tls # <<>> /\ b.url.scheme = "https" /\ b.protocol # "h2c"
            /\ (\A v \in served.seen : BackendProtocolResolver(v, ns, s.ref.name, port) = "https") => b.tls # <<>>
            /\ \A tls \in Range(b.tls) : tls.ca # <<>> =>
                    \E v \in served.seen : \E p \in Oldest(v) : tls.ca = resolveCABundlePEM(v, p)

Covers(listener, h) == listener = <<>> \/ listener = h \/ (IsWildcard(listener) /\ IsSuffix(Tail(listener), Tail(h)))

ParentListeners(v, route) ==
    UNION {LET key == RefKey(route, ref)
           IN  IF ref.kind = "Gateway" /\ key \in DOMAIN v.gateways THEN Range(v.gateways[key].listeners)
               ELSE IF ref.kind = "ListenerSet" /\ key \in DOMAIN v.listenerSets THEN Range(v.listenerSets[key].listeners)
               ELSE {} : ref \in Range(route.parents)}

\* Bound to no listener at all, with the views that the sync had.
Unbound(v, route) ==
    \A ref \in Range(route.parents) : ~resolveRouteParentBinding(v, served.views, route, ref).result.accepted

\* A rule answers only for hostnames that a listener of its parents carries,
\* and never outside the suffix its namespace owns; it answers for every
\* hostname only if such a listener has none.  Only a route that lost its
\* listeners while the sync ran keeps the hostnames it declares
\* (withEffectiveHostnames, hostnameownership).
HostnamesInScope ==
    \A rule \in Range(served.rules) :
        LET route == RouteOf(rule.route)
            Owned(v, h) == ~v.ownership \/ ~v.namespaces[route.ns].policed \/ IsSuffix(v.namespaces[route.ns].suffix, h)
        IN  /\ rule.hostnames = {} =>
                    /\ \E v \in served.seen : Unbound(v, route) \/ \E l \in ParentListeners(v, route) : l.hostname = <<>>
                    /\ \E v \in served.seen : ~v.ownership \/ ~v.namespaces[route.ns].policed
            /\ \A h \in rule.hostnames :
                    /\ \E v \in served.seen : Unbound(v, route) \/ \E l \in ParentListeners(v, route) : Covers(l.hostname, h)
                    /\ \E v \in served.seen : Owned(v, h)

\* An HTTPRoute and a GRPCRoute are never both served for a hostname on a
\* Gateway they share, and whoever is turned away for it is outlived by an
\* older route that is served (route_crosstype.go).
CrossTypeExclusive ==
    /\ \A r, s \in served.routes : r.kind # s.kind /\ hostnamesIntersect(r.hostnames, s.hostnames) =>
            served.bindings[Key(r)].gateways \cap served.bindings[Key(s)].gateways = {}
    /\ \A k \in DOMAIN served.bindings :
            (\E res \in Range(served.bindings[k].results) : \E b \in Range(res) : b.reason = "Conflicted") =>
                \E s \in served.routes : \E v \in served.seen : \E r \in v.routes : Key(r) = k /\ s.created <= r.created

\* What the store would serve is what the cluster says (listenerset_view.go:
\* a view is reused only while its fingerprint stands).
ViewsFresh ==
    \A g \in DOMAIN store \cap DOMAIN world.gateways :
        Resolve(world, store, g).view = viewFromCandidates(world, g, listTargetingListenerSets(world, g))

\* Once the queues are empty, the status of a route tells the truth about the
\* route as it is and about what is served: its entries are for the parents
\* that lead to us, in order and as far as there is room, under its current
\* generation; it is accepted if and only if some rule of it serves, gRPC over
\* an explicit quic tunnel excepted; and its references are resolved if and
\* only if none was refused for them (route_status.go).
StatusTruthful ==
    Quiet => \A r \in world.routes :
        LET entries == status[Key(r)].ours
            mine == {rule \in Range(served.rules) : rule.route = Key(r)}
            refused == {b \in UNION {Range(rule.backends) : rule \in mine} :
                            /\ b.status \in {500, 502}
                            /\ \A rule \in mine : b \in Range(rule.backends) => ~UnsupportedFilter(r.rules[rule.rule].refs[b.ref])}
            ours == SelectSeq(r.parents, LAMBDA p : \E key \in resolveParentGatewayFromRef(world, r, p) : world.gateways[key].ours)
            serves == GRPCOverride(r) = <<>> /\ \E rule \in mine : rule.status = 0
            full == Len(entries) + Len(status[Key(r)].foreign) = RouteParentStatusMaxCount
        IN  /\ Len(entries) = Len(ours) \/ (full /\ Len(entries) < Len(ours))
            /\ \A i \in DOMAIN entries : entries[i].gen = r.gen /\ entries[i].ref.name = ours[i].name
            /\ \A e \in Range(entries) : e.accepted.status => serves
            /\ serves => full \/ \E e \in Range(entries) : e.accepted.status
            /\ mine # {} => \A e \in Range(entries) : e.resolvedRefs.status <=> refused = {}

\* A status write never loses an entry of another controller, and never makes
\* the list longer than the API allows (updateRouteParentStatuses).
ForeignKept ==
    [][\A k \in DOMAIN status \cap DOMAIN status' :
          /\ IsPrefix(status[k].foreign, status'[k].foreign)
          /\ status'[k].ours # status[k].ours =>
                Len(status'[k].ours) + Len(status'[k].foreign) <= RouteParentStatusMaxCount]_vars
=============================================================================
