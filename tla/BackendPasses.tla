--------------------------- MODULE BackendPasses ----------------------------
(***************************************************************************)
(* The passes the controller runs over converted rules before it pushes    *)
(* them (buildProxyConfig): marking the backends of failed references,     *)
(* replacing a headless Service by its endpoints, answering 503 for a      *)
(* Service without endpoints, and resolving ExternalBackends.  Each pass   *)
(* rewrites the sequence of rules and reads the cluster as it is then.     *)
(***************************************************************************)
EXTENDS Converter

MaxInt32 == 2147483647

Rewrite(rules, F(_)) ==
    [r \in DOMAIN rules |-> [rules[r] EXCEPT !.backends = [b \in DOMAIN @ |-> F(@[b])]]]

-----------------------------------------------------------------------------
(* Marking by host                                                         *)

\* The first mark of a backend stays.
MarkUnavailableBackends(rules, hosts, status) ==
    Rewrite(rules, LAMBDA b : IF b.status = 0 /\ b.url.host \in hosts THEN [b EXCEPT !.status = status] ELSE b)

\* markUnavailableBackends: the failed references of the builder answer 500.
markUnavailableBackends(rules, failed) ==
    MarkUnavailableBackends(rules, {ServiceHost(f.name, f.ns, f.port, f.domain) : f \in failed}, 500)

UnmarkedBackendHosts(rules) ==
    {b.url.host : b \in {x \in UNION {Range(rules[r].backends) : r \in DOMAIN rules} : x.status = 0}}

\* visitAuthorizedServiceBackends: every Service some route refers to and
\* some unmarked backend dials, once.  API lists have no order.
AuthorizedServices(rules, routes) ==
    LET refs(r) == UNION {Range(rule.refs) : rule \in Range(r.rules)}
    IN  {host \in UNION {{ServiceHost(ref.name, resolveBackendNamespace(ref, r.ns), resolveBackendPort(ref), "cluster") :
                            ref \in {x \in refs(r) : TargetKind(x) = "Service"}} : r \in routes} :
            host \in UnmarkedBackendHosts(rules)}

-----------------------------------------------------------------------------
(* Headless Services                                                       *)

Slices(w, host) == IF <<host.ns, host.name>> \in DOMAIN w.slices THEN w.slices[<<host.ns, host.name>>] ELSE <<>>
IsReady(endpoint) == endpoint.ready = "true"

\* endpointSlicePort: by name, or the only port there is; 0 for none.
endpointSlicePort(slice, portName) ==
    LET named == SelectInSeq(slice.ports, LAMBDA p : p.port # 0
                                /\ (p.name = <<portName>> \/ (p.name = <<>> /\ portName = "")))
    IN  IF named # 0 THEN slice.ports[named].port
        ELSE IF Len(slice.ports) = 1 THEN slice.ports[1].port ELSE 0

\* sliceEndpoints: a numeric target port stands in for an unknown one.
sliceEndpoints(slice, portName, fallback) ==
    LET port == IF endpointSlicePort(slice, portName) # 0 THEN endpointSlicePort(slice, portName) ELSE fallback
        Addresses(e) == [a \in DOMAIN e.addrs |-> [host |-> e.addrs[a], port |-> port]]
    IN  IF port = 0 THEN <<>>
        ELSE FlattenSeq([e \in DOMAIN slice.endpoints |->
                            IF IsReady(slice.endpoints[e]) THEN Addresses(slice.endpoints[e]) ELSE <<>>])

serviceTargetPort(service, port) ==
    LET k == portOf(service, port)
    IN  IF k = 0 THEN [name |-> "", target |-> 0]
        ELSE [name |-> service.ports[k].name, target |-> service.ports[k].target]

\* By address and port, so that the result does not depend on the list's order.
SortEndpoints(all) ==
    LET order == SetToSortSeq(DOMAIN all, LAMBDA i, j : \/ Lexical(all[i].host, all[j].host)
                                                        \/ all[i].host = all[j].host /\ all[i].port <= all[j].port)
    IN  [i \in DOMAIN all |-> all[order[i]]]

\* resolveHeadlessEndpoints; a list that fails finds none.
resolveHeadlessEndpoints(w, host) ==
    LET target == serviceTargetPort(w.services[<<host.ns, host.name>>], host.port)
        slices == Slices(w, host)
    IN  IF "EndpointSlice" \in w.broken THEN <<>>
        ELSE SortEndpoints(FlattenSeq([s \in DOMAIN slices |-> sliceEndpoints(slices[s], target.name, target.target)]))

HadReady(w, host) ==
    /\ "EndpointSlice" \notin w.broken
    /\ \E slice \in Range(Slices(w, host)) : \E e \in Range(slice.endpoints) : IsReady(e)

\* Saturates instead of overflowing an int32.
scaleWeight(weight, scale) == IF weight > MaxInt32 \div scale THEN MaxInt32 ELSE weight * scale

reduceWeightsByGCD(backends) ==
    LET weights == {b.weight : b \in Range(backends)} \ {0}
        common == {d \in 1..Min(weights) : \A x \in weights : x % d = 0}
    IN  IF weights = {} THEN backends
        ELSE [i \in DOMAIN backends |-> [backends[i] EXCEPT !.weight = @ \div Max(common)]]

EndpointURL(scheme, e) ==
    [scheme |-> scheme, host |-> [kind |-> "endpoint", name |-> e.host, ns |-> "", domain |-> "", port |-> e.port]]

backendMatchesHeadless(b, host) == b.status = 0 /\ b.weight > 0 /\ b.url.host = host

\* Mutant: the siblings of an expanded backend keep their weight.
expandRuleBackends_Unscaled(backends, host, endpoints) ==
    FlattenSeq([b \in DOMAIN backends |->
        IF backendMatchesHeadless(backends[b], host)
        THEN [e \in DOMAIN endpoints |-> [backends[b] EXCEPT !.url = EndpointURL(backends[b].url.scheme, endpoints[e])]]
        ELSE <<backends[b]>>])

\* Every endpoint gets the weight of the reference, so that the siblings are
\* multiplied by the number of endpoints to keep the shares.
expandRuleBackends(backends, host, endpoints) ==
    IF \A b \in Range(backends) : ~backendMatchesHeadless(b, host) THEN backends
    ELSE reduceWeightsByGCD(FlattenSeq([b \in DOMAIN backends |->
            IF backendMatchesHeadless(backends[b], host)
            THEN [e \in DOMAIN endpoints |-> [backends[b] EXCEPT !.url = EndpointURL(backends[b].url.scheme, endpoints[e])]]
            ELSE <<[backends[b] EXCEPT !.weight = scaleWeight(@, Len(endpoints))]>>]))

ExpandHeadlessBackend(rules, host, endpoints) ==
    [r \in DOMAIN rules |-> [rules[r] EXCEPT !.backends = expandRuleBackends(@, host, endpoints)]]

\* Endpoints none of whose ports resolves answer 503; a Service without
\* ready endpoints is left to the next pass.
ExpandOrMark(w, rules, host, endpoints) ==
    IF endpoints # <<>> THEN ExpandHeadlessBackend(rules, host, endpoints)
    ELSE IF HadReady(w, host) THEN MarkUnavailableBackends(rules, {host}, 503) ELSE rules

expandBackendIfHeadless(w, rules, host) ==
    LET key == <<host.ns, host.name>>
    IN  IF Get(w, "Service", w.services, key) # "found" THEN rules
        ELSE IF w.services[key].type = "ExternalName" \/ ~w.services[key].headless THEN rules
        ELSE ExpandOrMark(w, rules, host, resolveHeadlessEndpoints(w, host))

\* One after another.
ExpandEach(w, rules, hosts) ==
    LET expanded[n \in 0..Len(hosts)] == IF n = 0 THEN rules ELSE expandBackendIfHeadless(w, expanded[n - 1], hosts[n])
    IN  expanded[Len(hosts)]

expandHeadlessBackends(w, rules, routes) == ExpandEach(w, rules, SetToSeq(AuthorizedServices(rules, routes)))

-----------------------------------------------------------------------------
(* Services without endpoints, and ExternalBackends                        *)

\* A list that fails counts as having endpoints.
serviceHasReadyEndpoint(w, host) == "EndpointSlice" \in w.broken \/ HadReady(w, host)

\* markBackendIfZeroEndpoints: whether it marks.
HasZeroEndpoints(w, host) ==
    LET key == <<host.ns, host.name>>
    IN  /\ Get(w, "Service", w.services, key) = "found" /\ w.services[key].type # "ExternalName"
        /\ ~serviceHasReadyEndpoint(w, host)

markZeroEndpointBackends(w, rules, routes) ==
    MarkUnavailableBackends(rules, {host \in AuthorizedServices(rules, routes) : HasZeroEndpoints(w, host)}, 503)

\* The sentinel of an ExternalBackend becomes its URL, or answers 500; gRPC
\* over https is negotiated by TLS.
resolveExternalBackends(w, rules) ==
    LET Resolve(b) ==
            LET key == <<b.url.host.ns, b.url.host.name>>
                usable == Get(w, "ExternalBackend", w.externals, key) = "found" /\ w.externals[key].valid
            IN  IF b.url.scheme # "externalbackend" THEN b
                ELSE IF ~usable THEN [b EXCEPT !.status = IF @ = 0 THEN 500 ELSE @]
                ELSE [b EXCEPT !.url = ExternalURL(w.externals[key]),
                               !.protocol = IF w.externals[key].scheme = "https" THEN "http" ELSE @]
    IN  Rewrite(rules, Resolve)
=============================================================================
