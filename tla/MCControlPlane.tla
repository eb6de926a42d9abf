-------------------------- MODULE MCControlPlane ----------------------------
(***************************************************************************)
(* Small clusters for ControlPlane.tla.  Each scenario is about one part   *)
(* of the control plane and has up to three changes.                       *)
(***************************************************************************)
EXTENDS ControlPlane

MCAlphabet == <<"a", "b", "c", "g", "h", "old", "p", "q", "r", "s", "t", "x", "young">>

-----------------------------------------------------------------------------
(* Objects                                                                 *)

Port(port, app) == [port |-> port, name |-> "p", app |-> app, target |-> 8080]
Svc(ports) == [type |-> "ClusterIP", headless |-> FALSE, ports |-> ports]
Headless(ports) == [Svc(ports) EXCEPT !.headless = TRUE]
Slice(addrs) ==
    <<[ports |-> <<[name |-> <<"p">>, port |-> 8080]>>,
       endpoints |-> [i \in DOMAIN addrs |-> [ready |-> "true", addrs |-> <<addrs[i]>>]]]>>

Ref(kind, ns, name, port, weight) ==
    [kind |-> kind, ns |-> ns, name |-> name, port |-> <<port>>, weight |-> <<weight>>, filters |-> <<>>]
RuleOf(refs) == [matches |-> <<>>, filters |-> <<>>, refs |-> refs, timeouts |-> <<>>]
Parent(kind, name) == [kind |-> kind, ns |-> <<"a">>, name |-> name, section |-> <<>>, port |-> <<>>]

Route(kind, ns, name, created, hostnames, rules) ==
    [kind |-> kind, ns |-> ns, name |-> name, created |-> created, gen |-> 1, hostnames |-> hostnames,
     parents |-> <<Parent("Gateway", "g")>>, rules |-> rules]

Listener(name, hostname, from) ==
    [name |-> name, port |-> 80, protocol |-> "HTTP", hostname |-> hostname, from |-> from, kinds |-> {}]
Gateway(listeners) == [ours |-> TRUE, gen |-> 1, certRef |-> <<>>, allowed |-> "Same", listeners |-> listeners]

GrantFrom(kind, from, ns, name, to) ==
    [ns |-> ns, name |-> name, from |-> {[kind |-> kind, ns |-> from]}, to |-> {[kind |-> to, name |-> <<>>]}]

Namespace(policed, suffix) == [selected |-> FALSE, policed |-> policed, suffix |-> suffix]

S == Ref("Service", <<>>, "s", 80, 1)

\* A Gateway that admits everything, a Service with an endpoint.
Base ==
    [services |-> <<"a", "s">> :> Svc(<<Port(80, "")>>), slices |-> <<"a", "s">> :> Slice(<<"x">>),
     imports |-> <<>>, externals |-> <<>>, grants |-> {}, policies |-> {}, configMaps |-> <<>>, secrets |-> <<>>,
     gateways |-> <<"a", "g">> :> Gateway(<<Listener("l", <<>>, "All")>>), listenerSets |-> <<>>,
     namespaces |-> "a" :> Namespace(FALSE, <<>>) @@ "b" :> Namespace(FALSE, <<>>), ownership |-> FALSE, broken |-> {},
     protocol |-> "auto",
     routes |-> {Route("HTTPRoute", "a", "r", 1, {}, <<RuleOf(<<S>>)>>)}]

Bounded(c, e, f) == [crashes |-> c, errors |-> e, foreign |-> f]

Set(kind, key, object) == [kind |-> kind, key |-> key, new |-> <<object>>]
Delete(kind, key) == [kind |-> kind, key |-> key, new |-> <<>>]

\* Some update of an object that exists.
Edit(kind, o) == Set(kind, IF kind \in {"HTTPRoute", "GRPCRoute"} THEN Key(o) ELSE <<o.ns, o.name>>, o)

-----------------------------------------------------------------------------
(* References: a Service of another namespace, and one of this              *)

Shared == Route("HTTPRoute", "a", "r", 1, {}, <<RuleOf(<<[S EXCEPT !.weight = <<2>>], Ref("Service", <<"b">>, "t", 80, 1)>>)>>)

References ==
    [world |-> [Base EXCEPT
        !.services = @ @@ <<"b", "t">> :> Svc(<<Port(80, "")>>), !.slices = @ @@ <<"b", "t">> :> Slice(<<"x">>),
        !.grants = {GrantFrom("HTTPRoute", "c", "b", "p", "Service")},
        !.routes = {Shared}],
     changes |-> <<Set("ReferenceGrant", <<"b", "q">>, GrantFrom("HTTPRoute", "a", "b", "q", "Service")),
                   Delete("Service", <<"b", "t">>),
                   Set("EndpointSlice", <<"a", "s">>, Slice(<<>>))>>,
     bounds |-> Bounded(0, 1, 0)]

-----------------------------------------------------------------------------
(* Headless Services beside plain ones                                      *)

HeadlessRefs == <<Ref("Service", <<>>, "h", 80, 1), [S EXCEPT !.weight = <<3>>], Ref("Service", <<>>, "q", 80, 2)>>

Endpoints ==
    [world |-> [Base EXCEPT
        !.services = @ @@ <<"a", "h">> :> Headless(<<Port(80, "")>>) @@ <<"a", "q">> :> Headless(<<Port(80, "")>>),
        !.slices = @ @@ <<"a", "h">> :> Slice(<<"x", "t">>) @@ <<"a", "q">> :> Slice(<<"p", "q", "r">>),
        !.routes = {Route("HTTPRoute", "a", "r", 1, {}, <<RuleOf(HeadlessRefs)>>)}],
     changes |-> <<Set("EndpointSlice", <<"a", "h">>, Slice(<<"x", "t", "s">>)),
                   Set("EndpointSlice", <<"a", "q">>, Slice(<<>>)),
                   Delete("Service", <<"a", "s">>)>>,
     bounds |-> Bounded(0, 0, 0)]

-----------------------------------------------------------------------------
(* TLS to the backend, and the client certificate of the Gateway            *)

Policy(name, created, ca) ==
    [ns |-> "a", name |-> name, created |-> created, targets |-> {[name |-> "s", kind |-> "Service", section |-> ""]},
     ca |-> <<[kind |-> "ConfigMap", name |-> ca]>>, wellKnown |-> FALSE, sans |-> {}, server |-> "x"]

TLS ==
    [world |-> [Base EXCEPT
        !.services = @ @@ <<"a", "t">> :> Svc(<<Port(443, "https")>>), !.slices = @ @@ <<"a", "t">> :> Slice(<<"x">>),
        !.configMaps = <<"a", "p">> :> "p-ca" @@ <<"a", "q">> :> "q-ca",
        !.policies = {Policy("old", 1, "p"), Policy("young", 2, "q")},
        !.gateways = [k \in DOMAIN @ |-> [@[k] EXCEPT !.certRef = <<[kind |-> "Secret", ns |-> <<>>, name |-> "x"]>>]],
        !.secrets = <<"a", "x">> :> "pair",
        !.routes = {Route("HTTPRoute", "a", "r", 1, {}, <<RuleOf(<<S, Ref("Service", <<>>, "t", 443, 1)>>)>>)}],
     changes |-> <<Delete("ConfigMap", <<"a", "p">>),
                   Delete("BackendTLSPolicy", <<"a", "old">>),
                   Delete("Secret", <<"a", "x">>)>>,
     bounds |-> Bounded(0, 0, 0)]

\* The controller starts before it can read the policies, the grants and the
\* endpoints.
Unsynced ==
    [world |-> [Base EXCEPT
        !.services = @ @@ <<"b", "t">> :> Svc(<<Port(80, "")>>), !.slices = @ @@ <<"b", "t">> :> Slice(<<>>),
        !.grants = {GrantFrom("HTTPRoute", "a", "b", "q", "Service")},
        !.configMaps = <<"a", "p">> :> "p-ca", !.policies = {Policy("old", 1, "p")},
        !.routes = {Shared}, !.broken = {"BackendTLSPolicy", "ReferenceGrant", "EndpointSlice"}],
     changes |-> <<>>,
     bounds |-> Bounded(0, 0, 0)]

-----------------------------------------------------------------------------
(* ExternalBackends, ServiceImports and filters                             *)

Unsupported == [type |-> "ExtensionRef", cfg |-> <<>>]
ExternalRef == Ref("ExternalBackend", <<>>, "x", 80, 1)
Filtered(refs) == [RuleOf(refs) EXCEPT !.filters = <<Unsupported>>]
Extended(rules) == Route("HTTPRoute", "a", "r", 1, {}, rules)

External ==
    [world |-> [Base EXCEPT
        !.imports = <<"a", "t">> :> {80}, !.externals = <<"a", "x">> :> [valid |-> TRUE, scheme |-> "https", host |-> "x"],
        !.routes = {Extended(<<RuleOf(<<ExternalRef, Ref("ServiceImport", <<>>, "t", 80, 1), [S EXCEPT !.filters = <<Unsupported>>]>>),
                               Filtered(<<S>>)>>)}],
     changes |-> <<Set("ExternalBackend", <<"a", "x">>, [valid |-> FALSE, scheme |-> "https", host |-> "x"]),
                   Edit("HTTPRoute", Extended(<<Filtered(<<S>>)>>)),
                   Delete("ExternalBackend", <<"a", "x">>)>>,
     bounds |-> Bounded(0, 0, 0)]

-----------------------------------------------------------------------------
(* Route types that meet, on two Gateways                                   *)

ACom == <<"a", "com">>
BCom == <<"b", "com">>
StarCom == <<"*", "com">>

Elder == [Route("GRPCRoute", "a", "old", 1, {ACom}, <<RuleOf(<<S>>)>>) EXCEPT
             !.parents = <<Parent("Gateway", "g"), Parent("Gateway", "h")>>]
Younger == Route("HTTPRoute", "a", "young", 2, {ACom, BCom}, <<RuleOf(<<S>>)>>)

Types ==
    [world |-> [Base EXCEPT
        !.gateways = @ @@ <<"a", "h">> :> Gateway(<<Listener("l", StarCom, "Same")>>),
        !.routes = {Elder, Younger}],
     changes |-> <<Set("Gateway", <<"a", "g">>, Gateway(<<Listener("l", BCom, "Same")>>)),
                   Edit("HTTPRoute", [Younger EXCEPT !.hostnames = {BCom}])>>,
     bounds |-> Bounded(0, 1, 0)]

-----------------------------------------------------------------------------
(* Listeners of a Gateway and of its ListenerSets                           *)

ListenerSet(created, listeners) ==
    [gen |-> 1, created |-> created, parent |-> [ns |-> <<>>, name |-> "g"], listeners |-> listeners]
ViaSet(name, set) == [Route("HTTPRoute", "a", name, 1, {}, <<RuleOf(<<S>>)>>) EXCEPT !.parents = <<Parent("ListenerSet", set)>>]

Sets ==
    [world |-> [Base EXCEPT
        !.gateways = <<"a", "g">> :> Gateway(<<Listener("l", ACom, "Same")>>),
        !.listenerSets = <<"a", "p">> :> ListenerSet(1, <<Listener("p", BCom, "Same")>>)
                         @@ <<"a", "q">> :> ListenerSet(2, <<Listener("q", <<"c", "com">>, "Same"), Listener("r", ACom, "Same")>>),
        !.routes = {Route("HTTPRoute", "a", "r", 1, {}, <<RuleOf(<<S>>)>>), ViaSet("s", "p"), ViaSet("t", "q")}],
     changes |-> <<Set("ListenerSet", <<"a", "p">>, ListenerSet(1, <<Listener("p", <<"c", "com">>, "Same")>>)),
                   Set("Gateway", <<"a", "g">>, Gateway(<<Listener("l", BCom, "Same")>>))>>,
     bounds |-> Bounded(0, 0, 0)]

-----------------------------------------------------------------------------
(* Hostname ownership                                                       *)

Tenant(hostnames) == Route("HTTPRoute", "b", "r", 1, hostnames, <<RuleOf(<<Ref("Service", <<>>, "t", 80, 1)>>)>>)

Ownership ==
    [world |-> [Base EXCEPT
        !.ownership = TRUE, !.namespaces = "a" :> Namespace(FALSE, <<>>) @@ "b" :> Namespace(TRUE, ACom),
        !.services = <<"b", "t">> :> Svc(<<Port(80, "")>>), !.slices = <<"b", "t">> :> Slice(<<"x">>),
        !.gateways = <<"a", "g">> :> Gateway(<<Listener("l", StarCom, "All"), Listener("m", <<>>, "All")>>),
        !.routes = {Tenant({})}],
     changes |-> <<Edit("HTTPRoute", Tenant({<<"x", "a", "com">>})),
                   Set("Namespace", "b", Namespace(TRUE, BCom)),
                   Edit("HTTPRoute", Tenant({<<"*", "b", "com">>}))>>,
     bounds |-> Bounded(0, 0, 0)]

-----------------------------------------------------------------------------
(* The parents of a route: ours, another controller's, and missing          *)

Parents(parents) == [Route("HTTPRoute", "a", "r", 1, {ACom}, <<RuleOf(<<S>>)>>) EXCEPT !.parents = parents]

Attached ==
    [world |-> [Base EXCEPT
        !.gateways = <<"a", "g">> :> Gateway(<<Listener("l", ACom, "Same")>>)
                     @@ <<"a", "h">> :> Gateway(<<Listener("l", BCom, "Same")>>)
                     @@ <<"a", "x">> :> [Gateway(<<Listener("l", ACom, "Same")>>) EXCEPT !.ours = FALSE],
        !.routes = {Parents(<<Parent("Gateway", "x"), Parent("Gateway", "g"), Parent("Gateway", "h")>>)}],
     changes |-> <<Edit("HTTPRoute", Parents(<<Parent("Gateway", "h"), Parent("Gateway", "g")>>)),
                   Set("Gateway", <<"a", "h">>, Gateway(<<Listener("l", StarCom, "Same")>>))>>,
     bounds |-> Bounded(1, 0, 1)]

-----------------------------------------------------------------------------
(* gRPC with the tunnels set to quic                                        *)

Quic ==
    [world |-> [Base EXCEPT !.protocol = "quic", !.routes = {Route("GRPCRoute", "a", "r", 1, {ACom}, <<RuleOf(<<S>>)>>)}],
     changes |-> <<Set("Gateway", <<"a", "g">>, Gateway(<<Listener("l", BCom, "Same")>>))>>,
     bounds |-> Bounded(0, 1, 0)]

MCScenarios == <<References, Endpoints, TLS, Unsynced, External, Types, Sets, Ownership, Attached, Quic>>

-----------------------------------------------------------------------------
(* WF_vars(Step) in a form TLC evaluates quickly: Busy is ENABLED Step, and *)
(* only a Step, or one of the finitely many crashes, changes the sync or    *)
(* takes a key off the queue.                                               *)

Busy == sync.stage # "idle" \/ (\E kind \in Kinds : startup[kind] # "done") \/ queue # {}
Worked == sync' # sync \/ ~(queue \subseteq queue')

MCSpec == Init /\ [][Next]_vars /\ ([]<>~Busy \/ []<><<Worked>>_vars)
=============================================================================
