--------------------------- MODULE MCGatewayPlane ---------------------------
(***************************************************************************)
(* Small clusters for GatewayPlane.tla.  Each scenario is about one part   *)
(* of what the controllers report or render, with up to three changes.     *)
(***************************************************************************)
EXTENDS GatewayPlane

MCAlphabet == <<"a", "b", "c", "g", "h", "p", "q", "r", "s", "t", "x">>

-----------------------------------------------------------------------------
(* Objects                                                                 *)

Cert(ns, name) == [kind |-> "Secret", ns |-> ns, name |-> name]
Listener(name, hostname, certs) ==
    [name |-> name, port |-> 80, protocol |-> "HTTP", hostname |-> hostname, from |-> "All", kinds |-> {}, certs |-> certs]
GatewayOf(params, listeners) ==
    [ours |-> TRUE, gen |-> 1, class |-> "c", params |-> params, uid |-> 1, notes |-> {}, deleting |-> FALSE, legacy |-> FALSE,
     certRef |-> <<>>, allowed |-> "Same", listeners |-> listeners]
SetOf(listeners) == [gen |-> 1, created |-> 1, parent |-> [ns |-> <<>>, name |-> "g"], listeners |-> listeners]
Parent(kind, name) == [kind |-> kind, ns |-> <<>>, name |-> name, section |-> <<>>, port |-> <<>>]
RouteOf(hostnames, parents, service) ==
    [kind |-> "HTTPRoute", ns |-> "a", name |-> "r", created |-> 1, gen |-> 1, hostnames |-> hostnames, parents |-> parents,
     rules |-> <<[matches |-> <<>>, filters |-> <<>>, timeouts |-> <<>>,
                  refs |-> <<[kind |-> "Service", ns |-> <<>>, name |-> service, port |-> <<80>>, weight |-> <<1>>, filters |-> <<>>]>>]>>]
PolicyOf(name, created, service, ca) ==
    [ns |-> "a", name |-> name, created |-> created, gen |-> 1, targets |-> {[name |-> service, kind |-> "Service", section |-> ""]},
     ca |-> <<[kind |-> "ConfigMap", name |-> ca]>>, wellKnown |-> FALSE, sans |-> {}, server |-> "x"]
GrantOf(kind) ==
    [ns |-> "b", name |-> "p", from |-> {[kind |-> kind, ns |-> "a"]}, to |-> {[kind |-> "Secret", name |-> <<>>]}]
ClassOf == [gen |-> 1, ours |-> TRUE, params |-> <<"x">>, deleting |-> FALSE, finalizer |-> FALSE]
ConfigPlain == [tunnel |-> "t", auth |-> <<>>, creds |-> <<>>, image |-> FALSE, replicas |-> 2, hpa |-> <<>>]

G == <<"a", "g">>
Plain == <<Listener("l", <<>>, <<>>)>>

\* One class with its credentials, and one Gateway without a plane of its own.
Base ==
    [services |-> <<>>, slices |-> <<>>, imports |-> <<>>, externals |-> <<>>, grants |-> {}, policies |-> {}, configMaps |-> <<>>,
     secrets |-> <<"b", "c">> :> "api", gateways |-> G :> GatewayOf(<<>>, Plain), listenerSets |-> <<>>,
     namespaces |-> <<>>, ownership |-> FALSE, broken |-> {}, bundle |-> "supported", routes |-> {},
     classes |-> "c" :> ClassOf, classConfigs |-> "x" :> [gen |-> 1, tunnel |-> "shared", secret |-> <<"b", "c">>],
     configs |-> <<>>]

\* The Gateway has a plane of its own.
Dedicated ==
    [Base EXCEPT !.gateways = G :> GatewayOf(<<"p">>, Plain), !.configs = <<"a", "p">> :> ConfigPlain,
                 !.secrets = @ @@ <<"a", "t">> :> "tunnel"]

Calm == [squats |-> 0, losses |-> 0, notes |-> 0, flips |-> 0, scales |-> 0, crashes |-> 0]
Set(kind, key, object) == [kind |-> kind, key |-> key, new |-> <<object>>]
Delete(kind, key) == [kind |-> kind, key |-> key, new |-> <<>>]
Outage(kinds) == [kind |-> "Outage", key |-> <<>>, new |-> kinds]
Scene(running, w, changes, spent) == [running |-> running, world |-> w, changes |-> changes, spare |-> spent, foreign |-> 0]

-----------------------------------------------------------------------------
(* Listeners: a set whose entry comes to clash with the Gateway's listener, *)
(* and a route on both                                                      *)

S == <<"a", "s">>
Listeners1 ==
    Scene({"gateway", "set"}, [Base EXCEPT !.listenerSets = S :> SetOf(<<Listener("x", <<"h">>, <<>>)>>),
                       !.routes = {RouteOf({}, <<Parent("Gateway", "g"), Parent("ListenerSet", "s")>>, "s")}],
          <<Set("Gateway", G, GatewayOf(<<>>, <<Listener("l", <<"h">>, <<>>)>>)),
            Set("HTTPRoute", Key(RouteOf({}, <<>>, "s")), RouteOf({<<"h">>}, <<Parent("Gateway", "g")>>, "s")),
            Set("ListenerSet", S, SetOf(<<Listener("x", <<"r">>, <<>>)>>))>>,
          [Calm EXCEPT !.crashes = 1])

-----------------------------------------------------------------------------
(* Certificates of a Gateway and of a set, in another namespace             *)

Certificates ==
    Scene({"gateway", "set"}, [Base EXCEPT !.gateways = G :> [GatewayOf(<<>>, Plain) EXCEPT !.certRef = <<Cert(<<"b">>, "x")>>],
                       !.listenerSets = S :> SetOf(<<Listener("x", <<"h">>, <<Cert(<<"b">>, "x")>>)>>),
                       !.secrets = @ @@ <<"b", "x">> :> "pair", !.grants = {GrantOf("ListenerSet")}],
          <<Set("ReferenceGrant", <<"b", "p">>, GrantOf("Gateway")), Delete("Secret", <<"b", "x">>)>>, [Calm EXCEPT !.crashes = 1])

-----------------------------------------------------------------------------
(* Two policies for one Service, reached from two Gateways                  *)

Policies ==
    [Scene({"policy"}, [Base EXCEPT !.gateways = G :> GatewayOf(<<>>, <<>>) @@ <<"a", "h">> :> [GatewayOf(<<>>, <<>>) EXCEPT !.uid = 2],
                        !.policies = {PolicyOf("p", 1, "s", "p"), PolicyOf("q", 2, "s", "p")},
                        !.configMaps = <<"a", "p">> :> "ca",
                        !.routes = {RouteOf({}, <<Parent("Gateway", "h"), Parent("Gateway", "g")>>, "s")}],
           <<Set("BackendTLSPolicy", <<"a", "p">>, PolicyOf("p", 1, "t", "p")),
             Delete("ConfigMap", <<"a", "p">>),
             Set("HTTPRoute", Key(RouteOf({}, <<>>, "s")), RouteOf({}, <<Parent("Gateway", "h")>>, "s"))>>,
           [Calm EXCEPT !.crashes = 1]) EXCEPT !.foreign = 1]

-----------------------------------------------------------------------------
(* A plane of its own: its configuration changes under it                   *)

Rendering ==
    Scene({"infra", "gateway"}, Dedicated,
          <<Set("GatewayConfig", <<"a", "p">>, [ConfigPlain EXCEPT !.hpa = <<3>>]),
            Set("Secret", <<"a", "t">>, "rotated")>>,
          [Calm EXCEPT !.scales = 1, !.flips = 1])

Losing == Scene({"infra", "gateway"}, Dedicated, <<>>, [Calm EXCEPT !.losses = 1, !.crashes = 1, !.notes = 1])

-----------------------------------------------------------------------------
(* A plane of its own is given up, and asked for again                      *)

OptOut ==
    Scene({"infra"}, [Dedicated EXCEPT !.gateways = [@ EXCEPT ![G].notes = {"n"}]],
          <<Set("Gateway", G, GatewayOf(<<>>, Plain)), Set("Gateway", G, GatewayOf(<<"p">>, Plain))>>,
          [Calm EXCEPT !.notes = 1, !.squats = 1, !.crashes = 1])

\* Objects are removed and replaced by others while it is given up.
Contested ==
    Scene({"infra"}, Dedicated, <<Set("Gateway", G, GatewayOf(<<>>, Plain))>>, [Calm EXCEPT !.losses = 1, !.squats = 1])

Reclassed ==
    Scene({"infra"}, [Dedicated EXCEPT !.classes = @ @@ "other" :> [ClassOf EXCEPT !.ours = FALSE]],
          <<Set("Gateway", G, [GatewayOf(<<"p">>, Plain) EXCEPT !.class = "other"]), Set("Gateway", G, GatewayOf(<<"p">>, Plain))>>,
          [Calm EXCEPT !.crashes = 1])

-----------------------------------------------------------------------------
(* The Gateway is deleted and created anew; somebody takes one of its names *)

Recreated ==
    Scene({"infra"}, Dedicated, <<Delete("Gateway", G), Set("Gateway", G, [GatewayOf(<<"p">>, Plain) EXCEPT !.uid = 2])>>,
          [Calm EXCEPT !.squats = 1, !.crashes = 1])

-----------------------------------------------------------------------------
(* The credentials of the class, and an outage                              *)

Credentials ==
    Scene({"infra", "gateway"}, [Dedicated EXCEPT !.secrets = <<"a", "t">> :> "tunnel"], <<Set("Secret", <<"b", "c">>, "api")>>, Calm)

SharedCredentials ==
    Scene({"gateway", "config"}, Base, <<Delete("Secret", <<"b", "c">>), Set("Secret", <<"b", "c">>, "api"),
                  Set("GatewayClassConfig", "x", [gen |-> 1, tunnel |-> "moved", secret |-> <<"b", "c">>])>>, [Calm EXCEPT !.crashes = 1])

Unreadable ==
    Scene({"infra", "gateway"}, Dedicated, <<Outage({"GatewayConfig"}), Set("GatewayConfig", <<"a", "p">>, [ConfigPlain EXCEPT !.replicas = 1]), Outage({})>>, Calm)

-----------------------------------------------------------------------------
(* Finalizers                                                               *)

Classes ==
    Scene({"class", "gateway"}, [Base EXCEPT !.gateways = G :> [GatewayOf(<<>>, <<>>) EXCEPT !.legacy = TRUE]],
          <<Delete("GatewayClass", "c"), Delete("Gateway", G)>>, Calm)

Moved ==
    Scene({"class"}, [Base EXCEPT !.classes = @ @@ "d" :> ClassOf],
          <<Set("Gateway", G, [GatewayOf(<<>>, Plain) EXCEPT !.class = "d"]), Delete("GatewayClass", "c")>>, Calm)

-----------------------------------------------------------------------------
(* Reads that fail for a while: of the object, of the parent of a set, of   *)
(* the classes, of the routes a policy is reached by, of the CRDs           *)

Hidden(kind) ==
    Scene({"set", "class"}, [Base EXCEPT !.listenerSets = S :> SetOf(<<Listener("x", <<"h">>, <<>>)>>)],
          <<Outage({kind}), Set("ListenerSet", S, SetOf(<<Listener("x", <<"r">>, <<>>)>>)), Outage({})>>, Calm)

HiddenFromPolicy(kind) ==
    Scene({"policy"}, [Policies.world EXCEPT !.policies = {PolicyOf("p", 1, "s", "p")}],
          <<Outage({kind}), Set("BackendTLSPolicy", <<"a", "p">>, PolicyOf("p", 1, "s", "q")), Outage({})>>, Calm)

HiddenCRDs ==
    Scene({"class"}, Base,
          <<Outage({"CustomResourceDefinition"}), Set("GatewayClass", "c", [ClassOf EXCEPT !.params = <<>>]), Outage({})>>, Calm)

\* The credentials of the class are missing while a client certificate goes.
Stranded ==
    Scene({"gateway"}, [Base EXCEPT !.gateways = G :> [GatewayOf(<<>>, Plain) EXCEPT !.certRef = <<Cert(<<>>, "x")>>],
                                    !.secrets = <<"a", "x">> :> "pair"],
          <<Delete("Secret", <<"a", "x">>), Set("Secret", <<"b", "c">>, "api")>>, [Calm EXCEPT !.crashes = 1])

\* The connector token comes late, and no watch tells the status of it.
LateToken == Scene({"gateway"}, [Dedicated EXCEPT !.secrets = Base.secrets], <<Set("Secret", <<"a", "t">>, "tunnel")>>, Calm)

MCScenarios == <<Listeners1, Certificates, Policies, Rendering, Losing, OptOut, Contested, Reclassed, Recreated, Credentials,
                 SharedCredentials, Unreadable, Classes, Moved, Hidden("Gateway"), Hidden("GatewayClass"), Hidden("ListenerSet"),
                 HiddenFromPolicy("HTTPRoute"), HiddenFromPolicy("BackendTLSPolicy"), HiddenCRDs, Stranded, LateToken>>
=============================================================================
