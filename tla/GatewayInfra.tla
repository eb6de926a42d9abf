---------------------------- MODULE GatewayInfra ----------------------------
(***************************************************************************)
(* The data plane a Gateway may have for itself: what its parametersRef    *)
(* resolves to (internal/config), the objects rendered from it             *)
(* (internal/render) and the rules by which gateway_infra_reconciler.go    *)
(* takes over, merges and deletes objects.  GatewayPlane drives them.      *)
(*                                                                         *)
(* The world w of RouteEvents gains, for the API objects met here,         *)
(*   classes       name -> [gen, ours, params, deleting, finalizer]        *)
(*   classConfigs  name -> [gen, tunnel, secret], secret being a key       *)
(*   configs       <<ns, name>> -> [tunnel, auth, creds, image, replicas,  *)
(*                                  hpa], auth, creds and hpa (the most    *)
(*                                  replicas) being optional               *)
(* and a Gateway the fields class, params (the name of its GatewayConfig,  *)
(* optional), uid and notes (its infrastructure.annotations).  A Secret is *)
(* its value; "" is an empty key and "garbled" a token that does not       *)
(* decode.  Tokens are [by, n]: the Secret's value, or the controller's    *)
(* n-th generated token.                                                   *)
(***************************************************************************)
EXTENDS RouteEvents

-----------------------------------------------------------------------------
(* Which class a Gateway belongs to                                        *)

classifyGatewayClass(w, class) ==
    CASE Get(w, "GatewayClass", w.classes, class) = "error" -> "error"
      [] Get(w, "GatewayClass", w.classes, class) = "missing" -> "unknown"
      [] OTHER -> IF w.classes[class].ours THEN "managed" ELSE "foreign"

isGatewayManagedByController(w, gateway) == classifyGatewayClass(w, gateway.class) = "managed"

-----------------------------------------------------------------------------
(* What a Gateway's configuration resolves to.  An outcome is "ok",         *)
(* "invalid" (ErrInvalidParameters: the user has to mend something) or      *)
(* "transient" (worth another try).                                         *)

Outcome(o) == [outcome |-> o, tunnel |-> "", auth |-> [by |-> "none", n |-> 0]]

\* NotFound is the user's to mend in a lookup by name.
Lookup(w, kind, objects, key) ==
    CASE Get(w, kind, objects, key) = "error" -> "transient"
      [] Get(w, kind, objects, key) = "missing" -> "invalid"
      [] OTHER -> "ok"

\* The key of a Secret, which has to be there and not to be empty.
SecretKey(w, key) ==
    IF Lookup(w, "Secret", w.secrets, key) = "ok" /\ w.secrets[key] = "" THEN "invalid"
    ELSE Lookup(w, "Secret", w.secrets, key)

GetConfigForGatewayClass(w, class) ==
    IF w.classes[class].params = <<>> THEN "invalid"
    ELSE Lookup(w, "GatewayClassConfig", w.classConfigs, w.classes[class].params[1])

resolveConfig(w, config) == IF config.tunnel = "" THEN "invalid" ELSE SecretKey(w, config.secret)

ResolveFromGatewayClassName(w, class) ==
    LET config == w.classConfigs[w.classes[class].params[1]]
    IN  CASE Lookup(w, "GatewayClass", w.classes, class) # "ok" -> Outcome(Lookup(w, "GatewayClass", w.classes, class))
          [] GetConfigForGatewayClass(w, class) # "ok" -> Outcome(GetConfigForGatewayClass(w, class))
          [] OTHER -> [Outcome(resolveConfig(w, config)) EXCEPT !.tunnel = config.tunnel]

HasInfrastructureParametersRef(gateway) == gateway.params # <<>>

getGatewayConfig(w, key, gateway) == Lookup(w, "GatewayConfig", w.configs, <<key[1], gateway.params[1]>>)
ConfigOf(w, key, gateway) == w.configs[<<key[1], gateway.params[1]>>]

readTunnelToken(w, ns, config) ==
    LET key == <<ns, config.tunnel>>
    IN  IF SecretKey(w, key) = "ok" /\ w.secrets[key] = "garbled" THEN "invalid" ELSE SecretKey(w, key)

\* The override of the GatewayConfig, else the credentials of the class.
resolveGatewayAPIToken(w, key, gateway, config) ==
    IF config.creds # <<>> THEN SecretKey(w, <<key[1], config.creds[1]>>)
    ELSE ResolveFromGatewayClassName(w, gateway.class).outcome

resolveStatusConfig(w, key, gateway) ==
    LET config == ConfigOf(w, key, gateway)
        stages == <<getGatewayConfig(w, key, gateway), readTunnelToken(w, key[1], config),
                    resolveGatewayAPIToken(w, key, gateway, config)>>
        bad == SelectInSeq(stages, LAMBDA s : s # "ok")
    IN  IF bad # 0 THEN Outcome(stages[bad])
        ELSE [Outcome("ok") EXCEPT !.tunnel = w.secrets[<<key[1], config.tunnel>>]]

\* generated is the generated Secret as it is read, <<>> or <<object>>: it is
\* not asked again whose it is.
readAuthToken(w, key, config, generated) ==
    IF config.auth = <<>>
    THEN IF generated = <<>> THEN Outcome("transient") ELSE [Outcome("ok") EXCEPT !.auth = generated[1].spec.token]
    ELSE LET secret == <<key[1], config.auth[1]>>
         IN  IF SecretKey(w, secret) # "ok" THEN Outcome(SecretKey(w, secret))
             ELSE [Outcome("ok") EXCEPT !.auth = [by |-> w.secrets[secret], n |-> 0]]

ResolveForGateway(w, key, gateway, generated) ==
    LET base == resolveStatusConfig(w, key, gateway)
        token == readAuthToken(w, key, ConfigOf(w, key, gateway), generated)
    IN  IF base.outcome # "ok" THEN base
        ELSE IF token.outcome # "ok" THEN token ELSE [token EXCEPT !.tunnel = base.tunnel]

-----------------------------------------------------------------------------
(* Rendering                                                               *)

CONSTANTS ProxyImage,            \* the controller's --proxy-image is set
          RenderNetworkPolicy    \* --per-gateway-network-policy

\* In the order in which they are applied and cleaned up.
Rendered == <<"Deployment", "Service", "Autoscaler", "NetworkPolicy">>

HasImage(config) == config.image \/ ProxyImage

\* nil: the autoscaler owns the field.
replicaCount(config) == IF config.hpa # <<>> THEN <<>> ELSE <<config.replicas>>

ProxyDeployment(config, resolved) ==
    [tunnel |-> resolved.tunnel, auth |-> resolved.auth, replicas |-> replicaCount(config)]

DefaultMinReplicas == 2
Autoscaler(config) ==
    [min |-> IF config.hpa[1] < DefaultMinReplicas THEN config.hpa[1] ELSE DefaultMinReplicas, max |-> config.hpa[1]]

\* Which kinds the configuration asks for.
Wanted(config, kind) ==
    CASE kind = "Autoscaler" -> config.hpa # <<>>
      [] kind = "NetworkPolicy" -> RenderNetworkPolicy
      [] OTHER -> TRUE

\* The Service and the NetworkPolicy depend on the Gateway alone.
SpecOf(config, resolved, kind) ==
    CASE kind = "Deployment" -> ProxyDeployment(config, resolved)
      [] kind = "Autoscaler" -> Autoscaler(config)
      [] OTHER -> <<>>

-----------------------------------------------------------------------------
(* Objects: [owner, notes, managed, spec, ready], owner being the uid of    *)
(* the controlling Gateway, or 0; managed are the annotations the           *)
(* controller keeps track of.                                               *)

Somebody == 0

\* Mutant: whatever lies at the name is taken over.
assertAdoptable_ByName(gateway, object) == TRUE

assertAdoptable(gateway, object) == object.owner = gateway.uid

\* What the controller put there and no longer wants goes; what others put
\* there stays.
mergeManagedAnnotations(existing, desired) ==
    [notes |-> (existing.notes \ existing.managed) \cup desired, managed |-> desired]

\* The object after CreateOrUpdate, seen being the one that was read.  The API
\* server defaults replicas to 1.
Applied(gateway, kind, spec, seen) ==
    LET blank == [notes |-> {}, managed |-> {}]
        merged == mergeManagedAnnotations(IF seen = <<>> THEN blank ELSE seen[1], gateway.notes)
        kept == IF seen = <<>> THEN <<1>> ELSE seen[1].spec.replicas
    IN  [owner |-> gateway.uid, notes |-> merged.notes, managed |-> merged.managed,
         spec |-> IF kind = "Deployment" /\ spec.replicas = <<>> THEN [spec EXCEPT !.replicas = kept] ELSE spec,
         ready |-> IF seen = <<>> THEN FALSE ELSE seen[1].ready]

-----------------------------------------------------------------------------
(* Events                                                                  *)

namespaceInfraGateways(w, ns) ==
    {g \in DOMAIN w.gateways : g[1] = ns /\ HasInfrastructureParametersRef(w.gateways[g])}
=============================================================================
