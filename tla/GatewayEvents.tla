---------------------------- MODULE GatewayEvents ---------------------------
(***************************************************************************)
(* Which reconciles an event asks for: SetupWithManager of the controllers *)
(* of Gateways ("gateway"), ListenerSets ("set"), BackendTLSPolicies       *)
(* ("policy"), GatewayClasses ("class"), GatewayClassConfigs ("config")    *)
(* and of the infrastructure of Gateways ("infra"), and the functions they *)
(* map objects with.  A request is <<controller, key>>.                    *)
(***************************************************************************)
EXTENDS GatewayStatus

Ask(controller, keys) == {<<controller, k>> : k \in keys}

-----------------------------------------------------------------------------
(* Secrets and configurations                                              *)

managedClasses(w) == {c \in DOMAIN w.classes : w.classes[c].ours}
getAllManagedGateways(w) == {g \in DOMAIN w.gateways : w.gateways[g].class \in managedClasses(w)}

isConfigForOurClass(w, name) == \E c \in managedClasses(w) : w.classes[c].params = <<name>>

SecretMatchesConfig(config, secret) == config.secret = secret

isSecretReferencedByCredentials(w, secret) ==
    \E c \in managedClasses(w) : /\ GetConfigForGatewayClass(w, c) = "ok"
                                 /\ SecretMatchesConfig(w.classConfigs[w.classes[c].params[1]], secret)

\* The credentials of a GatewayConfig; its tunnel token is not looked for.
isSecretReferencedByGatewayConfig(w, secret) ==
    \E g \in getAllManagedGateways(w) :
        /\ HasInfrastructureParametersRef(w.gateways[g])
        /\ getGatewayConfig(w, g, w.gateways[g]) = "ok"
        /\ g[1] = secret[1] /\ ConfigOf(w, g, w.gateways[g]).creds = <<secret[2]>>

isSecretReferencedByConfig(w, secret) ==
    \/ isSecretReferencedByCredentials(w, secret)
    \/ isSecretReferencedByGatewayConfig(w, secret)
    \/ isSecretReferencedByManagedGateway(w, secret)

gatewayConfigToGateways(w, config) ==
    {g \in DOMAIN w.gateways : g[1] = config[1] /\ w.gateways[g].params = <<config[2]>>}

secretToConfigs(w, secret) == {c \in DOMAIN w.classConfigs : SecretMatchesConfig(w.classConfigs[c], secret)}

-----------------------------------------------------------------------------
(* Listeners, grants and routes                                            *)

CertSecrets(owner, listeners) ==
    UNION {{<<Default(ref.ns, owner[1]), ref.name>> : ref \in Range(l.certs)} : l \in Range(listeners)}

gatewayReferencesSecretsInNamespace(w, key, ns) ==
    LET gateway == w.gateways[key]
    IN  \/ \E s \in CertSecrets(key, gateway.listeners) : s[1] = ns
        \/ gateway.certRef # <<>> /\ Default(gateway.certRef[1].ns, key[1]) = ns

referenceGrantToGateways(w, ns, grant) ==
    IF (\E f \in grant.from : f.kind = "Gateway") /\ (\E t \in grant.to : t.kind = "Secret")
    THEN {g \in getAllManagedGateways(w) : gatewayReferencesSecretsInNamespace(w, g, ns)} ELSE {}

referenceGrantToListenerSets(w, ns, grant) ==
    IF \E t \in grant.to : t.kind = "Secret"
    THEN {s \in DOMAIN w.listenerSets : \E c \in CertSecrets(s, w.listenerSets[s].listeners) : c[1] = ns} ELSE {}

secretToListenerSets(w, secret) ==
    {s \in DOMAIN w.listenerSets : secret \in CertSecrets(s, w.listenerSets[s].listeners)}

gatewayToListenerSets(w, gateway) == listTargetingListenerSets(w, gateway)

\* The parent of the set the event shows, which may be an old one.
listenerSetToGateways(w, key, set) ==
    {<<Default(set.parent.ns, key[1]), set.parent.name>>} \cap getAllManagedGateways(w)

routeToGateways(w, route) == collectGatewayParentKeys(route) \cap getAllManagedGateways(w)

routeToListenerSets(w, route) ==
    {RefKey(route, ref) : ref \in {r \in Range(route.parents) : r.kind = "ListenerSet"}} \cap DOMAIN w.listenerSets

-----------------------------------------------------------------------------
(* One object of an event, in the cluster as it is after the change         *)

PolicyKeys(policies) == {<<p.ns, p.name>> : p \in policies}

MapGateway(w, key, gateway) ==
    Ask("gateway", {key}) \cup Ask("infra", {key}) \cup Ask("set", gatewayToListenerSets(w, key))

MapListenerSet(w, key, set) == Ask("set", {key}) \cup Ask("gateway", listenerSetToGateways(w, key, set))

MapPolicy(w, key, policy) == Ask("policy", {key} \cup PolicyKeys(policiesForPeerChange(w, policy)))

MapClass(w, key, class) == Ask("class", {key}) \cup Ask("gateway", IF class.ours THEN getAllManagedGateways(w) ELSE {})

MapClassConfig(w, key) ==
    Ask("config", {key}) \cup Ask("gateway", IF isConfigForOurClass(w, key) THEN getAllManagedGateways(w) ELSE {})

MapSecret(w, key) ==
    Ask("gateway", IF isSecretReferencedByConfig(w, key) THEN getAllManagedGateways(w) ELSE {})
        \cup Ask("set", secretToListenerSets(w, key)) \cup Ask("config", secretToConfigs(w, key))
        \cup Ask("infra", namespaceInfraGateways(w, key[1]))

MapRoute(w, route) ==
    Ask("gateway", routeToGateways(w, route)) \cup Ask("set", routeToListenerSets(w, route))
        \cup Ask("policy", PolicyKeys(policiesForRouteChange(w, route)))

Map(w, kind, key, object) ==
    CASE kind = "Gateway" -> MapGateway(w, key, object)
      [] kind = "ListenerSet" -> MapListenerSet(w, key, object)
      [] kind = "BackendTLSPolicy" -> MapPolicy(w, key, object)
      [] kind = "GatewayClass" -> MapClass(w, key, object)
      [] kind = "GatewayClassConfig" -> MapClassConfig(w, key)
      [] kind = "GatewayConfig" -> Ask("gateway", gatewayConfigToGateways(w, key)) \cup Ask("infra", namespaceInfraGateways(w, key[1]))
      [] kind = "Secret" -> MapSecret(w, key)
      [] kind = "ConfigMap" -> Ask("policy", PolicyKeys(policiesForConfigMapChange(w, key[1], key[2])))
      [] kind = "ReferenceGrant" -> Ask("gateway", referenceGrantToGateways(w, key[1], object))
                                        \cup Ask("set", referenceGrantToListenerSets(w, key[1], object))
      [] kind \in {"HTTPRoute", "GRPCRoute"} -> MapRoute(w, object)
      [] OTHER -> {}

\* Mutant: an update is mapped by the new object alone.
Requests_NewOnly(w, kind, key, old, new) ==
    UNION {Map(w, kind, key, o) : o \in IF new = <<>> THEN Range(old) ELSE Range(new)}
        \cup (IF kind = "Gateway" THEN Ask("class", {o.class : o \in Range(IF new = <<>> THEN old ELSE new)}) ELSE {})

\* An update is mapped by the old object and by the new one.  The class of a
\* Gateway hears of its spec only (GenerationChangedPredicate), so this is for
\* changes of specs; a change of status is StatusRequests.
Requests(w, kind, key, old, new) ==
    UNION {Map(w, kind, key, o) : o \in Range(old \o new)}
        \cup (IF kind = "Gateway" THEN Ask("class", {o.class : o \in Range(old \o new)}) ELSE {})

StatusRequests(w, kind, key) == UNION {Map(w, kind, key, o) : o \in Range(Stored(w, kind, key))}

\* EnqueueRequestForOwner goes by the owner's name; the generated Secret is
\* watched as a Secret, whoever owns it.
ObjectRequests(w, key, kind, objects) ==
    LET owned == \E o \in Range(objects) : o.owner # Somebody
    IN  IF kind = "AuthSecret" THEN MapSecret(w, <<key[1], "">>)
        ELSE (IF owned THEN Ask("infra", {key}) ELSE {})
             \cup (IF owned /\ kind = "Deployment" THEN Ask("gateway", {key}) ELSE {})
=============================================================================
