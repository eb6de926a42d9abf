----------------------------- MODULE BackendTLS -----------------------------
(***************************************************************************)
(* TLS between proxy and backend: which BackendTLSPolicy a Service port is *)
(* dialed with and the trust it gets from it (the resolvers at the top of  *)
(* internal/controller/proxy_syncer.go), the client certificate of a       *)
(* Gateway (gateway_client_cert.go), and the verdict the policy's status   *)
(* carries (backendtlspolicy_controller.go).                               *)
(*                                                                         *)
(* Abstractions.  A CA bundle and a key pair are names; a ConfigMap holds  *)
(* a bundle, an unusable one or none, a Secret a key pair or an unusable   *)
(* one.  A TLS configuration is <<>> for none; one without CAs is the      *)
(* poisoned configuration, with which no handshake succeeds.               *)
(***************************************************************************)
EXTENDS References

CONSTANT Alphabet   \* every name in use, in lexical order

ASSUME AlphabetAssumption ==
    /\ Alphabet \in Seq(Range(Alphabet))
    /\ \A i, j \in DOMAIN Alphabet : Alphabet[i] = Alphabet[j] => i = j

Lexical(a, b) ==
    \E i, j \in DOMAIN Alphabet : Alphabet[i] = a /\ Alphabet[j] = b /\ i < j

ServiceKinds == {"", "Service"}   \* the kind of a target reference may be left out

-----------------------------------------------------------------------------
(* Choosing the policy of a Service port                                   *)

isPolicyOlder(p, q) ==
    p.created < q.created \/ (p.created = q.created /\ Lexical(p.name, q.name))

portOf(service, port) == SelectInSeq(service.ports, LAMBDA p : p.port = port)

\* "" when the Service or the port cannot be found.
lookupServicePortName(w, ns, name, port) ==
    IF Get(w, "Service", w.services, <<ns, name>>) # "found" THEN ""
    ELSE LET k == portOf(w.services[<<ns, name>>], port)
         IN  IF k = 0 THEN "" ELSE w.services[<<ns, name>>].ports[k].name

policyTargetsServicePort(w, policy, name, port) ==
    \E t \in policy.targets :
        /\ t.name = name /\ t.kind \in ServiceKinds
        /\ t.section = "" \/ t.section = lookupServicePortName(w, policy.ns, name, port)

\* {} or a singleton.
oldestPolicy(policies) == {p \in policies : \A q \in policies \ {p} : isPolicyOlder(p, q)}

\* The oldest policy that targets the port.
selectPolicyForServicePort(w, ns, name, port) ==
    oldestPolicy({p \in w.policies : p.ns = ns /\ policyTargetsServicePort(w, p, name, port)})

-----------------------------------------------------------------------------
(* The TLS configuration                                                   *)

\* parseCABundle
Parses(bundle) == bundle \notin {"", "malformed"}

ReadsCA(w, policy, ref) ==
    /\ ref.kind = "ConfigMap"
    /\ Get(w, "ConfigMap", w.configMaps, <<policy.ns, ref.name>>) = "found"
    /\ Parses(w.configMaps[<<policy.ns, ref.name>>])

\* Every reference must resolve; the bundles are joined.
resolveCABundlePEM(w, policy) ==
    IF \A i \in DOMAIN policy.ca : ReadsCA(w, policy, policy.ca[i])
    THEN [i \in DOMAIN policy.ca |-> w.configMaps[<<policy.ns, policy.ca[i].name>>]]
    ELSE <<>>

poisonedBackendTLS(policy) == [ca |-> <<>>, server |-> policy.server, sans |-> {}, cert |-> <<>>]

\* A SAN of an unknown type poisons the configuration too.
splitSANsByType(policy) == {s \in policy.sans : s.value # ""}
HasUnknownSAN(policy) == \E s \in policy.sans : s.type \notin {"Hostname", "URI"}

\* Mutant: a policy whose CA does not resolve is passed over.
BackendTLSResolver_FailsOpen(w, ns, name, port) ==
    LET chosen == selectPolicyForServicePort(w, ns, name, port)
    IN  IF "BackendTLSPolicy" \in w.broken \/ chosen = {} THEN <<>>
        ELSE LET policy == CHOOSE p \in chosen : TRUE
                 ca == resolveCABundlePEM(w, policy)
             IN  IF ca = <<>> \/ HasUnknownSAN(policy) THEN <<>>
                 ELSE <<[ca |-> ca, server |-> policy.server, sans |-> splitSANsByType(policy), cert |-> <<>>]>>

backendTLSFor(policy, ca) ==
    IF ca = <<>> \/ HasUnknownSAN(policy) THEN poisonedBackendTLS(policy)
    ELSE [ca |-> ca, server |-> policy.server, sans |-> splitSANsByType(policy), cert |-> <<>>]

\* newBackendTLSResolver: plaintext when no policy targets the port, and
\* also when the policies cannot be listed.
BackendTLSResolver(w, ns, name, port) ==
    IF "BackendTLSPolicy" \in w.broken THEN <<>>
    ELSE SetToSeq({backendTLSFor(p, resolveCABundlePEM(w, p)) : p \in selectPolicyForServicePort(w, ns, name, port)})

\* newBackendProtocolResolver: the appProtocol of the port, "" when unknown.
\* portAppProtocol passes over an entry of that port without one.
BackendProtocolResolver(w, ns, name, port) ==
    IF Get(w, "Service", w.services, <<ns, name>>) # "found" THEN ""
    ELSE LET ports == w.services[<<ns, name>>].ports
             k == SelectInSeq(ports, LAMBDA p : p.port = port /\ p.app # "")
         IN  IF k = 0 THEN "" ELSE ports[k].app

-----------------------------------------------------------------------------
(* The client certificate of a Gateway                                     *)

checkSecretReferenceGrantForGateway(w, gatewayNS, ns, name) ==
    IF "ReferenceGrant" \in w.broken THEN "error"
    ELSE IF \E g \in w.grants :
               /\ g.ns = ns
               /\ \E f \in g.from : f.kind = "Gateway" /\ f.ns = gatewayNS
               /\ \E t \in g.to : t.kind = "Secret" /\ t.name \in {<<>>, <<"">>, <<name>>}
         THEN "yes" ELSE "no"

\* loadGatewayClientCertPEM: a key pair, or the reason there is none.
loadGatewayClientCertPEM(w, key) ==
    LET gw == w.gateways[key]
        ns == Default(gw.certRef[1].ns, key[1])
        secret == <<ns, gw.certRef[1].name>>
        grant == IF ns = key[1] THEN "yes"
                 ELSE checkSecretReferenceGrantForGateway(w, key[1], ns, gw.certRef[1].name)
        got == Get(w, "Secret", w.secrets, secret)
        Failed(reason) == [pair |-> <<>>, err |-> reason]
    IN  IF gw.certRef = <<>> THEN Failed("none")
        ELSE IF gw.certRef[1].kind # "Secret" THEN Failed("UnsupportedRef")
        ELSE IF grant = "error" THEN Failed("Transient")
        ELSE IF grant = "no" THEN Failed("RefNotPermitted")
        ELSE IF got = "missing" THEN Failed("NotFound")
        ELSE IF got = "error" THEN Failed("Transient")
        ELSE IF w.secrets[secret] = "unusable" THEN Failed("Invalid")
        ELSE [pair |-> <<w.secrets[secret]>>, err |-> "none"]

gatewayManagedByController(w, key) == "GatewayClass" \notin w.broken /\ w.gateways[key].ours

\* newGatewayClientCertResolver
GatewayClientCertResolver(w, key) ==
    IF Get(w, "Gateway", w.gateways, key) # "found" \/ ~gatewayManagedByController(w, key) THEN <<>>
    ELSE loadGatewayClientCertPEM(w, key).pair

\* The Gateway's ResolvedRefs condition; <<>> leaves it as it was.
buildClientCertResolvedRefsCondition(w, key) ==
    LET err == loadGatewayClientCertPEM(w, key).err
    IN  CASE err = "none" -> <<[status |-> TRUE, reason |-> "ResolvedRefs"]>>
          [] err = "Transient" -> <<>>
          [] err = "RefNotPermitted" -> <<[status |-> FALSE, reason |-> "RefNotPermitted"]>>
          [] OTHER -> <<[status |-> FALSE, reason |-> "InvalidClientCertificateRef"]>>

-----------------------------------------------------------------------------
(* The status of a policy                                                  *)

normalizePolicyTargets(policy) ==
    {[name |-> t.name, section |-> t.section] : t \in {x \in policy.targets : x.kind \in ServiceKinds}}

policiesShareTarget(p, q) == normalizePolicyTargets(p) \cap normalizePolicyTargets(q) # {}

\* The oldest older peer with a target in common; none if the list fails.
conflictWinnerFor(w, policy) ==
    LET older == {p \in w.policies : /\ p.ns = policy.ns /\ p.name # policy.name
                                     /\ policiesShareTarget(p, policy) /\ isPolicyOlder(p, policy)}
    IN  IF "BackendTLSPolicy" \in w.broken THEN {}
        ELSE oldestPolicy(older)

\* The two conditions and their reasons, the first failure deciding.
computeConditions(w, policy) ==
    LET Verdict(accepted, reason, resolved, refs) ==
            [accepted |-> accepted, reason |-> reason, resolved |-> resolved, refsReason |-> refs]
        bad == SelectInSeq(policy.ca, LAMBDA ref : ~ReadsCA(w, policy, ref))
    IN  IF policy.ca = <<>> /\ policy.wellKnown THEN Verdict(FALSE, "Invalid", FALSE, "NoValidCACertificate")
        ELSE IF policy.ca = <<>> THEN Verdict(FALSE, "NoValidCACertificate", FALSE, "InvalidCACertificateRef")
        ELSE IF bad # 0
             THEN Verdict(FALSE, "NoValidCACertificate", FALSE,
                          IF policy.ca[bad].kind # "ConfigMap" THEN "InvalidKind" ELSE "InvalidCACertificateRef")
        ELSE IF conflictWinnerFor(w, policy) # {} THEN Verdict(FALSE, "Conflicted", TRUE, "ResolvedRefs")
        ELSE Verdict(TRUE, "Accepted", TRUE, "ResolvedRefs")

\* backendRefMatchesTargetSet for some backend of the route.
routeReferencesAnyService(route, names, ns) ==
    \E rule \in Range(route.rules) : \E ref \in Range(rule.refs) :
        /\ TargetKind(ref) = "Service"
        /\ resolveBackendNamespace(ref, route.ns) = ns
        /\ ref.name \in names

policyTargetServiceNames(policy) == {t.name : t \in normalizePolicyTargets(policy)}

collectGatewayParentKeys(route) ==
    {<<Default(p.ns, route.ns), p.name>> : p \in {x \in Range(route.parents) : x.kind = "Gateway"}}

\* Our Gateways that routes of the policy's namespace reach its targets from.
gatewaysForPolicy(w, policy) ==
    LET routes == {r \in w.routes : r.ns = policy.ns
                                    /\ routeReferencesAnyService(r, policyTargetServiceNames(policy), policy.ns)}
    IN  {key \in UNION {collectGatewayParentKeys(r) : r \in routes} :
            Get(w, "Gateway", w.gateways, key) = "found" /\ gatewayManagedByController(w, key)}

\* Which policies an event on another object puts in the queue.
policyReferencesConfigMap(policy, name) == \E ref \in Range(policy.ca) : ref.kind = "ConfigMap" /\ ref.name = name

policiesForPeerChange(w, changed) ==
    {p \in w.policies : p.ns = changed.ns /\ p.name # changed.name /\ policiesShareTarget(p, changed)}

policiesForConfigMapChange(w, ns, name) ==
    {p \in w.policies : p.ns = ns /\ policyReferencesConfigMap(p, name)}

policiesForRouteChange(w, route) ==
    {p \in w.policies : p.ns = route.ns
                        /\ routeReferencesAnyService(route, policyTargetServiceNames(p), p.ns)}
=============================================================================
