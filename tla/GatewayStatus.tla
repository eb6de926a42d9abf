---------------------------- MODULE GatewayStatus ---------------------------
(***************************************************************************)
(* What the controllers of Gateways, ListenerSets, BackendTLSPolicies,     *)
(* GatewayClasses and GatewayClassConfigs report, and which of these       *)
(* objects an event on another one puts in their queues                    *)
(* (gateway_controller.go, listenerset_controller.go, listenerset_tls.go,  *)
(* backendtlspolicy_controller.go, gatewayclass_controller.go,             *)
(* gatewayclassconfig_controller.go, mappers.go).                          *)
(*                                                                         *)
(* A condition is its reason, which decides its status; a listener has the *)
(* field certs, its certificateRefs.                                       *)
(***************************************************************************)
EXTENDS GatewayInfra

CONSTANT PolicyAncestorMax   \* policyAncestorStatusMaxCount

-----------------------------------------------------------------------------
(* Certificate references of listeners.  "" is a reference that resolves.   *)

\* checkSecretReferenceGrant, of a Gateway or of a ListenerSet
SecretGranted(w, kind, from, ns, name) ==
    IF kind = "Gateway" THEN checkSecretReferenceGrantForGateway(w, from, ns, name)
    ELSE IF "ReferenceGrant" \in w.broken THEN "error"
    ELSE IF \E g \in w.grants : /\ g.ns = ns
                                /\ \E f \in g.from : f.kind = kind /\ f.ns = from
                                /\ \E t \in g.to : t.kind = "Secret" /\ t.name \in {<<>>, <<"">>, <<name>>}
         THEN "yes" ELSE "no"

\* A Secret that cannot be read is a fault of the reference to a Gateway, and
\* an error to a ListenerSet.
validateSingleCertRef(w, kind, owner, ref) ==
    LET secret == <<Default(ref.ns, owner[1]), ref.name>>
    IN  CASE ref.kind # "Secret" -> "InvalidCertificateRef"
          [] ref.kind = "Secret" /\ secret[1] # owner[1]
                /\ SecretGranted(w, kind, owner[1], secret[1], ref.name) # "yes" -> "RefNotPermitted"
          [] OTHER -> CASE Get(w, "Secret", w.secrets, secret) = "error" /\ kind = "ListenerSet" -> "error"
                        [] Get(w, "Secret", w.secrets, secret) # "found" -> "InvalidCertificateRef"
                        [] OTHER -> IF w.secrets[secret] = "unusable" THEN "InvalidCertificateRef" ELSE ""

\* The first reference that fails.
validateTLSCertificateRefs(w, kind, owner, l) ==
    LET verdicts == [i \in DOMAIN l.certs |-> validateSingleCertRef(w, kind, owner, l.certs[i])]
        bad == SelectInSeq(verdicts, LAMBDA v : v # "")
    IN  IF bad = 0 THEN "" ELSE verdicts[bad]

-----------------------------------------------------------------------------
(* Listeners                                                               *)

servableListenerProtocol(protocol) == protocol \in {"HTTP", "HTTPS"}
hostnameCaptureRisk(l) == l.hostname = <<>> /\ l.from = "All"

\* A Gateway reports unsupported kinds before certificates, a ListenerSet
\* certificates before kinds.
buildResolvedRefsCondition(kind, l, refs) ==
    LET kinds == FilterSupportedKinds(l)
        unsupported == ~kinds.hasValid \/ kinds.hasInvalid
    IN  IF refs # "" /\ (kind = "ListenerSet" \/ ~unsupported) THEN refs
        ELSE IF unsupported THEN "InvalidRouteKinds" ELSE "ResolvedRefs"

\* The status of one listener, of either kind of parent.
listenerEntryConditions(kind, l, conflict, refs, attached) ==
    LET resolved == buildResolvedRefsCondition(kind, l, refs)
        served == servableListenerProtocol(l.protocol)
        accepted == IF conflict # "" THEN conflict ELSE IF served THEN "Accepted" ELSE "UnsupportedProtocol"
    IN  [name |-> l.name, accepted |-> accepted, resolved |-> resolved,
         programmed |-> IF conflict # "" THEN conflict
                        ELSE IF accepted = "Accepted" /\ resolved = "ResolvedRefs" THEN "Programmed" ELSE "Invalid",
         permissive |-> accepted = "Accepted" /\ hostnameCaptureRisk(l),
         kinds |-> IF kind = "Gateway" /\ ~served THEN {} ELSE FilterSupportedKinds(l).kinds,
         attached |-> attached]

-----------------------------------------------------------------------------
(* Gateways                                                                *)

\* Every parentRef counts, and its kind is not looked at.
refMatchesGateway(route, ref, key) == RefKey(route, ref) = key

countAttachedRoutes(w, key, name) ==
    LET gateway == w.gateways[key]
        Attaches(r, i) == LET b == findMatchingEntries(w, gateway.listeners, key[1], r, r.parents[i])
                          IN  /\ refMatchesGateway(r, r.parents[i], key)
                              /\ b.accepted /\ name \in b.matched
    IN  MapThenSumSet(LAMBDA r : Cardinality({i \in DOMAIN r.parents : Attaches(r, i)}),
                      {r \in w.routes : r.kind \notin w.broken})

\* Accepted sets with a listener that can be served; 0 without a view.
summariseAttachedListenerSets(w, view) ==
    LET Serves(s) == \E l \in Range(w.listenerSets[s].listeners) :
                         conflictReason(view, s, l.name) = "" /\ validateTLSCertificateRefs(w, "ListenerSet", s, l) = ""
    IN  IF view = <<>> THEN 0 ELSE Cardinality({s \in view[1].sets : Serves(s)})

gatewayAcceptedCondition(gateway, view) ==
    LET served == {l \in Range(gateway.listeners) : servableListenerProtocol(l.protocol)}
    IN  IF \E l \in Range(gateway.listeners) : conflictReason(view, <<>>, l.name) # "" THEN "ListenersNotValid"
        ELSE IF served = Range(gateway.listeners) THEN "Accepted"
        ELSE IF served = {} THEN "ListenersNotValid" ELSE "Accepted/ListenersNotValid"

\* By name: whose Deployment it is does not matter.
perGatewayProgrammedCondition(deployment) == IF deployment # <<>> /\ deployment[1].ready THEN "Programmed" ELSE "Pending"

NoGatewayStatus == [gen |-> 0, accepted |-> "Pending", programmed |-> "Pending", address |-> "", sets |-> 0,
                    cert |-> <<>>, listeners |-> <<>>]

\* applyGatewayConditions: a transient failure leaves the condition as it was.
clientCertCondition(w, key, old) ==
    LET cert == buildClientCertResolvedRefsCondition(w, key) IN IF cert = <<>> THEN old ELSE cert

\* updateStatus: tunnel and dedicated come from the resolve before it.
gatewayStatus(w, key, view, tunnel, dedicated, deployment, old) ==
    LET gateway == w.gateways[key]
        Entry(l) == listenerEntryConditions("Gateway", l, conflictReason(view, <<>>, l.name),
                        validateTLSCertificateRefs(w, "Gateway", key, l), countAttachedRoutes(w, key, l.name))
    IN  [gen |-> gateway.gen, accepted |-> gatewayAcceptedCondition(gateway, view),
         programmed |-> IF dedicated THEN perGatewayProgrammedCondition(deployment) ELSE "Programmed",
         address |-> tunnel, sets |-> summariseAttachedListenerSets(w, view),
         cert |-> clientCertCondition(w, key, old.cert),
         listeners |-> [i \in DOMAIN gateway.listeners |-> Entry(gateway.listeners[i])]]

\* The condition of the client certificate is kept up even so.
setConfigErrorStatus(w, key, old) ==
    [old EXCEPT !.gen = w.gateways[key].gen, !.accepted = "InvalidParameters", !.programmed = "Invalid",
                !.address = "", !.cert = clientCertCondition(w, key, @), !.listeners = <<>>]

\* What the status is made of before updateStatus: [mode, tunnel].  Without a
\* parametersRef every failure is shown; with one, a transient failure is not.
resolveGatewayConfig(w, key, gateway) ==
    LET dedicated == HasInfrastructureParametersRef(gateway)
        r == IF dedicated THEN resolveStatusConfig(w, key, gateway) ELSE ResolveFromGatewayClassName(w, gateway.class)
        mode == CASE r.outcome = "ok" /\ dedicated /\ ~HasImage(ConfigOf(w, key, gateway)) -> "error"
                  [] r.outcome = "ok" -> IF dedicated THEN "dedicated" ELSE "shared"
                  [] r.outcome = "transient" /\ dedicated -> "retry"
                  [] OTHER -> "error"
    IN  [mode |-> mode, tunnel |-> r.tunnel]

-----------------------------------------------------------------------------
(* ListenerSets                                                            *)

NoSetStatus == [gen |-> 0, accepted |-> "Pending", listeners |-> <<>>]

\* A route counts once per entry.
countAttachedRoutesPerEntry(w, set, name) ==
    LET Attaches(r) == \E ref \in Range(r.parents) :
            LET b == findMatchingEntries(w, w.listenerSets[set].listeners, set[1], r, ref)
            IN  ref.kind = "ListenerSet" /\ RefKey(r, ref) = set /\ b.accepted /\ name \in b.matched
    IN  Cardinality({r \in w.routes : Attaches(r)})

summariseListenerSet(set, view, refs, listeners) ==
    IF \E i \in DOMAIN listeners : conflictReason(view, set, listeners[i].name) = "" /\ refs[i] = ""
    THEN "Accepted" ELSE "ListenersNotValid"

\* computeAcceptance; w holds the Gateway as it was read before.
computeAcceptance(w, set, gateway, view, refs) ==
    LET listeners == w.listenerSets[set].listeners
    IN  CASE EvaluateListenerSetAcceptance(w, gateway, set) # "yes" -> "NotAllowed"
          [] EvaluateListenerSetAcceptance(w, gateway, set) = "yes"
                /\ (view = <<>> \/ "error" \in Range(refs) \/ {"HTTPRoute", "GRPCRoute"} \cap w.broken # {}) -> "Pending"
          [] OTHER -> summariseListenerSet(set, view, refs, listeners)

listenerSetStatus(w, set, gateway, view) ==
    LET listeners == w.listenerSets[set].listeners
        refs == [i \in DOMAIN listeners |-> validateTLSCertificateRefs(w, "ListenerSet", set, listeners[i])]
        verdict == computeAcceptance(w, set, gateway, view, refs)
        \* rejected as a whole
        Rejected(l) == [listenerEntryConditions("ListenerSet", l, verdict, "", 0) EXCEPT
                           !.resolved = IF verdict = "Pending" THEN "Pending" ELSE "ResolvedRefs"]
        Entry(i) == listenerEntryConditions("ListenerSet", listeners[i], conflictReason(view, set, listeners[i].name),
                        refs[i], countAttachedRoutesPerEntry(w, set, listeners[i].name))
    IN  [gen |-> w.listenerSets[set].gen, accepted |-> verdict,
         listeners |-> [i \in DOMAIN listeners |->
                           IF verdict \in {"Accepted", "ListenersNotValid"} THEN Entry(i) ELSE Rejected(listeners[i])]]

-----------------------------------------------------------------------------
(* Policies, classes and class configurations                              *)

NoPolicyStatus == [ours |-> <<>>, foreign |-> 0]

\* updateStatus: the entries of others stay, ours are cut to what is left.
policyStatus(policy, gateways, verdict, old) ==
    LET sorted == SetToSortSeq(gateways, LAMBDA g, h : IF g[1] = h[1] THEN Lexical(g[2], h[2]) ELSE Lexical(g[1], h[1]))
        room == IF old.foreign < PolicyAncestorMax THEN PolicyAncestorMax - old.foreign ELSE 0
        kept == SubSeq(sorted, 1, IF Len(sorted) < room THEN Len(sorted) ELSE room)
    IN  [old EXCEPT !.ours = [i \in DOMAIN kept |-> [gateway |-> kept[i], gen |-> policy.gen, verdict |-> verdict]]]

NoClassStatus == [gen |-> 0, accepted |-> FALSE, version |-> "unset"]
NoConfigStatus == [gen |-> 0, valid |-> FALSE]

\* An empty key passes here, though resolveConfig refuses it.
validateConfig(w, config) ==
    [gen |-> config.gen, valid |-> Get(w, "Secret", w.secrets, config.secret) = "found"]

\* setAcceptedConditions: the version of the installed CRDs is left as it was
\* when they cannot be read.
BundleUnread(w) == "CustomResourceDefinition" \in w.broken
classStatus(w, class, old) ==
    [gen |-> w.classes[class].gen, accepted |-> TRUE, version |-> IF BundleUnread(w) THEN old.version ELSE w.bundle]

InUse(w, class) == \E g \in DOMAIN w.gateways : w.gateways[g].class = class

reconcileFinalizer(w, class) ==
    LET c == w.classes[class]
    IN  CASE InUse(w, class) /\ ~c.finalizer /\ ~c.deleting -> TRUE
          [] ~InUse(w, class) /\ c.finalizer -> FALSE
          [] OTHER -> c.finalizer
=============================================================================
