----------------------------- MODULE References -----------------------------
(***************************************************************************)
(* What a route's backend reference resolves to in a given state of the    *)
(* cluster: the ReferenceGrant validator (internal/referencegrant) and the *)
(* references the rule builder reports as failed                           *)
(* (internal/ingress/service_resolver.go, route_projection.go).            *)
(*                                                                         *)
(* A cluster w is a record of the API objects the controller reads, each   *)
(* kind a function of <<namespace, name>> or a set; w.broken holds the     *)
(* kinds whose reads fail with something else than NotFound.  An absent    *)
(* field is <<>>, a present one <<value>>.  A kind stands for a group and  *)
(* a kind: "core/Service" is a Service whose group is spelt out.           *)
(***************************************************************************)
EXTENDS Lists, TLC

Default(opt, value) == IF opt = <<>> THEN value ELSE opt[1]

\* A Get of one object: "found", "missing" or "error".
Get(w, kind, objects, key) ==
    IF kind \in w.broken THEN "error" ELSE IF key \in DOMAIN objects THEN "found" ELSE "missing"

-----------------------------------------------------------------------------
(* ReferenceGrants                                                         *)

matchesFrom(from, ref) == from.kind = ref.kind /\ from.ns = ref.ns

matchesTo(to, ref) ==
    /\ ref.kind = IF to.kind = "core/Service" THEN "Service" ELSE to.kind
    /\ to.name \in {<<>>, <<ref.name>>}

grantAllowsReference(grant, fromRef, toRef) ==
    /\ \E f \in grant.from : matchesFrom(f, fromRef)
    /\ \E t \in grant.to : matchesTo(t, toRef)

\* Mutant: the source namespace of a grant is not looked at.
IsReferenceAllowed_AnyNamespace(w, fromRef, toRef) ==
    IF fromRef.ns = toRef.ns THEN "yes"
    ELSE IF "ReferenceGrant" \in w.broken THEN "error"
    ELSE IF \E g \in w.grants : /\ g.ns = toRef.ns /\ \E t \in g.to : matchesTo(t, toRef)
                                /\ \E f \in g.from : f.kind = fromRef.kind
         THEN "yes" ELSE "no"

\* "yes", "no" or "error".
IsReferenceAllowed(w, fromRef, toRef) ==
    IF fromRef.ns = toRef.ns THEN "yes"
    ELSE IF "ReferenceGrant" \in w.broken THEN "error"
    ELSE IF \E g \in w.grants : g.ns = toRef.ns /\ grantAllowsReference(g, fromRef, toRef) THEN "yes" ELSE "no"

\* validateCrossNamespaceRef: an error denies.
validateCrossNamespaceRef(w, route, toKind, ns, name) ==
    IsReferenceAllowed(w, [kind |-> route.kind, ns |-> route.ns],
                       [kind |-> toKind, ns |-> ns, name |-> name]) = "yes"

-----------------------------------------------------------------------------
(* The references of a rule that the ingress builder reports as failed.  A  *)
(* failure is <<>> or <<reason>>.                                           *)

DefaultPort == 80
HTTPSPort == 443

effectiveBackendWeight(ref) == Default(ref.weight, 1)
resolveBackendNamespace(ref, routeNS) == Default(ref.ns, routeNS)
resolveBackendPort(ref) == Default(ref.port, DefaultPort)

\* validateBackendGroupKind
TargetKind(ref) == IF ref.kind \in {"Service", "core/Service"} THEN "Service" ELSE ref.kind

\* A Service that cannot be read passes; its type decides the URL only.
resolveService(w, route, ns, name) ==
    IF ~validateCrossNamespaceRef(w, route, "Service", ns, name) THEN <<"RefNotPermitted">>
    ELSE IF Get(w, "Service", w.services, <<ns, name>>) = "missing" THEN <<"BackendNotFound">> ELSE <<>>

resolveServiceImport(w, route, ns, name, port) ==
    LET got == Get(w, "ServiceImport", w.imports, <<ns, name>>)
    IN  IF ~validateCrossNamespaceRef(w, route, "ServiceImport", ns, name) THEN <<"RefNotPermitted">>
        ELSE IF got = "missing" \/ (got = "found" /\ port \notin w.imports[<<ns, name>>])
             THEN <<"BackendNotFound">> ELSE <<>>

resolveExternalBackend(w, route, ns, name) ==
    LET got == Get(w, "ExternalBackend", w.externals, <<ns, name>>)
    IN  IF ~validateCrossNamespaceRef(w, route, "ExternalBackend", ns, name) THEN <<"RefNotPermitted">>
        ELSE IF got = "missing" THEN <<"BackendNotFound">>
        ELSE IF got = "found" /\ ~w.externals[<<ns, name>>].valid THEN <<"UnsupportedValue">> ELSE <<>>

\* The failure with the host that markUnavailableBackends looks for: an
\* unsupported kind names no namespace, a ServiceImport its own domain.
resolveValidatedBackend(w, route, ref) ==
    LET ns == resolveBackendNamespace(ref, route.ns)
        port == resolveBackendPort(ref)
        kind == TargetKind(ref)
        reason == CASE kind = "Service" -> resolveService(w, route, ns, ref.name)
                    [] kind = "ServiceImport" -> resolveServiceImport(w, route, ns, ref.name, port)
                    [] kind = "ExternalBackend" -> resolveExternalBackend(w, route, ns, ref.name)
                    [] OTHER -> <<"InvalidKind">>
        supported == kind \in {"Service", "ServiceImport", "ExternalBackend"}
    IN  IF reason = <<>> THEN {}
        ELSE {[route |-> <<route.ns, route.name>>, reason |-> reason[1],
               ns |-> IF supported THEN ns ELSE "", name |-> ref.name, port |-> port,
               domain |-> IF kind = "ServiceImport" THEN "clusterset" ELSE "cluster"]}

\* Every backend that gets traffic, whichever one the tunnel document names.
resolveRuleBackendRefs(w, route, refs) ==
    UNION {resolveValidatedBackend(w, route, ref) : ref \in {r \in Range(refs) : effectiveBackendWeight(r) # 0}}

FailedRefs(w, routes) ==
    UNION {UNION {resolveRuleBackendRefs(w, r, rule.refs) : rule \in Range(r.rules)} : r \in routes}
=============================================================================
