----------------------------- MODULE Converter ------------------------------
(***************************************************************************)
(* From HTTPRoutes and GRPCRoutes to the rules a proxy is sent: the        *)
(* converters of internal/proxy (converter.go, grpc_converter.go,          *)
(* backendref_common.go) and the passes the controller runs over their     *)
(* result (marking unusable backends, expanding headless Services,         *)
(* resolving ExternalBackends).  ControlPlane.tla runs them in order.      *)
(*                                                                         *)
(* Abstractions.  A URL is a scheme and a host, a host a record of what it *)
(* is built from.  Hostnames, matches and header values are copied and     *)
(* stay opaque.  Diagnostics are told apart by condition and reason.  A    *)
(* backend keeps the position of the reference it comes from, which the    *)
(* code does not need and the properties do.                               *)
(***************************************************************************)
EXTENDS BackendTLS

None == "None"

-----------------------------------------------------------------------------
(* URLs                                                                    *)

ServiceHost(name, ns, port, domain) ==
    [kind |-> "service", name |-> name, ns |-> ns, domain |-> domain, port |-> port]

buildServiceURL(name, ns, port, domain) ==
    [scheme |-> IF port = HTTPSPort THEN "https" ELSE "http", host |-> ServiceHost(name, ns, port, domain)]

ExternalBackendSentinelURL(ns, name) ==
    [scheme |-> "externalbackend",
     host |-> [kind |-> "sentinel", name |-> name, ns |-> ns, domain |-> "", port |-> 0]]

ExternalURL(ext) ==
    [scheme |-> ext.scheme, host |-> [kind |-> "external", name |-> ext.host, ns |-> "", domain |-> "", port |-> 0]]

validatePort(port) == port \in 1..65535

-----------------------------------------------------------------------------
(* Matches                                                                 *)

convertPathMatch(p) == [type |-> Default(p.type, "PathPrefix"), value |-> Default(p.value, <<>>)]

convertValueMatch(v) == [name |-> v.name, type |-> Default(v.type, "Exact"), value |-> v.value]

convertMatch(m) ==
    [path |-> IF m.path = <<>> THEN [type |-> None, value |-> <<>>] ELSE convertPathMatch(m.path[1]),
     method |-> Default(m.method, None),
     headers |-> [i \in DOMAIN m.headers |-> convertValueMatch(m.headers[i])],
     query |-> [i \in DOMAIN m.query |-> convertValueMatch(m.query[i])]]

\* A pattern is the sequence of its parts; "[^/]+" stands for any segment.
AnySegment == <<"[^/]+">>
OrAny(part) == IF part = <<>> THEN AnySegment ELSE part

grpcMethodToPath(m) ==
    CASE m.service = <<>> /\ m.method = <<>> -> [type |-> None, value |-> <<>>]
      [] m.type = "RegularExpression" /\ (m.service # <<>> \/ m.method # <<>>) ->
            [type |-> "RegularExpression",
             value |-> <<"^/(?:">> \o OrAny(m.service) \o <<")/(?:">> \o OrAny(m.method) \o <<")$">>]
      [] m.type # "RegularExpression" /\ m.service # <<>> /\ m.method # <<>> ->
            [type |-> "Exact", value |-> <<"/">> \o m.service \o <<"/">> \o m.method]
      [] m.type # "RegularExpression" /\ m.service # <<>> /\ m.method = <<>> ->
            [type |-> "PathPrefix", value |-> <<"/">> \o m.service \o <<"/">>]
      [] m.type # "RegularExpression" /\ m.service = <<>> /\ m.method # <<>> ->
            [type |-> "RegularExpression", value |-> <<"^/">> \o AnySegment \o <<"/">> \o m.method \o <<"$">>]

\* A match on nothing is dropped; a rule without matches matches everything.
convertGRPCMatches(ms) ==
    LET converted == [i \in DOMAIN ms |->
            [path |-> IF ms[i].method = <<>> THEN [type |-> None, value |-> <<>>]
                      ELSE grpcMethodToPath(ms[i].method[1]),
             method |-> None, query |-> <<>>,
             headers |-> [k \in DOMAIN ms[i].headers |-> convertValueMatch(ms[i].headers[k])]]]
    IN  SelectSeq(converted, LAMBDA m : m.path.type # None \/ m.headers # <<>>)

-----------------------------------------------------------------------------
(* Filters.  An input filter has a type and a configuration that may be     *)
(* missing; converting one gives the output filter or none, whether the     *)
(* rule or backend fails closed, and the diagnostics.                       *)

Converted(filters, fail, diags) == [filters |-> filters, fail |-> fail, diags |-> diags]
Diagnostic(target, reason, whole) == [target |-> target, reason |-> reason, whole |-> whole]

\* newBackendRefValidator and validateCrossNamespace: the group of the
\* reference is looked up as it is written.
validateCrossNamespace(w, route, ref) ==
    LET ns == resolveBackendNamespace(ref, route.ns)
    IN  ns = route.ns \/ IsReferenceAllowed(w, [kind |-> route.kind, ns |-> route.ns],
                                            [kind |-> ref.kind, ns |-> ns, name |-> ref.name]) = "yes"

backendDomain(ref) == IF ref.kind = "ServiceImport" THEN "clusterset" ELSE "cluster"

forceHTTPSScheme(url) == [url EXCEPT !.scheme = IF @ = "http" THEN "https" ELSE @]
forceHTTPScheme(url) == [url EXCEPT !.scheme = IF @ = "https" THEN "http" ELSE @]

attachGatewayClientCert(tls, cert) ==
    IF tls = <<>> \/ cert = <<>> THEN tls ELSE <<[tls[1] EXCEPT !.cert = cert]>>

clampPercent(value) == IF value < 0 THEN 0 ELSE IF value > 100 THEN 100 ELSE value

\* Percent before fraction; a fraction is rounded down.
mirrorPercent(mirror) ==
    IF mirror.percent # <<>> THEN <<clampPercent(mirror.percent[1])>>
    ELSE IF mirror.fraction = <<>> THEN <<>>
    ELSE LET denominator == Default(mirror.fraction[1].denominator, 100)
         IN  IF denominator <= 0 THEN <<>>
             ELSE <<clampPercent((mirror.fraction[1].numerator * 100) \div denominator)>>

\* Why a mirror is dropped: <<>> or <<reason>>.
validateMirrorBackendRef(w, route, ref) ==
    IF TargetKind(ref) \notin {"Service", "ServiceImport"} THEN <<"InvalidKind">>
    ELSE IF ~validatePort(resolveBackendPort(ref)) THEN <<"UnsupportedValue">>
    ELSE IF ~validateCrossNamespace(w, route, ref) THEN <<"RefNotPermitted">> ELSE <<>>

MirrorTo(url, tls, cert, percent) ==
    [type |-> "RequestMirror",
     cfg |-> [url |-> IF tls = <<>> THEN url ELSE forceHTTPSScheme(url),
              tls |-> attachGatewayClientCert(tls, cert), percent |-> percent]]

\* A mirror that is dropped leaves the request alone.
convertMirrorFilter(w, route, mirror, cert) ==
    LET drop == validateMirrorBackendRef(w, route, mirror.ref)
        ns == resolveBackendNamespace(mirror.ref, route.ns)
        port == resolveBackendPort(mirror.ref)
    IN  IF drop # <<>> THEN Converted(<<>>, FALSE, {Diagnostic("ResolvedRefs", drop[1], FALSE)})
        ELSE Converted(<<MirrorTo(buildServiceURL(mirror.ref.name, ns, port, backendDomain(mirror.ref)),
                                  BackendTLSResolver(w, ns, mirror.ref.name, port), cert, mirrorPercent(mirror))>>,
                       FALSE, {})

\* A path modifier without a value is dropped from a redirect, and kept
\* without one in a rewrite.
convertRedirectPath(path) ==
    IF path = <<>> \/ path[1].value = <<>> \/ path[1].type \notin {"ReplaceFullPath", "ReplacePrefixMatch"}
    THEN [type |-> None, value |-> <<>>] ELSE [type |-> path[1].type, value |-> path[1].value[1]]

convertURLRewritePath(path) ==
    IF path = <<>> \/ path[1].type \notin {"ReplaceFullPath", "ReplacePrefixMatch"}
    THEN [type |-> None, value |-> <<>>] ELSE path[1]

\* The configurations that are copied field by field.
convertFilterConfig(type, cfg) ==
    CASE type = "RequestRedirect" -> [cfg EXCEPT !.path = convertRedirectPath(@)]
      [] type = "URLRewrite" -> [cfg EXCEPT !.path = convertURLRewritePath(@)]
      [] type = "CORS" -> [cfg EXCEPT !.credentials = Default(@, FALSE)]
      [] OTHER -> cfg

HeaderModifiers == {"RequestHeaderModifier", "ResponseHeaderModifier"}
HTTPFilters == HeaderModifiers \cup {"RequestRedirect", "URLRewrite", "RequestMirror", "CORS"}

\* Mutant: an unsupported filter is skipped.
convertFilter_Skips(w, route, f, cert, scope) ==
    IF f.type \notin HTTPFilters
    THEN Converted(<<>>, FALSE, {Diagnostic("Accepted", "UnsupportedValue", scope = "rule")})
    ELSE IF f.cfg = <<>> THEN Converted(<<>>, FALSE, {})
    ELSE IF f.type = "RequestMirror" THEN convertMirrorFilter(w, route, f.cfg[1], cert)
    ELSE Converted(<<[type |-> f.type, cfg |-> convertFilterConfig(f.type, f.cfg[1])]>>, FALSE, {})

\* An unsupported filter fails closed; one without configuration is skipped.
convertFilter(w, route, f, cert, scope) ==
    IF f.type \notin HTTPFilters
    THEN Converted(<<>>, TRUE, {Diagnostic("Accepted", "UnsupportedValue", scope = "rule")})
    ELSE IF f.cfg = <<>> THEN Converted(<<>>, FALSE, {})
    ELSE IF f.type = "RequestMirror" THEN convertMirrorFilter(w, route, f.cfg[1], cert)
    ELSE Converted(<<[type |-> f.type, cfg |-> convertFilterConfig(f.type, f.cfg[1])]>>, FALSE, {})

\* GRPCRoutes have header modifiers only.
convertGRPCFilter(f, scope) ==
    IF f.type \notin HeaderModifiers
    THEN Converted(<<>>, TRUE, {Diagnostic("Accepted", "UnsupportedValue", scope = "rule")})
    ELSE IF f.cfg = <<>> THEN Converted(<<>>, FALSE, {})
    ELSE Converted(<<[type |-> f.type, cfg |-> f.cfg[1]]>>, FALSE, {})

Join(c, d) == Converted(c.filters \o d.filters, c.fail \/ d.fail, c.diags \cup d.diags)

\* All filters of a rule or a backend, each with its own outcome.
convertFilters(w, route, fs, cert, scope) ==
    FoldLeft(LAMBDA acc, f : Join(acc, IF route.kind = "GRPCRoute" THEN convertGRPCFilter(f, scope)
                                       ELSE convertFilter(w, route, f, cert, scope)),
             Converted(<<>>, FALSE, {}), fs)

-----------------------------------------------------------------------------
(* Backends.  Converting a reference gives a sequence of at most one        *)
(* backend and its diagnostics.                                             *)

Backend(i, weight, url, status) ==
    [ref |-> i, weight |-> weight, url |-> url, status |-> status, protocol |-> "http",
     webSocket |-> FALSE, tls |-> <<>>, filters |-> <<>>]

\* A reference that cannot be served keeps its share of the traffic and
\* answers 500; without a share it is dropped.
markInvalidBackend(i, weight, name, ns, port) ==
    IF weight <= 0 THEN <<>>
    ELSE <<Backend(i, weight, buildServiceURL(name, ns, IF validatePort(port) THEN port ELSE DefaultPort, "cluster"), 500)>>

\* resolveBackendTLS: the TLS configuration of a resolved backend, with the
\* scheme it forces.
WithTLS(b, tls, cert) ==
    [b EXCEPT !.tls = attachGatewayClientCert(tls, cert),
              !.url = IF tls = <<>> THEN @ ELSE forceHTTPSScheme(@)]

isTLSAppProtocol(app) == app \in {"https", "HTTPS", "kubernetes.io/wss"}
UnpolicedTLS(b, app) == isTLSAppProtocol(app) /\ b.tls = <<>>

\* h2c is cleartext unless a policy puts TLS on the wire; a TLS appProtocol
\* without a policy has no CA to verify with and answers 502.
resolveBackendProtocol(b, app) ==
    [b EXCEPT !.protocol = IF app = "kubernetes.io/h2c" /\ b.tls = <<>> THEN "h2c" ELSE "http",
              !.url = IF app = "kubernetes.io/h2c" /\ b.tls = <<>> THEN forceHTTPScheme(@) ELSE @,
              !.webSocket = app \in {"kubernetes.io/ws", "kubernetes.io/wss"},
              !.status = IF UnpolicedTLS(b, app) THEN 502 ELSE @]

ProtocolDiagnostics(b, app) ==
    IF UnpolicedTLS(b, app) \/ app \notin {"", "http", "HTTP", "https", "HTTPS", "kubernetes.io/h2c",
                                           "kubernetes.io/ws", "kubernetes.io/wss"}
    THEN {Diagnostic("ResolvedRefs", "UnsupportedProtocol", FALSE)}
    ELSE IF b.tls # <<>> /\ app \in {"kubernetes.io/h2c", "kubernetes.io/ws"}
    THEN {Diagnostic("Event", "Normal", FALSE)} ELSE {}

\* applyGRPCBackendTransport: always HTTP/2, over TLS or in the clear.
applyGRPCBackendTransport(b, app) ==
    IF b.tls # <<>> THEN b
    ELSE IF isTLSAppProtocol(app) THEN [b EXCEPT !.status = 502]
    ELSE [b EXCEPT !.url = forceHTTPScheme(@), !.protocol = "h2c"]

\* convertBackendRef: transport, then the filters, whose failure answers
\* 500; convertGRPCBackendRef has them the other way round.
WithTransport(kind, b, app, fs) ==
    LET Failed(x) == IF fs.fail THEN [x EXCEPT !.status = 500] ELSE x
    IN  IF kind = "GRPCRoute"
        THEN [backends |-> <<applyGRPCBackendTransport([Failed(b) EXCEPT !.filters = fs.filters], app)>>,
              diags |-> fs.diags \cup (IF UnpolicedTLS(b, app) THEN ProtocolDiagnostics(b, app) ELSE {})]
        ELSE [backends |-> <<Failed([resolveBackendProtocol(b, app) EXCEPT !.filters = fs.filters])>>,
              diags |-> fs.diags \cup ProtocolDiagnostics(b, app)]

convertServiceRef(w, route, i, ref, cert) ==
    LET ns == resolveBackendNamespace(ref, route.ns)
        port == resolveBackendPort(ref)
        plain == Backend(i, effectiveBackendWeight(ref), buildServiceURL(ref.name, ns, port, backendDomain(ref)), 0)
    IN  WithTransport(route.kind, WithTLS(plain, BackendTLSResolver(w, ns, ref.name, port), cert),
                      BackendProtocolResolver(w, ns, ref.name, port),
                      convertFilters(w, route, ref.filters, cert, "backend"))

Sentinel(kind, i, weight, url, fs) ==
    [backends |-> <<[Backend(i, weight, url, IF fs.fail THEN 500 ELSE 0) EXCEPT
                        !.filters = fs.filters, !.protocol = IF kind = "GRPCRoute" THEN "h2c" ELSE "http"]>>,
     diags |-> fs.diags]

\* convertExternalBackendRef and its gRPC twin: a sentinel for a later pass.
convertExternalBackendRef(w, route, i, ref, cert) ==
    LET ns == resolveBackendNamespace(ref, route.ns)
        weight == effectiveBackendWeight(ref)
    IN  IF ~validateCrossNamespace(w, route, ref)
        THEN [backends |-> markInvalidBackend(i, weight, ref.name, ns, DefaultPort), diags |-> {}]
        ELSE Sentinel(route.kind, i, weight, ExternalBackendSentinelURL(ns, ref.name),
                      convertFilters(w, route, ref.filters, cert, "backend"))

\* resolveCommonBackendRef and what follows for each outcome.
convertBackendRef(w, route, i, ref, cert) ==
    LET ns == resolveBackendNamespace(ref, route.ns)
        port == resolveBackendPort(ref)
        weight == effectiveBackendWeight(ref)
        invalid == [backends |-> markInvalidBackend(i, weight, ref.name, ns, port), diags |-> {}]
    IN  IF weight < 0 THEN [backends |-> <<>>, diags |-> {}]
        ELSE IF TargetKind(ref) \notin {"Service", "ServiceImport", "ExternalBackend"} THEN invalid
        ELSE IF ref.kind = "ExternalBackend" THEN convertExternalBackendRef(w, route, i, ref, cert)
        ELSE IF ~validatePort(port) \/ ~validateCrossNamespace(w, route, ref) THEN invalid
        ELSE convertServiceRef(w, route, i, ref, cert)

-----------------------------------------------------------------------------
(* Rules and routes                                                        *)

\* An unparsable duration drops both timeouts.
convertTimeouts(t) ==
    IF t = <<>> \/ "malformed" \in {t[1].request, t[1].backend} THEN <<>> ELSE t
TimeoutDiagnostics(t) ==
    IF t # <<>> /\ "malformed" \in {t[1].request, t[1].backend}
    THEN {Diagnostic("Accepted", "UnsupportedValue", FALSE)} ELSE {}

HandshakeHeaders == {"sec-websocket-accept", "upgrade", "connection"}
StripsHandshake(f) == f.type = "ResponseHeaderModifier" /\ Range(f.cfg.remove) \cap HandshakeHeaders # {}

\* A response filter that would break the upgrade of a WebSocket backend.
warnIfWSResponseFilterStripsHandshake(filters, backends) ==
    LET ws == {b \in Range(backends) : b.webSocket}
    IN  IF ws # {} /\ \E f \in Range(filters) \cup UNION {Range(b.filters) : b \in ws} : StripsHandshake(f)
        THEN {Diagnostic("Event", "Warning", FALSE)} ELSE {}

\* A rule from its converted filters and references.
RuleFrom(route, k, fs, refs) ==
    LET rule == route.rules[k]
        backends == FlattenSeq([i \in DOMAIN refs |-> refs[i].backends])
        http == route.kind = "HTTPRoute"
    IN  [route |-> <<route.kind, route.ns, route.name>>, rule |-> k, hostnames |-> route.hostnames,
         matches |-> IF http THEN [i \in DOMAIN rule.matches |-> convertMatch(rule.matches[i])]
                     ELSE convertGRPCMatches(rule.matches),
         filters |-> fs.filters, status |-> IF fs.fail THEN 500 ELSE 0, backends |-> backends,
         timeouts |-> IF http THEN convertTimeouts(rule.timeouts) ELSE <<>>,
         diags |-> fs.diags \cup UNION {refs[i].diags : i \in DOMAIN refs}
                   \cup (IF http THEN TimeoutDiagnostics(rule.timeouts)
                                      \cup warnIfWSResponseFilterStripsHandshake(fs.filters, backends) ELSE {})]

\* convertHTTPRouteRule and convertGRPCRouteRule.
convertRule(w, route, k, cert) ==
    RuleFrom(route, k, convertFilters(w, route, route.rules[k].filters, cert, "rule"),
             [i \in DOMAIN route.rules[k].refs |-> convertBackendRef(w, route, i, route.rules[k].refs[i], cert)])

FirstOf(s) == IF s = <<>> THEN <<>> ELSE <<Head(s)>>

\* The certificate of the first Gateway parent that has one.
resolveFirstParentClientCertFromRefs(w, route) ==
    LET CertOf(ref) == IF ref.kind = "Gateway" THEN GatewayClientCertResolver(w, <<Default(ref.ns, route.ns), ref.name>>)
                       ELSE <<>>
    IN  FirstOf(FlattenSeq([i \in DOMAIN route.parents |-> CertOf(route.parents[i])]))

\* sortRoutesByPrecedence: age, then namespace, then name.
Precedes(r, s) ==
    \/ r.created < s.created
    \/ r.created = s.created /\ (Lexical(r.ns, s.ns) \/ (r.ns = s.ns /\ Lexical(r.name, s.name)))

RulesOf(w, route, cert) == [k \in DOMAIN route.rules |-> convertRule(w, route, k, cert)]

sortRoutesByPrecedence(routes) == SetToSortSeq(routes, Precedes)

ConvertEach(w, sorted) ==
    FlattenSeq([i \in DOMAIN sorted |-> RulesOf(w, sorted[i], resolveFirstParentClientCertFromRefs(w, sorted[i]))])

\* convertRoutesGeneric
ConvertRoutes(w, routes) == ConvertEach(w, sortRoutesByPrecedence(routes))
=============================================================================
