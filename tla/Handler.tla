------------------------------ MODULE Handler -------------------------------
(***************************************************************************)
(* A proxy that is given configurations and serves requests with them      *)
(* (internal/proxy/handler.go, handler_websocket.go and UpdateConfig of    *)
(* router.go): each request is routed by the table compiled last, passes   *)
(* its filters and is answered by the proxy or sent to a backend.          *)
(*                                                                         *)
(* Abstractions.  A step serves one request with one table, which is what  *)
(* the atomic table pointer gives each request; transports, timeouts and   *)
(* concurrent updates are in ProxyProcess.tla.  A backend answers with no  *)
(* header of its own.                                                      *)
(***************************************************************************)
EXTENDS RequestFilters

CONSTANTS Configs,    \* the configurations that may be pushed
          Requests,   \* the requests that may arrive
          Draws       \* the numbers a mirror filter may draw, in 0..99

\* A host is a sequence of labels, and so is the one the tunnel sets aside.
IsRequest(req) ==
    /\ req.host \in Seq(STRING)
    /\ ValuesOf(req.headers, "x-original-host") \in Seq(Seq(STRING))

ASSUME HandlerAssumption ==
    /\ \A rules \in Configs : IsConfig(rules)
    /\ \A req \in Requests : IsRequest(req)

VARIABLES table,    \* the routing table in use
          exchange  \* <<>>, or the request being answered with what became of it

vars == <<table, exchange>>

-----------------------------------------------------------------------------
(* Validation of a pushed configuration                                    *)

validateFilter(f) ==
    CASE f.type = "RequestMirror" -> f.percent # <<>> => f.percent[1] \in 0..100
      [] f.type = "CORS" -> f.maxAge >= 0
      [] OTHER -> f.type \in {"RequestHeaderModifier", "ResponseHeaderModifier", "RequestRedirect", "URLRewrite"}

Validate(rules) ==
    \A i \in DOMAIN rules :
        /\ \A b \in Range(rules[i].backends) : b.weight >= 0 /\ \A f \in Range(b.filters) : validateFilter(f)
        /\ \A m \in Range(rules[i].matches) : m.path.type # None => m.path.value # <<>>
        /\ \A f \in Range(rules[i].filters) : validateFilter(f)

-----------------------------------------------------------------------------
(* The request as the backend gets it                                      *)

StartsWithSlash(p) == p # <<>> /\ Head(p) = "/"

joinBackendBasePath(base, path) ==
    IF EndsInSlash(base) /\ StartsWithSlash(path) THEN base \o Tail(path)
    ELSE IF ~EndsInSlash(base) /\ ~StartsWithSlash(path) THEN base \o <<"/">> \o path
    ELSE base \o path

\* Parameters of the request win over those of the backend's base path.
mergeBackendBaseQuery(baseQuery, query) == query @@ baseQuery

\* Only an ExternalBackend has a base path or query.
applyBackendBasePath(req, backend) ==
    [req EXCEPT !.path = IF backend.base \in {<<>>, <<"/">>} THEN @ ELSE joinBackendBasePath(backend.base, @),
                !.query = mergeBackendBaseQuery(backend.baseQuery, @)]

\* The Director of the reverse proxy: a rewritten host wins over the one the
\* tunnel set aside, and neither internal header leaves the proxy.
Director(req, backend) ==
    LET rewritten == ValuesOf(req.headers, HostRewritten) # <<>>
        original == ValuesOf(req.headers, "x-original-host")
    IN  [applyBackendBasePath(req, backend) EXCEPT
            !.host = IF ~rewritten /\ original # <<>> THEN Head(original) ELSE @,
            !.headers = Drop(@, {HostRewritten, "x-original-host"})]

\* The upgrade path clones the request and addresses it to the backend.
buildBackendUpgradeRequest(req, backend) ==
    [applyBackendBasePath(req, backend) EXCEPT !.host = backend.addr]

isHTTPUpgradeRequest(req) ==
    ValuesOf(req.headers, "upgrade") # <<>> /\ "upgrade" \in Range(ValuesOf(req.headers, "connection"))

shouldUseWebSocketUpgradePath(req, backend) == backend.webSocket /\ isHTTPUpgradeRequest(req)

-----------------------------------------------------------------------------
(* Serving                                                                 *)

\* What became of a request: the answer, the rule and bucket it was routed
\* to, the backend (0: none) with the request it was sent, the mirror copies.
Outcome(status, headers, result, backend, sent, copies) ==
    [status |-> status, headers |-> headers, rule |-> result.rule, match |-> result.match,
     bucket |-> result.bucket, backend |-> backend, sent |-> sent, copies |-> copies]

isGRPCRequest(req) == "application/grpc" \in Range(ValuesOf(req.headers, "content-type"))

writeGRPCStatus == "content-type" :> <<"application/grpc">> @@ "grpc-status" :> <<"12">>

\* proxyToBackend with the request the filters have left.
proxyToBackend(p, result, rule, k) ==
    LET refuse(status) == Outcome(status, <<>>, result, 0, <<>>, p.copies)
        backend == rule.backends[k]
        sent == IF shouldUseWebSocketUpgradePath(p.req, backend)
                THEN buildBackendUpgradeRequest(p.req, backend) ELSE Director(p.req, backend)
    IN  IF k = 0 THEN refuse(500)
        ELSE IF backend.unavailable # 0 THEN refuse(backend.unavailable)
        ELSE IF backend.sentinel THEN refuse(500)
        ELSE Outcome(200, ApplyResponseFilters(rule.filters \o backend.filters, <<>>, sent),
                     result, k, <<sent>>, p.copies)

\* Rule filters, then the filters of backend k, which the weights chose.
RunFilters(rule, k, match, req, draw) ==
    ApplyRequestFilters(rule.filters \o (IF k = 0 THEN <<>> ELSE rule.backends[k].filters),
                        [req |-> req, resp |-> NoResponse, copies |-> <<>>],
                        getMatchedPathPrefix(rule, match), draw)

\* A filter's answer, or the backend's.
AnswerFiltered(p, result, rule, k) ==
    IF p.resp.status # 0 THEN Outcome(p.resp.status, p.resp.headers, result, 0, <<>>, p.copies)
    ELSE proxyToBackend(p, result, rule, k)

ServeRule(rule, k, result, req, draw) ==
    IF rule.unavailable # 0 THEN Outcome(rule.unavailable, <<>>, result, 0, <<>>, <<>>)
    ELSE AnswerFiltered(RunFilters(rule, k, result.match, req, draw), result, rule, k)

ServeResult(result, t, req, pick, draw) ==
    IF result # NoResult
    THEN ServeRule(t.rules[result.rule], selectBackend(t.rules[result.rule].backends, pick), result, req, draw)
    ELSE IF isGRPCRequest(req) THEN Outcome(200, writeGRPCStatus, result, 0, <<>>, <<>>)
    ELSE Outcome(404, <<>>, result, 0, <<>>, <<>>)

ServeHTTP(t, req, pick, draw) == ServeResult(Route(t, req), t, req, pick, draw)

-----------------------------------------------------------------------------
Tables == [rules \in Configs |->
              IF Validate(rules) /\ TableCompiles(rules)
              THEN {compileRoutingTable(rules, order) : order \in WildcardOrders(rules)} ELSE {}]

Init ==
    /\ table = compileRoutingTable(<<>>, <<>>)
    /\ exchange = <<>>

\* A configuration that does not validate or compile leaves the table alone.
UpdateConfig(rules) ==
    /\ exchange = <<>>
    /\ IF Tables[rules] = {} THEN UNCHANGED table ELSE table' \in Tables[rules]
    /\ UNCHANGED exchange

\* The draw of selectBackend ranges over the total weight of the routed rule.
PicksOf(result, t) ==
    IF result = NoResult THEN {0} ELSE 0..(Max({1, TotalWeight(t.rules[result.rule].backends)}) - 1)

Picks(t, req) == PicksOf(Route(t, req), t)

Serve(req) ==
    /\ exchange = <<>>
    /\ \E pick \in Picks(table, req), draw \in Draws :
          exchange' = <<[req |-> req, out |-> ServeHTTP(table, req, pick, draw)]>>
    /\ UNCHANGED table

\* The response is on its way.
Done ==
    /\ exchange # <<>>
    /\ exchange' = <<>>
    /\ UNCHANGED table

Next == \/ \E rules \in Configs : UpdateConfig(rules)
        \/ \E req \in Requests : Serve(req)
        \/ Done

Spec == Init /\ [][Next]_vars

-----------------------------------------------------------------------------
(* What the proxy promises                                                 *)

\* A name answers for a host: itself, some label in front of its suffix, or
\* every host.
Covers(name, host) ==
    \/ name = AnyHost
    \/ ~name.wild /\ name = host
    \/ name.wild /\ \E k \in 1..Len(host.labels) - 1 : SubSeq(host.labels, k + 1, Len(host.labels)) = name.labels

\* Exact names before wildcards, longer wildcards before shorter ones.
MoreSpecific(m, n) ==
    \/ ~m.wild /\ m # AnyHost /\ (n.wild \/ n = AnyHost)
    \/ m.wild /\ n = AnyHost
    \/ m.wild /\ n.wild /\ Len(m.labels) > Len(n.labels)

NamesOf(rule) == IF rule.hostnames = <<>> THEN {AnyHost} ELSE {Lower(n) : n \in Range(rule.hostnames)}

\* The (rule, name) pairs that could serve a request.
Candidates(rules, req) ==
    {c \in [rule : DOMAIN rules, name : UNION {NamesOf(rules[i]) : i \in DOMAIN rules}] :
        /\ c.name \in NamesOf(rules[c.rule])
        /\ Covers(c.name, extractHost(req))
        /\ \/ rules[c.rule].matches = <<>>
           \/ \E m \in Range(rules[c.rule].matches) : Matches(m, req)}

Beats(rules, c, d) ==
    \/ MoreSpecific(c.name, d.name)
    \/ /\ ~MoreSpecific(d.name, c.name)
       /\ LET f == FiguresOf(rules[c.rule])  g == FiguresOf(rules[d.rule])
          IN  Outranks(f, g) \/ (f = g /\ c.rule < d.rule)

(* Route (router.go) sends a request to the rule that the Gateway API       *)
(* precedence names: the most specific hostname with a matching rule, then  *)
(* the figures of the rule tier by tier, then the order of the              *)
(* configuration; a request no rule matches is not served.  It depends      *)
(* neither on map order nor on the case of a hostname.                      *)
RouteIsBest ==
    exchange # <<>> =>
        LET e == exchange[1]
            cs == Candidates(table.rules, e.req)
        IN  IF cs = {} THEN e.out.rule = 0
            ELSE \E c \in cs : /\ e.out.rule = c.rule /\ e.out.bucket = c.name
                               /\ \A d \in cs \ {c} : Beats(table.rules, c, d)

\* A request asks for a claimed key: the key's match holds of it.
AsksFor(rules, d, req) ==
    \/ d.key.match = CatchAll
    \/ \E m \in Range(rules[d.loser].matches) : canonicalMatchKey(m) = d.key.match /\ Matches(m, req)

(* What DetectShadowedRules reports is what the router does: a match        *)
(* reported as shadowed never serves a request of its hostname, the request *)
(* goes to the rule named as the winner or to one before it; and of two     *)
(* routes that claim one match of one hostname, one is reported.            *)
ShadowHonest ==
    LET rules == table.rules
        shadowed == DetectShadowedRules(rules)
    IN  /\ exchange # <<>> =>
              \A d \in shadowed :
                  exchange[1].out.bucket = d.key.hostname /\ AsksFor(rules, d, exchange[1].req) =>
                      /\ exchange[1].out.rule \in DOMAIN rules \ {d.loser}
                      /\ exchange[1].out.rule = d.winner \/ Before(rules, exchange[1].out.rule, d.winner)
        /\ \A i, j \in DOMAIN rules :
              rules[i].route # rules[j].route =>
                  \A k \in ruleShadowKeys(rules[i]) \cap ruleShadowKeys(rules[j]) :
                      \E d \in shadowed : d.key = k /\ d.loser \in {i, j}

(* selectBackend gives each backend its weight's worth of the numbers that  *)
(* can be drawn, none to a backend of weight zero, and no backend at all    *)
(* only when every weight is zero.                                          *)
TrafficSplit ==
    \A i \in DOMAIN table.rules :
        LET bs == table.rules[i].backends
            total == TotalWeight(bs)
        IN  IF total = 0 THEN selectBackend(bs, 0) = 0
            ELSE \A k \in DOMAIN bs :
                    Cardinality({p \in 0..(total - 1) : selectBackend(bs, p) = k}) = bs[k].weight

\* The segments a rewrite of the matched prefix leaves, seen as lists.
Spliced(prefix, value, path) ==
    Segments(value) \o SubSeq(Segments(path), Len(Segments(prefix)) + 1, Len(Segments(path)))

NoEmptySegment(path) == \A k \in 1..(Len(path) - 1) : ~(path[k] = "/" /\ path[k + 1] = "/")

FirstOfType(filters, type) == SelectInSeq(filters, LAMBDA f : f.type = type)

(* Replacing a matched prefix (URLRewrite, RequestRedirect) and adding the  *)
(* base path of an ExternalBackend work on whole segments: the backend, or  *)
(* the Location, gets the base, the replacement and the rest of the path,   *)
(* with single slashes between them.                                        *)
PathsSpliced ==
    exchange # <<>> /\ exchange[1].out.rule # 0 =>
        LET e == exchange[1]
            rule == table.rules[e.out.rule]
            prefix == getMatchedPathPrefix(rule, e.out.match)
            rw == FirstOfType(rule.filters, "URLRewrite")
            rd == FirstOfType(rule.filters, "RequestRedirect")
        IN  /\ rw # 0 /\ rule.filters[rw].path.type = "ReplacePrefixMatch" /\ prefix # NoPath
               /\ e.out.sent # <<>> =>
                  /\ Segments(e.out.sent[1].path) =
                        Segments(rule.backends[e.out.backend].base)
                            \o Spliced(prefix, rule.filters[rw].path.value, e.req.path)
                  /\ NoEmptySegment(e.out.sent[1].path)
            /\ rd # 0 /\ rule.filters[rd].path.type = "ReplacePrefixMatch" /\ prefix # NoPath
               /\ e.out.status \in 300..399 =>
                  /\ Segments(e.out.headers["location"][1].path) =
                        Spliced(prefix, rule.filters[rd].path.value, e.req.path)
                  /\ NoEmptySegment(e.out.headers["location"][1].path)

Granted(headers) == ValuesOf(headers, "allow-origin")

\* An actual request that the rule of a preflight sends on is granted the
\* origin of the preflight's answer.
GrantsAgree(out, preflight) ==
    out.rule = preflight.rule /\ out.sent # <<>> => Granted(out.headers) = Granted(preflight.headers)

(* A rule answers a preflight with the origin it will answer the actual     *)
(* request with, and with none when it will send none; nobody is answered   *)
(* with the wildcard as the origin, whatever the policy and the Origin      *)
(* asked with, nor with another wildcard under a policy with credentials    *)
(* (originAllowed, allowedMethodsValue, exposeHeadersValue in cors.go).     *)
CORSConsistent ==
    exchange # <<>> /\ exchange[1].out.rule # 0 /\ isCORSPreflight(exchange[1].req)
    /\ exchange[1].out.status = 204 =>
        LET e == exchange[1]
        IN  /\ \A req \in {r \in Requests : Origin(r) = Origin(e.req)}, draw \in Draws :
                  \A pick \in Picks(table, req) : GrantsAgree(ServeHTTP(table, req, pick, draw), e.out)
            /\ Granted(e.out.headers) # <<corsWildcard>>
            /\ ValuesOf(e.out.headers, "allow-credentials") # <<>> =>
                  \A n \in DOMAIN e.out.headers \cap {"allow-methods", "allow-headers", "expose-headers"} :
                      e.out.headers[n] # <<"*">>
=============================================================================
