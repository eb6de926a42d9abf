--------------------------- MODULE RequestFilters ---------------------------
(***************************************************************************)
(* The filters of a routing rule (internal/proxy/filter.go, cors.go): what *)
(* each does to a request on its way in, the response some of them give at *)
(* once, and what they do to the backend's response on its way out.        *)
(*                                                                         *)
(* Abstractions.  Headers and parameters map a lower-case name to the      *)
(* sequence of its values.  A request body is told apart by size only; a   *)
(* mirror copy by its destination, path and headers.  Percentages are      *)
(* 0..100 and the drawn number an argument.                                *)
(***************************************************************************)
EXTENDS Router

HostRewritten == "x-proxy-host-rewritten"
NoResponse == [status |-> 0, headers |-> <<>>]

Drop(f, names) == [n \in DOMAIN f \ names |-> f[n]]
Put(f, name, values) == (name :> values) @@ f

\* Header names and values of Set and Add are pairs.
applyHeaderModifier(headers, mod) ==
    LET set == FoldLeft(LAMBDA h, p : Put(h, LowerOf[p[1]], <<p[2]>>), headers, mod.set)
        add == FoldLeft(LAMBDA h, p : Put(h, LowerOf[p[1]], Append(ValuesOf(h, LowerOf[p[1]]), p[2])), set, mod.add)
    IN  Drop(add, {LowerOf[n] : n \in Range(mod.remove)})

TrimPrefix(path, prefix) ==
    IF IsPrefix(prefix, path) THEN SubSeq(path, Len(prefix) + 1, Len(path)) ELSE path

\* Mutant: the suffix is glued on as it is.
joinPathSegments_Plain(prefix, suffix) == prefix \o suffix

joinPathSegments(prefix, suffix) ==
    IF suffix = <<>> THEN prefix ELSE Clean(prefix \o <<"/">> \o suffix)

-----------------------------------------------------------------------------
(* Redirect and rewrite.  An absent field is <<>>, a present one <<value>>. *)

OrElse(opt, default) == IF opt = <<>> THEN default ELSE opt[1]

buildRedirectBase(req, cfg) ==
    [scheme |-> OrElse(cfg.scheme, IF req.scheme = None THEN "https" ELSE req.scheme),
     host |-> OrElse(cfg.hostname, req.host), port |-> cfg.port]

buildRedirectPath(req, prefix, cfg) ==
    CASE cfg.path.type = "ReplaceFullPath" -> cfg.path.value
      [] cfg.path.type = "ReplacePrefixMatch" ->
            IF prefix = NoPath THEN cfg.path.value
            ELSE joinPathSegments(cfg.path.value, TrimPrefix(req.path, prefix))
      [] OTHER -> req.path

buildRedirectURL(req, prefix, cfg) ==
    buildRedirectBase(req, cfg) @@ [path |-> buildRedirectPath(req, prefix, cfg), query |-> req.query]

Redirect(req, prefix, cfg) ==
    [status |-> OrElse(cfg.status, 302), headers |-> ("location" :> <<buildRedirectURL(req, prefix, cfg)>>)]

rewritePath(req, prefix, cfg) ==
    CASE cfg.path.type = "ReplaceFullPath" -> cfg.path.value
      [] cfg.path.type = "ReplacePrefixMatch" /\ prefix # NoPath ->
            joinPathSegments(cfg.path.value, TrimPrefix(req.path, prefix))
      [] OTHER -> req.path

Rewrite(req, prefix, cfg) ==
    [req EXCEPT !.path = rewritePath(req, prefix, cfg),
                !.host = OrElse(cfg.hostname, @),
                !.headers = IF cfg.hostname = <<>> THEN @ ELSE Put(@, HostRewritten, <<"true">>)]

-----------------------------------------------------------------------------
(* Mirror                                                                  *)

shouldMirror(mirror, draw) ==
    mirror.percent = <<>> \/ draw < mirror.percent[1]

\* bufferMirrorBody: a body that is too large or breaks off is not copied.
\* The request goes on with the whole body, or with the part that was read.
MirrorableBody(body) == body \in {"none", "small"}
BodyAfterMirror(body) == IF body = "broken" THEN "partial" ELSE body

MirrorCopy(mirror, req) ==
    [url |-> mirror.url, path |-> req.path, query |-> req.query, headers |-> req.headers]

-----------------------------------------------------------------------------
(* CORS.  Origins are [scheme, labels, port]; a pattern is "*" (any) or an  *)
(* origin whose host may be a wildcard.  The Origin header itself may hold  *)
(* corsWildcard, which has no scheme.                                       *)

corsWildcard == [scheme |-> None, labels |-> <<"*">>, port |-> 0]

isCORSPreflight(req) ==
    req.method = "OPTIONS" /\ ValuesOf(req.headers, "access-control-request-method") # <<>>

originMatchesPattern(origin, pat) ==
    /\ origin.scheme = pat.scheme /\ origin.port = pat.port
    /\ IF pat.wild THEN IsSuffix(pat.labels, origin.labels) /\ Len(origin.labels) > Len(pat.labels)
                   ELSE origin.labels = pat.labels

originAllowed(origin, cors) ==
    /\ origin # corsWildcard
    /\ cors.anyOrigin \/ \E pat \in cors.origins : originMatchesPattern(origin, pat)

Origin(req) == ValuesOf(req.headers, "origin")

\* "*" echoes what was asked for; to a credentialed policy it is never sent.
allowedValue(requested, allowed, credentials) ==
    IF allowed # <<"*">> THEN allowed
    ELSE IF requested # <<>> THEN requested
    ELSE IF credentials THEN <<>> ELSE <<"*">>

exposeHeadersValue(cors) ==
    IF cors.expose = <<"*">> /\ cors.credentials THEN <<>> ELSE cors.expose

NonEmpty(f) == [n \in {x \in DOMAIN f : f[x] # <<>>} |-> f[n]]
Credentials(cors) == IF cors.credentials THEN <<"true">> ELSE <<>>
maxAgeSeconds(cors) == IF cors.maxAge <= 0 THEN 5 ELSE cors.maxAge

writePreflightHeaders(req, cors) ==
    NonEmpty([n \in {"allow-origin", "allow-credentials", "allow-methods", "allow-headers",
                     "expose-headers", "max-age", "vary"} |->
        CASE n = "allow-origin" -> Origin(req)
          [] n = "allow-credentials" -> Credentials(cors)
          [] n = "allow-methods" -> allowedValue(ValuesOf(req.headers, "access-control-request-method"),
                                                 cors.methods, cors.credentials)
          [] n = "allow-headers" -> allowedValue(ValuesOf(req.headers, "access-control-request-headers"),
                                                 cors.allowHeaders, cors.credentials)
          [] n = "expose-headers" -> exposeHeadersValue(cors)
          [] n = "max-age" -> <<maxAgeSeconds(cors)>>
          [] n = "vary" -> <<"origin", "access-control-request-method", "access-control-request-headers">>])

Preflight(req, cors) ==
    [status |-> 204,
     headers |-> IF Origin(req) # <<>> /\ originAllowed(Origin(req)[1], cors)
                 THEN writePreflightHeaders(req, cors) ELSE <<>>]

writeSimpleHeaders(headers, req, cors) ==
    NonEmpty([n \in {"allow-origin", "allow-credentials", "expose-headers", "vary"} |->
        CASE n = "allow-origin" -> Origin(req)
          [] n = "allow-credentials" -> Credentials(cors)
          [] n = "expose-headers" -> exposeHeadersValue(cors)
          [] n = "vary" -> ValuesOf(headers, "vary") \o <<"origin">>]) @@ headers

-----------------------------------------------------------------------------
(* The pipeline                                                            *)

\* One filter on the way in.  The state of the pipeline is the request, the
\* response that ends it and the copies sent to mirrors.
ProcessRequest(f, p, prefix, draw) ==
    CASE f.type = "RequestHeaderModifier" -> [p EXCEPT !.req.headers = applyHeaderModifier(@, f.mod)]
      [] f.type = "RequestRedirect" -> [p EXCEPT !.resp = Redirect(p.req, prefix, f)]
      [] f.type = "URLRewrite" -> [p EXCEPT !.req = Rewrite(@, prefix, f)]
      [] f.type = "RequestMirror" ->
            IF ~shouldMirror(f, draw) THEN p
            ELSE [p EXCEPT !.req.body = BodyAfterMirror(@),
                           !.copies = IF MirrorableBody(p.req.body) THEN Append(@, MirrorCopy(f, p.req)) ELSE @]
      [] f.type = "CORS" /\ isCORSPreflight(p.req) -> [p EXCEPT !.resp = Preflight(p.req, f)]
      [] OTHER -> p

ApplyRequestFilters(filters, p, prefix, draw) ==
    FoldLeft(LAMBDA q, f : IF q.resp.status # 0 THEN q ELSE ProcessRequest(f, q, prefix, draw), p, filters)

\* Mutant: the origin is echoed whoever asks.
ProcessResponse_AnyOrigin(f, headers, req) ==
    CASE f.type = "ResponseHeaderModifier" -> applyHeaderModifier(headers, f.mod)
      [] f.type = "CORS" /\ ~isCORSPreflight(req) /\ Origin(req) # <<>> -> writeSimpleHeaders(headers, req, f)
      [] OTHER -> headers

\* One filter on the way out; req is the request the backend was sent.
ProcessResponse(f, headers, req) ==
    CASE f.type = "ResponseHeaderModifier" -> applyHeaderModifier(headers, f.mod)
      [] f.type = "CORS" /\ ~isCORSPreflight(req) /\ Origin(req) # <<>> ->
            IF originAllowed(Origin(req)[1], f) THEN writeSimpleHeaders(headers, req, f) ELSE headers
      [] OTHER -> headers

ApplyResponseFilters(filters, headers, req) ==
    FoldLeft(LAMBDA h, f : ProcessResponse(f, h, req), headers, filters)
=============================================================================
