------------------------------ MODULE MCHandler ------------------------------
(* Rules that meet in every way the router tells apart: exact, wildcard and  *)
(* no hostname, upper case, every path type, several matches in one rule,    *)
(* equal matches of two routes, filters, weights and unusable backends.      *)
EXTENDS Handler

Letters == {"a", "A", "b", "ex", "EX", "X-V", "x-v", "origin", "x-a"}
MCLowerOf == [x \in Letters |-> CASE x = "A" -> "a" [] x = "EX" -> "ex" [] x = "X-V" -> "x-v" [] OTHER -> x]

Root == <<"/">>
A == <<"/", "a">>
AB == <<"/", "a", "/", "b">>
Aslash == <<"/", "a", "/">>
Ab == <<"/", "a", "b">>
B == <<"/", "b">>
MCLanguage == <<"re">> :> {Ab, B, AB}

Host(wild, labels) == [wild |-> wild, labels |-> labels]
aex == Host(FALSE, <<"a", "ex">>)
AEX == Host(FALSE, <<"A", "EX">>)
wex == Host(TRUE, <<"ex">>)
waex == Host(TRUE, <<"a", "EX">>)
wbex == Host(TRUE, <<"b">>)

Match(type, value) ==
    [path |-> [type |-> type, value |-> value], method |-> None, headers |-> <<>>, query |-> <<>>]
Exact(v) == Match("Exact", v)
Prefix(v) == Match("PathPrefix", v)
Regex == Match("RegularExpression", <<"re">>)
Pathless == Match(None, <<>>)
With(m, hs) == [m EXCEPT !.headers = hs]
H(name, v) == [name |-> name, type |-> "Exact", value |-> v]

Backend(w) == [weight |-> w, unavailable |-> 0, sentinel |-> FALSE, webSocket |-> FALSE, base |-> <<>>,
               baseQuery |-> <<>>, filters |-> <<>>, addr |-> <<"svc">>]
Rule(route, hosts, matches) ==
    [route |-> route, hostnames |-> hosts, matches |-> matches, filters |-> <<>>,
     backends |-> <<Backend(1)>>, unavailable |-> 0]
Filtered(rule, fs) == [rule EXCEPT !.filters = fs]

NoMod == [set |-> <<>>, add |-> <<>>, remove |-> <<>>]
PathMod(v) == [type |-> "ReplacePrefixMatch", value |-> v]
RewriteTo(v, host) == [type |-> "URLRewrite", hostname |-> host, path |-> PathMod(v)]
RedirectTo(v) == [type |-> "RequestRedirect", scheme |-> <<>>, hostname |-> <<>>, port |-> <<>>,
                  status |-> <<>>, path |-> PathMod(v)]
Cors(origins, cred) ==
    [type |-> "CORS", anyOrigin |-> FALSE, origins |-> origins, credentials |-> cred, methods |-> <<"*">>,
     allowHeaders |-> <<"*">>, expose |-> <<"*">>, maxAge |-> 0]
Mirror == [type |-> "RequestMirror", url |-> "mirror", percent |-> <<50>>]
OriginOf(labels) == [scheme |-> "https", labels |-> labels, port |-> 443]
Pattern(wild, labels) == OriginOf(labels) @@ [wild |-> wild]

\* Rules that differ in what they match.
Plain ==
    { Rule("r1", <<aex>>, <<Exact(A)>>),
      Rule("r2", <<AEX>>, <<Prefix(A), Exact(B)>>),
      Rule("r3", <<aex>>, <<Prefix(A)>>),
      Rule("r3", <<aex>>, <<Prefix(AB)>>),
      Rule("r1", <<aex, wex>>, <<With(Prefix(A), <<H("X-V", "1")>>), Regex>>),
      Rule("r2", <<wex, waex>>, <<>>),
      Rule("r3", <<waex>>, <<With(Pathless, <<H("x-v", "1")>>)>>),
      Rule("r4", <<>>, <<[Prefix(Root) EXCEPT !.method = "GET"]>>),
      Rule("r4", <<wbex>>, <<Prefix(Aslash)>>),
      Rule("r5", <<aex>>, <<With(Prefix(A), <<H("x-v", "1")>>)>>) }

\* Rules that do something to a request.
Acting ==
    { Filtered(Rule("f1", <<aex>>, <<Prefix(A)>>), <<RewriteTo(B, <<<<"b">>>>)>>),
      Filtered([Rule("f1", <<aex>>, <<Prefix(Root)>>) EXCEPT !.backends = <<[Backend(1) EXCEPT !.base = Aslash]>>],
               <<RewriteTo(Aslash, <<>>), Mirror>>),
      Filtered(Rule("f2", <<aex>>, <<Prefix(A), Prefix(Aslash)>>), <<RedirectTo(Root)>>),
      Filtered(Rule("f3", <<>>, <<>>),
               <<Cors({Pattern(TRUE, <<"ex">>)}, TRUE),
                 [type |-> "RequestHeaderModifier", mod |-> [NoMod EXCEPT !.remove = <<"x-a">>]]>>),
      Filtered([Rule("f3", <<aex>>, <<Prefix(Root)>>) EXCEPT !.unavailable = 500], <<Mirror, RedirectTo(B)>>),
      [Rule("f4", <<aex>>, <<Prefix(Root)>>) EXCEPT
          !.backends = << Backend(2), Backend(0), [Backend(1) EXCEPT !.unavailable = 503],
                          [Backend(1) EXCEPT !.sentinel = TRUE] >>],
      [Rule("f4", <<aex>>, <<Prefix(A)>>) EXCEPT !.backends = <<Backend(0)>>],
      Filtered([Rule("f5", <<wex>>, <<Prefix(A)>>) EXCEPT !.backends = <<[Backend(1) EXCEPT !.webSocket = TRUE]>>],
               <<RewriteTo(B, <<<<"b">>>>)>>),
      Rule("bad", <<>>, <<Match("RegularExpression", <<"(">>)>>) }

AnyOrigin == Filtered(Rule("f6", <<>>, <<Prefix(A)>>), <<[Cors({}, TRUE) EXCEPT !.anyOrigin = TRUE]>>)

MCConfigs ==
    {<<>>} \cup {<<r>> : r \in Plain \cup Acting}
           \cup {<<r, s>> : r \in Plain \cup Acting, s \in Plain \cup Acting}
           \cup {t \in Plain \X Plain \X Plain : Cardinality({t[1].route, t[2].route, t[3].route}) = 3}
           \cup {<<AnyOrigin>>} \cup {<<AnyOrigin, r>> : r \in Acting}

Req(host, path, headers) ==
    [host |-> host, path |-> path, headers |-> headers, method |-> "GET", query |-> <<>>,
     scheme |-> None, body |-> "small"]
FromHost(h) == "x-original-host" :> <<h>>
From(origin) == "origin" :> <<origin>>
Asking(req) ==
    [req EXCEPT !.method = "OPTIONS", !.headers = @ @@ ("access-control-request-method" :> <<"PUT">>)]
Upgrading == "upgrade" :> <<"websocket">> @@ "connection" :> <<"upgrade">>

MCRequests ==
    {Req(<<"a", "ex">>, p, <<>>) : p \in {Root, A, AB, Ab, B}}
    \cup {Req(<<"A", "ex">>, A, "x-v" :> <<"0", "1">>), Req(<<"b", "a", "ex">>, AB, <<>>),
          Req(<<"a", "b">>, AB, <<>>), Req(<<"ex">>, A, <<>>),
          Req(<<"edge">>, A, FromHost(<<"a", "ex">>)),
          Req(<<"b">>, Root, "content-type" :> <<"application/grpc">>),
          [Req(<<"b", "ex">>, A, "x-v" :> <<"1">>) EXCEPT !.method = "POST"],
          Req(<<"b", "ex">>, AB, Upgrading @@ FromHost(<<"b", "ex">>))}
    \cup UNION {{Req(<<"b">>, A, From(o)), Asking(Req(<<"b">>, A, From(o)))} :
                    o \in {OriginOf(<<"ex">>), OriginOf(<<"b", "ex">>), OriginOf(<<"b">>), corsWildcard}}
=============================================================================
