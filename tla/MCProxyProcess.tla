--------------------------- MODULE MCProxyProcess ---------------------------
(* Set-ups of one process, each about one thing that can go wrong.           *)
EXTENDS ProxyProcess

Policy(cert, sans) == <<[ca |-> "corp", server |-> "svc", sans |-> sans, cert |-> cert]>>
Rule(host) == [host |-> host, scheme |-> "http", protocol |-> "http1", tls |-> <<>>, request |-> 0, backend |-> 0,
               webSocket |-> FALSE, mirrors |-> {}]
Secured(rule, policy) == [rule EXCEPT !.scheme = "https", !.tls = policy]
Timed(rule, request, backend) == [rule EXCEPT !.request = request, !.backend = backend]
H2C(rule) == [rule EXCEPT !.protocol = "h2c"]
Upgrading(rule) == [rule EXCEPT !.webSocket = TRUE]
Target(host, policy) == [host |-> host, protocol |-> "http1", tls |-> policy]
Mirroring(rule, targets) == [rule EXCEPT !.mirrors = targets]

Config(version, rules) == [version |-> version, grpc |-> FALSE, valid |-> TRUE, compiles |-> TRUE, rules |-> rules]
WithGRPC(config) == [config EXCEPT !.grpc = TRUE]
Uncompilable(config) == [config EXCEPT !.compiles = FALSE]
Malformed(config) == [config EXCEPT !.valid = FALSE]

Peers == [h \in {"a", "b", "m"} |->
            CASE h = "a" -> [ca |-> "corp", names |-> {"svc", "alt"}] [] h = "b" -> [ca |-> "public", names |-> {"b"}]
              [] OTHER -> [ca |-> "corp", names |-> {"svc"}]]

Process(mode, configs, places) ==
    [mode |-> mode, configured |-> "auto", token |-> TRUE, pushes |-> configs, requests |-> places, peers |-> Peers,
     signals |-> 0, fails |-> FALSE]

\* Pushes with and without a GRPCRoute race the start of the tunnel; up to two
\* signals and a failing listener end it.
Starting(configured, token) ==
    [Process("tunnel", <<WithGRPC(Config(1, <<>>)), Config(2, <<>>), WithGRPC(Config(0, <<>>))>>, <<>>)
        EXCEPT !.configured = configured, !.token = token, !.signals = 2, !.fails = TRUE]
Draining(mode) ==
    [Process(mode, <<WithGRPC(Config(1, <<Rule("a")>>))>>, <<1>>) EXCEPT !.signals = 1, !.fails = TRUE]

\* One backend under two client certificates and two timeouts, a mirror target
\* that stays while the rules change, a push that does not compile.
Pooling ==
    LET mirror == Target("m", Policy("c1", {}))
        one == Secured(Rule("a"), Policy("c1", {}))
        two == Secured(Rule("a"), Policy("c2", {"alt"}))
    IN  Process("standalone",
                << Config(1, <<one, Timed(one, 5, 0), Mirroring(Rule("b"), {mirror})>>),
                   Config(2, <<two, Mirroring(Timed(one, 5, 3), {mirror})>>),
                   Uncompilable(Config(3, <<Mirroring(one, {Target("m", Policy("c2", {}))})>>)),
                   Malformed(Config(0, <<>>)) >>, <<1>>)

\* The same policy but for the client's certificate, side by side; a peer the
\* policy does not trust, and one the public roots vouch for.
Sharing ==
    Process("standalone",
            <<Config(1, <<Secured(Rule("a"), Policy("c1", {})), Secured(Rule("a"), Policy("c2", {}))>>)>>, <<1, 2>>)
Untrusted(place) ==
    Process("standalone",
            << Config(1, <<Secured(Rule("a"), Policy("c1", {"other"})), Rule("b")>>),
               Config(0, <<Secured(Rule("b"), Policy("c1", {})), Timed(Secured(Rule("b"), <<>>), 0, 2)>>) >>, <<place>>)

\* Headers that come as the timer fires.
Streaming ==
    Process("standalone", <<Config(1, <<Timed(H2C(Rule("a")), 0, 3), H2C(Rule("a")), Timed(Rule("b"), 4, 0)>>)>>, <<1, 3>>)

\* Upgrades over both schemes, one to a peer that is not trusted.
Upgrades(places) ==
    Process("standalone",
             << Config(1, << Upgrading(Mirroring(Rule("a"), {Target("b", <<>>)})), Upgrading(Secured(Rule("b"), <<>>)),
                             Upgrading(Secured(Rule("b"), Policy("c1", {}))) >>) >>, places)

MCScenarios == <<Starting("auto", TRUE), Starting("quic", TRUE), Starting("http2", FALSE), Draining("tunnel"),
                 Draining("standalone"), Pooling, Sharing, Untrusted(1), Untrusted(2), Streaming,
                 Upgrades(<<1, 3>>), Upgrades(<<2>>)>>
=============================================================================
