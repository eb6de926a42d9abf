-------------------------- MODULE BackendTransport --------------------------
(***************************************************************************)
(* How the proxy reaches a backend (internal/proxy/handler.go,             *)
(* handler_websocket.go and the pool keys of router.go): the transport a   *)
(* rule asks for, the key it is pooled under, who it trusts, and what an   *)
(* error becomes.                                                          *)
(*                                                                         *)
(* A rule is [host, scheme, protocol, tls, request, backend, webSocket,    *)
(* mirrors]: tls is <<>> or one policy [ca, server, sans, cert], request   *)
(* and backend are its timeouts (0: none), mirrors the set of its mirror   *)
(* targets, of the rule and of its backends.                               *)
(***************************************************************************)
EXTENDS Naturals, Sequences, FiniteSets, FiniteSetsExt

IsPolicy(tls) ==
    tls # <<>> => tls = <<[ca |-> tls[1].ca, server |-> tls[1].server, sans |-> tls[1].sans, cert |-> tls[1].cert]>>

\* Both timeouts bound the wait for response headers; the stricter wins.
ruleHeaderTimeout(rule) ==
    LET set == {rule.request, rule.backend} \ {0} IN IF set = {} THEN 0 ELSE Min(set)

\* Mutant: the client certificate is left out of the hash.
tlsFingerprint_NoClientCert(tls) ==
    IF tls = <<>> THEN <<>> ELSE <<tls[1].ca, tls[1].server, tls[1].sans>>

\* A hash of everything that decides whom the transport trusts and what it
\* presents; hashes are taken to differ when their inputs do.
tlsFingerprint(tls) ==
    IF tls = <<>> THEN <<>> ELSE <<tls[1].ca, tls[1].server, tls[1].sans, tls[1].cert>>

transportKey(host, protocol, tls, timeout) == <<host, protocol, tlsFingerprint(tls), timeout>>

KeyOf(rule) == transportKey(rule.host, rule.protocol, rule.tls, ruleHeaderTimeout(rule))

\* A mirror borrows its transport without a header timeout.
MirrorKey(target) == transportKey(target.host, target.protocol, target.tls, 0)

\* Mutant: the keys of mirror targets are forgotten.
extractActiveTransportKeys_NoMirrors(rules) == {KeyOf(rule) : rule \in Range(rules)}

extractActiveTransportKeys(rules) ==
    {KeyOf(rule) : rule \in Range(rules)} \cup {MirrorKey(m) : m \in UNION {rule.mirrors : rule \in Range(rules)}}

-----------------------------------------------------------------------------
(* What a transport does.  TLS wins over the protocol; only HTTP/2 without  *)
(* TLS needs the wrapper that bounds the wait for headers.                  *)

newTransport(protocol, tls, timeout) ==
    [dials |-> IF tls # <<>> THEN "tls" ELSE protocol, tls |-> tls, timeout |-> timeout]

Wrapped(transport) == transport.dials = "h2c" /\ transport.timeout > 0

\* The peer's certificate [ca, names] against a policy: by its server name,
\* or by any of the listed names.  Without a policy the public roots decide.
Authenticates(tls, host, peer) ==
    IF tls = <<>> THEN peer.ca = "public" /\ host \in peer.names
    ELSE /\ peer.ca = tls[1].ca
         /\ IF tls[1].sans = {} THEN tls[1].server \in peer.names ELSE tls[1].sans \cap peer.names # {}

\* Whether a connection comes up: cleartext asks nothing of the peer.
Connects(scheme, tls, host, peer) == scheme = "http" \/ Authenticates(tls, host, peer)

\* The status of a failed exchange; 0 when nobody is left to read one.
errorHandler(err) ==
    CASE err = "canceled" -> 0 [] err = "timeout" -> 504 [] OTHER -> 502
=============================================================================
