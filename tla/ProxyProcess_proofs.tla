------------------------- MODULE ProxyProcess_proofs -------------------------
(***************************************************************************)
(* The proxy process, for any number of configurations, requests, signals  *)
(* and hosts: a transport is the one its rule asks for, the pool follows   *)
(* the configuration, a stream is not cut off by its header timer, and a   *)
(* tunnel that cannot carry gRPC is reported.                              *)
(***************************************************************************)
EXTENDS ProxyProcess, TLAPS

\* An exchange has these fields and no other.
Fields == {"pc", "rule", "transport", "timer", "inner", "ctx", "client", "peer", "answer", "conn", "copiers", "mirror"}
IsExchange(req) == req = [f \in Fields |-> req[f]]

\* The transport does what the rule asks for.
Serves(transport, rule) ==
    /\ transport.dials = newTransport(rule.protocol, rule.tls, ruleHeaderTimeout(rule)).dials
    /\ transport.tls = rule.tls /\ transport.timeout = ruleHeaderTimeout(rule)

Trusted(rule, peers) == rule.tls # <<>> => Authenticates(rule.tls, rule.host, peers[rule.host])

\* An exchange has a rule once it is routed, a transport once it has taken
\* one, and an answer of 200 only after headers from a peer the rule trusts.
Routed(req) ==
    /\ req.pc \notin {"idle", "done"} => req.rule # <<>>
    /\ req.rule # <<>> => RuleOK(req.rule[1])
Equipped(req, peers) ==
    /\ req.pc = "idle" => req.transport = <<>> /\ req.inner # "headers"
    /\ req.pc \in {"send", "waiting", "returned", "settle", "streaming"} => req.transport # <<>>
    /\ req.transport # <<>> => Serves(req.transport[1], req.rule[1])
    /\ req.inner = "headers" => Trusted(req.rule[1], peers)
    /\ req.pc = "streaming" \/ req.answer = 200 => req.inner = "headers"
    /\ req.answer = 200 => req.pc \in {"streaming", "done"}

\* The timer runs from the start of the round trip, only it and the client
\* cancel the context, and a stream has no timer left that could.
TimerKept(req) ==
    /\ req.pc \in {"idle", "lookup", "create", "send"} => req.timer = "off"
    /\ req.pc = "streaming" => req.timer \in {"off", "stopped"}
    /\ ~req.ctx => ~req.client \/ req.timer \in {"cancelled", "settled"}

ExchangeInv(req, peers) == IsExchange(req) /\ Routed(req) /\ Equipped(req, peers) /\ TimerKept(req)

\* A sound step of an exchange; it does not go back to where a transport is
\* still to be made.
Early == {"idle", "lookup", "create"}
Follows(req, new) == new.pc \in Early => req.pc \in Early
SoundStep(req, new, peers) == ExchangeInv(new, peers) /\ Follows(req, new)

Exchanges ==
    /\ requests = [r \in DOMAIN S.requests |-> requests[r]]
    /\ \A r \in DOMAIN S.requests : ExchangeInv(requests[r], S.peers)

\* The update under way is that of the table in use.
Updates ==
    /\ scenario \in DOMAIN Scenarios /\ left \subseteq DOMAIN S.pushes
    /\ table.at \in {0} \cup DOMAIN S.pushes
    /\ update = [pc |-> update.pc, at |-> update.at, keys |-> update.keys]
    /\ update.pc # "idle" => update.at = table.at

\* A key tells everything that matters about the transport under it.
Keyed(key, transport) ==
    /\ IsPolicy(transport.tls) /\ key[3] = tlsFingerprint(transport.tls) /\ key[4] = transport.timeout
    /\ transport.dials = IF transport.tls # <<>> THEN "tls" ELSE key[2]
PoolKeyed == \A key \in DOMAIN pool : Keyed(key, pool[key])

\* Nobody who has yet to make a transport has made this one.
Foregone(transport, reqs, todo) ==
    /\ \A r \in DOMAIN reqs : reqs[r].pc \in Early => transport.by # <<"request", r>>
    /\ \A i \in todo : transport.by # <<"push", i>>
PoolMade ==
    /\ \A key \in DOMAIN pool : Foregone(pool[key], requests, left)
    /\ \A key \in DOMAIN swept : Foregone(swept[key], requests, left)

\* What the walk has yet to meet.
Active == extractActiveTransportKeys(Rules(table.at))
Walk ==
    \A key \in DOMAIN pool \ Active :
        key \in DOMAIN swept /\ pool[key] = swept[key] => update.pc = "prune" /\ key \in update.keys
Mirrors ==
    /\ DOMAIN table.mirrors \subseteq Active
    /\ \A key \in DOMAIN table.mirrors : key \in DOMAIN pool /\ pool[key] = table.mirrors[key]

PoolInv == PoolKeyed /\ PoolMade /\ Walk /\ Mirrors

ProcessInv == Updates /\ Exchanges /\ PoolInv

-----------------------------------------------------------------------------
(* Exchanges                                                               *)

\* A sound step of one exchange keeps them all sound.
Later == DOMAIN requests' = DOMAIN requests /\ \A q \in DOMAIN requests : Follows(requests[q], requests'[q])

\* A sound step of one exchange (Move) leaves the others alone.
LEMMA Moves ==
    ASSUME Exchanges, NEW r \in DOMAIN requests, NEW new, Move(r, new), SoundStep(requests[r], new, S.peers)
    PROVE  Exchanges' /\ Later
  <1>1. S' = S
    BY Zenon DEF Move, S
  <1>2. DOMAIN requests = DOMAIN S.requests
    BY Zenon DEF Exchanges
  <1>3. requests' = [requests EXCEPT ![r] = new]
    BY Zenon DEF Move
  <1>4. requests' = [q \in DOMAIN S.requests |-> requests'[q]] /\ DOMAIN requests' = DOMAIN requests
    BY <1>2, <1>3, Zenon
  <1>5. ASSUME NEW q \in DOMAIN S.requests
        PROVE  ExchangeInv(requests'[q], S.peers) /\ Follows(requests[q], requests'[q])
    <2>1. CASE q = r
      BY <1>2, <1>3, <2>1, Zenon DEF SoundStep
    <2>2. CASE q # r
      <3>1. requests'[q] = requests[q]
        BY <1>2, <1>3, <2>2, Zenon
      <3> QED
        BY <3>1, Zenon DEF Exchanges, Follows
    <2> QED
      BY <2>1, <2>2, Zenon
  <1> QED
    BY <1>1, <1>2, <1>4, <1>5, Zenon DEF Exchanges, Later

\* A fingerprint is that of one policy only.
LEMMA FingerprintsDiffer ==
    ASSUME NEW p, NEW q, IsPolicy(p), IsPolicy(q), tlsFingerprint(p) = tlsFingerprint(q)
    PROVE  p = q
  <1>1. CASE p = <<>> \/ q = <<>>
    BY <1>1 DEF tlsFingerprint
  <1>2. CASE p # <<>> /\ q # <<>>
    <2>1. /\ p[1].ca = q[1].ca /\ p[1].server = q[1].server
          /\ p[1].sans = q[1].sans /\ p[1].cert = q[1].cert
      BY <1>2 DEF tlsFingerprint
    <2> QED
      BY <1>2, <2>1, Zenon DEF IsPolicy
  <1> QED
    BY <1>1, <1>2, Zenon

\* What is under the key of a rule is what the rule asks for.
LEMMA KeyServes ==
    ASSUME NEW rule, NEW transport, RuleOK(rule), Keyed(KeyOf(rule), transport)
    PROVE  Serves(transport, rule)
  <1>1. /\ KeyOf(rule)[2] = rule.protocol
        /\ KeyOf(rule)[3] = tlsFingerprint(rule.tls)
        /\ KeyOf(rule)[4] = ruleHeaderTimeout(rule)
    BY DEF KeyOf, transportKey
  <1>2. transport.tls = rule.tls
    BY <1>1, FingerprintsDiffer, Zenon DEF Keyed, RuleOK
  <1> QED
    BY <1>1, <1>2 DEF Keyed, Serves, newTransport

\* And what is made for a rule or a mirror target goes under its key.
LEMMA MadeKeyed ==
    ASSUME NEW maker, NEW host, NEW proto, NEW tls, NEW timeout, IsPolicy(tls)
    PROVE  Keyed(transportKey(host, proto, tls, timeout), Made(maker, proto, tls, timeout))
  BY DEF Keyed, transportKey, Made, newTransport

\* The rules in use are sound.
LEMMA RulesSound ==
    ASSUME Updates, NEW rule \in Range(Rules(table.at))
    PROVE  RuleOK(rule)
  <1>1. table.at # 0
    BY DEF Rules, Range
  <1> QED
    BY <1>1, ScenariosAssumption, Zenon DEF Updates, Rules, S

\* A stored transport is under the key of the rule it was stored for.
LEMMA StoredKeyed ==
    ASSUME PoolKeyed, NEW rule, RuleOK(rule), NEW maker,
           pool' = WithNew(pool, [k \in {KeyOf(rule)} |-> Made(maker, rule.protocol, rule.tls, ruleHeaderTimeout(rule))])
    PROVE  PoolKeyed' /\ KeyOf(rule) \in DOMAIN pool'
  <1> DEFINE made == Made(maker, rule.protocol, rule.tls, ruleHeaderTimeout(rule))
  <1>1. Keyed(KeyOf(rule), made)
    BY MadeKeyed, Zenon DEF KeyOf, RuleOK
  <1> HIDE DEF made
  <1>2. pool' = [key \in DOMAIN pool \cup {KeyOf(rule)} |-> IF key \in DOMAIN pool THEN pool[key] ELSE made]
    BY DEF WithNew, made
  <1> QED
    BY <1>1, <1>2, Zenon DEF PoolKeyed

\* How an exchange may change and stay sound: with a rule and a transport,
LEMMA TakesRule ==
    ASSUME NEW req, NEW peers, ExchangeInv(req, peers), req.pc = "idle",
           NEW rule, RuleOK(rule), NEW pc \in {"wsdial", "lookup"}, NEW mirror
    PROVE  SoundStep(req, [req EXCEPT !.rule = <<rule>>, !.pc = pc, !.mirror = mirror], peers)
  <1> DEFINE new == [req EXCEPT !.rule = <<rule>>, !.pc = pc, !.mirror = mirror]
  <1>1. IsExchange(new)
    BY DEF ExchangeInv, IsExchange
  <1>2. /\ new.rule = <<rule>> /\ new.pc = pc /\ new.transport = req.transport
        /\ new.timer = req.timer /\ new.inner = req.inner /\ new.ctx = req.ctx
        /\ new.client = req.client /\ new.answer = req.answer
    BY DEF ExchangeInv, IsExchange, Fields
  <1> HIDE DEF new
  <1>3. Routed(new) /\ Equipped(new, peers) /\ TimerKept(new) /\ Follows(req, new)
    BY <1>2 DEF ExchangeInv, Routed, Equipped, TimerKept, Follows, Early
  <1> QED
    BY <1>1, <1>3, Zenon DEF SoundStep, ExchangeInv, new

\* getTransport returns the pooled transport, or the one just stored.
LEMMA TakesTransport ==
    ASSUME NEW req, NEW peers, ExchangeInv(req, peers), req.pc \in {"lookup", "create"},
           NEW transport, Serves(transport, req.rule[1])
    PROVE  SoundStep(req, [req EXCEPT !.pc = "send", !.transport = <<transport>>], peers)
  <1> DEFINE new == [req EXCEPT !.pc = "send", !.transport = <<transport>>]
  <1>1. IsExchange(new)
    BY DEF ExchangeInv, IsExchange
  <1>2. /\ new.pc = "send" /\ new.transport = <<transport>> /\ new.rule = req.rule
        /\ new.timer = req.timer /\ new.inner = req.inner /\ new.ctx = req.ctx
        /\ new.client = req.client /\ new.answer = req.answer
    BY DEF ExchangeInv, IsExchange, Fields
  <1> HIDE DEF new
  <1>3. Routed(new) /\ Equipped(new, peers) /\ TimerKept(new) /\ Follows(req, new)
    BY <1>2 DEF ExchangeInv, Routed, Equipped, TimerKept, Follows, Early
  <1> QED
    BY <1>1, <1>3, Zenon DEF SoundStep, ExchangeInv, new

\* A miss in the pool, and an upgrade request that was written.
LEMMA Proceeds ==
    ASSUME NEW req, NEW peers, ExchangeInv(req, peers), 
           NEW pc, <<req.pc, pc>> \in {<<"lookup", "create">>, <<"wswrite", "wsread">>}
    PROVE  SoundStep(req, [req EXCEPT !.pc = pc], peers)
  <1> DEFINE new == [req EXCEPT !.pc = pc]
  <1>1. IsExchange(new)
    BY DEF ExchangeInv, IsExchange
  <1>2. /\ new.pc = pc /\ new.rule = req.rule /\ new.transport = req.transport
        /\ new.timer = req.timer /\ new.inner = req.inner /\ new.ctx = req.ctx
        /\ new.client = req.client /\ new.answer = req.answer
    BY DEF ExchangeInv, IsExchange, Fields
  <1> HIDE DEF new
  <1>3. Routed(new) /\ Equipped(new, peers) /\ TimerKept(new) /\ Follows(req, new)
    BY <1>2 DEF ExchangeInv, Routed, Equipped, TimerKept, Follows, Early
  <1> QED
    BY <1>1, <1>3, Zenon DEF SoundStep, ExchangeInv, new

\* with its timer,
LEMMA Sends ==
    ASSUME NEW req, NEW peers, ExchangeInv(req, peers), req.pc = "send", NEW timer
    PROVE  SoundStep(req, [req EXCEPT !.pc = "waiting", !.timer = timer], peers)
  <1> DEFINE new == [req EXCEPT !.pc = "waiting", !.timer = timer]
  <1>1. IsExchange(new)
    BY DEF ExchangeInv, IsExchange
  <1>2. /\ new.pc = "waiting" /\ new.timer = timer /\ new.rule = req.rule
        /\ new.transport = req.transport /\ new.inner = req.inner /\ new.ctx = req.ctx
        /\ new.client = req.client /\ new.answer = req.answer
    BY DEF ExchangeInv, IsExchange, Fields
  <1> HIDE DEF new
  <1>3. Routed(new) /\ Equipped(new, peers) /\ TimerKept(new) /\ Follows(req, new)
    BY <1>2 DEF ExchangeInv, Routed, Equipped, TimerKept, Follows, Early
  <1> QED
    BY <1>1, <1>3, Zenon DEF SoundStep, ExchangeInv, new

\* The header timer starts, fires, or its function has returned.
LEMMA Ticks ==
    ASSUME NEW req, NEW peers, ExchangeInv(req, peers), req.timer \in {"set", "started", "cancelled"},
           NEW timer \in {"started", "fired", "settled"}, req.timer = "cancelled" => timer = "settled"
    PROVE  SoundStep(req, [req EXCEPT !.timer = timer], peers)
  <1> DEFINE new == [req EXCEPT !.timer = timer]
  <1>1. IsExchange(new)
    BY DEF ExchangeInv, IsExchange
  <1>2. /\ new.timer = timer /\ new.pc = req.pc /\ new.rule = req.rule
        /\ new.transport = req.transport /\ new.inner = req.inner /\ new.ctx = req.ctx
        /\ new.client = req.client /\ new.answer = req.answer
    BY DEF ExchangeInv, IsExchange, Fields
  <1> HIDE DEF new
  <1>3. Routed(new) /\ Equipped(new, peers) /\ TimerKept(new) /\ Follows(req, new)
    BY <1>2 DEF ExchangeInv, Routed, Equipped, TimerKept, Follows, Early
  <1> QED
    BY <1>1, <1>3, Zenon DEF SoundStep, ExchangeInv, new

\* The header timer cancels the context of the round trip.
LEMMA Cancels ==
    ASSUME NEW req, NEW peers, ExchangeInv(req, peers), req.timer = "fired"
    PROVE  SoundStep(req, [req EXCEPT !.timer = "cancelled", !.ctx = FALSE], peers)
  <1> DEFINE new == [req EXCEPT !.timer = "cancelled", !.ctx = FALSE]
  <1>1. IsExchange(new)
    BY DEF ExchangeInv, IsExchange
  <1>2. /\ new.timer = "cancelled" /\ new.ctx = FALSE /\ new.pc = req.pc /\ new.rule = req.rule
        /\ new.transport = req.transport /\ new.inner = req.inner /\ new.client = req.client
        /\ new.answer = req.answer
    BY DEF ExchangeInv, IsExchange, Fields
  <1> HIDE DEF new
  <1>3. Routed(new) /\ Equipped(new, peers) /\ TimerKept(new) /\ Follows(req, new)
    BY <1>2 DEF ExchangeInv, Routed, Equipped, TimerKept, Follows, Early
  <1> QED
    BY <1>1, <1>3, Zenon DEF SoundStep, ExchangeInv, new

\* RoundTrip stops the timer once the inner transport has returned.
LEMMA Stops ==
    ASSUME NEW req, NEW peers, ExchangeInv(req, peers), req.pc = "returned",
           NEW timer, timer = IF req.timer = "set" THEN "stopped" ELSE req.timer
    PROVE  SoundStep(req, [req EXCEPT !.pc = "settle", !.timer = timer], peers)
  <1> DEFINE new == [req EXCEPT !.pc = "settle", !.timer = timer]
  <1>1. IsExchange(new)
    BY DEF ExchangeInv, IsExchange
  <1>2. /\ new.pc = "settle" /\ new.timer = timer /\ new.rule = req.rule
        /\ new.transport = req.transport /\ new.inner = req.inner /\ new.ctx = req.ctx
        /\ new.client = req.client /\ new.answer = req.answer
    BY DEF ExchangeInv, IsExchange, Fields
  <1> HIDE DEF new
  <1>3. Routed(new) /\ Equipped(new, peers) /\ TimerKept(new) /\ Follows(req, new)
    BY <1>2 DEF ExchangeInv, Routed, Equipped, TimerKept, Follows, Early
  <1> QED
    BY <1>1, <1>3, Zenon DEF SoundStep, ExchangeInv, new

\* with a result and an answer,
LEMMA Returns ==
    ASSUME NEW req, NEW peers, ExchangeInv(req, peers), req.pc = "waiting",
           NEW result, result = "headers" => Trusted(req.rule[1], peers)
    PROVE  SoundStep(req, [req EXCEPT !.pc = "returned", !.inner = result], peers)
  <1> DEFINE new == [req EXCEPT !.pc = "returned", !.inner = result]
  <1>1. IsExchange(new)
    BY DEF ExchangeInv, IsExchange
  <1>2. /\ new.pc = "returned" /\ new.inner = result /\ new.rule = req.rule
        /\ new.transport = req.transport /\ new.timer = req.timer /\ new.ctx = req.ctx
        /\ new.client = req.client /\ new.answer = req.answer
    BY DEF ExchangeInv, IsExchange, Fields
  <1> HIDE DEF new
  <1>3. Routed(new) /\ Equipped(new, peers) /\ TimerKept(new) /\ Follows(req, new)
    BY <1>2 DEF ExchangeInv, Routed, Equipped, TimerKept, Follows, Early
  <1> QED
    BY <1>1, <1>3, Zenon DEF SoundStep, ExchangeInv, new

\* Headers that beat the timer are passed on.
LEMMA Streams ==
    ASSUME NEW req, NEW peers, ExchangeInv(req, peers), req.pc = "settle",
           req.inner = "headers", req.timer \in {"off", "stopped"}
    PROVE  SoundStep(req, [req EXCEPT !.pc = "streaming", !.answer = 200], peers)
  <1> DEFINE new == [req EXCEPT !.pc = "streaming", !.answer = 200]
  <1>1. IsExchange(new)
    BY DEF ExchangeInv, IsExchange
  <1>2. /\ new.pc = "streaming" /\ new.answer = 200 /\ new.rule = req.rule
        /\ new.transport = req.transport /\ new.timer = req.timer /\ new.inner = req.inner
        /\ new.ctx = req.ctx /\ new.client = req.client
    BY DEF ExchangeInv, IsExchange, Fields
  <1> HIDE DEF new
  <1>3. Routed(new) /\ Equipped(new, peers) /\ TimerKept(new) /\ Follows(req, new)
    BY <1>2 DEF ExchangeInv, Routed, Equipped, TimerKept, Follows, Early
  <1> QED
    BY <1>1, <1>3, Zenon DEF SoundStep, ExchangeInv, new

\* The exchange is over; 200 stays the answer of a stream only.
LEMMA Finishes ==
    ASSUME NEW req, NEW peers, ExchangeInv(req, peers), 
           NEW answer, answer = 200 => req.pc = "streaming" \/ req.answer = 200
    PROVE  SoundStep(req, Finish(req, answer), peers)
  <1> DEFINE new == Finish(req, answer)
  <1>1. IsExchange(new)
    BY DEF ExchangeInv, IsExchange, Finish
  <1>2. /\ new.pc = "done" /\ new.answer = answer /\ new.rule = req.rule
        /\ new.transport = req.transport /\ new.timer = req.timer /\ new.inner = req.inner
        /\ new.ctx = req.ctx /\ new.client = req.client
    BY DEF ExchangeInv, IsExchange, Fields, Finish
  <1> HIDE DEF new
  <1>3. Routed(new) /\ Equipped(new, peers) /\ TimerKept(new) /\ Follows(req, new)
    BY <1>2 DEF ExchangeInv, Routed, Equipped, TimerKept, Follows, Early
  <1> QED
    BY <1>1, <1>3, Zenon DEF SoundStep, ExchangeInv, new

\* with what becomes of the client, the backend, the connection and the mirror,
LEMMA ClientGoes ==
    ASSUME NEW req, NEW peers, ExchangeInv(req, peers)
    PROVE  SoundStep(req, [req EXCEPT !.client = FALSE, !.ctx = FALSE], peers)
  <1> DEFINE new == [req EXCEPT !.client = FALSE, !.ctx = FALSE]
  <1>1. IsExchange(new)
    BY DEF ExchangeInv, IsExchange
  <1>2. /\ new.client = FALSE /\ new.ctx = FALSE /\ new.pc = req.pc /\ new.rule = req.rule
        /\ new.transport = req.transport /\ new.timer = req.timer /\ new.inner = req.inner
        /\ new.answer = req.answer
    BY DEF ExchangeInv, IsExchange, Fields
  <1> HIDE DEF new
  <1>3. Routed(new) /\ Equipped(new, peers) /\ TimerKept(new) /\ Follows(req, new)
    BY <1>2 DEF ExchangeInv, Routed, Equipped, TimerKept, Follows, Early
  <1> QED
    BY <1>1, <1>3, Zenon DEF SoundStep, ExchangeInv, new

\* A field that ExchangeInv does not speak of changes.
LEMMA Goes ==
    ASSUME NEW req, NEW peers, ExchangeInv(req, peers), NEW field \in {"peer", "copiers", "mirror", "conn"}, NEW value
    PROVE  SoundStep(req, [req EXCEPT ![field] = value], peers)
  <1> DEFINE new == [req EXCEPT ![field] = value]
  <1>1. IsExchange(new)
    BY DEF ExchangeInv, IsExchange
  <1>2. /\ new.pc = req.pc /\ new.rule = req.rule /\ new.transport = req.transport /\ new.timer = req.timer
        /\ new.inner = req.inner /\ new.ctx = req.ctx /\ new.client = req.client /\ new.answer = req.answer
    BY DEF ExchangeInv, IsExchange, Fields
  <1> HIDE DEF new
  <1>3. Routed(new) /\ Equipped(new, peers) /\ TimerKept(new) /\ Follows(req, new)
    BY <1>2 DEF ExchangeInv, Routed, Equipped, TimerKept, Follows, Early
  <1> QED
    BY <1>1, <1>3, Zenon DEF SoundStep, ExchangeInv, new

\* and with the steps of an upgrade.
LEMMA Opens ==
    ASSUME NEW req, NEW peers, ExchangeInv(req, peers), req.pc = "wsdial"
    PROVE  SoundStep(req, [req EXCEPT !.pc = "wswrite", !.conn = "open"], peers)
  <1> DEFINE new == [req EXCEPT !.pc = "wswrite", !.conn = "open"]
  <1>1. IsExchange(new)
    BY DEF ExchangeInv, IsExchange
  <1>2. /\ new.pc = "wswrite" /\ new.rule = req.rule /\ new.transport = req.transport
        /\ new.timer = req.timer /\ new.inner = req.inner /\ new.ctx = req.ctx
        /\ new.client = req.client /\ new.answer = req.answer
    BY DEF ExchangeInv, IsExchange, Fields
  <1> HIDE DEF new
  <1>3. Routed(new) /\ Equipped(new, peers) /\ TimerKept(new) /\ Follows(req, new)
    BY <1>2 DEF ExchangeInv, Routed, Equipped, TimerKept, Follows, Early
  <1> QED
    BY <1>1, <1>3, Zenon DEF SoundStep, ExchangeInv, new

\* pipeWebSocket starts the two copies.
LEMMA Pipes ==
    ASSUME NEW req, NEW peers, ExchangeInv(req, peers), req.pc = "hijack", NEW copiers
    PROVE  SoundStep(req, [req EXCEPT !.pc = "piping", !.copiers = copiers], peers)
  <1> DEFINE new == [req EXCEPT !.pc = "piping", !.copiers = copiers]
  <1>1. IsExchange(new)
    BY DEF ExchangeInv, IsExchange
  <1>2. /\ new.pc = "piping" /\ new.rule = req.rule /\ new.transport = req.transport
        /\ new.timer = req.timer /\ new.inner = req.inner /\ new.ctx = req.ctx
        /\ new.client = req.client /\ new.answer = req.answer
    BY DEF ExchangeInv, IsExchange, Fields
  <1> HIDE DEF new
  <1>3. Routed(new) /\ Equipped(new, peers) /\ TimerKept(new) /\ Follows(req, new)
    BY <1>2 DEF ExchangeInv, Routed, Equipped, TimerKept, Follows, Early
  <1> QED
    BY <1>1, <1>3, Zenon DEF SoundStep, ExchangeInv, new

\* Both connections of an upgrade are closed.
LEMMA Closes ==
    ASSUME NEW req, NEW peers, ExchangeInv(req, peers)
    PROVE  SoundStep(req, Close(req), peers)
  <1> DEFINE new == Close(req)
  <1>1. IsExchange(new)
    BY DEF ExchangeInv, IsExchange, Close
  <1>2. /\ new.pc = req.pc /\ new.rule = req.rule /\ new.transport = req.transport
        /\ new.timer = req.timer /\ new.inner = req.inner /\ new.ctx = req.ctx
        /\ new.client = req.client /\ new.answer = req.answer
    BY DEF ExchangeInv, IsExchange, Fields, Close
  <1> HIDE DEF new
  <1>3. Routed(new) /\ Equipped(new, peers) /\ TimerKept(new) /\ Follows(req, new)
    BY <1>2 DEF ExchangeInv, Routed, Equipped, TimerKept, Follows, Early
  <1> QED
    BY <1>1, <1>3, Zenon DEF SoundStep, ExchangeInv, new

IsOK(answer) == answer = 200

\* The backend answered an upgrade; 101 and 403 are not 200.
LEMMA Responds ==
    ASSUME NEW req, NEW peers, ExchangeInv(req, peers), req.pc = "wsread",
           NEW pc \in {"hijack", "forward"}, NEW answer, ~IsOK(answer)
    PROVE  SoundStep(req, [req EXCEPT !.pc = pc, !.answer = answer], peers)
  <1> DEFINE new == [req EXCEPT !.pc = pc, !.answer = answer]
  <1>1. IsExchange(new)
    BY DEF ExchangeInv, IsExchange
  <1>2. /\ new.pc = pc /\ new.answer = answer /\ new.rule = req.rule
        /\ new.transport = req.transport /\ new.timer = req.timer /\ new.inner = req.inner
        /\ new.ctx = req.ctx /\ new.client = req.client
    BY DEF ExchangeInv, IsExchange, Fields
  <1> HIDE DEF new
  <1>3. Routed(new) /\ Equipped(new, peers) /\ TimerKept(new) /\ Follows(req, new)
    BY <1>2 DEF ExchangeInv, Routed, Equipped, TimerKept, Follows, Early, IsOK
  <1> QED
    BY <1>1, <1>3, Zenon DEF SoundStep, ExchangeInv, new

-----------------------------------------------------------------------------
(* The actions of an exchange                                              *)

\* Taking a rule and a transport.
LEMMA ArriveKeeps ==
    ASSUME Updates, Exchanges, NEW r \in DOMAIN requests, Arrive(r)
    PROVE  Exchanges' /\ Later
  <1> DEFINE req == requests[r]
             rules == Rules(table.at)
             place == S.requests[r]
  <1>1. ExchangeInv(req, S.peers) /\ req.pc = "idle"
    BY Zenon DEF Exchanges, Arrive, At
  <1>2. CASE place \notin DOMAIN rules
    <2>1. Move(r, Finish(req, 404))
      BY <1>2, Zenon DEF Arrive
    <2>2. SoundStep(req, Finish(req, 404), S.peers)
      BY <1>1, Finishes
    <2> QED
      BY <2>1, <2>2, Moves, Zenon
  <1>3. CASE place \in DOMAIN rules
    <2> DEFINE pc == IF rules[place].webSocket THEN "wsdial" ELSE "lookup"
               mirror == IF rules[place].mirrors = {} THEN 0 ELSE 1
    <2>1. Move(r, [req EXCEPT !.rule = <<rules[place]>>, !.pc = pc, !.mirror = mirror])
      BY <1>3, Zenon DEF Arrive
    <2>2. pc \in {"wsdial", "lookup"}
      BY Zenon
    <2>3. RuleOK(rules[place])
      BY <1>3, RulesSound, Zenon DEF Range
    <2> HIDE DEF rules, place, req, pc, mirror
    <2>4. SoundStep(req, [req EXCEPT !.rule = <<rules[place]>>, !.pc = pc, !.mirror = mirror], S.peers)
      BY <1>1, <2>2, <2>3, TakesRule, Zenon
    <2> QED
      BY <2>1, <2>4, Moves, Zenon DEF req
  <1> QED
    BY <1>2, <1>3, Zenon

\* getTransport finds a transport that serves the rule, or none.
LEMMA LookUpKeeps ==
    ASSUME Exchanges, PoolKeyed, NEW r \in DOMAIN requests, LookUp(r)
    PROVE  Exchanges' /\ Later
  <1> DEFINE req == requests[r]
             key == KeyOf(req.rule[1])
  <1>1. ExchangeInv(req, S.peers) /\ req.pc = "lookup"
    BY Zenon DEF Exchanges, LookUp, At
  <1>2. RuleOK(req.rule[1])
    BY <1>1 DEF ExchangeInv, Routed
  <1>3. CASE key \in DOMAIN pool
    <2>1. Move(r, [req EXCEPT !.pc = "send", !.transport = <<pool[key]>>])
      BY <1>3, Zenon DEF LookUp
    <2>2. Serves(pool[key], req.rule[1])
      BY <1>2, <1>3, KeyServes, Zenon DEF PoolKeyed
    <2> HIDE DEF key, req
    <2>3. SoundStep(req, [req EXCEPT !.pc = "send", !.transport = <<pool[key]>>], S.peers)
      BY <1>1, <2>2, TakesTransport, Zenon
    <2> QED
      BY <2>1, <2>3, Moves, Zenon DEF req
  <1>4. CASE key \notin DOMAIN pool
    <2>1. Move(r, [req EXCEPT !.pc = "create"])
      BY <1>4, Zenon DEF LookUp
    <2>2. SoundStep(req, [req EXCEPT !.pc = "create"], S.peers)
      BY <1>1, Proceeds
    <2> QED
      BY <2>1, <2>2, Moves, Zenon
  <1> QED
    BY <1>3, <1>4, Zenon

\* Whichever of two transports with one key is stored, it serves both.
LEMMA LoadOrStoreKeeps ==
    ASSUME Exchanges, PoolKeyed, NEW r \in DOMAIN requests, LoadOrStore(r)
    PROVE  Exchanges' /\ Later /\ PoolKeyed'
  <1> DEFINE req == requests[r]
             rule == req.rule[1]
             key == KeyOf(rule)
  <1>1. ExchangeInv(req, S.peers) /\ req.pc = "create"
    BY Zenon DEF Exchanges, LoadOrStore, At
  <1>2. RuleOK(rule)
    BY <1>1 DEF ExchangeInv, Routed
  <1>3. /\ pool' = WithNew(pool, [k \in {key} |-> Made(<<"request", r>>, rule.protocol, rule.tls, ruleHeaderTimeout(rule))])
        /\ Move(r, [req EXCEPT !.pc = "send", !.transport = <<pool'[key]>>])
    BY Zenon DEF LoadOrStore
  <1>4. PoolKeyed' /\ key \in DOMAIN pool'
    BY <1>2, <1>3, StoredKeyed, Zenon
  <1>5. Serves(pool'[key], rule)
    BY <1>2, <1>4, KeyServes, Zenon DEF PoolKeyed
  <1> HIDE DEF key, req
  <1>6. SoundStep(req, [req EXCEPT !.pc = "send", !.transport = <<pool'[key]>>], S.peers)
    BY <1>1, <1>5, TakesTransport, Zenon
  <1> QED
    BY <1>3, <1>4, <1>6, Moves, Zenon DEF req

\* The round trip and its timer.
RoundTrip(r) ==
    \/ Send(r) \/ TransportGivesUp(r) \/ TimerFires(r) \/ StopTimer(r) \/ Settle(r)
    \/ \E result \in {"headers", "error"} : BackendAnswers(r, result)
\* The steps of headerTimeoutTransport.RoundTrip keep exchanges sound.
LEMMA RoundTripKeeps ==
    ASSUME Exchanges, NEW r \in DOMAIN requests, RoundTrip(r)
    PROVE  Exchanges' /\ Later
  <1> DEFINE req == requests[r]
  <1>a. ExchangeInv(req, S.peers)
    BY Zenon DEF Exchanges
  <1>1. ASSUME Send(r) PROVE Exchanges' /\ Later
    <2>1. req.pc = "send" /\ \E timer \in {"set", "off"} : Move(r, [req EXCEPT !.pc = "waiting", !.timer = timer])
      BY <1>1, Zenon DEF Send, At
    <2> QED
      BY <1>a, <2>1, Sends, Moves, Zenon
  <1>2. ASSUME TransportGivesUp(r) PROVE Exchanges' /\ Later
    <2>1. PICK result : /\ req.pc = "waiting" /\ Move(r, [req EXCEPT !.pc = "returned", !.inner = result])
                        /\ result \in {"canceled", "timeout"}
      BY <1>2, Zenon DEF TransportGivesUp, At
    <2>2. result # "headers"
      BY <2>1
    <2> QED
      BY <1>a, <2>1, <2>2, Returns, Moves, Zenon
  <1>3. ASSUME TimerFires(r) PROVE Exchanges' /\ Later
    <2>1. CASE req.timer = "set"
      <3>1. Move(r, [req EXCEPT !.timer = "started"])
        BY <1>3, <2>1, Zenon DEF TimerFires
      <3>2. SoundStep(req, [req EXCEPT !.timer = "started"], S.peers)
        BY <1>a, <2>1, Ticks
      <3> QED
        BY <3>1, <3>2, Moves, Zenon
    <2>2. CASE req.timer = "started"
      <3>1. Move(r, [req EXCEPT !.timer = "fired"])
        BY <1>3, <2>2, Zenon DEF TimerFires
      <3>2. SoundStep(req, [req EXCEPT !.timer = "fired"], S.peers)
        BY <1>a, <2>2, Ticks
      <3> QED
        BY <3>1, <3>2, Moves, Zenon
    <2>3. CASE req.timer = "fired"
      <3>1. Move(r, [req EXCEPT !.timer = "cancelled", !.ctx = FALSE])
        BY <1>3, <2>3, Zenon DEF TimerFires
      <3> QED
        BY <1>a, <2>3, <3>1, Cancels, Moves, Zenon
    <2>4. CASE req.timer = "cancelled"
      <3>1. Move(r, [req EXCEPT !.timer = "settled"])
        BY <1>3, <2>4, Zenon DEF TimerFires
      <3>2. SoundStep(req, [req EXCEPT !.timer = "settled"], S.peers)
        BY <1>a, <2>4, Ticks
      <3> QED
        BY <3>1, <3>2, Moves, Zenon
    <2> QED
      BY <1>3, <2>1, <2>2, <2>3, <2>4, Zenon DEF TimerFires
  <1>4. ASSUME StopTimer(r) PROVE Exchanges' /\ Later
    <2> DEFINE timer == IF req.timer = "set" THEN "stopped" ELSE req.timer
    <2>1. req.pc = "returned" /\ Move(r, [req EXCEPT !.pc = "settle", !.timer = timer])
      BY <1>4, Zenon DEF StopTimer, At
    <2> HIDE DEF req
    <2>2. SoundStep(req, [req EXCEPT !.pc = "settle", !.timer = timer], S.peers)
      BY <1>a, <2>1, Stops, Zenon
    <2> QED
      BY <2>1, <2>2, Moves, Zenon DEF req
  <1>5. ASSUME Settle(r) PROVE Exchanges' /\ Later
    <2> DEFINE result == IF req.timer \in {"fired", "cancelled", "settled"} THEN "timeout" ELSE req.inner
    <2>1. /\ req.pc = "settle" /\ TimerDone(req.timer)
          /\ Move(r, IF result = "headers" THEN [req EXCEPT !.pc = "streaming", !.answer = 200]
                     ELSE Finish(req, errorHandler(result)))
      BY <1>5, Zenon DEF Settle, At
    <2>2. CASE result = "headers"
      <3>1. req.inner = "headers" /\ req.timer \in {"off", "stopped"}
        BY <2>1, <2>2 DEF TimerDone
      <3> QED
        BY <1>a, <2>1, <2>2, <3>1, Streams, Moves, Zenon
    <2>3. CASE result # "headers"
      <3>1. errorHandler(result) # 200
        BY DEF errorHandler
      <3>2. SoundStep(req, Finish(req, errorHandler(result)), S.peers)
        BY <1>a, <3>1, Finishes, Zenon
      <3> QED
        BY <2>1, <2>3, <3>2, Moves, Zenon
    <2> QED
      BY <2>2, <2>3, Zenon
  <1>6. ASSUME NEW result \in {"headers", "error"}, BackendAnswers(r, result)
        PROVE  Exchanges' /\ Later
    <2>1. req.pc = "waiting" /\ Move(r, [req EXCEPT !.pc = "returned", !.inner = result])
      BY <1>6, Zenon DEF BackendAnswers, At
    <2>2. result = "headers" => Trusted(req.rule[1], S.peers)
      BY <1>6, <1>a, <2>1 DEF BackendAnswers, ExchangeInv, Routed, Equipped, Serves, Connects, Trusted, RuleOK
    <2> QED
      BY <1>a, <2>1, <2>2, Returns, Moves, Zenon
  <1> QED
    BY <1>1, <1>2, <1>3, <1>4, <1>5, <1>6, Zenon DEF RoundTrip

\* The end of a body, and the client's.
Ending(r) == BodyEnds(r) \/ BodyCancelled(r) \/ ClientLeaves(r)
\* So do the ends of bodies and clients.
LEMMA EndKeeps ==
    ASSUME Exchanges, NEW r \in DOMAIN requests, Ending(r)
    PROVE  Exchanges' /\ Later
  <1> DEFINE req == requests[r]
  <1>1. ExchangeInv(req, S.peers)
    BY Zenon DEF Exchanges
  <1>2. ASSUME BodyEnds(r) \/ BodyCancelled(r) PROVE Exchanges' /\ Later
    <2>1. req.pc = "streaming" /\ Move(r, Finish(req, 200))
      BY <1>2, Zenon DEF BodyEnds, BodyCancelled, At
    <2> QED
      BY <1>1, <2>1, Finishes, Moves, Zenon
  <1>3. ASSUME ClientLeaves(r) PROVE Exchanges' /\ Later
    <2>1. Move(r, [req EXCEPT !.client = FALSE, !.ctx = FALSE])
      BY <1>3, Zenon DEF ClientLeaves
    <2> QED
      BY <1>1, <2>1, ClientGoes, Moves, Zenon
  <1> QED
    BY <1>2, <1>3, Zenon DEF Ending

\* An upgrade that ends closes its connection.
LEMMA Ends ==
    ASSUME NEW req, NEW peers, ExchangeInv(req, peers),
           NEW answer, answer = 200 => req.pc = "streaming" \/ req.answer = 200
    PROVE  SoundStep(req, Close(Finish(req, answer)), peers)
  <1> DEFINE new == Finish(req, answer)
  <1>1. SoundStep(req, new, peers)
    BY Finishes, Zenon
  <1>2. SoundStep(new, Close(new), peers)
    BY <1>1, Closes, Zenon DEF SoundStep
  <1> QED
    BY <1>1, <1>2, Zenon DEF SoundStep, Follows

\* The backend answers the upgrade, with anything but a plain answer.
LEMMA BackendUpgradesKeeps ==
    ASSUME Exchanges, NEW r \in DOMAIN requests, NEW status, ~IsOK(status), BackendUpgrades(r, status)
    PROVE  Exchanges' /\ Later
  <1> DEFINE req == requests[r]
             pc == IF status = 101 THEN "hijack" ELSE "forward"
  <1>1. req.pc = "wsread" /\ Move(r, [req EXCEPT !.pc = pc, !.answer = status])
    BY Zenon DEF BackendUpgrades, At
  <1>2. ExchangeInv(req, S.peers) /\ pc \in {"hijack", "forward"}
    BY Zenon DEF Exchanges
  <1> HIDE DEF req, pc
  <1>3. SoundStep(req, [req EXCEPT !.pc = pc, !.answer = status], S.peers)
    BY <1>1, <1>2, Responds, Zenon
  <1> QED
    BY <1>1, <1>3, Moves, Zenon DEF req

\* The upgrade.
Upgrade(r) ==
    \/ dialBackendForUpgrade(r) \/ WriteUpgrade(r) \/ ReadTimesOut(r) \/ ForwardEnds(r) \/ Hijack(r)
    \/ pipeWebSocket(r) \/ \E status \in {101, 403} : BackendUpgrades(r, status)
\* So do the steps of a WebSocket upgrade.
LEMMA UpgradeKeeps ==
    ASSUME Exchanges, NEW r \in DOMAIN requests, Upgrade(r)
    PROVE  Exchanges' /\ Later
  <1> DEFINE req == requests[r]
  <1>a. ExchangeInv(req, S.peers)
    BY Zenon DEF Exchanges
  <1>b. SoundStep(req, Finish(req, 502), S.peers)
    BY <1>a, Finishes
  <1>c. ASSUME NEW answer \in {502, 101, req.answer} PROVE SoundStep(req, Close(Finish(req, answer)), S.peers)
    <2>1. answer = 200 => req.answer = 200
      OBVIOUS
    <2> QED
      BY <1>a, <2>1, Ends
  <1>d. ASSUME NEW answer \in {502, 101, req.answer}, Move(r, Close(Finish(req, answer))) PROVE Exchanges' /\ Later
    BY <1>c, <1>d, Moves
  <1>1. ASSUME dialBackendForUpgrade(r) PROVE Exchanges' /\ Later
    <2>1. /\ req.pc = "wsdial"
          /\ Move(r, Finish(req, 502)) \/ Move(r, [req EXCEPT !.pc = "wswrite", !.conn = "open"])
      BY <1>1, Zenon DEF dialBackendForUpgrade, At
    <2>2. SoundStep(req, [req EXCEPT !.pc = "wswrite", !.conn = "open"], S.peers)
      BY <1>a, <2>1, Opens, Zenon
    <2> QED
      BY <1>b, <2>1, <2>2, Moves
  <1>2. ASSUME WriteUpgrade(r) PROVE Exchanges' /\ Later
    <2>1. req.pc = "wswrite" /\ (Move(r, Close(Finish(req, 502))) \/ Move(r, [req EXCEPT !.pc = "wsread"]))
      BY <1>2, Zenon DEF WriteUpgrade, At
    <2>2. SoundStep(req, [req EXCEPT !.pc = "wsread"], S.peers)
      BY <1>a, <2>1, Proceeds
    <2> QED
      BY <1>d, <2>1, <2>2, Moves
  <1>3. ASSUME ReadTimesOut(r) \/ ForwardEnds(r) \/ pipeWebSocket(r) PROVE Exchanges' /\ Later
    <2>1. \/ Move(r, Close(Finish(req, 502))) \/ Move(r, Close(Finish(req, 101)))
          \/ Move(r, Close(Finish(req, req.answer)))
      BY <1>3, Zenon DEF ReadTimesOut, ForwardEnds, pipeWebSocket
    <2> QED
      BY <1>d, <2>1
  <1>4. ASSUME Hijack(r) PROVE Exchanges' /\ Later
    <2>1. /\ req.pc = "hijack"
          /\ Move(r, Close(Finish(req, 101))) \/ Move(r, [req EXCEPT !.pc = "piping", !.copiers = {"up", "down"}])
      BY <1>4, Zenon DEF Hijack, At
    <2>2. SoundStep(req, [req EXCEPT !.pc = "piping", !.copiers = {"up", "down"}], S.peers)
      BY <1>a, <2>1, Pipes, Zenon
    <2> QED
      BY <1>d, <2>1, <2>2, Moves
  <1>5. ASSUME NEW status \in {101, 403}, BackendUpgrades(r, status) PROVE Exchanges' /\ Later
    BY <1>5, BackendUpgradesKeeps DEF IsOK
  <1> QED
    BY <1>1, <1>2, <1>3, <1>4, <1>5, Zenon DEF Upgrade

\* Copies, the backend's end and the mirror leg.
Aside(r) == BackendLeaves(r) \/ dispatchWithRetry(r) \/ \E way \in {"up", "down"} : CopyEnds(r, way)
\* So do copies, the backend and mirror legs.
LEMMA AsideKeeps ==
    ASSUME Exchanges, NEW r \in DOMAIN requests, Aside(r)
    PROVE  Exchanges' /\ Later
  <1> DEFINE req == requests[r]
  <1>1. \E field \in {"peer", "copiers", "mirror", "conn"} : \E value : Move(r, [req EXCEPT ![field] = value])
    <2>1. CASE BackendLeaves(r)
      BY <2>1, Zenon DEF BackendLeaves
    <2>2. CASE dispatchWithRetry(r)
      BY <2>2, Zenon DEF dispatchWithRetry
    <2>3. CASE \E way \in {"up", "down"} : CopyEnds(r, way)
      BY <2>3, Zenon DEF CopyEnds
    <2> QED
      BY <2>1, <2>2, <2>3, Zenon DEF Aside
  <1>2. ExchangeInv(req, S.peers)
    BY Zenon DEF Exchanges
  <1>3. ASSUME NEW field \in {"peer", "copiers", "mirror", "conn"}, NEW value
        PROVE  SoundStep(req, [req EXCEPT ![field] = value], S.peers)
    BY <1>2, Goes, Zenon
  <1> QED
    BY <1>1, <1>3, Moves, Zenon

-----------------------------------------------------------------------------
(* The pool                                                                *)

\* Who has yet to make a transport only gets fewer.
LEMMA StaysForegone ==
    ASSUME Later, left' \subseteq left, NEW transport, Foregone(transport, requests, left)
    PROVE  Foregone(transport, requests', left')
  BY Zenon DEF Later, Follows, Foregone

\* Transports that are stored are made by nobody else later.
LEMMA StaysMade ==
    ASSUME Later, left' \subseteq left, PoolMade,
           \A key \in DOMAIN pool' : (key \in DOMAIN pool /\ pool'[key] = pool[key]) \/ Foregone(pool'[key], requests', left'),
           swept' = swept \/ swept' = pool'
    PROVE  PoolMade'
  <1>1. ASSUME NEW key \in DOMAIN pool' PROVE Foregone(pool'[key], requests', left')
    BY StaysForegone, Zenon DEF PoolMade
  <1>2. ASSUME NEW key \in DOMAIN swept' PROVE Foregone(swept'[key], requests', left')
    BY <1>1, StaysForegone, Zenon DEF PoolMade
  <1> QED
    BY <1>1, <1>2, Zenon DEF PoolMade

\* A step that leaves the pool and the configuration alone.
LEMMA PoolFrame ==
    ASSUME Updates, PoolInv, Later, UNCHANGED <<scenario, left, update, table, swept, pool>>
    PROVE  Updates' /\ PoolInv'
  <1>1. S' = S /\ Active' = Active
    BY Zenon DEF S, Active, Rules
  <1>2. Updates'
    BY <1>1, Zenon DEF Updates
  <1>3. PoolKeyed' /\ Walk' /\ Mirrors'
    BY <1>1, Zenon DEF PoolInv, PoolKeyed, Walk, Mirrors
  <1>4. PoolMade'
    BY StaysMade, Zenon DEF PoolInv
  <1> QED
    BY <1>2, <1>3, <1>4, Zenon DEF PoolInv

\* What is new in the pool is not what the last walk began with.
LEMMA GrowsWalk ==
    ASSUME Walk, PoolMade, Active' = Active, UNCHANGED <<swept, update>>,
           NEW maker, NEW new, pool' = WithNew(pool, new),
           \A key \in DOMAIN new \ DOMAIN pool : new[key].by = maker,
           \A key \in DOMAIN swept : swept[key].by # maker
    PROVE  Walk'
  <1>1. ASSUME NEW key \in DOMAIN pool' \ Active, key \in DOMAIN swept, pool'[key] = swept[key]
        PROVE  update.pc = "prune" /\ key \in update.keys
    <2>1. CASE key \in DOMAIN pool
      <3>1. pool'[key] = pool[key]
        BY <2>1, Zenon DEF WithNew
      <3> QED
        BY <1>1, <2>1, <3>1, Zenon DEF Walk
    <2>2. CASE key \notin DOMAIN pool
      <3>1. key \in DOMAIN new /\ pool'[key] = new[key]
        BY <2>2, Zenon DEF WithNew
      <3> QED
        BY <1>1, <2>2, <3>1, Zenon
    <2> QED
      BY <2>1, <2>2, Zenon
  <1> QED
    BY <1>1, Zenon DEF Walk

\* A request that stores a transport.
LEMMA LoadOrStorePool ==
    ASSUME Updates, Exchanges, PoolInv, NEW r \in DOMAIN requests, LoadOrStore(r)
    PROVE  Updates' /\ PoolInv'
  <1> DEFINE rule == requests[r].rule[1]
             key == KeyOf(rule)
             made == Made(<<"request", r>>, rule.protocol, rule.tls, ruleHeaderTimeout(rule))
             new == [k \in {key} |-> made]
  <1>1. /\ requests[r].pc = "create" /\ pool' = WithNew(pool, new)
        /\ requests' = [requests EXCEPT ![r] = [requests[r] EXCEPT !.pc = "send", !.transport = <<pool'[key]>>]]
        /\ UNCHANGED <<scenario, left, update, table, swept>>
    BY Zenon DEF LoadOrStore, At, Move, routing
  <1>2. PoolKeyed' /\ Later
    BY LoadOrStoreKeeps, Zenon DEF PoolInv
  <1>3. S' = S /\ Active' = Active
    BY <1>1, Zenon DEF S, Active, Rules
  <1>4. Updates'
    BY <1>1, <1>3, Zenon DEF Updates
  <1>5. made.by = <<"request", r>>
    BY DEF Made
  <1>6. requests'[r].pc \notin Early
    <2>1. "pc" \in DOMAIN requests[r]
      BY Zenon DEF Exchanges, ExchangeInv, IsExchange, Fields
    <2>2. requests'[r].pc = "send"
      BY <1>1, <2>1, Zenon
    <2> QED
      BY <2>2 DEF Early
  <1> HIDE DEF made, key
  <1>7. Foregone(made, requests', left')
    BY <1>5, <1>6 DEF Foregone
  <1>8. \A k \in DOMAIN pool' : (k \in DOMAIN pool /\ pool'[k] = pool[k]) \/ pool'[k] = made
    BY <1>1, Zenon DEF WithNew
  <1>9. PoolMade'
    BY <1>1, <1>2, <1>7, <1>8, StaysMade, Zenon DEF PoolInv
  <1>10. \A k \in DOMAIN swept : swept[k].by # <<"request", r>>
    BY <1>1 DEF PoolInv, PoolMade, Foregone, Early
  <1>11. \A k \in DOMAIN new \ DOMAIN pool : new[k].by = <<"request", r>>
    BY <1>5, Zenon
  <1>12. Walk'
    <2> HIDE DEF new
    <2> QED
      BY <1>1, <1>3, <1>10, <1>11, GrowsWalk, Zenon DEF PoolInv
  <1>13. Mirrors'
    <2>1. \A k \in DOMAIN pool : k \in DOMAIN pool' /\ pool'[k] = pool[k]
      BY <1>1, Zenon DEF WithNew
    <2> QED
      BY <1>1, <1>3, <2>1, Zenon DEF PoolInv, Mirrors
  <1> QED
    BY <1>2, <1>4, <1>9, <1>12, <1>13, Zenon DEF PoolInv

-----------------------------------------------------------------------------
(* Updates                                                                 *)

\* The transports a push borrows are those its mirror targets ask for, and
\* the new ones are its own.
LEMMA BorrowedKeyed ==
    ASSUME Updates, PoolKeyed, NEW i \in DOMAIN S.pushes, NEW key \in DOMAIN Borrowed(i)
    PROVE  /\ key \in extractActiveTransportKeys(Rules(i))
           /\ Keyed(key, Borrowed(i)[key])
           /\ key \in DOMAIN pool => Borrowed(i)[key] = pool[key]
           /\ key \notin DOMAIN pool => Borrowed(i)[key].by = <<"push", i>>
  <1> DEFINE targets == MirrorTargets(i)
             m == CHOOSE t \in targets : MirrorKey(t) = key
             made == Made(<<"push", i>>, m.protocol, m.tls, 0)
  <1>1. key \in {MirrorKey(t) : t \in targets}
    BY Zenon DEF Borrowed
  <1>2. Borrowed(i)[key] = IF key \in DOMAIN pool THEN pool[key] ELSE made
    BY <1>1, Zenon DEF Borrowed
  <1>3. m \in targets /\ MirrorKey(m) = key
    BY <1>1, Zenon
  <1>4. IsPolicy(m.tls)
    <2>1. PICK rule \in Range(Rules(i)) : m \in rule.mirrors
      BY <1>3, Zenon DEF MirrorTargets
    <2>2. Rules(i) = Scenarios[scenario].pushes[i].rules
      BY ScenariosAssumption, Zenon DEF Rules, Updates, S
    <2>3. RuleOK(rule)
      BY <2>1, <2>2, ScenariosAssumption, Zenon DEF Updates, S
    <2> QED
      BY <2>1, <2>3, Zenon DEF RuleOK
  <1> HIDE DEF m
  <1>5. Keyed(key, made)
    BY <1>3, <1>4, MadeKeyed, Zenon DEF MirrorKey
  <1>6. made.by = <<"push", i>>
    BY DEF Made
  <1>7. key \in extractActiveTransportKeys(Rules(i))
    BY <1>1, Zenon DEF extractActiveTransportKeys, MirrorTargets
  <1> HIDE DEF made
  <1> QED
    BY <1>2, <1>5, <1>6, <1>7, Zenon DEF PoolKeyed

\* The requests stay where they are.
LEMMA StaysLater ==
    ASSUME UNCHANGED requests
    PROVE  Later
  BY Zenon DEF Later, Follows

\* A push that is refused, fails to compile, or is applied.
LEMMA PutConfigPool ==
    ASSUME Updates, PoolInv, NEW i \in DOMAIN S.pushes, PutConfig(i)
    PROVE  Updates' /\ PoolInv'
  <1> DEFINE config == S.pushes[i]
  <1>1. /\ i \in left /\ left' = left \ {i} /\ UNCHANGED <<scenario, requests>>
        /\ IF Refused(config) THEN UNCHANGED <<update, table, swept, pool>>
           ELSE /\ pool' = WithNew(pool, Borrowed(i))
                /\ IF ~config.compiles THEN UNCHANGED <<update, table, swept>>
                   ELSE /\ table' = [at |-> i, version |-> config.version, mirrors |-> Borrowed(i)]
                        /\ update' = [pc |-> "prune", at |-> i, keys |-> DOMAIN pool']
                        /\ swept' = pool'
    BY Zenon DEF PutConfig
  <1>2. S' = S /\ left' \subseteq left /\ left' \subseteq DOMAIN S.pushes /\ Later
    BY <1>1, StaysLater, Zenon DEF S, Updates
  <1>3. CASE Refused(config)
    <2>1. UNCHANGED <<update, table, swept, pool>>
      BY <1>1, <1>3, Zenon
    <2>2. Active' = Active
      BY <1>2, <2>1, Zenon DEF Active, Rules
    <2>3. Updates' /\ PoolKeyed' /\ Walk' /\ Mirrors'
      BY <1>1, <1>2, <2>1, <2>2, Zenon DEF Updates, PoolInv, PoolKeyed, Walk, Mirrors
    <2>4. PoolMade'
      BY <1>2, <2>1, StaysMade, Zenon DEF PoolInv
    <2> QED
      BY <2>3, <2>4, Zenon DEF PoolInv
  <1>4. CASE ~Refused(config)
    <2> DEFINE new == Borrowed(i)
    <2>1. pool' = WithNew(pool, new)
      BY <1>1, <1>4, Zenon
    <2>2. /\ \A key \in DOMAIN new \ DOMAIN pool : new[key].by = <<"push", i>>
          /\ \A key \in DOMAIN new : /\ key \in extractActiveTransportKeys(Rules(i))
                                     /\ Keyed(key, new[key])
                                     /\ key \in DOMAIN pool => new[key] = pool[key]
      BY BorrowedKeyed, Zenon DEF PoolInv
    <2> HIDE DEF new
    <2>3. DOMAIN pool' = DOMAIN pool \cup DOMAIN new
      BY <2>1, Zenon DEF WithNew
    <2>4. \A key \in DOMAIN pool : key \in DOMAIN pool' /\ pool'[key] = pool[key]
      BY <2>1, Zenon DEF WithNew
    <2>5. \A key \in DOMAIN new : key \in DOMAIN pool' /\ pool'[key] = new[key]
      BY <2>1, <2>2, Zenon DEF WithNew
    <2>6. PoolKeyed'
      BY <2>2, <2>3, <2>4, <2>5, Zenon DEF PoolInv, PoolKeyed
    <2>7. ASSUME NEW key \in DOMAIN pool', key \notin DOMAIN pool PROVE Foregone(pool'[key], requests', left')
      <3>1. pool'[key].by = <<"push", i>>
        BY <2>2, <2>3, <2>5, <2>7, Zenon
      <3> QED
        BY <1>1, <3>1 DEF Foregone
    <2>8. swept' = swept \/ swept' = pool'
      BY <1>1, <1>4, Zenon
    <2>9. PoolMade'
      BY <1>2, <2>4, <2>7, <2>8, StaysMade, Zenon DEF PoolInv
    <2>10. CASE ~config.compiles
      <3>1. UNCHANGED <<update, table, swept>>
        BY <1>1, <1>4, <2>10, Zenon
      <3>2. Active' = Active
        BY <1>2, <3>1, Zenon DEF Active, Rules
      <3>3. \A key \in DOMAIN swept : swept[key].by # <<"push", i>>
        BY <1>1, Zenon DEF PoolInv, PoolMade, Foregone
      <3>4. Walk'
        BY <2>1, <2>2, <3>1, <3>2, <3>3, GrowsWalk, Zenon DEF PoolInv
      <3>5. Updates' /\ Mirrors'
        BY <1>1, <1>2, <2>4, <3>1, <3>2, Zenon DEF Updates, PoolInv, Mirrors
      <3> QED
        BY <2>6, <2>9, <3>4, <3>5, Zenon DEF PoolInv
    <2>11. CASE config.compiles
      <3>1. /\ table'.at = i /\ table'.mirrors = new /\ update' = [pc |-> "prune", at |-> i, keys |-> DOMAIN pool']
            /\ swept' = pool'
        BY <1>1, <1>4, <2>11 DEF new
      <3>2. update'.pc = "prune" /\ update'.at = i /\ update'.keys = DOMAIN pool'
        BY <3>1
      <3>3. Active' = extractActiveTransportKeys(Rules(i))
        BY <1>2, <3>1, Zenon DEF Active, Rules
      <3>4. Walk'
        BY <3>2, Zenon DEF Walk
      <3>5. Mirrors'
        BY <2>2, <2>5, <3>1, <3>3, Zenon DEF Mirrors
      <3>6. Updates'
        BY <1>1, <1>2, <3>1, <3>2, Zenon DEF Updates
      <3> QED
        BY <2>6, <2>9, <3>4, <3>5, <3>6, Zenon DEF PoolInv
    <2> QED
      BY <2>10, <2>11, Zenon
  <1> QED
    BY <1>3, <1>4, Zenon

\* The walk over the pool.
LEMMA PrunePool ==
    ASSUME Updates, PoolInv, PruneTransports
    PROVE  Updates' /\ PoolInv'
  <1>1. /\ update.pc = "prune" /\ UNCHANGED <<scenario, left, table, swept, requests>>
        /\ \/ update.keys = {} /\ update' = [update EXCEPT !.pc = "signal"] /\ UNCHANGED pool
           \/ \E key \in update.keys \cup (DOMAIN pool \ DOMAIN swept) :
                  pool' = PruneKey(key, update.at) /\ update' = [update EXCEPT !.keys = @ \ {key}]
    BY Zenon DEF PruneTransports
  <1>2. S' = S /\ Active' = Active /\ Later
    BY <1>1, StaysLater, Zenon DEF S, Active, Rules
  <1>3. update.at = table.at /\ update = [pc |-> update.pc, at |-> update.at, keys |-> update.keys]
    BY <1>1, Zenon DEF Updates
  <1>4. CASE update.keys = {} /\ update' = [update EXCEPT !.pc = "signal"] /\ UNCHANGED pool
    <2>1. update' = [pc |-> "signal", at |-> update.at, keys |-> {}]
      BY <1>3, <1>4
    <2>2. Updates'
      <3>1. update' = [pc |-> update'.pc, at |-> update'.at, keys |-> update'.keys] /\ update'.at = table.at
        BY <1>3, <2>1
      <3> QED
        BY <1>1, <1>2, <3>1, Zenon DEF Updates
    <2>3. PoolKeyed' /\ Mirrors'
      BY <1>1, <1>2, <1>4, Zenon DEF PoolInv, PoolKeyed, Mirrors
    <2>4. Walk'
      BY <1>1, <1>2, <1>4, Zenon DEF PoolInv, Walk
    <2>5. PoolMade'
      BY <1>1, <1>2, <1>4, StaysMade, Zenon DEF PoolInv
    <2> QED
      BY <2>2, <2>3, <2>4, <2>5, Zenon DEF PoolInv
  <1>5. ASSUME NEW key, pool' = PruneKey(key, update.at), update' = [update EXCEPT !.keys = @ \ {key}]
        PROVE  Updates' /\ PoolInv'
    <2>1. update' = [pc |-> "prune", at |-> update.at, keys |-> update.keys \ {key}]
      BY <1>1, <1>3, <1>5
    <2>2. /\ update' = [pc |-> update'.pc, at |-> update'.at, keys |-> update'.keys] /\ update'.at = table.at
          /\ update'.pc = "prune" /\ update'.keys = update.keys \ {key}
      BY <1>3, <2>1
    <2>3. Updates'
      BY <1>1, <1>2, <2>2, Zenon DEF Updates
    <2>4. pool' = IF key \in Active THEN pool ELSE [k \in DOMAIN pool \ {key} |-> pool[k]]
      BY <1>3, <1>5, Zenon DEF PruneKey, Active
    <2>5. /\ \A k \in DOMAIN pool' : k \in DOMAIN pool /\ pool'[k] = pool[k] /\ (k = key => k \in Active)
          /\ \A k \in DOMAIN pool : k # key \/ k \in Active => k \in DOMAIN pool'
      BY <2>4, Zenon
    <2>6. PoolKeyed' /\ Mirrors'
      BY <1>1, <1>2, <2>5, Zenon DEF PoolInv, PoolKeyed, Mirrors
    <2>7. Walk'
      BY <1>1, <1>2, <2>2, <2>5, Zenon DEF PoolInv, Walk
    <2>8. PoolMade'
      BY <1>1, <1>2, <2>5, StaysMade, Zenon DEF PoolInv
    <2> QED
      BY <2>3, <2>6, <2>7, <2>8, Zenon DEF PoolInv
  <1> QED
    BY <1>1, <1>4, <1>5, Zenon

\* The rest of an update.
LEMMA AfterPrune ==
    ASSUME Updates, PoolInv, SignalFirstConfig \/ FinishUpdate
    PROVE  Updates' /\ PoolInv'
  <1>1. /\ update.pc \in {"signal", "warn"} /\ UNCHANGED <<scenario, left, table, swept, pool, requests>>
        /\ update' = [update EXCEPT !.pc = "warn"] \/ update' = NoUpdate
    BY Zenon DEF SignalFirstConfig, FinishUpdate
  <1>2. S' = S /\ Active' = Active /\ Later
    BY <1>1, StaysLater, Zenon DEF S, Active, Rules
  <1>3. /\ update' = [pc |-> update'.pc, at |-> update'.at, keys |-> update'.keys]
        /\ update'.pc # "idle" => update'.at = table.at
    BY <1>1 DEF Updates, NoUpdate
  <1>4. Updates'
    BY <1>1, <1>2, <1>3, Zenon DEF Updates
  <1>5. update.pc # "prune"
    BY <1>1
  <1>6. PoolKeyed' /\ Walk' /\ Mirrors'
    BY <1>1, <1>2, <1>5, Zenon DEF PoolInv, PoolKeyed, Walk, Mirrors
  <1>7. PoolMade'
    BY <1>1, <1>2, StaysMade, Zenon DEF PoolInv
  <1> QED
    BY <1>4, <1>6, <1>7, Zenon DEF PoolInv

-----------------------------------------------------------------------------
(* The process                                                             *)

\* The steps of start, drain and exit.
Life ==
    \/ handleDrainSignals \/ Resolve \/ SetDialedProtocol \/ StartTunnel \/ waitConnected \/ TunnelEnds
    \/ waitForShutdown \/ gracefulShutdown \/ Signal \/ ConfigServerFails \/ Register \/ TunnelFails

\* Start, drain and shutdown leave table, pool and exchanges alone.
LEMMA LifeFrame ==
    ASSUME Life
    PROVE  UNCHANGED <<scenario, left, update, table, swept, pool, warned, requests>>
  BY Zenon DEF Life, handleDrainSignals, Resolve, SetDialedProtocol, StartTunnel, waitConnected, TunnelEnds,
        waitForShutdown, gracefulShutdown, Signal, ConfigServerFails, Register, TunnelFails, routing

\* The steps of one exchange that leave the pool alone.
LEMMA ExchangeFrame ==
    ASSUME NEW r, Arrive(r) \/ LookUp(r) \/ RoundTrip(r) \/ Ending(r) \/ Upgrade(r) \/ Aside(r)
    PROVE  UNCHANGED <<scenario, left, update, table, swept, pool>>
  <1>1. CASE Arrive(r) \/ LookUp(r)
    BY <1>1, Zenon DEF Arrive, LookUp, Move, routing
  <1>2. CASE RoundTrip(r)
    BY <1>2, Zenon DEF RoundTrip, Send, TransportGivesUp, TimerFires, StopTimer, Settle, BackendAnswers, Move, routing
  <1>3. CASE Ending(r)
    BY <1>3, Zenon DEF Ending, BodyEnds, BodyCancelled, ClientLeaves, Move, routing
  <1>4. CASE Upgrade(r)
    BY <1>4, Zenon DEF Upgrade, dialBackendForUpgrade, WriteUpgrade, ReadTimesOut, ForwardEnds, Hijack, pipeWebSocket,
          BackendUpgrades, Move, routing
  <1>5. CASE Aside(r)
    BY <1>5, Zenon DEF Aside, BackendLeaves, dispatchWithRetry, CopyEnds, Move, routing
  <1> QED
    BY <1>1, <1>2, <1>3, <1>4, <1>5, Zenon

\* The steps, sorted.
LEMMA Steps ==
    ASSUME Next
    PROVE  \/ Life \/ PruneTransports \/ SignalFirstConfig \/ FinishUpdate
           \/ \E i \in DOMAIN S.pushes : PutConfig(i)
           \/ \E r \in DOMAIN requests :
                  Arrive(r) \/ LookUp(r) \/ LoadOrStore(r) \/ RoundTrip(r) \/ Ending(r) \/ Upgrade(r) \/ Aside(r)
  <1>1. CASE Step
    BY <1>1 DEF Step, Life, RoundTrip, Ending, Upgrade, Aside
  <1>2. CASE Event
    BY <1>2 DEF Event, Life, RoundTrip, Ending, Upgrade, Aside
  <1> QED
    BY <1>1, <1>2, Zenon DEF Next

\* Exchanges that do not move stay sound.
LEMMA ExchangesFrame ==
    ASSUME Exchanges, UNCHANGED <<scenario, requests>>
    PROVE  Exchanges'
  BY Zenon DEF Exchanges, S

\* The invariant holds at the start,
LEMMA ProcessInit ==
    ASSUME Init
    PROVE  ProcessInv
  <1>1. Updates
    BY Zenon DEF Init, Updates, NoUpdate
  <1>2. ExchangeInv(Idle, S.peers)
    BY DEF Idle, ExchangeInv, IsExchange, Fields, Routed, Equipped, TimerKept
  <1>3. Exchanges
    BY <1>2, Zenon DEF Init, Exchanges
  <1>4. DOMAIN pool = {} /\ DOMAIN swept = {} /\ DOMAIN table.mirrors = {}
    <2>1. pool = <<>> /\ swept = <<>> /\ table = [at |-> 0, version |-> 0, mirrors |-> <<>>]
      BY Zenon DEF Init
    <2> QED
      BY <2>1
  <1>5. PoolInv
    BY <1>4, Zenon DEF PoolInv, PoolKeyed, PoolMade, Walk, Mirrors
  <1> QED
    BY <1>1, <1>3, <1>5, Zenon DEF ProcessInv

\* and every step keeps it.
LEMMA ProcessStep ==
    ASSUME ProcessInv, [Next]_vars
    PROVE  ProcessInv'
  <1> USE DEF ProcessInv
  <1>1. ASSUME Life \/ UNCHANGED vars PROVE ProcessInv'
    <2>1. UNCHANGED <<scenario, left, update, table, swept, pool, requests>>
      BY <1>1, LifeFrame, Zenon DEF vars, routing
    <2> QED
      BY <2>1, PoolFrame, ExchangesFrame, StaysLater, Zenon
  <1>2. ASSUME PruneTransports \/ SignalFirstConfig \/ FinishUpdate \/ \E i \in DOMAIN S.pushes : PutConfig(i)
        PROVE  ProcessInv'
    <2>1. UNCHANGED <<scenario, requests>>
      BY <1>2, Zenon DEF PruneTransports, SignalFirstConfig, FinishUpdate, PutConfig
    <2>2. Updates' /\ PoolInv'
      BY <1>2, PrunePool, AfterPrune, PutConfigPool, Zenon
    <2> QED
      BY <2>1, <2>2, ExchangesFrame, Zenon
  <1>3. ASSUME NEW r \in DOMAIN requests, LoadOrStore(r) PROVE ProcessInv'
    BY <1>3, LoadOrStoreKeeps, LoadOrStorePool, Zenon DEF PoolInv
  <1>4. ASSUME NEW r \in DOMAIN requests, Arrive(r) \/ LookUp(r) \/ RoundTrip(r) \/ Ending(r) \/ Upgrade(r) \/ Aside(r)
        PROVE  ProcessInv'
    <2>1. Exchanges' /\ Later
      BY <1>4, ArriveKeeps, LookUpKeeps, RoundTripKeeps, EndKeeps, UpgradeKeeps, AsideKeeps, Zenon DEF PoolInv
    <2>2. UNCHANGED <<scenario, left, update, table, swept, pool>>
      BY <1>4, ExchangeFrame, Zenon
    <2> QED
      BY <2>1, <2>2, PoolFrame, Zenon
  <1> QED
    BY <1>1, <1>2, <1>3, <1>4, Steps, Zenon

\* The inductive invariant holds throughout.
LEMMA ProcessInvariant == Spec => []ProcessInv
  BY ProcessInit, ProcessStep, PTL DEF Spec

-----------------------------------------------------------------------------
(* Results                                                                 *)

\* The transport an exchange uses is the one its rule asks for, and an answer
\* over TLS came from a peer the rule's policy trusts (transportKey,
\* getTransport).
THEOREM DialedAsConfiguredHolds == Spec => []DialedAsConfigured
  <1>1. ASSUME ProcessInv PROVE DialedAsConfigured
    <2> SUFFICES ASSUME NEW r \in DOMAIN requests, requests[r].transport # <<>>
                 PROVE  LET req == requests[r]
                            rule == req.rule[1]
                            used == req.transport[1]
                        IN  /\ [dials |-> used.dials, tls |-> used.tls, timeout |-> used.timeout]
                                   = newTransport(rule.protocol, rule.tls, ruleHeaderTimeout(rule))
                            /\ req.answer = 200 /\ rule.tls # <<>>
                               => Authenticates(rule.tls, rule.host, S.peers[rule.host])
      BY Zenon DEF DialedAsConfigured
    <2> DEFINE req == requests[r]
               rule == req.rule[1]
               used == req.transport[1]
    <2>1. ExchangeInv(req, S.peers)
      BY <1>1, Zenon DEF ProcessInv, Exchanges
    <2>2. Serves(used, rule)
      BY <2>1 DEF ExchangeInv, Equipped
    <2>3. [dials |-> used.dials, tls |-> used.tls, timeout |-> used.timeout]
              = newTransport(rule.protocol, rule.tls, ruleHeaderTimeout(rule))
      BY <2>2 DEF Serves, newTransport
    <2>4. req.answer = 200 /\ rule.tls # <<>> => Authenticates(rule.tls, rule.host, S.peers[rule.host])
      BY <2>1 DEF ExchangeInv, Equipped, Trusted
    <2> QED
      BY <2>3, <2>4, Zenon
  <1> QED
    BY <1>1, ProcessInvariant, PTL

\* A walk over the pool leaves nothing behind that it met, however many
\* requests store transports meanwhile, and the mirror filters in use hold the
\* very transports of the pool (PruneTransports, extractActiveTransportKeys).
THEOREM PoolTracksConfigHolds == Spec => []PoolTracksConfig
  <1>1. ASSUME ProcessInv PROVE PoolTracksConfig
    BY <1>1, Zenon DEF ProcessInv, PoolInv, Walk, Mirrors, Active, PoolTracksConfig
  <1> QED
    BY <1>1, ProcessInvariant, PTL

\* The header timer never cuts off a response that is being streamed
\* (headerTimeoutRoundTripper).
THEOREM StreamsSurviveHolds == Spec => []StreamsSurvive
  <1>1. ASSUME ProcessInv PROVE StreamsSurvive
    <2>1. ASSUME NEW r \in DOMAIN requests, At(r, "streaming"), ~requests[r].ctx PROVE ~requests[r].client
      <3>1. TimerKept(requests[r])
        BY <1>1, Zenon DEF ProcessInv, Exchanges, ExchangeInv
      <3> QED
        BY <2>1, <3>1 DEF At, TimerKept
    <2> QED
      BY <2>1, Zenon DEF StreamsSurvive
  <1> QED
    BY <1>1, ProcessInvariant, PTL

\* A tunnel that cannot carry gRPC is reported by the end of the update that
\* brings a GRPCRoute, unless that configuration was there before the protocol
\* was recorded (warnGRPCRestartIfNeeded, ResolveStartupProtocol).
THEOREM GRPCReportedHolds == Spec => []GRPCReported
  <1>1. Init => GRPCReported
    BY Zenon DEF Init, GRPCReported
  <1>2. ASSUME ProcessInv, GRPCReported, [Next]_vars PROVE GRPCReported'
    <2>1. ASSUME UNCHANGED <<scenario, update, table, warned, dialed, early>> PROVE GRPCReported'
      BY <1>2, <2>1, Zenon DEF GRPCReported, S
    <2>2. ASSUME Life PROVE GRPCReported'
      <3>1. UNCHANGED <<scenario, update, table, warned>>
        BY <2>2, LifeFrame, Zenon
      <3>2. UNCHANGED <<dialed, early>> \/ early' = table.at
        BY <2>2, Zenon DEF Life, handleDrainSignals, Resolve, SetDialedProtocol, StartTunnel, waitConnected, TunnelEnds,
              waitForShutdown, gracefulShutdown, Signal, ConfigServerFails, Register, TunnelFails
      <3> QED
        BY <2>1, <3>1, <3>2, Zenon DEF GRPCReported
    <2>3. ASSUME NEW i \in DOMAIN S.pushes, PutConfig(i) PROVE GRPCReported'
      <3>1. UNCHANGED <<scenario, warned, dialed, early>>
        BY <2>3, Zenon DEF PutConfig, process
      <3>2. UNCHANGED <<update, table>> \/ update' = [pc |-> "prune", at |-> i, keys |-> DOMAIN pool']
        BY <2>3, Zenon DEF PutConfig
      <3>3. UNCHANGED <<update, table>> \/ update'.pc # "idle"
        BY <3>2
      <3> QED
        BY <2>1, <3>1, <3>3, Zenon DEF GRPCReported
    <2>4. ASSUME PruneTransports \/ SignalFirstConfig PROVE GRPCReported'
      <3>1. update.pc # "idle" /\ update'.pc # "idle"
        BY <1>2, <2>4 DEF PruneTransports, SignalFirstConfig, ProcessInv, Updates
      <3> QED
        BY <3>1, Zenon DEF GRPCReported
    <2>5. ASSUME FinishUpdate PROVE GRPCReported'
      <3>1. update.at = table.at
        BY <1>2, <2>5 DEF FinishUpdate, ProcessInv, Updates
      <3>2. UNCHANGED <<scenario, table, dialed, early>> /\ warned' = warnGRPCRestartIfNeeded(S.pushes[table.at])
        BY <2>5, <3>1, Zenon DEF FinishUpdate, process
      <3> QED
        BY <3>2, Zenon DEF GRPCReported, warnGRPCRestartIfNeeded, GRPCRestartNeeded, S
    <2>6. ASSUME NEW r \in DOMAIN requests,
                 Arrive(r) \/ LookUp(r) \/ LoadOrStore(r) \/ RoundTrip(r) \/ Ending(r) \/ Upgrade(r) \/ Aside(r)
          PROVE  GRPCReported'
      <3>1. \E new : Move(r, new)
        <4>1. CASE Arrive(r) \/ LookUp(r) \/ LoadOrStore(r)
          BY <4>1, Zenon DEF Arrive, LookUp, LoadOrStore
        <4>2. CASE RoundTrip(r)
          BY <4>2, Zenon DEF RoundTrip, Send, TransportGivesUp, TimerFires, StopTimer, Settle, BackendAnswers
        <4>3. CASE Ending(r) \/ Aside(r)
          BY <4>3, Zenon DEF Ending, BodyEnds, BodyCancelled, ClientLeaves, Aside, BackendLeaves, dispatchWithRetry, CopyEnds
        <4>4. CASE Upgrade(r)
          <5>1. ASSUME NEW status, BackendUpgrades(r, status) PROVE \E new : Move(r, new)
            BY <5>1, Zenon DEF BackendUpgrades
          <5>2. CASE dialBackendForUpgrade(r) \/ WriteUpgrade(r) \/ ReadTimesOut(r)
            BY <5>2, Zenon DEF dialBackendForUpgrade, WriteUpgrade, ReadTimesOut
          <5>3. CASE ForwardEnds(r) \/ Hijack(r) \/ pipeWebSocket(r)
            BY <5>3, Zenon DEF ForwardEnds, Hijack, pipeWebSocket
          <5> QED
            BY <4>4, <5>1, <5>2, <5>3, Zenon DEF Upgrade
        <4> QED
          BY <2>6, <4>1, <4>2, <4>3, <4>4, Zenon
      <3> QED
        BY <2>1, <3>1, Zenon DEF Move, process, routing
    <2>7. CASE UNCHANGED vars
      BY <2>1, <2>7, Zenon DEF vars, process, routing
    <2> QED
      BY <1>2, <2>2, <2>3, <2>4, <2>5, <2>6, <2>7, Steps, Zenon
  <1> QED
    BY <1>1, <1>2, ProcessInvariant, PTL DEF Spec
=============================================================================
