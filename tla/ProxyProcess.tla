---------------------------- MODULE ProxyProcess ----------------------------
(***************************************************************************)
(* The life of one proxy process (cmd/proxy/main.go): the choice of the    *)
(* tunnel's protocol, readiness, the two-stage drain; configurations       *)
(* applied while requests are under way; and each exchange with a backend, *)
(* with its timer, its WebSocket copies and its mirror leg.                *)
(*                                                                         *)
(* Abstractions.  How a request picks its rule is in Handler.tla: here a   *)
(* request names the rule's place.  cloudflared and net/http are external: *)
(* the daemon registers at some point or never, and ends once told to; a   *)
(* round trip returns once its context is cancelled.  The mirror targets   *)
(* of a rule share one retry loop.                                         *)
(***************************************************************************)
EXTENDS BackendTransport

CONSTANTS Scenarios,           \* sequence of process set-ups, see below
          MirrorMaxAttempts    \* 3 in the code
ASSUME MirrorMaxAttemptsAssumption == MirrorMaxAttempts \in Nat \ {0}

\* A scenario: [mode, configured, token, pushes, requests, peers, signals,
\* fails]; pushes is the sequence of configurations that may be put, in any
\* order, each [version, grpc, valid, compiles, rules]; requests gives the
\* place of the rule each request is for; peers the certificate of each host;
\* signals bounds the termination signals, fails says whether the listener
\* of the configuration API may fail.

\* The converter gives a backend with a policy an https URL (forceHTTPSScheme).
RuleOK(rule) ==
    /\ IsPolicy(rule.tls) /\ (rule.tls # <<>> => rule.scheme = "https")
    /\ \A m \in rule.mirrors : IsPolicy(m.tls)
ASSUME ScenariosAssumption ==
    \A n \in DOMAIN Scenarios :
        /\ 0 \notin DOMAIN Scenarios[n].pushes
        /\ \A i \in DOMAIN Scenarios[n].pushes : \A rule \in Range(Scenarios[n].pushes[i].rules) : RuleOK(rule)

VARIABLES scenario,   \* the scenario of this behaviour
          main,       \* the main goroutine
          protocol,   \* what ResolveStartupProtocol returned
          dialed,     \* the protocol recorded in the router, "" before
          signals,    \* signals sent, and those the drain goroutine has read
          graceC,     \* the drain channel is closed
          done,       \* the process context is cancelled
          daemon,     \* the tunnel daemon
          connected,  \* the latch behind readiness
          firstC,     \* the channel with the first configuration, and whether it was used
          left,       \* configurations not put yet
          update,     \* the UpdateConfig under way
          table,      \* the routing table
          pool,       \* the transports of the handler
          swept,      \* the pool when the last prune began
          warned,     \* the restart error was logged
          early,      \* the configuration in use when the protocol was recorded
          requests    \* the exchanges

process == <<main, protocol, dialed, early, signals, graceC, done, daemon, connected>>
routing == <<firstC, left, update, table, swept, warned>>
vars == <<scenario, process, routing, pool, requests>>

S == Scenarios[scenario]
Exited == main \in {"exited", "failed"}
NoUpdate == [pc |-> "idle", at |-> 0, keys |-> {}]
Rules(at) == IF at = 0 THEN <<>> ELSE S.pushes[at].rules

Idle == [pc |-> "idle", rule |-> <<>>, transport |-> <<>>, timer |-> "off", inner |-> "none", ctx |-> TRUE,
         client |-> TRUE, peer |-> TRUE, answer |-> 0, conn |-> "none", copiers |-> {}, mirror |-> 0]

-----------------------------------------------------------------------------
(* Start, drain and exit                                                   *)

\* buildDataPlane; without a tunnel the latch is set at once.
Init ==
    /\ scenario \in DOMAIN Scenarios
    /\ main = IF S.mode = "tunnel" THEN "resolve" ELSE "serve"
    /\ protocol = "" /\ dialed = "" /\ early = 0 /\ signals = [sent |-> 0, read |-> 0]
    /\ graceC = FALSE /\ done = FALSE /\ daemon = "off"
    /\ connected = (S.mode = "standalone")
    /\ firstC = [queue |-> <<>>, used |-> FALSE] /\ left = DOMAIN S.pushes /\ update = NoUpdate
    /\ table = [at |-> 0, version |-> 0, mirrors |-> <<>>]
    /\ pool = <<>> /\ swept = <<>> /\ warned = FALSE
    /\ requests = [r \in DOMAIN S.requests |-> Idle]

Signal ==
    /\ ~Exited /\ signals.sent < S.signals
    /\ signals' = [signals EXCEPT !.sent = @ + 1]
    /\ UNCHANGED <<scenario, main, protocol, dialed, early, graceC, done, daemon, connected, routing, pool, requests>>

\* The first signal drains, the second cancels.  A context cancelled otherwise
\* ends the goroutine, but it may see a signal first.
handleDrainSignals ==
    /\ S.mode = "tunnel" /\ ~Exited /\ signals.read < Min({signals.sent, 2})
    /\ signals' = [signals EXCEPT !.read = @ + 1]
    /\ graceC' = TRUE
    /\ done' = (done \/ signals.read = 1)
    /\ UNCHANGED <<scenario, main, protocol, dialed, early, daemon, connected, routing, pool, requests>>

\* The listener of the configuration API fails.
ConfigServerFails ==
    /\ S.fails /\ ~Exited /\ main # "shutdown"
    /\ IF S.mode = "tunnel" THEN done' = TRUE /\ UNCHANGED main ELSE main' = "broken" /\ UNCHANGED done
    /\ UNCHANGED <<scenario, protocol, dialed, early, signals, graceC, daemon, connected, routing, pool, requests>>

\* An explicit protocol is final.  Otherwise the first configuration, the end
\* of the wait, the context and the drain race; a wait may end at any time.
ResolveStartupProtocol(chosen) ==
    /\ main = "resolve"
    /\ IF S.configured \in {"http2", "quic"} THEN chosen = S.configured /\ UNCHANGED firstC
       ELSE \/ /\ firstC.queue # <<>> /\ firstC' = [firstC EXCEPT !.queue = <<>>]
               /\ chosen = IF S.pushes[firstC.queue[1]].grpc THEN "http2" ELSE "auto"
            \/ chosen = "auto" /\ UNCHANGED firstC

Resolve ==
    \E chosen \in {"auto", "http2", "quic"} :
        /\ ResolveStartupProtocol(chosen)
        /\ main' = "record" /\ protocol' = chosen
        /\ UNCHANGED <<scenario, dialed, early, signals, graceC, done, daemon, connected, left, update, table, swept, warned,
                       pool, requests>>

SetDialedProtocol ==
    /\ main = "record"
    /\ main' = "check" /\ dialed' = protocol /\ early' = table.at
    /\ UNCHANGED <<scenario, protocol, signals, graceC, done, daemon, connected, routing, pool, requests>>

\* A drain seen before the tunnel starts ends the process without dialing; a
\* bad token ends it with an error.
StartTunnel ==
    /\ main = "check"
    /\ IF graceC THEN main' = "shutdown" /\ done' = TRUE /\ UNCHANGED daemon
       ELSE IF ~S.token THEN main' = "shutdown" /\ done' = TRUE /\ daemon' = "failed"
       ELSE main' = "tunnel" /\ daemon' = "dialing" /\ UNCHANGED done
    /\ UNCHANGED <<scenario, protocol, dialed, early, signals, graceC, connected, routing, pool, requests>>

\* The edge accepts the first connection.
Register ==
    /\ main = "tunnel" /\ daemon = "dialing" /\ ~graceC /\ ~done
    /\ daemon' = "registered"
    /\ UNCHANGED <<scenario, main, protocol, dialed, early, signals, graceC, done, connected, routing, pool, requests>>

\* Unless the context ends first, and then it may still win the race.
waitConnected ==
    /\ daemon = "registered" /\ ~connected /\ ~Exited
    /\ connected' = TRUE
    /\ UNCHANGED <<scenario, main, protocol, dialed, early, signals, graceC, done, daemon, routing, pool, requests>>

\* Mutant: the tunnel drains on the context instead of the drain channel.
DrainAsked_ContextOnly == done

\* graceChannel hands the drain channel on.
DrainAsked == graceC \/ done

\* The daemon returns once told to: a cancelled context is not an error of the
\* process.
TunnelEnds ==
    /\ main = "tunnel" /\ DrainAsked
    /\ main' = "shutdown" /\ done' = TRUE /\ daemon' = "drained"
    /\ UNCHANGED <<scenario, protocol, dialed, early, signals, graceC, connected, routing, pool, requests>>

\* The daemon gives up: its connections and retries are used up.
TunnelFails ==
    /\ main = "tunnel"
    /\ main' = "shutdown" /\ done' = TRUE /\ daemon' = "failed"
    /\ UNCHANGED <<scenario, protocol, dialed, early, signals, graceC, connected, routing, pool, requests>>

\* Without a tunnel the first signal, or a server that fails, ends the wait.
waitForShutdown ==
    /\ main \in {"serve", "broken"} /\ (main = "serve" => signals.sent > 0)
    /\ main' = "shutdown" /\ daemon' = IF main = "broken" THEN "failed" ELSE daemon
    /\ UNCHANGED <<scenario, protocol, dialed, early, signals, graceC, done, connected, routing, pool, requests>>

\* Bounded by its own timeout, whatever is still under way.
gracefulShutdown ==
    /\ main = "shutdown"
    /\ main' = IF daemon = "failed" THEN "failed" ELSE "exited"
    /\ UNCHANGED <<scenario, protocol, dialed, early, signals, graceC, done, daemon, connected, routing, pool, requests>>

-----------------------------------------------------------------------------
(* The pool                                                                *)

\* A transport remembers who made it: a request, or the compilation of a push.
Made(maker, proto, tls, timeout) ==
    LET new == newTransport(proto, tls, timeout)
    IN  [dials |-> new.dials, tls |-> new.tls, timeout |-> new.timeout, by |-> maker]

\* A pool with the transports of another put where it has none.
WithNew(old, new) == [key \in DOMAIN old \cup DOMAIN new |-> IF key \in DOMAIN old THEN old[key] ELSE new[key]]

\* The mirror filters of a table take their transports when it is compiled:
\* those in the pool, or new ones put there.
MirrorTargets(at) == UNION {rule.mirrors : rule \in Range(Rules(at))}
Borrowed(at) ==
    [key \in {MirrorKey(m) : m \in MirrorTargets(at)} |->
        IF key \in DOMAIN pool THEN pool[key]
        ELSE LET m == CHOOSE t \in MirrorTargets(at) : MirrorKey(t) = key
             IN  Made(<<"push", at>>, m.protocol, m.tls, 0)]

-----------------------------------------------------------------------------
(* PUT /config, one at a time under the router's lock                      *)

Listening == main \notin {"broken", "shutdown"} /\ ~Exited /\ ~(S.mode = "tunnel" /\ done)

\* Refused as invalid or stale, or not compilable: the mirror transports a
\* failed compilation took stay in the pool.
Refused(config) == ~config.valid \/ (0 < config.version /\ config.version < table.version)

PutConfig(i) ==
    LET config == S.pushes[i]
    IN  /\ Listening /\ i \in left /\ update.pc = "idle"
        /\ left' = left \ {i}
        /\ IF Refused(config) THEN UNCHANGED <<update, table, swept, pool>>
           ELSE /\ pool' = WithNew(pool, Borrowed(i))
                /\ IF ~config.compiles THEN UNCHANGED <<update, table, swept>>
                   ELSE /\ table' = [at |-> i, version |-> config.version, mirrors |-> Borrowed(i)]
                        /\ update' = [pc |-> "prune", at |-> i, keys |-> DOMAIN pool']
                        /\ swept' = pool'
        /\ UNCHANGED <<scenario, process, firstC, warned, requests>>

\* One step of the walk over the pool: what no rule asks for goes.
PruneKey(key, at) ==
    IF key \in extractActiveTransportKeys(Rules(at)) THEN pool ELSE [k \in DOMAIN pool \ {key} |-> pool[k]]

\* The walk meets every key that was there when it began; a key stored
\* meanwhile may or may not be met.
PruneTransports ==
    /\ update.pc = "prune" /\ ~Exited
    /\ \/ update.keys = {} /\ update' = [update EXCEPT !.pc = "signal"] /\ UNCHANGED pool
       \/ \E key \in update.keys \cup (DOMAIN pool \ DOMAIN swept) :
              /\ pool' = PruneKey(key, update.at)
              /\ update' = [update EXCEPT !.keys = @ \ {key}]
    /\ UNCHANGED <<scenario, process, firstC, left, table, swept, warned, requests>>

\* Only the first configuration applied goes into the channel.
SignalFirstConfig ==
    /\ update.pc = "signal" /\ ~Exited
    /\ update' = [update EXCEPT !.pc = "warn"]
    /\ firstC' = IF firstC.used THEN firstC ELSE [queue |-> <<update.at>>, used |-> TRUE]
    /\ UNCHANGED <<scenario, process, left, table, swept, warned, pool, requests>>

GRPCRestartNeeded(dialedProtocol, hasGRPCRoute) == hasGRPCRoute /\ dialedProtocol \notin {"", "http2"}

\* Mutant: an automatic choice is taken to carry gRPC.
warnGRPCRestartIfNeeded_AutoIsFine(config) == warned \/ (dialed = "quic" /\ config.grpc)

\* The error is logged once; before the protocol is recorded it cannot be.
warnGRPCRestartIfNeeded(config) == warned \/ GRPCRestartNeeded(dialed, config.grpc)

FinishUpdate ==
    /\ update.pc = "warn" /\ ~Exited
    /\ update' = NoUpdate
    /\ warned' = warnGRPCRestartIfNeeded(S.pushes[update.at])
    /\ UNCHANGED <<scenario, process, firstC, left, table, swept, pool, requests>>

-----------------------------------------------------------------------------
(* Exchanges.  Each is a goroutine of its own; what it does not do itself   *)
(* is done by its client, its backend and its timer.                        *)

\* A step of exchange r that changes nothing else of the process.
Move(r, new) ==
    /\ ~Exited
    /\ requests' = [requests EXCEPT ![r] = new]
    /\ UNCHANGED <<scenario, process, routing>>

At(r, pc) == requests[r].pc = pc
Finish(req, status) == [req EXCEPT !.pc = "done", !.answer = status]

\* The edge, or the client itself, sends the request: it is routed by the
\* table of the moment, and its mirror leg leaves on a context of its own.
Arrive(r) ==
    LET req == requests[r]
        place == S.requests[r]
        rules == Rules(table.at)
    IN  /\ At(r, "idle")
        /\ IF S.mode = "tunnel" THEN daemon = "registered" ELSE main = "serve"
        /\ Move(r, IF place \notin DOMAIN rules THEN Finish(req, 404)
                   ELSE [req EXCEPT !.rule = <<rules[place]>>,
                                    !.pc = IF rules[place].webSocket THEN "wsdial" ELSE "lookup",
                                    !.mirror = IF rules[place].mirrors = {} THEN 0 ELSE 1])
        /\ UNCHANGED pool

\* getTransport: a look, and if that misses a store unless somebody else did.
LookUp(r) ==
    LET req == requests[r]
        key == KeyOf(req.rule[1])
    IN  /\ At(r, "lookup")
        /\ Move(r, IF key \in DOMAIN pool THEN [req EXCEPT !.pc = "send", !.transport = <<pool[key]>>]
                   ELSE [req EXCEPT !.pc = "create"])
        /\ UNCHANGED pool

LoadOrStore(r) ==
    LET req == requests[r]
        rule == req.rule[1]
        key == KeyOf(rule)
        new == Made(<<"request", r>>, rule.protocol, rule.tls, ruleHeaderTimeout(rule))
    IN  /\ At(r, "create")
        /\ pool' = WithNew(pool, [k \in {key} |-> new])
        /\ Move(r, [req EXCEPT !.pc = "send", !.transport = <<pool'[key]>>])

\* The round trip starts, with a timer of ours where the transport has none.
Send(r) ==
    LET req == requests[r]
    IN  /\ At(r, "send")
        /\ Move(r, [req EXCEPT !.pc = "waiting", !.timer = IF Wrapped(req.transport[1]) THEN "set" ELSE "off"])
        /\ UNCHANGED pool

\* The backend answers, which takes a connection, or the exchange breaks.
BackendAnswers(r, result) ==
    LET req == requests[r]
        rule == req.rule[1]
    IN  /\ At(r, "waiting")
        /\ result = "headers" => Connects(rule.scheme, req.transport[1].tls, rule.host, S.peers[rule.host])
        /\ Move(r, [req EXCEPT !.pc = "returned", !.inner = result])
        /\ UNCHANGED pool

\* The transport returns by itself: its context is gone, or its own wait for
\* headers is over.
TransportGivesUp(r) ==
    LET req == requests[r]
        expires == ~Wrapped(req.transport[1]) /\ req.transport[1].timeout > 0
    IN  /\ At(r, "waiting")
        /\ \E result \in (IF req.ctx THEN {} ELSE {"canceled"}) \cup (IF expires THEN {"timeout"} ELSE {}) :
               Move(r, [req EXCEPT !.pc = "returned", !.inner = result])
        /\ UNCHANGED pool

\* The timer's function: started, it notes that it fired, cancels, and reports
\* that it has run.
TimerFires(r) ==
    LET req == requests[r]
    IN  /\ req.timer \in {"set", "started", "fired", "cancelled"}
        /\ Move(r, CASE req.timer = "set" -> [req EXCEPT !.timer = "started"]
                     [] req.timer = "started" -> [req EXCEPT !.timer = "fired"]
                     [] req.timer = "fired" -> [req EXCEPT !.timer = "cancelled", !.ctx = FALSE]
                     [] OTHER -> [req EXCEPT !.timer = "settled"])
        /\ UNCHANGED pool

\* A timer that has not started is stopped.
StopTimer(r) ==
    LET req == requests[r]
    IN  /\ At(r, "returned")
        /\ Move(r, [req EXCEPT !.pc = "settle", !.timer = IF @ = "set" THEN "stopped" ELSE @])
        /\ UNCHANGED pool

\* Mutant: the result is looked at without waiting for a started timer.
TimerDone_NoWait(timer) == TRUE

\* timerDone
TimerDone(timer) == timer \in {"off", "stopped", "settled"}

\* Headers that come as the timer fires are given up: their body hangs on a
\* cancelled context.
Settle(r) ==
    LET req == requests[r]
        result == IF req.timer \in {"fired", "cancelled", "settled"} THEN "timeout" ELSE req.inner
    IN  /\ At(r, "settle") /\ TimerDone(req.timer)
        /\ Move(r, IF result = "headers" THEN [req EXCEPT !.pc = "streaming", !.answer = 200]
                   ELSE Finish(req, errorHandler(result)))
        /\ UNCHANGED pool

\* The body comes to its end, or breaks; closing it releases the context.
BodyEnds(r) ==
    /\ At(r, "streaming")
    /\ Move(r, Finish(requests[r], 200))
    /\ UNCHANGED pool

BodyCancelled(r) ==
    /\ At(r, "streaming") /\ ~requests[r].ctx
    /\ Move(r, Finish(requests[r], 200))
    /\ UNCHANGED pool

\* The client goes away: that cancels the context, and ends a hijacked
\* connection on its side.
ClientLeaves(r) ==
    LET req == requests[r]
    IN  /\ req.pc \notin {"idle", "done"} /\ req.client
        /\ Move(r, [req EXCEPT !.client = FALSE, !.ctx = FALSE])
        /\ UNCHANGED pool

-----------------------------------------------------------------------------
(* The WebSocket upgrade: a connection of its own, never pooled             *)

Close(req) == [req EXCEPT !.conn = IF @ = "open" THEN "closed" ELSE @]

\* Bounded by the dial timeout.
dialBackendForUpgrade(r) ==
    LET req == requests[r]
        rule == req.rule[1]
    IN  /\ At(r, "wsdial")
        /\ \/ Move(r, Finish(req, 502))
           \/ /\ req.ctx /\ Connects(rule.scheme, rule.tls, rule.host, S.peers[rule.host])
              /\ Move(r, [req EXCEPT !.pc = "wswrite", !.conn = "open"])
        /\ UNCHANGED pool

\* The request is written, and the answer awaited under a deadline that is
\* lifted once it is there.
WriteUpgrade(r) ==
    LET req == requests[r]
    IN  /\ At(r, "wswrite")
        /\ \/ Move(r, Close(Finish(req, 502)))
           \/ Move(r, [req EXCEPT !.pc = "wsread"])
        /\ UNCHANGED pool

ReadTimesOut(r) ==
    /\ At(r, "wsread")
    /\ Move(r, Close(Finish(requests[r], 502)))
    /\ UNCHANGED pool

BackendUpgrades(r, status) ==
    LET req == requests[r]
    IN  /\ At(r, "wsread") /\ req.peer
        /\ Move(r, [req EXCEPT !.pc = IF status = 101 THEN "hijack" ELSE "forward", !.answer = status])
        /\ UNCHANGED pool

\* A refused upgrade is forwarded like any answer, without deadline or context.
ForwardEnds(r) ==
    /\ At(r, "forward")
    /\ Move(r, Close(Finish(requests[r], requests[r].answer)))
    /\ UNCHANGED pool

\* The 101 is written before the connection is taken over.
Hijack(r) ==
    LET req == requests[r]
    IN  /\ At(r, "hijack")
        /\ \/ Move(r, Close(Finish(req, 101)))
           \/ Move(r, [req EXCEPT !.pc = "piping", !.copiers = {"up", "down"}])
        /\ UNCHANGED pool

BackendLeaves(r) ==
    LET req == requests[r]
    IN  /\ req.pc \in {"wsread", "hijack", "piping"} /\ req.peer
        /\ Move(r, [req EXCEPT !.peer = FALSE])
        /\ UNCHANGED pool

\* A copy ends when the side it reads from does, or both were closed.
CopyEnds(r, way) ==
    LET req == requests[r]
    IN  /\ way \in req.copiers
        /\ req.conn = "closed" \/ (IF way = "up" THEN ~req.client ELSE ~req.peer)
        /\ Move(r, [req EXCEPT !.copiers = @ \ {way}])
        /\ UNCHANGED pool

\* Mutant: both copies are waited for.
SessionOver_Both(req) == req.copiers = {}

\* The first copy to end ends the session.
SessionOver(req) == req.copiers # {"up", "down"}

pipeWebSocket(r) ==
    /\ At(r, "piping") /\ SessionOver(requests[r])
    /\ Move(r, Close(Finish(requests[r], 101)))
    /\ UNCHANGED pool

-----------------------------------------------------------------------------
(* The mirror leg: a few attempts, each under a timeout of its own, whatever *)
(* becomes of the request.                                                  *)

dispatchWithRetry(r) ==
    LET req == requests[r]
    IN  /\ req.mirror > 0
        /\ \/ Move(r, [req EXCEPT !.mirror = 0])
           \/ Move(r, [req EXCEPT !.mirror = IF @ < MirrorMaxAttempts THEN @ + 1 ELSE 0])
        /\ UNCHANGED pool

-----------------------------------------------------------------------------

\* What the process does by itself, given time.
Step ==
    \/ handleDrainSignals \/ Resolve \/ SetDialedProtocol \/ StartTunnel \/ waitConnected \/ TunnelEnds
    \/ waitForShutdown \/ gracefulShutdown
    \/ PruneTransports \/ SignalFirstConfig \/ FinishUpdate
    \/ \E r \in DOMAIN requests :
           \/ LookUp(r) \/ LoadOrStore(r) \/ Send(r) \/ TransportGivesUp(r) \/ TimerFires(r) \/ StopTimer(r) \/ Settle(r)
           \/ BodyCancelled(r) \/ dialBackendForUpgrade(r) \/ WriteUpgrade(r) \/ ReadTimesOut(r) \/ Hijack(r)
           \/ pipeWebSocket(r) \/ dispatchWithRetry(r)
           \/ \E way \in {"up", "down"} : CopyEnds(r, way)

\* What others do to it, or may never do.
Event ==
    \/ Signal \/ ConfigServerFails \/ Register \/ TunnelFails
    \/ \E i \in DOMAIN S.pushes : PutConfig(i)
    \/ \E r \in DOMAIN requests :
           \/ Arrive(r) \/ ClientLeaves(r) \/ BodyEnds(r) \/ ForwardEnds(r) \/ BackendLeaves(r)
           \/ \E result \in {"headers", "error"} : BackendAnswers(r, result)
           \/ \E status \in {101, 403} : BackendUpgrades(r, status)

Next == Step \/ Event

Spec == Init /\ [][Next]_vars /\ WF_vars(Step)

-----------------------------------------------------------------------------
(* Properties                                                              *)

\* The transport an exchange uses is the one its own rule asks for, whoever
\* put it in the pool: same protocol, trust, client certificate and header
\* timeout; and an answer over TLS came from a peer that rule's policy trusts
\* (transportKey, getTransport).
DialedAsConfigured ==
    \A r \in DOMAIN requests :
        LET req == requests[r]
            rule == req.rule[1]
            used == req.transport[1]
        IN  req.transport # <<>> =>
                /\ [dials |-> used.dials, tls |-> used.tls, timeout |-> used.timeout]
                       = newTransport(rule.protocol, rule.tls, ruleHeaderTimeout(rule))
                /\ req.answer = 200 /\ rule.tls # <<>> => Authenticates(rule.tls, rule.host, S.peers[rule.host])

\* Once an update has pruned the pool, what no rule of the configuration asks
\* for came in after the walk began; and the mirror filters of the table in
\* use always hold the very transports of the pool (PruneTransports,
\* extractActiveTransportKeys).
PoolTracksConfig ==
    /\ update.pc # "prune" =>
           \A key \in DOMAIN pool \ extractActiveTransportKeys(Rules(table.at)) :
               key \in DOMAIN swept => pool[key] # swept[key]
    /\ \A key \in DOMAIN table.mirrors : key \in DOMAIN pool /\ pool[key] = table.mirrors[key]

\* A response that is being streamed is cut off by its client leaving only,
\* never by the header timeout, however close to it the headers came
\* (headerTimeoutRoundTripper).
StreamsSurvive == \A r \in DOMAIN requests : At(r, "streaming") /\ ~requests[r].ctx => ~requests[r].client

\* A tunnel that cannot carry gRPC while a GRPCRoute is served was reported,
\* unless that configuration was in use before the protocol was recorded
\* (ResolveStartupProtocol, warnGRPCRestartIfNeeded).
GRPCReported ==
    /\ update.pc = "idle" /\ table.at \notin {0, early} /\ S.pushes[table.at].grpc /\ dialed \notin {"", "http2"}
    => warned

\* When the client of an exchange leaves, or its rule bounds the wait for
\* headers, the exchange does not hang: in the end its goroutine, its timer,
\* its copies, its connection and its mirror leg are over.  A refused upgrade
\* may still be waiting for the backend's body.
Over(req) ==
    /\ req.pc = "done" /\ req.copiers = {} /\ req.conn # "open" /\ req.mirror = 0
    /\ TimerDone(req.timer)
Bounded(req) == req.pc = "waiting" /\ ruleHeaderTimeout(req.rule[1]) > 0
Released ==
    <>[](Exited \/ \A r \in DOMAIN requests :
                       LET req == requests[r]
                       IN  (~req.client => Over(req) \/ req.pc = "forward") /\ ~Bounded(req))

\* A termination signal ends the process, at whatever point of its start or of
\* its work it comes (setupDrainSignals, ResolveStartupProtocol, StartTunnel).
Drains == <>[](signals.sent > 0 => Exited)
=============================================================================
