----------------------------- MODULE PushTargets -----------------------------
(***************************************************************************)
(* The data planes and their push state: the shared plane and one plane    *)
(* per Gateway that opted in through infrastructure.parametersRef.         *)
(*                                                                         *)
(* A sync binds the routes to their Gateways and then, in a second read,   *)
(* resolves the opted-in Gateways (route_syncer.go SyncAllRoutes,          *)
(* route_partition.go).  It is run by the two route controllers, by their  *)
(* startup loops, and by the infra reconciler after it rendered a plane    *)
(* (TriggerRouteSync).  Both reads happen under RouteSyncer.syncMu; the pushes  *)
(* of the partitions run concurrently after it is released                 *)
(* (pushPartitionConfigs) and the state of partitions that are gone is     *)
(* evicted at the end (RetainPartitions).  The endpoint reconciler replays *)
(* cached configs, one partition or all of them                            *)
(* (proxy_endpoint_reconciler.go).                                         *)
(*                                                                         *)
(* Abstractions.  A config is the set of its routes.  A plane is one pod;  *)
(* its address changes when it is replaced.  Versions are those of         *)
(* ConfigPush: here a pod that has a config may refuse a push as stale.    *)
(* A push and recordPush are one step (what happens between the two is     *)
(* ConfigPush), and so is a replay, which holds ProxySyncer.syncMu.        *)
(***************************************************************************)
EXTENDS Naturals, FiniteSets

CONSTANTS
    Gateways,      \* keys of the managed Gateways
    Shared,        \* sharedPartitionKey
    Routes,
    Parents,       \* Parents[r]: the Gateways route r names as parents
    TunnelOf,      \* TunnelOf[k]: the tunnel of plane k
    Workers,       \* the callers of syncAndUpdateStatusCommon
    Role,          \* Role[w]: which of them w is
    Late,          \* planes whose pod starts some time after the rendering
    States,        \* States[g]: the states Gateway g can be in
    Quiet,         \* planes whose pod, token and EndpointSlice never change
    MaxChanges, MaxFaults, MaxRotations    \* bounds

Planes == Gateways \cup {Shared}
GatewayStates == {"absent", "plain", "ok", "invalid"}
\* The request for an EndpointSlice that no longer exists.
Unattributed == "slice gone"

ASSUME TargetsAssumption ==
    /\ Shared \notin Gateways /\ Unattributed \notin Planes
    /\ Parents \in [Routes -> SUBSET Gateways]
    /\ DOMAIN TunnelOf = Planes
    /\ States \in [Gateways -> (SUBSET GatewayStates) \ {{}}]
    /\ Role \in [Workers -> {"route", "startup", "trigger"}]
    /\ Quiet \subseteq Planes /\ Late \subseteq Gateways \ Quiet
    /\ MaxChanges \in Nat /\ MaxFaults \in Nat /\ MaxRotations \in Nat

VARIABLES
    routes,      \* routes that exist
    gateway,     \* gateway[g]: absent, not opted in, or opted in
    secret,      \* secret[k]: generation of plane k's auth token
    dirty,       \* workers with a sync to run
    event,       \* queued EndpointSlice requests
    pod,         \* pod[k]: what the pod of plane k serves
    target,      \* ProxySyncer.targets
    pc, bound, part, transient, retry,   \* the workers' locals
    resync,      \* the endpoint reconciler's locals
    seen,        \* history: states a Gateway has been in
    changes, faults

vars == <<routes, gateway, secret, dirty, event, pod, target, pc, bound, part,
          transient, retry, resync, seen, changes, faults>>
clusterVars == <<routes, gateway, secret, seen>>
workerVars == <<pc, bound, part, transient, retry>>

Current(k) == [of |-> k, gen |-> secret[k]]

\* A config is a set of routes; none at all is not the empty config.
NoCfg == [some |-> FALSE, routes |-> {}]
Cfg(R) == [some |-> TRUE, routes |-> R]
NoToken == [of |-> Shared, gen |-> MaxRotations + 1]
NoTarget == [exists |-> FALSE, lastCfg |-> NoCfg, hash |-> NoCfg,
             token |-> NoToken, pushedTo |-> 0, authToken |-> NoToken]

NoPart == [at |-> "none", routes |-> {}, token |-> NoToken, to |-> 0]
Done == [NoPart EXCEPT !.at = "done"]
NoParts == [k \in Planes |-> NoPart]
Unbound == [r \in Routes |-> {}]
NoResync == [request |-> Shared, keys |-> {}, key |-> Shared,
             token |-> NoToken, at |-> "idle", failed |-> FALSE]

Init ==
    /\ routes = Routes
    /\ gateway \in [Gateways -> GatewayStates]
    /\ \A g \in Gateways : gateway[g] \in States[g]
    /\ secret = [k \in Planes |-> 0]
    /\ dirty = Workers
    /\ event = {}
    /\ pod = [k \in Planes |->
                 [cfg |-> NoCfg, token |-> Current(k),
                  addr |-> IF k \in Late /\ gateway[k] # "ok" THEN 0 ELSE 1]]
    /\ target = [k \in Planes |-> NoTarget]
    /\ pc = [w \in Workers |-> "idle"]
    /\ bound = [w \in Workers |-> Unbound]
    /\ part = [w \in Workers |-> NoParts]
    /\ transient = [w \in Workers |-> {}]
    /\ retry = [w \in Workers |-> "no"]
    /\ resync = NoResync
    /\ seen = [g \in Gateways |-> {gateway[g]}]
    /\ changes = 0
    /\ faults = 0

-----------------------------------------------------------------------------
(* SyncAllRoutes: bind, resolve, partition                                 *)

\* bindRouteParents for every route.  RouteSyncer.syncMu keeps a second sync
\* out until this one has resolved the Gateways.
Bind(w) ==
    /\ pc[w] = "idle" /\ w \in dirty
    /\ \A v \in Workers : pc[v] # "bound"
    /\ dirty' = dirty \ {w}
    /\ bound' = [bound EXCEPT ![w] = [r \in Routes |->
                    {g \in Parents[r] : r \in routes /\ gateway[g] # "absent"}]]
    /\ pc' = [pc EXCEPT ![w] = "bound"]
    /\ UNCHANGED <<clusterVars, event, pod, target, part, transient, retry,
                   resync, changes, faults>>

\* Who runs the sync again: a reconcile for which a requeue was asked for,
\* and a startup loop (startupAttempt) after a failed push as well.  The
\* infra reconciler drops the result (manager.go).
Again(w, why) ==
    \/ why = "requeue" /\ Role[w] # "trigger"
    \/ why = "push failed" /\ Role[w] = "startup"

\* An early error (buildResultForError): no partitions, so nothing is pushed
\* and nothing evicted.
EarlyError(w) ==
    /\ pc[w] = "bound"
    /\ faults < MaxFaults /\ faults' = faults + 1
    /\ pc' = [pc EXCEPT ![w] = "idle"]
    /\ bound' = [bound EXCEPT ![w] = Unbound]
    /\ dirty' = IF Again(w, "requeue") THEN dirty \cup {w} ELSE dirty
    /\ UNCHANGED <<clusterVars, event, pod, target, part, transient, retry,
                   resync, changes>>

\* Mutant: a Gateway that does not resolve falls back to the shared plane.
PartitionKeysFor_FallsBack(acc, resolved, broken) ==
    (acc \cap resolved) \cup (IF acc \subseteq resolved THEN {} ELSE {Shared})

\* partitionKeysFor: a resolved Gateway gives its own partition, a broken one
\* none at all, any other one the shared partition.
PartitionKeysFor(acc, resolved, broken) ==
    (acc \cap resolved)
        \cup (IF acc \subseteq resolved \cup broken THEN {} ELSE {Shared})

\* partitionRoutes
PartitionRoutes(b, k, resolved, broken) ==
    {r \in Routes : k \in PartitionKeysFor(b[r], resolved, broken)}

\* Mutant: every partition gets every route.
UnionPartitionRoutes_All(b, k, resolved, broken) ==
    UNION {PartitionRoutes(b, q, resolved, broken) : q \in resolved \cup {Shared}}

\* unionPartitionRoutes: a plane serves the routes of its whole tunnel.
UnionPartitionRoutes(b, k, resolved, broken) ==
    UNION {PartitionRoutes(b, q, resolved, broken) :
             q \in {p \in resolved \cup {Shared} : TunnelOf[p] = TunnelOf[k]}}

\* partition.PerGateway.AuthToken, or the default token.
AuthTokenFor(k) == Current(k)

\* resolveInfraGateways and the split.  Reading a Gateway's configuration may
\* fail for a moment: the Gateway is then broken and transient.
Resolve(w) ==
    /\ pc[w] = "bound"
    /\ \E blips \in SUBSET {g \in Gateways : gateway[g] \in {"ok", "invalid"}} :
         LET resolved == {g \in Gateways : gateway[g] = "ok"} \ blips
             broken == {g \in Gateways : gateway[g] = "invalid"} \cup blips
         IN  /\ faults' = faults + Cardinality(blips) /\ faults' <= MaxFaults
             /\ transient' = [transient EXCEPT ![w] = blips]
             /\ retry' = [retry EXCEPT ![w] = IF blips = {} THEN "no" ELSE "requeue"]
             /\ part' = [part EXCEPT ![w] = [k \in Planes |->
                   IF k \in resolved \cup {Shared}
                     THEN [at |-> "todo", token |-> AuthTokenFor(k), to |-> 0,
                           routes |-> UnionPartitionRoutes(bound[w], k,
                                                           resolved, broken)]
                     ELSE NoPart]]
    /\ bound' = [bound EXCEPT ![w] = Unbound]
    /\ pc' = [pc EXCEPT ![w] = "pushing"]
    /\ UNCHANGED <<clusterVars, dirty, event, pod, target, resync, changes>>

-----------------------------------------------------------------------------
(* pushPartitionConfigs                                                    *)

ShouldSkipPush(t, cfg, token, addr) ==
    t.hash = cfg /\ t.token = token /\ t.pushedTo = addr

\* preparePush, which creates the target (targetLocked).
PreparePush(w, k) ==
    /\ part[w][k].at = "todo"
    /\ target' = [target EXCEPT ![k].exists = TRUE,
                                ![k].authToken = part[w][k].token]
    /\ part' = [part EXCEPT ![w][k] =
                  IF ShouldSkipPush(target[k], Cfg(@.routes), @.token, pod[k].addr)
                    THEN Done ELSE [@ EXCEPT !.at = "put", !.to = pod[k].addr]]
    /\ UNCHANGED <<clusterVars, dirty, event, pod, pc, bound, transient, retry,
                   resync, changes, faults>>

\* The pod takes a push with its own token at its own address; address 0 is
\* a Service without pods, whose name does not resolve.
Reached(k, token, addr) == addr # 0 /\ pod[k].addr = addr /\ pod[k].token = token

\* The first config makes the pod ready, which changes its EndpointSlice.
Serve(k, cfg) ==
    /\ pod' = [pod EXCEPT ![k].cfg = cfg]
    /\ event' = IF pod[k].cfg = NoCfg THEN event \cup ({k} \ Quiet) ELSE event

\* recordPush after success; an evicted target stays evicted.
RecordPushOK(w, k) ==
    /\ part[w][k].at = "put"
    /\ Reached(k, part[w][k].token, part[w][k].to)
    /\ Serve(k, Cfg(part[w][k].routes))
    /\ target' = IF target[k].exists
                   THEN [target EXCEPT ![k].lastCfg = Cfg(part[w][k].routes),
                                       ![k].hash = Cfg(part[w][k].routes),
                                       ![k].token = part[w][k].token,
                                       ![k].pushedTo = part[w][k].to]
                   ELSE target
    /\ part' = [part EXCEPT ![w][k] = Done]
    /\ UNCHANGED <<clusterVars, dirty, pc, bound, transient, retry, resync,
                   changes, faults>>

\* recordPush after a failure: the token is wrong or the pod gone, or the pod
\* has something newer.  Only the last, a lost race, requeues the reconcile.
RecordPushFailed(w, k) ==
    /\ part[w][k].at = "put"
    /\ \/ /\ ~Reached(k, part[w][k].token, part[w][k].to)
          /\ retry' = [retry EXCEPT ![w] = IF @ = "no" /\ Again(w, "push failed") THEN "push failed" ELSE @]
          /\ UNCHANGED faults
       \/ /\ Reached(k, part[w][k].token, part[w][k].to) /\ pod[k].cfg # NoCfg
          /\ faults < MaxFaults /\ faults' = faults + 1
          /\ retry' = [retry EXCEPT ![w] = "requeue"]
    /\ target' = IF target[k].exists
                   THEN [target EXCEPT ![k].hash = NoCfg, ![k].pushedTo = 0]
                   ELSE target
    /\ part' = [part EXCEPT ![w][k] = Done]
    /\ UNCHANGED <<clusterVars, dirty, event, pod, pc, bound, transient,
                   resync, changes>>

\* Mutant: a Gateway that blipped is not kept.
Keep_Partitions(w) == {k \in Planes : part[w][k].at # "none"}

Keep(w) == {k \in Planes : part[w][k].at # "none"} \cup transient[w]

\* The end of pushPartitionConfigs: RetainPartitions, and the requeues after
\* a transient resolve failure or a lost race.
RetainPartitions(w) ==
    /\ pc[w] = "pushing"
    /\ \A k \in Planes : part[w][k].at \in {"none", "done"}
    /\ target' = [k \in Planes |->
                    IF k = Shared \/ k \in Keep(w) THEN target[k] ELSE NoTarget]
    /\ dirty' = IF Again(w, retry[w]) THEN dirty \cup {w} ELSE dirty
    /\ pc' = [pc EXCEPT ![w] = "idle"]
    /\ part' = [part EXCEPT ![w] = NoParts]
    /\ transient' = [transient EXCEPT ![w] = {}]
    /\ retry' = [retry EXCEPT ![w] = "no"]
    /\ UNCHANGED <<clusterVars, event, pod, bound, resync, changes, faults>>

WorkerStep(w) ==
    \/ Bind(w) \/ EarlyError(w) \/ Resolve(w)
    \/ \E k \in Planes : PreparePush(w, k) \/ RecordPushOK(w, k)
                         \/ RecordPushFailed(w, k)
    \/ RetainPartitions(w)

-----------------------------------------------------------------------------
(* The endpoint reconciler                                                 *)

\* Reconcile: one partition, or every cached one when the slice is gone or
\* its label names no live Gateway.
ResyncBegin ==
    /\ resync.at = "idle"
    /\ \E e \in event :
         /\ event' = event \ {e}
         /\ resync' = [NoResync EXCEPT
              !.request = e, !.at = "next",
              !.keys = IF e \in Planes /\ (e \in Gateways => gateway[e] # "absent")
                         THEN {e} ELSE {k \in Planes : target[k].exists}]
    /\ UNCHANGED <<clusterVars, dirty, pod, target, workerVars, changes, faults>>

\* ResyncPartition reads the token under the lock and lets go of it.  An
\* unknown partition is a no-op.  ResyncEndpoints has the default token.
ResyncRead ==
    /\ resync.at = "next"
    /\ \E k \in resync.keys :
         resync' = [resync EXCEPT
           !.keys = @ \ {k},
           !.key = IF k = Shared \/ target[k].exists THEN k ELSE @,
           !.token = IF k = Shared THEN Current(Shared) ELSE target[k].authToken,
           !.at = IF k = Shared \/ target[k].exists THEN "read" ELSE "next"]
    /\ UNCHANGED <<clusterVars, dirty, event, pod, target, workerVars, changes,
                   faults>>

\* Mutant: a replay honours the skip key.
ResyncNothing_Skips ==
    /\ resync.at = "read"
    /\ \/ target[resync.key].lastCfg = NoCfg
       \/ ShouldSkipPush(target[resync.key], target[resync.key].lastCfg,
                         resync.token, pod[resync.key].addr)
    /\ resync' = [resync EXCEPT !.at = "next", !.key = Shared, !.token = NoToken]
    /\ UNCHANGED <<clusterVars, dirty, event, pod, target, workerVars, changes,
                   faults>>

\* resyncTarget finds nothing to replay: not yet pushed, or evicted since.
ResyncNothing ==
    /\ resync.at = "read"
    /\ target[resync.key].lastCfg = NoCfg
    /\ resync' = [resync EXCEPT !.at = "next", !.key = Shared, !.token = NoToken]
    /\ UNCHANGED <<clusterVars, dirty, event, pod, target, workerVars, changes,
                   faults>>

ResyncOK ==
    LET k == resync.key IN
    /\ resync.at = "read"
    /\ target[k].lastCfg # NoCfg
    /\ Reached(k, resync.token, pod[k].addr)
    /\ Serve(k, target[k].lastCfg)
    /\ target' = [target EXCEPT ![k].hash = target[k].lastCfg,
                                ![k].token = resync.token,
                                ![k].pushedTo = pod[k].addr]
    /\ resync' = [resync EXCEPT !.at = "next", !.key = Shared, !.token = NoToken]
    /\ UNCHANGED <<clusterVars, dirty, workerVars, changes, faults>>

\* A wrong token, or a pod that has something newer.
ResyncFailed ==
    LET k == resync.key IN
    /\ resync.at = "read"
    /\ target[k].lastCfg # NoCfg
    /\ \/ ~Reached(k, resync.token, pod[k].addr) /\ UNCHANGED faults
       \/ /\ Reached(k, resync.token, pod[k].addr) /\ pod[k].cfg # NoCfg
          /\ faults < MaxFaults /\ faults' = faults + 1
    /\ target' = [target EXCEPT ![k].hash = NoCfg, ![k].pushedTo = 0]
    /\ resync' = [resync EXCEPT !.at = "next", !.key = Shared, !.token = NoToken,
                                !.failed = TRUE]
    /\ UNCHANGED <<clusterVars, dirty, event, pod, workerVars, changes>>

\* An error requeues the request.
ResyncEnd ==
    /\ resync.at = "next" /\ resync.keys = {}
    /\ event' = IF resync.failed THEN event \cup {resync.request} ELSE event
    /\ resync' = NoResync
    /\ UNCHANGED <<clusterVars, dirty, pod, target, workerVars, changes, faults>>

ResyncStep ==
    \/ ResyncBegin \/ ResyncRead \/ ResyncNothing \/ ResyncOK \/ ResyncFailed
    \/ ResyncEnd

-----------------------------------------------------------------------------
(* The environment                                                         *)

Changed(R, gw, W) ==
    /\ changes < MaxChanges /\ changes' = changes + 1
    /\ routes' = R /\ gateway' = gw
    /\ seen' = [g \in Gateways |-> seen[g] \cup {gw[g]}]
    /\ dirty' = dirty \cup W
    /\ UNCHANGED <<secret, event, pod, target, workerVars, resync, faults>>

OfRole(role) == {w \in Workers : Role[w] = role}

\* A route change enqueues the controller of its kind.
ChangeRoute == \E r \in Routes : \E W \in SUBSET OfRole("route") :
    /\ W # {}
    /\ Changed(IF r \in routes THEN routes \ {r} ELSE routes \cup {r}, gateway, W)

\* A Gateway appears, goes, opts in or out, or its parameters change.  Its
\* event enqueues the routes that name it (FindRoutesForGateway); an edit of
\* its GatewayConfig or token Secret enqueues none (setupRouteController).
\* The infra reconciler triggers a sync when the rendered Deployment is new
\* or different, which after a repair it need not be.
ChangeGateway == \E g \in Gateways : \E s \in States[g] \ {gateway[g]} :
    LET attached == \E r \in routes : g \in Parents[r]
        edit == {gateway[g], s} = {"ok", "invalid"}
    IN  \E W \in SUBSET OfRole("route"), T \in SUBSET OfRole("trigger") :
            /\ W # {} => attached
            /\ W = {} => ~attached \/ edit
            /\ T # {} => s = "ok"
            /\ T = {} => s # "ok" \/ edit \/ OfRole("trigger") = {}
            /\ Changed(routes, [gateway EXCEPT ![g] = s], W \cup T)

\* The auth token of a plane is replaced; its pod keeps the old one until it
\* is rolled.  No route controller maps that Secret, but the Deployment of an
\* opted-in Gateway is rendered anew.
Rotate(k) ==
    /\ k \notin Quiet /\ secret[k] < MaxRotations
    /\ changes < MaxChanges /\ changes' = changes + 1
    /\ secret' = [secret EXCEPT ![k] = @ + 1]
    /\ dirty' = IF k \in Gateways /\ gateway[k] = "ok"
                  THEN dirty \cup OfRole("trigger") ELSE dirty
    /\ UNCHANGED <<routes, gateway, seen, event, pod, target, workerVars,
                   resync, faults>>

\* The first pod of a plane starts, and is in its EndpointSlice at once
\* (PublishNotReadyAddresses).
StartPod(k) ==
    /\ k \in Late /\ pod[k].addr = 0 /\ gateway[k] = "ok"
    /\ pod' = [pod EXCEPT ![k] = [cfg |-> NoCfg, token |-> Current(k), addr |-> 1]]
    /\ event' = event \cup {k}
    /\ UNCHANGED <<clusterVars, dirty, target, workerVars, resync, changes, faults>>

\* The pod of a plane is replaced: empty, at a new address, with the current
\* token.  Its slice changes, or is replaced as well.  (ConfigPush has pods
\* that go before they were ever configured.)
Replace(k) ==
    /\ k \notin Quiet /\ pod[k].cfg # NoCfg
    /\ changes < MaxChanges /\ changes' = changes + 1
    /\ pod' = [pod EXCEPT ![k] = [cfg |-> NoCfg, token |-> Current(k),
                                  addr |-> @.addr + 1]]
    /\ \E e \in {k, Unattributed} : event' = event \cup {e}
    /\ UNCHANGED <<clusterVars, dirty, target, workerVars, resync, faults>>

\* The container of a pod restarts in place: empty, at the same address, with
\* the current token (SecretKeyRef).  Its slice changes, as it is not ready.
RestartPod(k) ==
    /\ k \notin Quiet /\ pod[k].cfg # NoCfg
    /\ changes < MaxChanges /\ changes' = changes + 1
    /\ pod' = [pod EXCEPT ![k].cfg = NoCfg, ![k].token = Current(k)]
    /\ event' = event \cup {k}
    /\ UNCHANGED <<clusterVars, dirty, target, workerVars, resync, faults>>

Environment ==
    ChangeRoute \/ ChangeGateway
    \/ \E k \in Planes : Rotate(k) \/ StartPod(k) \/ Replace(k) \/ RestartPod(k)

Next == (\E w \in Workers : WorkerStep(w)) \/ ResyncStep \/ Environment

Spec == Init /\ [][Next]_vars

-----------------------------------------------------------------------------
(* Properties                                                              *)

\* Plane k may serve route r: a parent of r is the Gateway of a plane on k's
\* tunnel, or a parent that was ever without a plane of its own if the shared
\* plane is on it.
Belongs(r, k) ==
    \E g \in Parents[r] :
        \/ TunnelOf[g] = TunnelOf[k]
        \/ "plain" \in seen[g] /\ TunnelOf[Shared] = TunnelOf[k]

\* A dedicated plane only ever serves routes that belonged to its tunnel, and
\* a replay never brings it anything else (partitionRoutes: "partition
\* membership IS the isolation guarantee"); and it is pushed to, and replayed
\* to, with its own token only (PushWithToken).
TenantIsolated ==
    /\ \A g \in Gateways : \A r \in pod[g].cfg.routes \cup target[g].lastCfg.routes :
         Belongs(r, g)
    /\ \A w \in Workers, k \in Planes :
         part[w][k].at = "put" => part[w][k].token.of = k
    /\ resync.at = "read" /\ target[resync.key].exists => resync.token.of = resync.key

\* Routes whose Gateways opted in never reach the shared plane because a
\* Gateway is invalid or cannot be read for a moment (broken Gateways fail
\* closed).  Routes of a Gateway that vanished between the two reads of a
\* sync do.
FailsClosed ==
    \A r \in pod[Shared].cfg.routes :
        Belongs(r, Shared) \/ \E g \in Parents[r] : "absent" \in seen[g]

\* Neither a resolve failure of the moment nor an early error ever drops the
\* push state of a Gateway whose configuration is fine all along: its pods
\* can be replayed to during the blip (TransientBrokenKeys).
CacheKept ==
    [][\A g \in Gateways :
         seen'[g] = {"ok"} /\ target[g].exists => target'[g].exists]_vars

\* A replay to plane k is queued or under way.
ReplayDue(k) ==
    \/ k \in event \/ Unattributed \in event
    \/ resync.at # "idle" /\ k \in resync.keys
    \/ resync.at = "read" /\ resync.key = k

\* shouldSkipPush compares a config, a token and a set of addresses, so it
\* skips an empty pod that restarted at the address of the last push.  It does
\* so only as long as the endpoint reconciler still has the replay to do: a
\* skip key that matches the address in place means that the pod there took a
\* config with the token of the key, or that a replay to it is due.  No order
\* of pushes, replays, evictions, rotations and restarts leaves an empty pod
\* behind a skip key for good.
SkipKeyServed ==
    \A k \in Planes :
        target[k].hash # NoCfg /\ target[k].pushedTo = pod[k].addr =>
            \/ pod[k].cfg # NoCfg /\ target[k].token = pod[k].token
            \/ ReplayDue(k)
=============================================================================
