# Verification of the Cloudflare tunnel gateway controller

TLA+ models of the controller that turns Gateway API objects into Cloudflare
tunnel documents and proxy configurations, and of the proxy that serves them;
TLC configurations that check the models on small instances; and TLAPS proofs
of the main results about delivery, the isolation of the planes, tunnel
documents, route types that meet, routing, the proxy's transports and shared
statuses for every instance.

`PROJECT.json` maps every definition to the lines of `src/` it stands for, and
lists runs, mutants (a plausible bug per property, which TLC must catch),
hazards, findings and theorems.

## 1. The system

A controller process watches Gateways, ListenerSets, HTTPRoutes, GRPCRoutes and
their satellites. For every event on a route it performs a *full* sync. Beside
the sync, controllers of their own report on Gateways, ListenerSets, classes
and policies, and one renders a data plane for a Gateway that asks for its own.

    Kubernetes API --> route controllers --> RouteSyncer ----> Cloudflare API
      |                startup loops           |   (one ingress document per tunnel)
      |                                        | bind, convert, partition
      |                                        v
      |                endpoint reconciler -> ProxySyncer -> ConfigPusher
      |                                                        | PUT/GET /config
      |                                                        v
      +-> infra reconciler --renders--> proxy replicas: Router, Handler, tunnel
      +-> Gateway, ListenerSet, GatewayClass, GatewayClassConfig,
          BackendTLSPolicy controllers --> statuses, finalizers

| part | state it owns | hard behaviour | modules |
|---|---|---|---|
| route controllers, startup loops (`reconcile_route.go`, `mappers.go`, `startup_sync.go`) | work queues, startup gate | watches with predicates, mapping of old and new objects, retries | `RouteEvents`, `ControlPlane` |
| binding (`routebinding`, `route_parent_binding.go`, `route_crosstype.go`, `hostnameownership`) | none | precedence, several parents, route types that meet | `Listeners`, `RouteBinding` |
| listener merge and view store (`listenermerge`, `listenerset_view.go`) | cached merged views | stale views | `Listeners` |
| converters and passes (`proxy/converter.go`, ..., `buildProxyConfig`) | none | each pass reads a cluster that moves on | `References`, `BackendTLS`, `Converter`, `BackendPasses` |
| route statuses (`route_status.go`) | `status.parents` | foreign entries, limit, generations, conflicts | `RouteStatus` |
| partitions (`route_partition.go`) | keep set | two reads of the Gateways, broken planes | `PushTargets` |
| `ProxySyncer`, `ConfigPusher`, endpoint reconciler | push state, version counter | lock released during a push, 409 recovery, replay | `ConfigPush`, `PushTargets` |
| tunnel documents (`route_syncer.go`, `ingress`) | ordered rule lists at Cloudflare | foreign edits, rule limit, partial failure | `IngressRules`, `TunnelSync` |
| infra reconciler, renderer, resolver (`gateway_infra_reconciler.go`, `render`, `config`) | rendered objects, generated token | adoption, re-creation, a crash between two objects | `GatewayInfra`, `GatewayPlane` |
| Gateway, ListenerSet, class and policy controllers | statuses, finalizers | reads outdated before the write, watches | `GatewayStatus`, `GatewayEvents`, `GatewayPlane` |
| router (`proxy/router.go`, `matcher.go`, `shadow.go`) | routing table | precedence, agreement with the shadow reports | `RulePriority`, `Router`, `Handler` |
| handler (`proxy/handler.go`, `filter.go`, `cors.go`, `handler_websocket.go`, `headertimeout.go`) | transport pool, exchanges | pool against table swap, timer against headers, copies | `RequestFilters`, `Handler`, `BackendTransport`, `ProxyProcess` |
| proxy process (`cmd/proxy/main.go`, `startup_protocol.go`, `tunnel`) | readiness, drain | first config against the dial, signals at any point | `ProxyProcess` |

What should hold: replicas converge to the current routes and an older config
never replaces a newer one; a skipped push hides nobody; a backend is served or
refused for a reason, with its share of the traffic and never in the clear when
a policy asks for TLS; every tenant's plane sees only its own routes, with its
own token; broken planes fail closed; tunnel documents hold exactly their
routes; statuses tell the truth once things are quiet; a request goes to the
rule the Gateway API names; an exchange ends when its client leaves, and the
process when it is told to.

## 2. Modules

The models are views of one program, cut along its locks and network calls;
each has in fine grain what the others take as one step.

| module | models | on top of |
|---|---|---|
| `ConfigRegister` | abstract: replicas as registers that only move to a config with an equal or larger version | |
| `ConfigPush` | delivery for one partition: every request of every goroutine is a step | `ConfigRegister` (refinement) |
| `PushTargets` | many partitions: bind and resolve, tokens, concurrent pushes, eviction, replays, pods that come and go | |
| `IngressRules`, `TunnelSync` | documents: build, merge, sort, diff; `SyncAllRoutes` against the Cloudflare API, statuses, requeues | |
| `References` | what a backend reference resolves to; grants | |
| `BackendTLS` | the policy and trust a Service port is dialled with; client certificates; a policy's verdict | `References` |
| `Converter`, `BackendPasses` | routes to rules; marking, expanding and resolving backends | `BackendTLS` |
| `Listeners` | hostname, namespace and kind checks; merge of listeners; view store | `Converter` |
| `RouteBinding` | parentRefs, ownership, cross-type conflicts, effective hostnames, redirect scheme | `Listeners` |
| `RouteEvents` | watches, predicates and mapping functions of the route controllers | `RouteBinding` |
| `RouteStatus` | the status of a route | `RouteEvents`, `BackendPasses` |
| `ControlPlane` | a change, the routes it enqueues, the sync in its passes, the statuses | `RouteStatus` |
| `GatewayInfra` | resolution of a Gateway's own configuration, rendering, adoption and merge rules | `RouteEvents` |
| `GatewayStatus`, `GatewayEvents` | what the other controllers report; their watches | `GatewayInfra` |
| `GatewayPlane` | these controllers and the infra reconciler against one API server | `GatewayEvents` |
| `RulePriority`, `Router` | the score of a rule; table, matching, weighted choice, shadow detection | |
| `RequestFilters`, `Handler` | filters and CORS; a proxy that is given configs and serves requests | `Router` |
| `BackendTransport`, `ProxyProcess` | transports and their keys; the life of a proxy process | |
| `Lists` | sequences: sorting, flattening and folding, with the names of `SequencesExt` | |
| `MC*` | instances for TLC | |
| `*_proofs` | theorems, see section 4 | |

### ConfigPush

*State.* `desired` and `dirty` are the routes and the work queues; `replica[r]` is
what a replica serves; `counter` is `configVersionCounter`; `target` is the
shared partition's `pushTarget`; `pc`, `snap`, `cfg`, `to` and `leg` are the locals
of the goroutines, with one leg per endpoint of a push; `late` holds requests whose client
has given up. `issued`, `built` and `epoch` are history.

*Actions.* `ListAndResolve` is the listing in `SyncAllRoutes` and
`resolveEndpoints`; `PreparePush` and `PreparePushSkip` are `preparePush` under
`syncMu`; `DoPush*`, `FetchProxyVersion`, `CheckRace`, `BumpVersionCounter` and
`Reissue` are the steps of `pushToEndpoint`; `RecordPush*` is `recordPush` with the
caller's requeue; `Resync*` is `resyncTarget`, which keeps the lock across its
push; `Churn`, `DeliverLate` and `Restart` are the environment.

*Abstractions.* Routes, the rules built from them and their hash are one value
of `Contents`. A gRPC build burns a second version. `bumpVersionCounter`'s
compare-and-swap loop is one step, because only its last iteration writes.

### PushTargets

*State.* `gateway[g]` is absent, plain, opted in and fine, or opted in and invalid;
`secret[k]` the generation of a plane's token; `pod[k]` the config, the token and
the address of a plane's pod; `target[k]` the push state including the token the
replay uses.

*Actions.* `Bind` and `Resolve` are the two reads of a sync, in one critical
section; the push of each partition starts and ends separately; the end of a sync evicts
what it did not see. `ResyncBegin` to `ResyncEnd` are the endpoint reconciler.
The route controllers, the startup loops and the infra reconciler's trigger
differ in what they do with the result: requeue, retry, or nothing.

*Abstractions.* A config is its set of routes; versions appear only as "the pod may
refuse". Binding is the set of accepting Gateways.

### IngressRules and TunnelSync

*State.* `doc[t]` is the deployed document; `holder` and `sync` are the critical
section of `SyncAllRoutes`; `out[w]` is the result whose statuses are not yet
written; `status[r][g]` the Accepted condition as far as sync errors decide it.

*Actions.* `Begin` takes the lock, lists and resolves (a Gateway may be unreadable for
the moment); `EarlyError` is the exit before anything was synced;
`GetConfig` and `UpdateConfig` are the two API calls of `syncTunnelGroup` with the
diff, sort, limit and unchanged tests between them; `EndSync` computes the
attribution and the requeue; `UpdateRoutesStatus` writes the statuses after the lock
is gone.

*Abstractions.* Hostnames are ordered numbers and paths short sequences, so
that the comparisons of the sort functions can be translated; how a route
becomes entries is an input. `sort.Slice` is stable for the sizes used (insertion
sort up to 12 elements).

### ControlPlane and the modules below it

A cluster `w` is a record with a field per kind of object. The pure parts
(`References` to `RouteStatus`) are operators on `w`, and on the view store
where the code uses it, named after the functions they translate; `w.broken`
holds the kinds whose reads fail, so that the error paths are there too. In `ControlPlane`
these are caches that have not synced: `Synced` is the first list, an event for every
object of the kind. In `GatewayPlane` a scenario breaks and mends reads without any event.

*State.* `world` is the cluster and `left` the changes still to come; `queue`,
`startup`, `store` and `sync` are the controller's: its queues, its startup
gate, the view store and the locals of the sync in progress; `served` is what
the proxy has, with the worlds its sync has read (`seen`, history); `status[k]`
is `status.parents` of a route, split into our entries and foreign ones.

*Actions.* `Change` applies a change and delivers its event: predicate, mapping
of the old and the new object, views asked for on the way. `StartupSync` and
`Reconcile` list and bind; `Build`, `Convert`, `Expand`, `MarkEmpty` and
`Publish` are the rounds of reads of a sync in their order (`Build` also says for which
Gateways the tunnel failed, or that none was reached); `ReadStatus` and
`WriteStatus` are one attempt of `RetryOnConflict`; `Finish` returns. `Foreign`
is another controller, `Crash` a restart.

*Abstractions.* One sync at a time (`ConfigPush` and `TunnelSync` have the ones
that overlap), and its push is one step. A URL is a scheme and a host; matches
and header values are copied by the code and stay opaque. An event is
delivered in the step of its change: the queue is a set, so a late delivery
only means a later `Reconcile`.

### GatewayPlane and the modules below it

*State.* `world` as above, with classes and configurations; `objects` what stands at
the names the infra reconciler renders to, with owner, annotations and spec;
`status`, `queue`, `timers` (`RequeueAfter`), `work` and `infra` (the
reconciles under way), `tokens` the generated ones, `unsynced` the Gateways
whose Deployment changed since the last route sync (history).

*Actions.* A status reconcile is `Begin` (what is read once), `Compute` (the
fresh read and what is derived from it) and `Write` (with the conflict), or
`UpdateFinalizer`. The infra reconcile is `InfraBegin`, `EnsureAuth`,
`CreateAuth` (which may lose the race), `ResolveRender`, and per object
`ApplyRead` with `ApplyPut` or `ApplyDelete`. The others are users (`Change`,
`Squat`, `Leave`, `Lose`, `Annotate`), the garbage collector (`Collect`), the
kubelet (`Flip`), the autoscaler (`Scale`), timers (`Fire`) and `Crash`.

*Abstractions.* A condition is its reason. Of a rendered object its spec is
what depends on the configuration. A scenario says which controllers run;
one that does not run wakes nobody, so the others have to be right
without its help, and the state space is that of the interaction in question.

### Router, RequestFilters and Handler

`Router` compiles a configuration to a table and routes a request, each by the
code's own walk: buckets by hostname, rules by score, the first match that holds.
`DetectShadowedRules` works on the uncompiled rules, as the code does.
`RequestFilters` has every filter type, in both directions, and CORS with an `Origin` that is the
literal `*`, which the code refuses. `Handler` has two
actions, `UpdateConfig` and `Serve`: a request is served with one table, which
is what the atomic pointer gives it. The random numbers of the weighted choice
and of mirror percentages are arguments, chosen by `\E`.

*Abstractions.* A hostname is a sequence of labels, a path a sequence of
characters; a regular expression is the set of strings it matches (`Language`).

### BackendTransport and ProxyProcess

*State.* `main` is the main goroutine; `graceC`, `done`, `firstC` the channels
and the context; `daemon` cloudflared; `update` the `UpdateConfig` under way with
its later steps (prune key by key, first config, warning); `table`, `pool`; and
`requests`, each with its goroutine, timer, inner round trip, copies and mirror leg.

*Actions.* One per step at which another goroutine may come in between: lookup
and `LoadOrStore` of a transport, the timer's callback and `Stop`, the wait
for a started callback, each end of a WebSocket copy, each attempt of a mirror.

*Abstractions.* A request names the place of its rule (`Handler` has the choice).
cloudflared and `net/http` are external: the daemon registers at some point or
never and ends once told to; a round trip returns once its context is cancelled.

## 3. Runs

| run | checks | shows |
|---|---|---|
| `push_races` | `TypeOK`, `LostRaceJustified`, `NewerNotOverwritten`, `Quiesces` | a startup loop, two reconcilers and the endpoint reconciler against one replica, with a change and a controller restart, in every interleaving of their requests: lost races, and that pushing ends |
| `push_faults` | `Agreement`, `SkipKeyCovered`, `ImplementsRegister` | two replicas; a lost, late or misdirected request, gRPC builds and a controller restart; delivery implements `ConfigRegister` |
| `push_settles` | `Converges` | one reconciler and its startup loop, two replicas, two changes, one restart: the current routes arrive |
| `push_churn` | `MemberServed` | a replica that restarts or joins after the first success gets a config, through lost requests and a clock that was set back |
| `planes` | `TenantIsolated`, `FailsClosed`, `SkipKeyServed`, `CacheKept` | an opted-in Gateway that changes in every way next to a plain one, its pod moved or restarted in place, with a route controller, the infra trigger and the endpoint reconciler |
| `tunnels` | `Exact`, `RequeuesConverge`, `GRPCHeals` | two tunnels, one shared by the class and a Gateway; failures, a foreign edit, the rule limit, one change |
| `routing` | `RouteIsBest`, `ShadowHonest`, `TrafficSplit`, `PathsSpliced`, `CORSConsistent` | the router and the filters against reference definitions, for every pair and many triples of a catalogue of rules and every request of a catalogue |
| `control` | `SharesKept`, `VerdictsJustified`, `NoDowngrade`, `HostnamesInScope`, `CrossTypeExclusive`, `ViewsFresh`, `StatusTruthful`, `ForeignKept`, `Converges` | ten clusters, most with two or three changes in any order at any point of a sync; tunnels that fail one by one, caches that have not synced |
| `process` | `DialedAsConfigured`, `PoolTracksConfig`, `StreamsSurvive`, `GRPCReported`, `Released`, `Drains` | one proxy process in twelve set-ups |
| `gateways` | `StatusesCurrent`, `RenderedCurrent`, `OwnToken`, `OthersKept` | twenty-two clusters with their users, the garbage collector, kubelet, autoscaler, a crash, and reads that fail for a while |
| `stale_snapshot_wins` | `Converges` of `ConfigPush` is violated | with two reconcilers, version order is not snapshot order |
| `render_without_sync` | `SyncFollows` is violated | the route sync a changed Deployment calls for is lost with the reconcile that changed it |

For the violated properties `PROJECT.json` quotes the comment or document that
states them. The other findings there were met while modelling, most of them as
counterexamples of a first version of a property; they carry no run of their
own. `NewerNotOverwritten`, for instance, fails when
`ConfigPush_races.cfg` is run with `ClockSkew = TRUE`, seeds 1 and 5, two startup loops
and one reconciler: the finding at `pusher.go:100`.

### What the properties leave out

Where the code falls short of a property in a corner, the property names the
corner, and a finding describes it:

* `Converges` and `HostnamesInScope` of `ControlPlane`: no scenario moves a
  served route, or its Gateway, out of our hands (`reconcile_route.go:66`: no
  sync follows); `Unbound` admits the empty hostnames of a route that lost its
  listeners during the sync.
* `NoDowngrade`: while the BackendTLSPolicies cannot be listed the resolver fails open
  (`proxy_syncer.go:316`), so a config built then may be in the clear. The exception is
  for configs whose sync read such a cluster, and for nothing else: the scenario
  `Unsynced` starts in it, and `Converges` shows that the first list repairs what was
  served. Nothing repairs it after an outage that ends without an event (finding at
  `proxy_syncer.go:346`).
* `VerdictsJustified`: grants that cannot be read refuse, and Services, imports and endpoints that
  cannot be read count as present and ready, as in the code.
* `Quiesces` of `ConfigPush`: `Overtaken`. Two pushes recorded in the other order than they were delivered leave
  a cache below the replicas; the endpoint reconciler then retries a replay that can only lose.
* `SkipKeyServed`: a pod that restarted at the address of the last push is behind a skip key as
  long as its replay is due (`ReplayDue`), and no longer.
* `FailsClosed`: a Gateway that vanished between the two reads of a sync.
* `OwnToken`, `OthersKept`: `Undisturbed`. The generated Secret is read twice and objects are
  deleted by name, so an object that somebody puts in the place of one that was
  just removed gets through.
* `GRPCReported`: a configuration taken into use between the choice of the protocol and its
  record.
* `Released`: a refused upgrade whose backend neither sends nor closes; the copy
  of its body has no deadline (`handler_websocket.go:142`).
* `StatusesCurrent`: a Gateway with a plane of its own that waits for its `RequeueAfter` after a
  configuration error (`Awaits`), a policy that
  no Gateway of ours reaches (its status is left as it was), and the changes
  nobody watches: labels of namespaces, contents of Gateway certificates, the
  connector token. No scenario makes a class unreadable to the Gateway controller, or a
  Gateway to the policy controller: both take it for not theirs and end the reconcile
  without an error (`mappers.go:87`, `backendtlspolicy_controller.go:615`), so a change
  that falls into such an outage waits for the next event.
* `GRPCHeals`: planes that break without an event (`Silent`), and documents over the limit.

### Bounds

Every bound is a named constant or a field of a scenario, tested in a guard
(`MaxVersion`, `MaxChanges`, `MaxRestarts`, `MaxFaults`, `MaxRotations`,
`MaxEdits`; `bounds` and `spare` of a scenario).

* Two replicas are the smallest fleet in which one push can succeed and fail at once
  (`push_faults`, `push_settles`); a race between pushers takes one replica. Two
  reconcilers, a startup loop and the resyncer (`push_races`) are all the pushers a
  partition has, except for the second startup loop. Two contents suffice to
  tell a stale config from a current one, and going back to the first is the
  case that fools a skip key.
* `MaxVersion` lets every worker build at least twice. In the liveness runs it is large
  enough that no behaviour is cut off by it: a worker that is stuck at the bound is
  not idle, which `Quiesces` forbids. `Quiesces` is checked with both reconcilers, a
  change and a restart, because it takes two of them to requeue each other.
* `planes` has one change and one fault at a time: all pairs of a change and a
  failure, including every change in the middle of every sync. The initial
  states already contain the Gateway in each of its states.
* `tunnels` has documents of at most three rules, so that the two routes together are
  over the limit and each alone is not; the edited document has a stale
  rule and a rule without hostname that is no catch-all.
* `routing`: precedence, shadowing and order are relations between two rules and
  a request, so all ordered pairs of the nineteen rules are there; triples, of rules of
  three routes, for the order of a bucket. The draws 49 and 50 are the two
  sides of the mirror percentage.
* `control`: a cluster is about one subject (references, endpoints, TLS, external
  backends, route types, ListenerSets, ownership, parents, caches that have not synced, gRPC
  over an explicit `quic` tunnel) and holds two to four routes
  or backends that can disturb one another; two or three changes are enough for a
  change, its repair, and a change under way. `RouteParentStatusMaxCount` is 2
  instead of 32, so that the list is full.
* `process`: at most two requests, since exchanges meet in the pool only, pairwise;
  `MirrorMaxAttempts` is 2 instead of 3.
* `gateways`: a Gateway or two with what belongs to them, up to three changes in the
  order of their scenario and one or two acts of others. `PolicyAncestorMax`
  is 2 instead of 16.
* `Replicas` and `Reconcilers` are symmetric in `push_faults` (all workers of a set
  have the same gate). No symmetry is used with liveness, and none in the scenarios.

Most specifications stop when bounds are used up and nobody has work to do, as
the program does, so deadlock is not checked there; the liveness properties, and
the invariants about quiet states, say that what stops has arrived. `Handler`
never stops, and there deadlock is checked.

### Fairness

* Work queues hand out queued requests and HTTP calls end by answer or
  client timeout: weak fairness of the workers' steps and of every leg.
* Go's `sync.Mutex` enters starvation mode after a millisecond, so a waiter
  gets it: strong fairness of the steps that take `syncMu`.
* In `TunnelSync`, `[]<>(holder # w)` says that a sync ends: all its calls carry
  a context and return.
* In `ControlPlane`, weak fairness of the controller's steps taken together. The
  run uses `MCSpec`, which states it without `ENABLED`: infinitely often
  nothing is to do, or infinitely often a step of the controller is taken.
* In `ProxyProcess`, weak fairness of the steps of the process taken together: goroutines run,
  timers that are due fire, a cancelled round trip returns, cloudflared ends once told
  to. Backends, clients, pushes and signals may stay away for ever.
* Nowhere has the environment (changes, faults, restarts, late deliveries) any fairness.

## 4. Proofs

| module | about | results |
|---|---|---|
| `ConfigPush_proofs` | delivery: types, versions, refinement, lost races | `TypeCorrect`, `Versions`, `AgreementHolds`, `NewerNotOverwrittenHolds`, `Refinement`, `SkipKeyCoveredHolds`, `LostRaceJustifiedHolds` |
| `PushTargets_proofs` | the planes | `TypesKept`, `BrokenFailsClosed`, `TenantsIsolated`, `SkipsOnlyServed`, `CacheSurvives` |
| `TunnelSync_proofs` | what a sync leaves in a document | `ExactHolds` |
| `Handler_proofs` | the score; the rule a request goes to; weights; shadow reports | `ScoreIsPrecedence`, `RouteIsBestHolds`, `TrafficSplitHolds`, `ShadowHonestHolds` |
| `ProxyProcess_proofs` | transports, pool, timers | `DialedAsConfiguredHolds`, `PoolTracksConfigHolds`, `StreamsSurviveHolds`, `GRPCReportedHolds` |
| `ControlPlane_proofs` | statuses shared with others; route types that meet | `ForeignKeptHolds`, `CrossTypeExclusiveHolds` |
| `Lists_proofs`, `Routes_proofs` | lemmas: induction, sequences; what changes, binding and conversion do | |

Every one of these but `ScoreIsPrecedence`, `TypesKept` and `Versions` states a property that a run
checks as well. Leaves without arithmetic name Zenon, which is faster there. The models take their
operators on sequences from `Lists` and not from `SequencesExt`, because that module puts bags
and their theorems into the context of every obligation.

### Delivery

The theorems about `ConfigPush` hold for any sets of workers, replicas, contents and seeds and
any bounds; they rest on `ConstantsAssumption` only (names are distinct, seeds are
positive), plus what the theorem says.

* `TypeCorrect`: `Spec => []TypeOK`. Inductive as it stands. `TypeOK`
  includes that `syncMu` is held exactly while the endpoint reconciler pushes.
* `Versions`: without a clock that is set back, `VersionInv` holds. It is
  `IssuedOrdered` (the counter is at or above every issued version, a version names one
  config, and versions grow with the process that issued them), `KnownConfigs`
  (whatever a replica serves, a pusher sends, the cache holds or the
  network delays was issued) and `LegVersions` (a leg that has not left its
  first PUT carries its config's version, and no leg ever passes the
  race check, because every replica is at or below the counter). The last part
  is why re-issuing, the only step that could break `built = version`, does not
  happen without skew.
* `AgreementHolds`, `NewerNotOverwrittenHolds`, `Refinement`: from `Versions`. In
  the refinement a build maps to `Issue`, an accepted or late PUT to
  `Adopt`, a replica's restart to `Lose`, and everything else stutters.
* `SkipKeyCoveredHolds`: as long as replicas do not restart, whatever the clock
  does. The strengthening is `SkipInv`: a leg that was answered 200 has its replica at or above
  what it sent (`LegReached`), legs never send less than their config's
  version (`LegAbove`), and a replay sends what is cached while it holds
  the lock (`ReplayIsCached`).
* `LostRaceJustifiedHolds`: without restarts of replicas and without skew. Needs
  `Outrun`: a leg that got a 409 stays below its replica.

### Planes

`PushTargets_proofs` is for any Gateways, routes, parents, tunnels, workers and bounds. It rests on
`TargetsAssumption` (names are distinct, the constants have their types).

* `TypesKept`: `Spec => []TypeInv`, the types of the cluster, the workers and the planes.
* `BrokenFailsClosed`: `Spec => []FailsClosed`. The strengthening is `RoutesInv`: a config
  is `Lawful` for its plane in all three places it can be, a worker's share, the pod and
  the replay cache, because a replay or a late record moves it from one to the other; and
  `bound` holds parents only, because it is read before the Gateways are resolved. The
  heart is `SharesLawful`: a route reaches a plane through a resolved parent on
  its tunnel, or through a parent that is neither resolved nor broken, which is one that
  is plain or has vanished. `LawfulGrows` carries configs over later changes of the
  cluster.
* `TenantsIsolated`: `OwnTunnels => (Spec => []TenantIsolated)`. `OwnTunnels` says that no
  Gateway that can resolve is on the tunnel of the shared plane; the run's instance has
  it. Without it a dedicated plane serves what the shared plane serves, the routes of
  vanished Gateways included. `TokensInv` follows a token from the share to the target
  and to the replay.
* `SkipsOnlyServed`: `Spec => []SkipKeyServed`. Needs `SkipInv`: a key is never for an
  address its plane has not had yet, so that a new pod cannot meet an old key, and it has
  a cached config behind it, so that the replay that is due to a restarted pod has
  something to send and settles the key.
* `CacheSurvives`: `Spec => CacheKept`, from `KeepInv`: a sync under way has a share for,
  or has noted as transient, every Gateway that was fine all along.

### Tunnel documents

`ExactHolds`: `Spec => []Exact`, for any routes, Gateways, tunnels, workers, entries and
deployed documents, and any limit. `TypeOK` is the strengthening: what a sync has read and built
so far is made of rules, and `Exact` speaks of the snapshot that the sync in place kept. The argument follows
`syncTunnelGroup`. `SortIs`: the insertion sort of the model has a result, an ordered permutation; the final
sort is stable in the code (`SortStableFunc`), and the theorem does not depend on what unstable sorts do with
ties. `FinalIs`: what `DiffRules` leaves of the
deployed rules and what it adds are together exactly the desired rules, each once, and
`EnsureCatchAll` closes the list with the only catch-all, whatever was deployed: duplicates, catch-alls in
the middle, rules of others. `BuildIs`, `GroupIs` and `DesiredIs`: the desired rules are those of the routes with
a serving parent on the tunnel. A write that fails, or is refused for the limit, leaves the
document as it was (`UpdateKeeps`, `OthersKeep`).

### Routing

`ScoreIsPrecedence`: for any two rules with paths of up to 1024 characters (what the API admits) and up to nine
headers and nine parameters, the larger score belongs to the rule that is ahead in the
first of the five tiers (path type, path length, method, headers, parameters) in which they differ, and
equal scores mean equal figures. The argument splits the score into path and rest
(`ScoreSplit`), bounds the rest below one unit of path length (`RestBound`) and one
path type below the next (`PathDominates`), and repeats this within the
rest (`RestDecides`). With ten headers a rule would tie with a method, which is
where the bound of nine comes from.

`RouteIsBestHolds`: `Tiered => (Spec => []RouteIsBest)`, for every set of configurations and
requests. `HandlerAssumption` says that they have the shape the code parses them into
(`IsConfig`, `IsRequest`), `Tiered` that matches keep within the bounds of the score; the
configurations of the run do. The inductive invariant is `HandlerInv`: the table in use is
`compileRoutingTable` of a valid configuration (`Compiled`), for some order of the wildcards of
one length, since Go's map iteration leaves that open, and the answer on its way was computed
from it (`Answered`). The argument then follows `Route`. `SortExists` and `SortIs`:
`sortRulesByPrecedence` has a result, a permutation ordered by score with ties in order of the
configuration. `FirstResultIs` and `MatchRulesIs`: the scan of a bucket ends at the first rule
that hits. `BucketIs`, `DefaultIs`, `WildcardIs` and `OneOfALength`: the bucket the router
settles on is that of the most specific hostname, and it does not matter which of two
wildcards of a length is tried first, because only one can match. `BestOfAll` and `RouteBest`
put the pieces together: whatever was passed over is beaten by what was taken.

`ShadowHonestHolds`: `Spec => []ShadowHonest`, from the same invariant. Matches with one `canonicalMatchKey` match the same
requests (`SameKeySameMatch`), so all claimants of a key hit together (`ClaimantsHit`); the winner a
report names is the first of them in the router's own order (`WinnerIs`) and in the
bucket the router reads (`KeyInBucket`), so the rule that serves is the winner or one before it.
No bound on headers or paths is needed: both sides compare the same scores, whatever these are.

`TrafficSplitHolds`: `Spec => []TrafficSplit`. `CumulativeIs` and `CumulativeGrows` show that the
running sums of `selectBackend` exist and never fall, and that each step adds one weight;
`SharesAre` counts the draws between two of them.

### The proxy process

`ProxyProcess_proofs` is for any scenarios: configurations, requests, hosts, signals. It rests
on `ScenariosAssumption`: a rule with a TLS policy has the scheme `https`, which
`forceHTTPSScheme` (`converter.go:1203`) makes of it. The inductive
invariant `ProcessInv` has three parts. `Exchanges`: an exchange has a rule once it is routed, a
transport that does what the rule asks for once it has taken one, headers only from a peer the
rule trusts, and no timer left that could cancel a stream. `Updates`: the update under way
is that of the table in use. `PoolInv`: a key tells all that matters about the transport
under it (`PoolKeyed`), so that it does not matter which of two racing requests stored it;
nobody who has yet to make a transport made one that is stored (`PoolMade`), so that
what a walk left behind differs from what it met; what the walk has met and no rule
asks for is on its list (`Walk`); mirrors hold pooled transports (`Mirrors`). Each kind of
step of one exchange has a lemma (`Sends`, `Ticks`, `Stops`, ...), which the action lemmas
combine.

### Statuses

`ForeignKeptHolds`: `Spec => ForeignKept`, for any cluster, changes, interleaving of writes of
others, conflicts, errors and crashes. `ScenariosAssumption` says that routes have
a kind and a list of parents. The inductive invariant `StatusInv` gives each route of
the cluster a status of at most `RouteParentStatusMaxCount` entries. The heart is `UpdateIs`: what
`updateRouteParentStatuses` writes has the foreign entries it has read, and of ours no more
than there is room for (`RoomIs`); `WriteStatus` only succeeds on the status it has read.

### Route types that meet

`CrossTypeExclusiveHolds`: `Spec => []CrossTypeExclusive`, for any cluster and changes. `ScenariosAssumption` says of the
cluster that its routes are finitely many with keys of their own, that names are written in
`Alphabet`, and what shape listeners, parents and slices have (`IsWorld`), and of a change that it
keeps this (`IsChange`); `ApplyIs` shows that the cluster then always has it. The inductive invariant is
`StatusInv` with `CrossInv`: the bindings of the sync under way are `Settled`, as seen in one of the clusters it
has read, and so are those that are served. `SettleIs` is the heart. That two routes
that meet are not both accepted is one half; the other is that somebody is left. A route is turned
away for *any* older route of the other type that meets it, even one that is itself turned away
for a third, so a pair proves nothing. The proof takes the first of the accepted routes in the order of
`resolveCrossTypeConflicts` (creation time, namespace, name, GRPCRoute before HTTPRoute): nobody beats it, so it
stays, and it is no younger than any that goes (`SomeoneWins`, from `LexicalIs`).

### What is only model-checked

*Induction.* The provers cannot instantiate an induction theorem with a predicate, but they can
with a set: `NaturalInduction` takes a set that holds 0 and is closed under successors,
and follows from `LeastNatural`. Facts about recursive functions are proved that way: running sums
(`CumulativeIs`), `FlattenSeq` (`FlattenRec`, `FlattenElements`), the existence of a sorted
sequence (`SortExists`). Operators that take a lambda (`SelectSeq`, `FoldLeft`,
`FoldSet`, `SortSeq`) stay opaque to them; where a proof needed it, the model says the same with
`FlattenSeq` or with a choice among `SetToSeqs`.

* Liveness: `Converges`, `Quiesces`, `MemberServed`, `RequeuesConverge`, `GRPCHeals`, `Released` and
  `Drains`. Out of the prover's reach.
* `PathsSpliced` and `CORSConsistent` of `Handler`, `SharesKept` of `ControlPlane`: they rest on
  what folds over filters and headers compute, and on products and
  divisors of weights at the edge of 32 bits.
* `NoDowngrade`, `VerdictsJustified`, `HostnamesInScope` and `StatusTruthful` of `ControlPlane`, `StatusesCurrent`
  and `RenderedCurrent` of `GatewayPlane`: they speak of what several passes make of one
  cluster, and need every operator of seven modules in their context.
* `ViewsFresh`, `OwnToken` and `OthersKept` hold for the scenarios of the runs and are not
  true of all. A Gateway that is deleted and created again starts over at
  generation 1, and the fingerprint of a view has no more than the generation
  (`listenerset_view.go:345`). A GatewayClassConfig whose `auth` changes between `EnsureAuth` and
  `ResolveRender`, or an object that takes the place of a collected one, gets past the
  ownership checks. The corners are in section 3.

## 5. What is not modelled

* Metrics, logging, tracing, access log, flags and wiring, API types and
  generated code; the text of conditions and Events.
* `proxy_secret_reconciler.go`, which copies a hash of one Secret to an
  annotation of one Deployment.
* The constant part of what is rendered (ports, probes, labels, security contexts),
  defaulting included, and `MinReplicas`, taken as unset.
* How a route becomes ingress entries (`http_adapter.go`, `grpc_adapter.go`,
  `weight.go`) and the collision warnings: the proxies do not read the document.
* The bundle version condition of a GatewayClass, and Gateway addresses.
* The route controllers' watch of GatewayClassConfig, which only matters for the tunnel
  documents; `TunnelSync` starts from resolved tunnels.
* The body of a config (`Validate`) beyond "valid or not", and the stream
  translation between cloudflared and `http.Handler` (`origin.go`).
* Overlapping syncs together with changing clusters: `ControlPlane` has one sync
  at a time, `ConfigPush` and `TunnelSync` have overlapping ones on abstract
  routes. The two parts meet at `Publish`.

Two known holes are kept out of the passing runs by a named fault:
`push_churn` uses `"churn"`, where replicas come and go once a config is
cached; with `"earlychurn"` a replica that joins during the very first push is
never served, because `replayableTarget` finds nothing to replay
(`proxy_syncer.go:1197`). `PushTargets` replaces a pod only after it was configured
for the same reason.
