----------------------------- MODULE ConfigPush -----------------------------
(***************************************************************************)
(* Delivery of the proxy configuration to the replicas of the SHARED data  *)
(* plane: internal/controller/proxy_syncer.go (build, skip, record,        *)
(* resync), internal/proxy/pusher.go (the HTTP push with its stale-version *)
(* recovery), internal/proxy/converter.go (the version counter) and        *)
(* Router.UpdateConfig of internal/proxy/router.go (what a replica         *)
(* accepts).                                                               *)
(*                                                                         *)
(* Route workers list the routes, build a config under syncMu, push it     *)
(* without the lock and record the outcome under the lock.  They are the   *)
(* HTTPRoute and the GRPCRoute reconciler (one goroutine each) and their   *)
(* startup loops (startup_sync.go), which sync once at start and again     *)
(* until a sync and its push succeed.  The endpoint reconciler replays the *)
(* cached config and holds the lock while it pushes.  Every endpoint of a  *)
(* push is a goroutine of its own (a "leg").                               *)
(*                                                                         *)
(* Abstractions.  A route snapshot, the rules built from it and their      *)
(* SHA-256 are one value of Contents.  The shared plane has one auth token *)
(* that never changes, so the token conjunct of the skip test always holds *)
(* here (per-Gateway tokens are in PushTargets).  The shared partition is  *)
(* never evicted.  Marshalling never fails.                                *)
(***************************************************************************)
EXTENDS Integers, FiniteSets

CONSTANTS
    Reconcilers,    \* the workers of the HTTPRoute and GRPCRoute controllers
    StartupLoops,   \* their startup syncs
    Gate,           \* Gate[w]: the startup loop whose first attempt w awaits
    Resyncer,       \* the endpoint reconciler's worker
    Replicas,       \* addresses a proxy replica can have
    ServiceURL,     \* the unresolved endpoint, kept when DNS gives nothing
    Contents,       \* route snapshots
    GRPCContents,   \* those with a GRPCRoute: their build burns two versions
    NoContent,      \* no config
    Seeds,          \* readings of the wall clock at process start
    ClockSkew,      \* may a new process read a clock behind issued versions?
    Faults,         \* faults of the environment that may happen
    InitialMembers, \* replicas that are up when the controller starts
    MaxVersion, MaxChanges, MaxRestarts, MaxFaults   \* bounds

Workers == Reconcilers \cup StartupLoops
FaultKinds == {"drop", "late", "dns", "churn", "earlychurn"}
SurfaceThreshold == 3

ASSUME ConstantsAssumption ==
    /\ Reconcilers \cap StartupLoops = {}
    /\ Gate \in [Reconcilers -> StartupLoops]
    /\ Resyncer \notin Workers
    /\ ServiceURL \notin Replicas
    /\ NoContent \notin Contents
    /\ GRPCContents \subseteq Contents
    /\ Seeds \subseteq Nat \ {0}
    /\ ClockSkew \in BOOLEAN
    /\ Faults \subseteq FaultKinds
    /\ InitialMembers \subseteq Replicas
    /\ MaxVersion \in Nat /\ MaxChanges \in Nat
    /\ MaxRestarts \in Nat /\ MaxFaults \in Nat

VARIABLES
    desired,   \* the routes as the API server holds them
    dirty,     \* dirty[w]: a reconcile request is queued for worker w
    attempted, \* startup loops that made their first attempt
    event,     \* an EndpointSlice request is queued for the resyncer
    members,   \* replicas that are up and in the headless Service's DNS
    replica,   \* replica[r]: the routing table replica r serves
    late,      \* PUTs whose client gave up and which may still arrive
    counter,   \* configVersionCounter of the running process
    epoch,     \* history: number of controller restarts so far
    issued,    \* history: every config sent or to be sent, with its version
    target,    \* targets[sharedPartitionKey]
    syncMu,    \* the resyncer holds ProxySyncer.syncMu across its push
    pc, snap, cfg, to, leg,   \* the workers' and the resyncer's locals
    changes, faults           \* bounds on the environment

vars == <<desired, dirty, attempted, event, members, replica, late, counter,
          epoch, issued, target, syncMu, pc, snap, cfg, to, leg, changes, faults>>
clusterVars == <<desired, dirty, attempted, event, members, replica, late>>
historyVars == <<epoch, issued>>
boundVars == <<changes, faults>>

Pushers == Workers \cup {Resyncer}
Endpoints == Replicas \cup {ServiceURL}

(***************************************************************************)
(* A config as it travels: its version, the content, and as history the    *)
(* version it was BUILT with (a recovery re-issues the same payload under  *)
(* a new version) and the process that built it.                           *)
(***************************************************************************)
Config == [version : Nat, built : Nat, epoch : Nat,
           content : Contents \cup {NoContent}]
NoConfig == [version |-> 0, built |-> 0, epoch |-> 0, content |-> NoContent]

Target == [lastCfg : Config, hash : Contents \cup {NoContent},
           endpoints : SUBSET Endpoints, streak : 0..SurfaceThreshold]
NoTarget == [lastCfg |-> NoConfig, hash |-> NoContent, endpoints |-> {},
             streak |-> 0]

LegStates == {"none", "put", "stale", "check", "bump", "issue", "retry",
              "ok", "err", "lost"}
Final == {"none", "ok", "err", "lost"}
NoLeg == [at |-> "none", ver |-> 0]
Legs == [Endpoints -> [at : LegStates, ver : Nat]]
NoLegs == [e \in Endpoints |-> NoLeg]

Init ==
    /\ desired \in Contents
    \* A cluster without routes queues nothing for the reconcilers.
    /\ dirty \in [Workers -> BOOLEAN]
    /\ \A w \in StartupLoops : dirty[w]
    /\ attempted = {}
    /\ event = TRUE
    /\ members = InitialMembers
    /\ replica = [r \in Replicas |-> NoConfig]
    /\ late = {}
    /\ counter \in Seeds
    /\ epoch = 0
    /\ issued = {}
    /\ target = NoTarget
    /\ syncMu = FALSE
    /\ pc = [p \in Pushers |-> "idle"]
    /\ snap = [p \in Pushers |-> NoContent]
    /\ cfg = [p \in Pushers |-> NoConfig]
    /\ to = [p \in Pushers |-> {}]
    /\ leg = [p \in Pushers |-> NoLegs]
    /\ changes = 0
    /\ faults = 0

-----------------------------------------------------------------------------
(* The replica: Router.UpdateConfig behind PUT /config                     *)

\* Mutant: the replica takes any version.
Stale_Never(r, v) == FALSE

\* Mutant: an equal version is refused too.
Stale_Equal(r, v) == v > 0 /\ v <= replica[r].version

\* An older version is refused with 409; an equal one is applied again.
Stale(r, v) == v > 0 /\ v < replica[r].version

Serve(r, c) == replica' = [replica EXCEPT ![r] = c]

\* The first config makes /readyz pass, which updates the EndpointSlice.
BecomesReady(r) == replica[r].version = 0

-----------------------------------------------------------------------------
(* The push of one config to one endpoint: pushToEndpoint                  *)

Reach(e) == IF e = ServiceURL THEN members ELSE {e} \cap members

SetLeg(p, e, at, ver) == leg' = [leg EXCEPT ![p][e] = [at |-> at, ver |-> ver]]

Payload(p, e) == [cfg[p] EXCEPT !.version = leg[p][e].ver]

Sending(p, e) == pc[p] = "pushing" /\ leg[p][e].at \in {"put", "retry"}

\* doPush answered 200.
DoPushOK(p, e) ==
    /\ Sending(p, e)
    /\ \E r \in Reach(e) :
         /\ ~Stale(r, leg[p][e].ver)
         /\ Serve(r, Payload(p, e))
         /\ event' = (event \/ BecomesReady(r))
    /\ SetLeg(p, e, "ok", leg[p][e].ver)
    /\ UNCHANGED <<desired, dirty, attempted, members, late, counter, historyVars,
                   target, syncMu, pc, snap, cfg, to, boundVars>>

\* doPush answered 409: the first time it starts the recovery, on the retry
\* it is an ordinary error.
DoPushStale(p, e) ==
    /\ Sending(p, e)
    /\ \E r \in Reach(e) : Stale(r, leg[p][e].ver)
    /\ IF leg[p][e].at = "put" THEN SetLeg(p, e, "stale", leg[p][e].ver)
                               ELSE SetLeg(p, e, "err", leg[p][e].ver)
    /\ UNCHANGED <<clusterVars, counter, historyVars, target, syncMu,
                   pc, snap, cfg, to, boundVars>>

\* doPush failed: nobody listens, or the request is lost on the way.
DoPushFailed(p, e) ==
    /\ Sending(p, e)
    /\ \/ Reach(e) = {} /\ UNCHANGED faults
       \/ "drop" \in Faults /\ faults < MaxFaults /\ faults' = faults + 1
    /\ SetLeg(p, e, "err", leg[p][e].ver)
    /\ UNCHANGED <<clusterVars, counter, historyVars, target, syncMu,
                   pc, snap, cfg, to, changes>>

\* doPush timed out on the client side while the request is still under way.
DoPushTimedOut(p, e) ==
    /\ Sending(p, e)
    /\ "late" \in Faults /\ faults < MaxFaults /\ faults' = faults + 1
    /\ \E r \in Reach(e) : late' = late \cup {[at |-> r, cfg |-> Payload(p, e)]}
    /\ SetLeg(p, e, "err", leg[p][e].ver)
    /\ UNCHANGED <<desired, dirty, attempted, event, members, replica, counter,
                   historyVars, target, syncMu, pc, snap, cfg, to, changes>>

\* fetchProxyVersion
FetchProxyVersion(p, e) ==
    /\ pc[p] = "pushing" /\ leg[p][e].at = "stale"
    /\ \/ /\ \E r \in Reach(e) : SetLeg(p, e, "check", replica[r].version)
          /\ UNCHANGED faults
       \/ /\ \/ Reach(e) = {} /\ UNCHANGED faults
             \/ "drop" \in Faults /\ faults < MaxFaults /\ faults' = faults + 1
          /\ SetLeg(p, e, "err", leg[p][e].ver)
    /\ UNCHANGED <<clusterVars, counter, historyVars, target, syncMu,
                   pc, snap, cfg, to, changes>>

\* Mutant: every 409 is taken for clock skew, as before #584.
CheckRace_AlwaysRecover(p, e) ==
    /\ pc[p] = "pushing" /\ leg[p][e].at = "check"
    /\ SetLeg(p, e, "bump", leg[p][e].ver)
    /\ UNCHANGED <<clusterVars, counter, historyVars, target, syncMu,
                   pc, snap, cfg, to, boundVars>>

\* A replica at or below the counter was reached by a newer config of this
\* process: the push is abandoned as a lost race.
CheckRace(p, e) ==
    /\ pc[p] = "pushing" /\ leg[p][e].at = "check"
    /\ IF leg[p][e].ver <= counter THEN SetLeg(p, e, "lost", leg[p][e].ver)
                                   ELSE SetLeg(p, e, "bump", leg[p][e].ver)
    /\ UNCHANGED <<clusterVars, counter, historyVars, target, syncMu,
                   pc, snap, cfg, to, boundVars>>

\* bumpVersionCounter: the compare-and-swap loop has the effect of one step.
BumpVersionCounter(p, e) ==
    /\ pc[p] = "pushing" /\ leg[p][e].at = "bump"
    /\ counter' = IF counter > leg[p][e].ver THEN counter ELSE leg[p][e].ver + 1
    /\ SetLeg(p, e, "issue", leg[p][e].ver)
    /\ UNCHANGED <<clusterVars, historyVars, target, syncMu,
                   pc, snap, cfg, to, boundVars>>

\* retryCfg.Version = configVersionCounter.Add(1), then the second doPush.
Reissue(p, e) ==
    /\ pc[p] = "pushing" /\ leg[p][e].at = "issue"
    /\ counter' = counter + 1
    /\ issued' = issued \cup {[cfg[p] EXCEPT !.version = counter + 1]}
    /\ SetLeg(p, e, "retry", counter + 1)
    /\ UNCHANGED <<clusterVars, epoch, target, syncMu, pc, snap, cfg, to,
                   boundVars>>

LegStep(p, e) ==
    \/ DoPushOK(p, e) \/ DoPushStale(p, e) \/ DoPushFailed(p, e)
    \/ DoPushTimedOut(p, e) \/ FetchProxyVersion(p, e) \/ CheckRace(p, e)
    \/ BumpVersionCounter(p, e) \/ Reissue(p, e)

Delivered(p) == \A e \in Endpoints : leg[p][e].at \in Final

AllOK(p) == \A e \in to[p] : leg[p][e].at = "ok"
LostRace(p) == \E e \in to[p] : leg[p][e].at = "lost"

\* PushWithToken starts one goroutine per endpoint.
StartLegs(p, c, dest) ==
    leg' = [leg EXCEPT ![p] = [e \in Endpoints |->
              IF e \in dest THEN [at |-> "put", ver |-> c.version] ELSE NoLeg]]

-----------------------------------------------------------------------------
(* resolveEndpoints: the members' addresses, or the URL itself when the    *)
(* lookup fails or is empty.                                               *)

ResolveEndpoints(dest) ==
    \/ /\ dest = IF members = {} THEN {ServiceURL} ELSE members
       /\ UNCHANGED faults
    \/ /\ "dns" \in Faults /\ faults < MaxFaults /\ members # {}
       /\ dest = {ServiceURL}
       /\ faults' = faults + 1

(* A route worker: SyncAllRoutes, then SyncPartition                       *)

\* SyncAllRoutes lists the routes and releases its lock; SyncPartition then
\* resolves the endpoints.  The two reads touch different state and no other
\* step depends on both, so they are one step here.
ListAndResolve(w) ==
    /\ pc[w] = "idle" /\ dirty[w]
    /\ w \in Reconcilers => Gate[w] \in attempted
    /\ dirty' = [dirty EXCEPT ![w] = FALSE]
    /\ snap' = [snap EXCEPT ![w] = desired]
    /\ \E dest \in SUBSET Endpoints :
         ResolveEndpoints(dest) /\ to' = [to EXCEPT ![w] = dest]
    /\ pc' = [pc EXCEPT ![w] = "listed"]
    /\ UNCHANGED <<desired, attempted, event, members, replica, late, counter,
                   historyVars, target, syncMu, cfg, leg, changes>>

\* Mutant: the skip looks at the endpoints only.
ShouldSkipPush_SameEndpoints(content, dest) ==
    target.hash # NoContent /\ dest = target.endpoints

\* shouldSkipPush
ShouldSkipPush(content, dest) ==
    content = target.hash /\ dest = target.endpoints

\* buildProxyConfig takes its version before the gRPC conversion burns one.
Built(content) == [version |-> counter + 1, built |-> counter + 1,
                   epoch |-> epoch, content |-> content]

\* Mutant: the version is read, not advanced.
Burned_None(content) == 0

Burned(content) == IF content \in GRPCContents THEN 2 ELSE 1

\* runStartupSync lets the reconciles in after its first attempt.
MarkComplete(w) == attempted' = attempted \cup ({w} \cap StartupLoops)

\* Mutant: the lost-race requeue is added although no race was lost.
PreparePushSkip_Requeues(w) ==
    /\ pc[w] = "listed" /\ ~syncMu
    /\ counter + Burned(snap[w]) <= MaxVersion
    /\ ShouldSkipPush(snap[w], to[w])
    /\ counter' = counter + Burned(snap[w])
    /\ target' = [target EXCEPT !.streak = 0]
    /\ dirty' = [dirty EXCEPT ![w] = TRUE]
    /\ pc' = [pc EXCEPT ![w] = "idle"]
    /\ snap' = [snap EXCEPT ![w] = NoContent]
    /\ to' = [to EXCEPT ![w] = {}]
    /\ MarkComplete(w)
    /\ UNCHANGED <<desired, event, members, replica, late, historyVars,
                   syncMu, cfg, leg, boundVars>>

\* preparePush, steady state: the config is built and thrown away.
PreparePushSkip(w) ==
    /\ pc[w] = "listed" /\ ~syncMu
    /\ counter + Burned(snap[w]) <= MaxVersion
    /\ ShouldSkipPush(snap[w], to[w])
    /\ counter' = counter + Burned(snap[w])
    /\ target' = [target EXCEPT !.streak = 0]
    /\ pc' = [pc EXCEPT ![w] = "idle"]
    /\ snap' = [snap EXCEPT ![w] = NoContent]
    /\ to' = [to EXCEPT ![w] = {}]
    /\ MarkComplete(w)
    /\ UNCHANGED <<desired, dirty, event, members, replica, late, historyVars,
                   syncMu, cfg, leg, boundVars>>

\* preparePush, otherwise: the push starts with the lock released.
PreparePush(w) ==
    /\ pc[w] = "listed" /\ ~syncMu
    /\ counter + Burned(snap[w]) <= MaxVersion
    /\ ~ShouldSkipPush(snap[w], to[w])
    /\ counter' = counter + Burned(snap[w])
    /\ cfg' = [cfg EXCEPT ![w] = Built(snap[w])]
    /\ issued' = issued \cup {Built(snap[w])}
    /\ StartLegs(w, Built(snap[w]), to[w])
    /\ pc' = [pc EXCEPT ![w] = "pushing"]
    /\ UNCHANGED <<clusterVars, epoch, target, syncMu, snap, to, boundVars>>

Finish(p) ==
    /\ pc' = [pc EXCEPT ![p] = "idle"]
    /\ snap' = [snap EXCEPT ![p] = NoContent]
    /\ cfg' = [cfg EXCEPT ![p] = NoConfig]
    /\ to' = [to EXCEPT ![p] = {}]
    /\ leg' = [leg EXCEPT ![p] = NoLegs]

\* recordPush after a push every endpoint accepted.
RecordPushOK(w) ==
    /\ pc[w] = "pushing" /\ ~syncMu /\ Delivered(w) /\ AllOK(w)
    /\ target' = [target EXCEPT !.lastCfg = cfg[w], !.hash = cfg[w].content,
                                !.endpoints = to[w], !.streak = 0]
    /\ Finish(w) /\ MarkComplete(w)
    /\ UNCHANGED <<desired, dirty, event, members, replica, late, counter,
                   historyVars, syncMu, boundVars>>

\* recordPush after a failure: the skip key is invalidated.  A lost race
\* requeues the reconcile (withLostRacePushRequeue), other errors do not; a
\* startup loop tries again after any of them.
RecordPushFailed(w) ==
    /\ pc[w] = "pushing" /\ ~syncMu /\ Delivered(w) /\ ~AllOK(w)
    /\ target' = [target EXCEPT !.hash = NoContent, !.endpoints = {},
                    !.streak = IF @ < SurfaceThreshold THEN @ + 1 ELSE @]
    /\ dirty' = [dirty EXCEPT ![w] = @ \/ LostRace(w) \/ w \in StartupLoops]
    /\ Finish(w) /\ MarkComplete(w)
    /\ UNCHANGED <<desired, event, members, replica, late, counter,
                   historyVars, syncMu, boundVars>>

\* The steps that take syncMu.
LockStep(w) ==
    \/ PreparePushSkip(w) \/ PreparePush(w)
    \/ RecordPushOK(w) \/ RecordPushFailed(w)

WorkerStep(w) == ListAndResolve(w) \/ LockStep(w)

-----------------------------------------------------------------------------
(* The endpoint reconciler: ResyncEndpoints -> resyncTarget                *)

ResyncResolve ==
    /\ pc[Resyncer] = "idle" /\ event
    /\ event' = FALSE
    /\ \E dest \in SUBSET Endpoints :
         ResolveEndpoints(dest) /\ to' = [to EXCEPT ![Resyncer] = dest]
    /\ pc' = [pc EXCEPT ![Resyncer] = "listed"]
    /\ UNCHANGED <<desired, dirty, attempted, members, replica, late, counter,
                   historyVars, target, syncMu, snap, cfg, leg, changes>>

\* replayableTarget finds nothing to replay: a no-op that reports success.
ResyncNothing ==
    /\ pc[Resyncer] = "listed" /\ ~syncMu
    /\ target.lastCfg = NoConfig
    /\ Finish(Resyncer)
    /\ UNCHANGED <<clusterVars, counter, historyVars, target, syncMu, boundVars>>

ResyncStart ==
    /\ pc[Resyncer] = "listed" /\ ~syncMu
    /\ target.lastCfg # NoConfig
    /\ syncMu' = TRUE
    /\ cfg' = [cfg EXCEPT ![Resyncer] = target.lastCfg]
    /\ StartLegs(Resyncer, target.lastCfg, to[Resyncer])
    /\ pc' = [pc EXCEPT ![Resyncer] = "pushing"]
    /\ UNCHANGED <<clusterVars, counter, historyVars, target, snap, to, boundVars>>

\* Mutant: the success path forgets to unlock.
ResyncDone_KeepsLock ==
    /\ pc[Resyncer] = "pushing" /\ Delivered(Resyncer) /\ AllOK(Resyncer)
    /\ target' = [target EXCEPT !.hash = target.lastCfg.content,
                                !.endpoints = to[Resyncer]]
    /\ Finish(Resyncer)
    /\ UNCHANGED <<clusterVars, counter, historyVars, syncMu, boundVars>>

ResyncDone ==
    /\ pc[Resyncer] = "pushing" /\ Delivered(Resyncer) /\ AllOK(Resyncer)
    /\ target' = [target EXCEPT !.hash = target.lastCfg.content,
                                !.endpoints = to[Resyncer]]
    /\ syncMu' = FALSE
    /\ Finish(Resyncer)
    /\ UNCHANGED <<clusterVars, counter, historyVars, boundVars>>

\* Mutant: the error is swallowed.
ResyncFailed_Swallowed ==
    /\ pc[Resyncer] = "pushing" /\ Delivered(Resyncer) /\ ~AllOK(Resyncer)
    /\ target' = [target EXCEPT !.hash = NoContent, !.endpoints = {}]
    /\ syncMu' = FALSE
    /\ Finish(Resyncer)
    /\ UNCHANGED <<clusterVars, counter, historyVars, boundVars>>

\* The error makes controller-runtime requeue the request with backoff.
ResyncFailed ==
    /\ pc[Resyncer] = "pushing" /\ Delivered(Resyncer) /\ ~AllOK(Resyncer)
    /\ target' = [target EXCEPT !.hash = NoContent, !.endpoints = {}]
    /\ syncMu' = FALSE
    /\ event' = TRUE
    /\ Finish(Resyncer)
    /\ UNCHANGED <<desired, dirty, attempted, members, replica, late, counter,
                   historyVars, boundVars>>

ResyncStep ==
    ResyncResolve \/ ResyncNothing \/ ResyncStart \/ ResyncDone \/ ResyncFailed

-----------------------------------------------------------------------------
(* The environment                                                         *)

\* A route changes; the change reaches the queue of at least one reconciler.
Change ==
    /\ changes < MaxChanges
    /\ changes' = changes + 1
    /\ desired' \in Contents \ {desired}
    /\ \E W \in SUBSET Reconcilers :
         /\ W # {}
         /\ dirty' = [w \in Workers |-> dirty[w] \/ w \in W]
    /\ UNCHANGED <<attempted, event, members, replica, late, counter,
                   historyVars, target, syncMu, pc, snap, cfg, to, leg, faults>>

DeliverLate(m) ==
    /\ m \in late
    /\ late' = late \ {m}
    /\ IF m.at \in members /\ ~Stale(m.at, m.cfg.version)
         THEN /\ Serve(m.at, m.cfg)
              /\ event' = (event \/ BecomesReady(m.at))
         ELSE UNCHANGED <<replica, event>>
    /\ UNCHANGED <<desired, dirty, attempted, members, counter, historyVars, target,
                   syncMu, pc, snap, cfg, to, leg, boundVars>>

\* A replica joins, leaves, or restarts at its address: it starts empty, its
\* connections are gone, and its EndpointSlice entry changes.
Churn(r) ==
    /\ \/ "earlychurn" \in Faults
       \/ "churn" \in Faults /\ target.lastCfg # NoConfig
    /\ faults < MaxFaults /\ faults' = faults + 1
    /\ members' \in {members \cup {r}, members \ {r}}
    /\ replica' = [replica EXCEPT ![r] = NoConfig]
    /\ late' = {m \in late : m.at # r}
    /\ event' = TRUE
    /\ UNCHANGED <<desired, dirty, attempted, counter, historyVars, target, syncMu,
                   pc, snap, cfg, to, leg, changes>>

\* The requests a dying process had under way.
Unanswered(p, e) ==
    {[at |-> r, cfg |-> Payload(p, e)] :
        r \in IF Sending(p, e) THEN Reach(e) ELSE {}}

\* What a restart does apart from seeding the counter: memory is lost, every
\* object is listed again, requests under way may still arrive.
LoseMemory ==
    /\ epoch < MaxRestarts
    /\ epoch' = epoch + 1
    /\ \E L \in SUBSET UNION {Unanswered(p, e) : p \in Pushers, e \in Endpoints} :
         /\ L # {} => "late" \in Faults
         /\ late' = late \cup L
    /\ dirty' \in {d \in [Workers -> BOOLEAN] : \A w \in StartupLoops : d[w]}
    /\ attempted' = {}
    /\ event' = TRUE
    /\ target' = NoTarget
    /\ syncMu' = FALSE
    /\ pc' = [p \in Pushers |-> "idle"]
    /\ snap' = [p \in Pushers |-> NoContent]
    /\ cfg' = [p \in Pushers |-> NoConfig]
    /\ to' = [p \in Pushers |-> {}]
    /\ leg' = [p \in Pushers |-> NoLegs]
    /\ UNCHANGED <<desired, members, replica, issued, boundVars>>

\* The controller restarts; the counter is seeded from the clock, which has
\* passed every version issued unless it was set back.
Restart ==
    /\ LoseMemory
    /\ \E s \in Seeds : (ClockSkew \/ s >= counter) /\ counter' = s

Environment ==
    \/ Change
    \/ \E m \in late : DeliverLate(m)
    \/ \E r \in Replicas : Churn(r)
    \/ Restart

Next ==
    \/ \E w \in Workers : WorkerStep(w)
    \/ ResyncStep
    \/ \E p \in Pushers, e \in Endpoints : LegStep(p, e)
    \/ Environment

Spec == Init /\ [][Next]_vars

\* Goroutines, HTTP requests with a client timeout and the work queues always
\* make progress, and sync.Mutex hands itself to a waiter that starves; the
\* environment owes nothing.
Fairness ==
    /\ \A w \in Workers : WF_vars(ListAndResolve(w)) /\ SF_vars(LockStep(w))
    /\ WF_vars(ResyncStep)
    /\ \A p \in Pushers, e \in Endpoints : WF_vars(LegStep(p, e))

FairSpec == Spec /\ Fairness
-----------------------------------------------------------------------------
(* Properties                                                              *)

\* Every variable has its type; the resyncer holds syncMu exactly while it
\* pushes (resyncTarget).
TypeOK ==
    /\ desired \in Contents
    /\ dirty \in [Workers -> BOOLEAN]
    /\ attempted \in SUBSET StartupLoops
    /\ event \in BOOLEAN
    /\ members \in SUBSET Replicas
    /\ replica \in [Replicas -> Config]
    /\ late \in SUBSET [at : Replicas, cfg : Config]
    /\ counter \in Nat /\ epoch \in Nat
    /\ issued \in SUBSET Config
    /\ target \in Target
    /\ syncMu = (pc[Resyncer] = "pushing")
    /\ pc \in [Pushers -> {"idle", "listed", "pushing"}]
    /\ snap \in [Pushers -> Contents \cup {NoContent}]
    /\ cfg \in [Pushers -> Config]
    /\ to \in [Pushers -> SUBSET Endpoints]
    /\ leg \in [Pushers -> Legs]
    /\ changes \in Nat /\ faults \in Nat

\* The replicas and the configs behave like the abstract register, whatever
\* is lost, late or restarted, as long as no clock is set back.
Register == INSTANCE ConfigRegister WITH
    Configs <- Config, Empty <- NoConfig, store <- issued, held <- replica
ImplementsRegister == Register!Spec

NoChurn == Faults \cap {"churn", "earlychurn"} = {}

\* Two replicas that report the same version serve the same rules, and so
\* does the cached config a resync would replay: a version names one config.
\* (GET /config exposes only the version, and pushToEndpoint compares only
\* versions, so everything rests on this.)
Agreement ==
    \A c, d \in {replica[r] : r \in Replicas} \cup {target.lastCfg} :
        c.version = d.version => c.content = d.content

\* While the skip key is set, no replica it covers is behind the cached
\* config: shouldSkipPush never hides a replica that missed a push.
SkipKeyCovered ==
    target.hash # NoContent =>
        \A r \in target.endpoints \cap Replicas :
            replica[r].version >= target.lastCfg.version

\* A push is abandoned as a lost race only when the replica really serves a
\* config built later by the same process (the comment in pushToEndpoint).
LostRaceJustified ==
    \A p \in Pushers, r \in Replicas :
        leg[p][r].at = "lost" =>
            /\ replica[r].epoch = epoch
            /\ replica[r].built > cfg[p].built

\* c was built after d: by a later process, or later by the same one.
Newer(c, d) == c.epoch > d.epoch \/ (c.epoch = d.epoch /\ c.built >= d.built)

\* No PUT ever replaces a config by one the same or an earlier process built
\* before it (#584: an older push never overwrites a newer one).
NewerNotOverwritten ==
    [][\A r \in Replicas :
         replica'[r] # NoConfig => Newer(replica'[r], replica[r])]_vars

\* The cached config is older than what some replica serves: a replay of it
\* is refused as stale and abandoned as a lost race.
Overtaken == \E r \in members : target.lastCfg.version < replica[r].version

\* Pushing comes to an end once the cluster is quiet and a replica is up.  The
\* requeues after lost races (withLostRacePushRequeue) and the retries of the
\* startup loops do not chase each other for ever, and neither do the replays,
\* with one exception: when two pushes were recorded in the other order than
\* they were delivered (recordPush), the cache is older than the replicas, and
\* the endpoint reconciler retries a replay that can only lose.
Quiesces ==
    <>[](members # {} =>
            /\ \A w \in Workers : pc[w] = "idle" /\ ~dirty[w]
            /\ (pc[Resyncer] = "idle" /\ ~event) \/ Overtaken)

\* Every replica that is up and empty gets some config, or leaves (#293).
MemberServed ==
    \A r \in Replicas :
        (r \in members /\ replica[r].version = 0)
            ~> (r \notin members \/ replica[r].version > 0)

\* Once the cluster is quiet every replica serves the routes as they are.
Converges == <>[](\A r \in members : replica[r].content = desired)
=============================================================================
