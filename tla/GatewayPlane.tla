---------------------------- MODULE GatewayPlane ----------------------------
(***************************************************************************)
(* The controllers that report on Gateways, ListenerSets, policies and     *)
(* classes, and the one that renders a Gateway's own data plane, running   *)
(* against one API server.  A reconcile is cut where another actor may     *)
(* come in between: after its first reads, between the fresh read and the  *)
(* write of a status, and between the read and the write of every object   *)
(* it renders.  Each controller has one worker; an event that arrives      *)
(* while its key is being worked on is kept for later.                     *)
(*                                                                         *)
(* A scenario is a cluster, the changes users make to it, in their order,  *)
(* how often the others may act (spare), and the controllers that run: one *)
(* that does not run wakes nobody, so the running ones have to stay right  *)
(* without its help.  The others are users who put objects of their own at *)
(* a rendered name, lose or annotate a rendered one, the kubelet, the      *)
(* autoscaler, and a crash of the controller.                              *)
(***************************************************************************)
EXTENDS GatewayEvents

CONSTANT Scenarios   \* <<[world, changes, spare, running, foreign], ...>>

VARIABLES scenario,
          world,      \* the specs in the API server
          made,       \* how many of the scenario's changes have been made
          objects,    \* <<gateway, kind>> -> <<>> or <<object>>
          status,     \* controller -> key -> the status it keeps
          store,      \* the view store, shared by the controllers
          queue,      \* requests that wait
          timers,     \* requests that come back by RequeueAfter
          work,       \* controller -> the reconcile under way
          infra,      \* the reconcile under way of the infrastructure
          tokens,     \* the tokens generated: tokens[n] is the uid n was made for
          unsynced,   \* Gateways whose Deployment changed since the last route sync
          spare
vars == <<scenario, world, made, objects, status, store, queue, timers, work, infra, tokens, unsynced, spare>>

Controllers == {"gateway", "set", "policy", "class", "config"}
Kind(c) ==
    CASE c = "gateway" -> "Gateway" [] c = "set" -> "ListenerSet" [] c = "policy" -> "BackendTLSPolicy"
      [] c = "class" -> "GatewayClass" [] c = "config" -> "GatewayClassConfig"

NoStatus(c) ==
    CASE c = "gateway" -> NoGatewayStatus [] c = "set" -> NoSetStatus [] c = "class" -> NoClassStatus
      [] c = "config" -> NoConfigStatus
      [] c = "policy" -> [NoPolicyStatus EXCEPT !.foreign = Scenarios[scenario].foreign]

\* stage is "idle", "compute", "write", or "update" for a finalizer.
Idle == [stage |-> "idle", key |-> <<>>, gen |-> 0, data |-> <<>>, seen |-> <<>>, new |-> <<>>, again |-> FALSE]
NoRender == [stage |-> "idle", key |-> <<>>, mode |-> "", gateway |-> <<>>, config |-> <<>>, resolved |-> <<>>,
             todo |-> <<>>, seen |-> <<>>, rolled |-> FALSE]

Keys(w, c) == IF c = "policy" THEN PolicyKeys(w.policies) ELSE DOMAIN w[Field(Kind(c))]
EmptyStore == [g \in {} |-> <<>>]

\* The requests that have a controller to work on them.
Heard(requests) == {r \in requests : r[1] \in Scenarios[scenario].running}

\* The first list of every watch.
Startup(w) == Heard(UNION {Ask(c, Keys(w, c)) : c \in Controllers} \cup Ask("infra", DOMAIN w.gateways))

Names(s) == {Scenarios[s].changes[i].key : i \in {j \in DOMAIN Scenarios[s].changes : Scenarios[s].changes[j].kind = "Gateway"}}
                \cup DOMAIN Scenarios[s].world.gateways

Init ==
    /\ scenario \in DOMAIN Scenarios
    /\ world = Scenarios[scenario].world
    /\ made = 0
    /\ objects = [o \in Names(scenario) \X (Range(Rendered) \cup {"AuthSecret"}) |-> <<>>]
    /\ status = [c \in Controllers |-> [k \in Keys(world, c) |-> NoStatus(c)]]
    /\ store = EmptyStore
    /\ queue = Startup(world)
    /\ timers = {}
    /\ work = [c \in Controllers |-> Idle]
    /\ infra = NoRender
    /\ tokens = <<>>
    /\ unsynced = {}
    /\ spare = Scenarios[scenario].spare

-----------------------------------------------------------------------------
(* The API server                                                          *)

\* ours is what a lookup of the Gateway's class says.
Reclassified(w) ==
    [w EXCEPT !.gateways = [g \in DOMAIN w.gateways |->
                               [w.gateways[g] EXCEPT !.ours = w.gateways[g].class \in managedClasses(w)]]]

\* A finalizer turns a deletion into a mark.
Held(w, kind, key) ==
    CASE kind = "Gateway" -> w.gateways[key].legacy [] kind = "GatewayClass" -> w.classes[key].finalizer [] OTHER -> FALSE

Deleting(w, kind, key) == [w EXCEPT ![Field(kind)][key].deleting = TRUE, ![Field(kind)][key].gen = @ + 1]

Changed(w, change) ==
    IF change.kind = "Outage" THEN [w EXCEPT !.broken = change.new]
    ELSE IF change.new = <<>> /\ Held(w, change.kind, change.key) THEN Deleting(w, change.kind, change.key)
    ELSE Reclassified(Apply(w, change))

\* The statuses go with their objects.
Carried(w) == [c \in Controllers |-> [k \in Keys(w, c) |-> IF k \in DOMAIN status[c] THEN status[c][k] ELSE NoStatus(c)]]

\* The world becomes w after a change of one object.
Becomes(w, kind, key) ==
    /\ world' = w
    /\ status' = [c \in Controllers |->
                     IF Kind(c) = kind /\ Stored(world, kind, key) = <<>> /\ key \in Keys(w, c)
                     THEN [Carried(w)[c] EXCEPT ![key] = NoStatus(c)] ELSE Carried(w)[c]]
    /\ queue' = queue \cup Heard(Requests(w, kind, key, Stored(world, kind, key), Stored(w, kind, key)))

-----------------------------------------------------------------------------
(* Reconciles of a status, in three steps.  Begin reads what is read once;  *)
(* its answer is [next, gen, data], next being "done", "retry" (an error:   *)
(* the key comes back), "compute" or "update".                              *)

Done == [next |-> "done", gen |-> 0, data |-> <<>>]
Retry == [next |-> "retry", gen |-> 0, data |-> <<>>]
Go(gen, data) == [next |-> "compute", gen |-> gen, data |-> <<data>>]

\* An object that cannot be read is an error, one that is gone is not.
Fresh(c, key) == IF Kind(c) \in world.broken THEN "error" ELSE IF key \in Keys(world, c) THEN "found" ELSE "missing"
Unread(kinds) == world.broken \cap kinds # {}

\* GatewayReconciler.Reconcile: a class that cannot be read is none of ours.
BeginGateway(key) ==
    LET gateway == world.gateways[key]
        r == resolveGatewayConfig(world, key, gateway)
    IN  CASE gateway.deleting /\ gateway.legacy -> [Done EXCEPT !.next = "update"]
          [] ~(gateway.deleting /\ gateway.legacy) /\ (~isGatewayManagedByController(world, gateway) \/ gateway.deleting) -> Done
          [] OTHER -> IF r.mode = "retry" THEN Retry ELSE Go(gateway.gen, r)

\* ListenerSetReconciler.Reconcile: the parent is read here, once, and then
\* the classes.
BeginSet(key) ==
    LET parent == ParentOf(world, key)
    IN  IF Unread({"Gateway"}) THEN Retry
        ELSE IF parent \notin DOMAIN world.gateways THEN Done
        ELSE IF Unread({"GatewayClass"}) THEN Retry
        ELSE IF ~isGatewayManagedByController(world, world.gateways[parent]) THEN Done
        ELSE Go(world.listenerSets[key].gen, [parent |-> parent, gateway |-> world.gateways[parent]])

\* BackendTLSPolicyReconciler.Reconcile: the verdict is reached here, once.
\* Only the lists of routes fail; a Gateway that cannot be read is left out.
BeginPolicy(key) ==
    LET policy == Stored(world, "BackendTLSPolicy", key)[1]
        gateways == gatewaysForPolicy(world, policy)
    IN  IF policy.targets # {} /\ Unread({"HTTPRoute", "GRPCRoute"}) THEN Retry
        ELSE IF gateways = {} THEN Done
        ELSE Go(policy.gen, [policy |-> policy, gateways |-> gateways, verdict |-> computeConditions(world, policy)])

\* GatewayClassReconciler.Reconcile: the Gateways are listed for the finalizer.
BeginClass(key) ==
    LET class == world.classes[key]
        accept == Go(class.gen, [mode |-> "accept"])
    IN  IF ~class.ours THEN Done
        ELSE IF Unread({"Gateway"}) THEN Retry
        ELSE IF reconcileFinalizer(world, key) # class.finalizer THEN [accept EXCEPT !.next = "update"]
        ELSE IF class.deleting THEN Done ELSE accept

\* GatewayClassConfigReconciler.Reconcile
BeginConfig(key) == Go(world.classConfigs[key].gen, [mode |-> "validate"])

BeginAnswer(c, key) ==
    IF Fresh(c, key) = "error" THEN Retry ELSE IF Fresh(c, key) = "missing" THEN Done
    ELSE CASE c = "gateway" -> BeginGateway(key) [] c = "set" -> BeginSet(key) [] c = "policy" -> BeginPolicy(key)
           [] c = "class" -> BeginClass(key) [] c = "config" -> BeginConfig(key)

\* What a write is checked against: <<>> or <<[object, status]>>.
Version(c, key) ==
    IF key \notin Keys(world, c) THEN <<>>
    ELSE <<[object |-> Stored(world, Kind(c), key)[1], status |-> status[c][key]]>>

\* The view of a Gateway that is gone is dropped.
Begin(c, key) ==
    LET a == BeginAnswer(c, key)
    IN  /\ work[c].stage = "idle" /\ <<c, key>> \in queue
        /\ queue' = IF a.next = "retry" THEN queue ELSE queue \ {<<c, key>>}
        /\ work' = IF a.next \in {"done", "retry"} THEN work
                   ELSE [work EXCEPT ![c] = [Idle EXCEPT !.stage = a.next, !.key = key, !.gen = a.gen, !.data = a.data,
                                                         !.seen = IF a.next = "update" THEN Version(c, key) ELSE <<>>]]
        /\ store' = IF c = "gateway" /\ Fresh(c, key) = "missing" THEN forget(store, key) ELSE store
        /\ UNCHANGED <<scenario, world, made, objects, status, timers, infra, tokens, unsynced, spare>>

\* A finalizer is added or removed with an Update of the object that was read:
\* a conflict is an error.  Removing the last one of an object under deletion
\* lets it go.  A class then goes on to its status.
Finalized(c, key) ==
    LET after == [world EXCEPT !.classes[key].finalizer = ~@]
        gone == [kind |-> Kind(c), key |-> key, new |-> <<>>]
    IN  IF c = "gateway" THEN Reclassified(Apply(world, gone))
        ELSE IF world.classes[key].deleting THEN Reclassified(Apply(world, gone)) ELSE after

UpdateFinalizer(c) ==
    LET key == work[c].key
        next == IF c = "class" /\ ~work[c].seen[1].object.deleting
                THEN [work[c] EXCEPT !.stage = "compute", !.seen = <<>>] ELSE Idle
    IN  /\ work[c].stage = "update"
        /\ IF Version(c, key) = work[c].seen
           THEN Becomes(Finalized(c, key), Kind(c), key) /\ work' = [work EXCEPT ![c] = next]
           ELSE /\ queue' = queue \cup {<<c, key>>}
                /\ work' = [work EXCEPT ![c] = Idle]
                /\ UNCHANGED <<world, status>>
        /\ UNCHANGED <<scenario, made, objects, store, timers, infra, tokens, unsynced, spare>>

-----------------------------------------------------------------------------
(* The fresh read, the check that no newer generation was reported, and     *)
(* what there is to write.  The answer is [next, new, store, again].        *)

Computed(new, st) == [next |-> "write", new |-> <<new>>, store |-> st, again |-> FALSE]
Left(next) == [next |-> next, new |-> <<>>, store |-> store, again |-> FALSE]

gatewayStatusStale(reconciled, old) == old.gen > reconciled

\* updateStatus and setConfigErrorStatus, whose failure is only logged
ComputeGateway(w) ==
    LET key == w.key
        r == w.data[1]
        old == status["gateway"][key]
        view == Resolve(world, store, key)
    IN  IF Fresh("gateway", key) # "found" THEN Left(IF r.mode = "error" THEN "done" ELSE "retry")
        ELSE IF gatewayStatusStale(w.gen, old) THEN Left("done")
        ELSE IF r.mode = "error" THEN Computed(setConfigErrorStatus(world, key, old), store)
        ELSE Computed(gatewayStatus(world, key, view.view, r.tunnel, r.mode = "dedicated", objects[<<key, "Deployment">>], old),
                      view.store)

\* The Gateway is the one that was read before.
ComputeSet(w) ==
    LET parent == w.data[1].parent
        then == [world EXCEPT !.gateways = (parent :> w.data[1].gateway) @@ @]
        view == Resolve(then, store, parent)
        allowed == EvaluateListenerSetAcceptance(then, parent, w.key) = "yes"
    IN  IF Fresh("set", w.key) # "found" THEN Left("retry")
        ELSE IF status["set"][w.key].gen > w.gen THEN Left("done")
        ELSE Computed(listenerSetStatus(then, w.key, parent, view.view), IF allowed THEN view.store ELSE store)

ComputePolicy(w) ==
    LET d == w.data[1]
    IN  IF Fresh("policy", w.key) # "found" THEN Left(IF Fresh("policy", w.key) = "error" THEN "retry" ELSE "done")
        ELSE IF \E e \in Range(status["policy"][w.key].ours) : e.gen > w.gen THEN Left("done")
        ELSE Computed(policyStatus(d.policy, d.gateways, d.verdict, status["policy"][w.key]), store)

\* The status is written even when the CRDs cannot be read; the error brings
\* the class back afterwards.
ComputeClass(w) ==
    IF Fresh("class", w.key) # "found" THEN Left("retry")
    ELSE IF ~world.classes[w.key].ours \/ status["class"][w.key].gen > w.gen THEN Left("done")
    ELSE [Computed(classStatus(world, w.key, status["class"][w.key]), store) EXCEPT !.again = BundleUnread(world)]

ComputeConfig(w) ==
    IF Fresh("config", w.key) # "found" THEN Left("retry")
    ELSE IF status["config"][w.key].gen > w.gen THEN Left("done")
    ELSE Computed(validateConfig(world, world.classConfigs[w.key]), store)

ComputeAnswer(c) ==
    CASE c = "gateway" -> ComputeGateway(work[c]) [] c = "set" -> ComputeSet(work[c]) [] c = "policy" -> ComputePolicy(work[c])
      [] c = "class" -> ComputeClass(work[c]) [] c = "config" -> ComputeConfig(work[c])

\* RequeueAfter: 30 s after a configuration error, 5 min for a class
\* configuration.
Delayed(c) ==
    IF c = "config" \/ (c = "gateway" /\ work[c].data[1].mode = "error") THEN {<<c, work[c].key>>} ELSE {}

Compute(c) ==
    LET a == ComputeAnswer(c)
    IN  /\ work[c].stage = "compute"
        /\ work' = [work EXCEPT ![c] = IF a.next # "write" THEN Idle
                       ELSE [@ EXCEPT !.stage = "write", !.seen = Version(c, work[c].key), !.new = a.new, !.again = a.again]]
        /\ queue' = IF a.next = "retry" THEN queue \cup {<<c, work[c].key>>} ELSE queue
        /\ timers' = IF a.next = "done" THEN timers \cup Delayed(c) ELSE timers
        /\ store' = a.store
        /\ UNCHANGED <<scenario, world, made, objects, status, infra, tokens, unsynced, spare>>

\* Status().Update refuses an object that has changed since it was read, and
\* RetryOnConflict computes again.  A write of the same content is an event
\* all the same when the conditions of listeners are stamped anew, which a
\* later second does.
Write(c) ==
    LET key == work[c].key
        new == work[c].new[1]
        again == IF work[c].again THEN {<<c, key>>} ELSE {}
    IN  /\ work[c].stage = "write"
        /\ IF Version(c, key) # work[c].seen
           THEN work' = [work EXCEPT ![c].stage = "compute"] /\ UNCHANGED <<status, queue, timers>>
           ELSE /\ \E later \in BOOLEAN :
                      /\ later => c \in {"gateway", "set"} /\ new.listeners # <<>>
                      /\ queue' = IF new = status[c][key] /\ ~later THEN queue \cup again
                                  ELSE queue \cup again \cup Heard(StatusRequests(world, Kind(c), key))
                /\ status' = [status EXCEPT ![c][key] = new]
                /\ timers' = timers \cup Delayed(c)
                /\ work' = [work EXCEPT ![c] = Idle]
        /\ UNCHANGED <<scenario, world, made, objects, store, infra, tokens, unsynced, spare>>

-----------------------------------------------------------------------------
(* GatewayInfraReconciler.Reconcile                                        *)

At(kind) == <<infra.key, kind>>
Object(kind) == objects[At(kind)]

\* The reconcile goes on at a stage, ends, or fails and comes back.
InfraGoes(next) == infra' = next /\ UNCHANGED queue
InfraEnds == infra' = NoRender /\ UNCHANGED queue
InfraFails == infra' = NoRender /\ queue' = queue \cup {<<"infra", infra.key>>}

\* Up to the first object that is touched.  A class that is missing, or a
\* Gateway under deletion, leaves everything in place.
InfraBegins(key) ==
    LET gateway == world.gateways[key]
        class == classifyGatewayClass(world, gateway.class)
        start == [NoRender EXCEPT !.key = key, !.gateway = <<gateway>>]
        cleanup == [start EXCEPT !.stage = "apply", !.mode = "cleanup", !.todo = Rendered]
        ensure == [start EXCEPT !.stage = "ensure", !.mode = "render", !.config = <<ConfigOf(world, key, gateway)>>]
    IN  IF Get(world, "Gateway", world.gateways, key) # "found" THEN NoRender
        ELSE CASE class = "foreign" -> cleanup
               [] class \in {"unknown", "error"} -> NoRender
               [] OTHER -> IF gateway.deleting THEN NoRender
                           ELSE IF ~HasInfrastructureParametersRef(gateway) THEN cleanup
                           ELSE IF getGatewayConfig(world, key, gateway) # "ok" THEN NoRender
                           ELSE ensure

\* handleResolveError: what only the user can mend is not tried again.
InfraRetries(key) ==
    LET gateway == world.gateways[key]
        class == classifyGatewayClass(world, gateway.class)
    IN  \/ Unread({"Gateway"})
        \/ /\ key \in DOMAIN world.gateways
           /\ class = "error"
        \/ /\ key \in DOMAIN world.gateways
           /\ class = "managed" /\ ~gateway.deleting /\ HasInfrastructureParametersRef(gateway)
           /\ getGatewayConfig(world, key, gateway) = "transient"

InfraBegin(key) ==
    /\ infra.stage = "idle" /\ <<"infra", key>> \in queue
    /\ infra' = InfraBegins(key)
    /\ queue' = IF InfraRetries(key) THEN queue ELSE queue \ {<<"infra", key>>}
    /\ UNCHANGED <<scenario, world, made, objects, status, store, timers, work, tokens, unsynced, spare>>

\* ensureGeneratedAuthSecret: a Secret that is there is used if it is the
\* Gateway's own, and never written.
EnsureAuth ==
    /\ infra.stage \in {"ensure", "reread"}
    /\ CASE infra.config[1].auth # <<>> -> InfraGoes([infra EXCEPT !.stage = "resolve"])
         [] infra.config[1].auth = <<>> /\ Object("AuthSecret") # <<>> ->
                IF assertAdoptable(infra.gateway[1], Object("AuthSecret")[1])
                THEN InfraGoes([infra EXCEPT !.stage = "resolve"]) ELSE InfraFails
         [] OTHER -> IF infra.stage = "ensure" THEN InfraGoes([infra EXCEPT !.stage = "create"]) ELSE InfraFails
    /\ UNCHANGED <<scenario, world, made, objects, status, store, timers, work, tokens, unsynced, spare>>

AuthSecret(uid, n) == [owner |-> uid, notes |-> {}, managed |-> {}, spec |-> [token |-> [by |-> "controller", n |-> n]], ready |-> FALSE]

\* Mutant: AlreadyExists is as good as created.
CreateLost_Ignored == "resolve"

\* AlreadyExists: the race is lost, and what won it is looked at.
CreateLost == "reread"

CreateAuth ==
    LET uid == infra.gateway[1].uid
        secret == <<AuthSecret(uid, Len(tokens) + 1)>>
    IN  /\ infra.stage = "create"
        /\ IF Object("AuthSecret") # <<>>
           THEN InfraGoes([infra EXCEPT !.stage = CreateLost]) /\ UNCHANGED <<objects, tokens>>
           ELSE /\ objects' = [objects EXCEPT ![At("AuthSecret")] = secret]
                /\ tokens' = Append(tokens, uid)
                /\ queue' = queue \cup Heard(ObjectRequests(world, infra.key, "AuthSecret", secret))
                /\ infra' = [infra EXCEPT !.stage = "resolve"]
        /\ UNCHANGED <<scenario, world, made, status, store, timers, work, unsynced, spare>>

\* ResolveForGateway for the Gateway as it was read, all else read anew.
ResolveRender ==
    LET r == ResolveForGateway(world, infra.key, infra.gateway[1], Object("AuthSecret"))
        config == ConfigOf(world, infra.key, infra.gateway[1])
    IN  /\ infra.stage = "resolve"
        /\ CASE r.outcome = "invalid" -> InfraEnds
             [] r.outcome = "transient" -> InfraFails
             [] OTHER -> IF ~HasImage(config) THEN InfraEnds
                         ELSE InfraGoes([infra EXCEPT !.stage = "apply", !.config = <<config>>, !.resolved = <<r>>, !.todo = Rendered])
        /\ UNCHANGED <<scenario, world, made, objects, status, store, timers, work, tokens, unsynced, spare>>

\* Mutant: the autoscaler is forgotten.
Advanced_Skips(i) == IF Len(i.todo) > 2 THEN [i EXCEPT !.stage = "apply", !.todo = Tail(Tail(@)), !.seen = <<>>] ELSE NoRender

\* On to the next object; after the last one the reconcile is over.
Advanced(i) == IF Len(i.todo) > 1 THEN [i EXCEPT !.stage = "apply", !.todo = Tail(@), !.seen = <<>>] ELSE NoRender

\* The full route sync that follows a rendering in which the Deployment was
\* written; its failure is left to the next reconcile of a route.
Synced(i) == IF i.mode = "render" /\ i.rolled /\ Len(i.todo) = 1 THEN {} ELSE unsynced

\* The read of CreateOrUpdate or of deleteIfOwned, for the next object.
ApplyRead ==
    LET kind == Head(infra.todo)
        object == Object(kind)
        wanted == infra.mode = "render" /\ Wanted(infra.config[1], kind)
        owned == object # <<>> /\ assertAdoptable(infra.gateway[1], object[1])
    IN  /\ infra.stage = "apply"
        /\ CASE wanted /\ (object = <<>> \/ owned) ->
                     InfraGoes([infra EXCEPT !.stage = "put", !.seen = object]) /\ UNCHANGED unsynced
             [] wanted /\ ~(object = <<>> \/ owned) -> InfraFails /\ UNCHANGED unsynced
             [] OTHER -> IF owned THEN InfraGoes([infra EXCEPT !.stage = "delete"]) /\ UNCHANGED unsynced
                         ELSE InfraGoes(Advanced(infra)) /\ unsynced' = Synced(infra)
        /\ UNCHANGED <<scenario, world, made, objects, status, store, timers, work, tokens, spare>>

\* Create fails on an object that is there, Update on one that has changed;
\* nothing is written when nothing differs.
ApplyPut ==
    LET kind == Head(infra.todo)
        new == <<Applied(infra.gateway[1], kind, SpecOf(infra.config[1], infra.resolved[1], kind), infra.seen)>>
        rolls == kind = "Deployment" /\ new # infra.seen
        after == [infra EXCEPT !.rolled = @ \/ rolls]
    IN  /\ infra.stage = "put"
        /\ IF Object(kind) # infra.seen THEN InfraFails /\ UNCHANGED <<objects, unsynced>>
           ELSE /\ objects' = [objects EXCEPT ![At(kind)] = new]
                /\ queue' = IF new = infra.seen THEN queue
                            ELSE queue \cup Heard(ObjectRequests(world, infra.key, kind, infra.seen \o new))
                /\ infra' = Advanced(after)
                /\ unsynced' = IF rolls THEN unsynced \cup {infra.key} ELSE Synced(after)
        /\ UNCHANGED <<scenario, world, made, status, store, timers, work, tokens, spare>>

\* Delete goes by name: whatever is there now.
ApplyDelete ==
    LET kind == Head(infra.todo)
    IN  /\ infra.stage = "delete"
        /\ objects' = [objects EXCEPT ![At(kind)] = <<>>]
        /\ queue' = queue \cup Heard(ObjectRequests(world, infra.key, kind, Object(kind)))
        /\ infra' = Advanced(infra)
        /\ unsynced' = Synced(infra)
        /\ UNCHANGED <<scenario, world, made, status, store, timers, work, tokens, spare>>

-----------------------------------------------------------------------------
(* The others                                                              *)

\* The next change of the scenario.
Change ==
    LET change == Scenarios[scenario].changes[made + 1]
    IN  /\ made < Len(Scenarios[scenario].changes)
        /\ made' = made + 1
        /\ IF change.kind = "Outage" THEN world' = Changed(world, change) /\ UNCHANGED <<status, queue>>
           ELSE Becomes(Changed(world, change), change.kind, change.key)
        /\ UNCHANGED <<scenario, objects, store, timers, work, infra, tokens, unsynced, spare>>

Uids == {world.gateways[g].uid : g \in DOMAIN world.gateways}
Theirs(kind) ==
    [owner |-> Somebody, notes |-> {}, managed |-> {}, ready |-> FALSE,
     spec |-> CASE kind = "Deployment" -> [tunnel |-> "theirs", auth |-> [by |-> "somebody", n |-> 0], replicas |-> <<1>>]
                [] kind = "AuthSecret" -> [token |-> [by |-> "somebody", n |-> 0]]
                [] OTHER -> <<>>]

Uses(act) == spare[act] > 0 /\ spare' = [spare EXCEPT ![act] = @ - 1]

\* Somebody else replaces an object.
Others(o, new) ==
    /\ objects' = [objects EXCEPT ![o] = new]
    /\ queue' = queue \cup Heard(ObjectRequests(world, o[1], o[2], objects[o] \o new))
    /\ UNCHANGED <<scenario, world, made, status, store, timers, work, infra, tokens, unsynced>>

\* A user's object where the controller would put its own, and its removal.
Squat(o) == objects[o] = <<>> /\ Others(o, <<Theirs(o[2])>>) /\ Uses("squats")
Leave(o) == objects[o] # <<>> /\ objects[o][1].owner = Somebody /\ Others(o, <<>>) /\ UNCHANGED spare
\* A rendered object is lost, or annotated.
Lose(o) == objects[o] # <<>> /\ objects[o][1].owner # Somebody /\ Others(o, <<>>) /\ Uses("losses")
Annotate(o) == objects[o] # <<>> /\ Others(o, <<[objects[o][1] EXCEPT !.notes = @ \cup {"theirs"}]>>) /\ Uses("notes")
\* The garbage collector removes what belongs to a Gateway that is gone.
Collect(o) == objects[o] # <<>> /\ objects[o][1].owner \notin Uids \cup {Somebody} /\ Others(o, <<>>) /\ UNCHANGED spare
\* Replicas become ready, or stop being so; the autoscaler scales.
Flip(o) == o[2] = "Deployment" /\ objects[o] # <<>> /\ Others(o, <<[objects[o][1] EXCEPT !.ready = ~@]>>) /\ Uses("flips")
Scale(o) ==
    /\ o[2] = "Deployment" /\ objects[o] # <<>> /\ objects[<<o[1], "Autoscaler">>] # <<>>
    /\ Others(o, <<[objects[o][1] EXCEPT !.spec.replicas = <<3>>]>>) /\ Uses("scales")

\* RequeueAfter is over.
Fire(r) ==
    /\ timers' = timers \ {r}
    /\ queue' = queue \cup {r}
    /\ UNCHANGED <<scenario, world, made, objects, status, store, work, infra, tokens, unsynced, spare>>

\* The process starts over: it lists everything and syncs all routes.
Crash ==
    /\ spare.crashes > 0
    /\ spare' = [spare EXCEPT !.crashes = @ - 1]
    /\ store' = EmptyStore /\ timers' = {} /\ unsynced' = {}
    /\ work' = [c \in Controllers |-> Idle] /\ infra' = NoRender
    /\ queue' = Startup(world)
    /\ UNCHANGED <<scenario, world, made, objects, status, tokens>>

Next ==
    \/ \E c \in Controllers : \E key \in {r[2] : r \in {q \in queue : q[1] = c}} : Begin(c, key)
    \/ \E c \in Controllers : UpdateFinalizer(c) \/ Compute(c) \/ Write(c)
    \/ \E key \in {r[2] : r \in {q \in queue : q[1] = "infra"}} : InfraBegin(key)
    \/ EnsureAuth \/ CreateAuth \/ ResolveRender \/ ApplyRead \/ ApplyPut \/ ApplyDelete
    \/ Change
    \/ \E o \in DOMAIN objects : \/ Squat(o) \/ Leave(o) \/ Lose(o) \/ Annotate(o)
                                 \/ Collect(o) \/ Flip(o) \/ Scale(o)
    \/ \E r \in timers : Fire(r)
    \/ Crash

Spec == Init /\ [][Next]_vars

-----------------------------------------------------------------------------
(* Properties                                                              *)

Runs(c) == c \in Scenarios[scenario].running
Rest == world.broken = {} /\ queue = {} /\ infra.stage = "idle" /\ \A c \in Controllers : work[c].stage = "idle"
Ours == {g \in DOMAIN world.gateways : isGatewayManagedByController(world, world.gateways[g])}

\* What a reconcile from nothing would report now.
GatewayTarget(key) ==
    LET r == resolveGatewayConfig(world, key, world.gateways[key])
        old == status["gateway"][key]
    IN  IF r.mode = "error" THEN setConfigErrorStatus(world, key, old)
        ELSE gatewayStatus(world, key, Resolve(world, EmptyStore, key).view, r.tunnel, r.mode = "dedicated",
                           objects[<<key, "Deployment">>], old)

\* A configuration error of a plane of its own that is looked at again by
\* RequeueAfter: no watch tells of its connector token.
Awaits(g) ==
    /\ <<"gateway", g>> \in timers
    /\ HasInfrastructureParametersRef(world.gateways[g]) /\ status["gateway"][g].accepted = "InvalidParameters"

\* When nothing is queued or under way, what the controllers have reported is
\* what they would report now: no change of a listener, a route, a grant, a
\* credential or a rendered Deployment was lost between the read and the
\* write of a status, in the view store or in the mapping of its event, and
\* the client certificate is judged even where the configuration fails.  Left
\* out are a Gateway that awaits its RequeueAfter and the policy that no
\* Gateway of ours reaches, whose status is left as it was.  A class is
\* held by its finalizer as long as a Gateway uses it and no longer, and no
\* Gateway is left held by the finalizer of an earlier release.
StatusesCurrent ==
    Rest => /\ Runs("gateway") => \A g \in Ours : \/ Awaits(g)
                                                   \/ /\ status["gateway"][g] = GatewayTarget(g)
                                                      /\ status["gateway"][g].cert = buildClientCertResolvedRefsCondition(world, g)
            /\ Runs("set") => \A s \in DOMAIN world.listenerSets : ParentOf(world, s) \in Ours =>
                   LET parent == ParentOf(world, s)
                   IN  status["set"][s] = listenerSetStatus(world, s, parent, Resolve(world, EmptyStore, parent).view)
            /\ Runs("policy") => \A p \in world.policies :
                   LET gateways == gatewaysForPolicy(world, p)
                       old == status["policy"][<<p.ns, p.name>>]
                   IN  gateways # {} => old = policyStatus(p, gateways, computeConditions(world, p), old)
            /\ Runs("config") => \A c \in DOMAIN world.classConfigs : status["config"][c] = validateConfig(world, world.classConfigs[c])
            /\ Runs("class") => \A c \in managedClasses(world) :
                   IF world.classes[c].deleting THEN InUse(world, c)
                   ELSE /\ world.classes[c].finalizer = InUse(world, c)
                        /\ status["class"][c] = classStatus(world, c, status["class"][c])
            /\ Runs("gateway") => \A g \in DOMAIN world.gateways : ~world.gateways[g].deleting

Owned(g, kind) == objects[<<g, kind>>] # <<>> /\ objects[<<g, kind>>][1].owner = world.gateways[g].uid

\* When nothing is queued or under way, a Gateway that asks for a data plane
\* of its own and resolves has exactly the objects its configuration renders
\* to now, all of them its own, with the tokens of now; one that does not ask
\* or went to another controller has none left.
RenderedCurrent ==
    Rest /\ Runs("infra") => \A g \in DOMAIN world.gateways :
        LET gateway == world.gateways[g]
            class == classifyGatewayClass(world, gateway.class)
            r == ResolveForGateway(world, g, gateway, objects[<<g, "AuthSecret">>])
            config == ConfigOf(world, g, gateway)
            Fits(kind) == /\ Owned(g, kind)
                          /\ objects[<<g, kind>>] =
                                 <<Applied(gateway, kind, SpecOf(config, r, kind), objects[<<g, kind>>])>>
        IN  IF class = "foreign" \/ (class = "managed" /\ gateway.params = <<>>)
            THEN \A kind \in Range(Rendered) : ~Owned(g, kind)
            ELSE (class = "managed" /\ getGatewayConfig(world, g, gateway) = "ok" /\ r.outcome = "ok" /\ HasImage(config)) =>
                     \A kind \in Range(Rendered) : IF Wanted(config, kind) THEN Fits(kind) ELSE ~Owned(g, kind)

\* Nobody has removed a rendered object yet.
Undisturbed == spare.losses = Scenarios[scenario].spare.losses

\* A Deployment of a Gateway that exists is wired to the push token that was
\* generated for this very Gateway, or to the one its configuration names;
\* never to what somebody put at the Secret's name, before or while the
\* reconcile looks at it.  (The Secret is read twice: one that is removed and
\* replaced by somebody between the two reads gets through.)
OwnToken ==
    Undisturbed => \A g \in DOMAIN world.gateways : Owned(g, "Deployment") =>
        LET auth == objects[<<g, "Deployment">>][1].spec.auth
        IN  auth.by # "somebody" /\ (auth.by = "controller" => tokens[auth.n] = world.gateways[g].uid)

\* The controller leaves alone what is not its own: an object of somebody
\* else at one of its names, the annotations others put on an object it
\* renders, and the replicas of a Deployment an autoscaler scales.  (Delete
\* goes by name: an object that somebody puts in the place of a removed one,
\* after deleteIfOwned has looked, goes with it.)
OthersKept ==
    [][infra' # infra =>
        \A o \in DOMAIN objects : objects[o] # <<>> =>
            /\ Undisturbed /\ objects[o][1].owner = Somebody => objects'[o] = objects[o]
            /\ objects'[o] # <<>> =>
                  /\ objects[o][1].notes \ objects[o][1].managed \subseteq objects'[o][1].notes
                  /\ (o[2] = "Deployment" /\ infra.config # <<>> /\ infra.config[1].hpa # <<>>) =>
                         objects'[o][1].spec.replicas = objects[o][1].spec.replicas]_vars

\* A full route sync follows every rendering that changed the Deployment of a
\* Gateway of ours (gateway_infra_reconciler.go:338: "Trigger a full route
\* sync whenever the data plane's SPEC changed").
SyncFollows == Rest => \A g \in Ours : Owned(g, "Deployment") => g \notin unsynced
=============================================================================
