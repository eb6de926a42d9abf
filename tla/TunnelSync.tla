------------------------------ MODULE TunnelSync ------------------------------
(***************************************************************************)
(* The tunnel documents: RouteSyncer.SyncAllRoutes groups the partitions   *)
(* by tunnel and, for each group, reads the deployed ingress document,     *)
(* computes the new one and writes it as a whole (route_syncer.go).  A     *)
(* group that fails is attributed to the Gateways on its tunnel, and the   *)
(* route statuses are written after RouteSyncer.syncMu is released.        *)
(*                                                                         *)
(* Abstractions.  A worker is a controller that syncs, one reconcile at a  *)
(* time, with the flag "dirty" for its queue: HTTPRoute, GRPCRoute, and    *)
(* the infra reconciler, which calls the HTTPRoute controller's sync and   *)
(* drops its result (manager.go TriggerRouteSync).  Every route is         *)
(* accepted on all its parents.  A status is that of the Accepted          *)
(* condition as far as sync errors decide it.  The pushes between the sync *)
(* and the statuses are in ConfigPush and PushTargets.                     *)
(***************************************************************************)
EXTENDS IngressRules

CONSTANTS
    Shared,          \* sharedPartitionKey
    OptedIn,         \* sequence of the opted-in Gateways, sorted by key
    Plain,           \* Gateways on the shared plane
    RouteList,       \* sequence of all routes, in list order
    Kind,            \* Kind[r]: "http" or "grpc"
    Parents,         \* Parents[r]: the Gateways that accept route r
    Entries,         \* Entries[r]: the sequence of route r's entries
    TunnelOf,        \* TunnelOf[k]: the tunnel of partition k
    Tunnels,         \* sequence of the tunnels: the class tunnel, the rest sorted
    Edits,           \* documents somebody else may put in place
    MaxIngressRules,
    Starts,          \* the routes and broken planes the controller may start with
    Silent,          \* whether planes break and heal without an edit of the Gateway
    MaxChanges, MaxFaults, MaxEdits    \* bounds

Kinds == {"http", "grpc"}
Workers == Kinds \cup {"infra"}
\* The routes whose statuses a worker writes.
KindOf(w) == IF w = "infra" THEN "http" ELSE w
Routes == Range(RouteList)
Infra == Range(OptedIn)
Gateways == Infra \cup Plain
TunnelSet == Range(Tunnels)

ASSUME TunnelAssumption ==
    /\ Shared \notin Gateways
    /\ Infra \cap Plain = {}
    /\ OptedIn \in Seq(Infra) /\ RouteList \in Seq(Routes) /\ Tunnels \in Seq(TunnelSet)
    /\ Kind \in [Routes -> Kinds]
    /\ Parents \in [Routes -> SUBSET Gateways]
    /\ Entries \in [Routes -> Seq(Entry)]
    /\ TunnelOf \in [Infra \cup {Shared} -> TunnelSet]
    /\ TunnelOf[Shared] = Tunnels[1]
    /\ Edits \subseteq Seq(Rule)
    /\ MaxIngressRules \in Nat \ {0}
    /\ Starts \subseteq [routes : SUBSET Routes, broken : SUBSET Infra]
    /\ Silent \in BOOLEAN

VARIABLES
    routes,      \* routes that exist
    broken,      \* opted-in Gateways whose data plane is misconfigured
    doc,         \* doc[t]: the ingress document deployed for tunnel t
    dirty,       \* dirty[w]: a reconcile is queued or will be requeued
    holder,      \* who holds RouteSyncer.syncMu
    sync,        \* the sync of the holder: the routes and the Gateways whose
                 \* plane is down, the tunnels to do, the document just read
    out,         \* out[w]: the result whose statuses w has yet to write
    status,      \* status[r][g]: r's Accepted condition for parent g
    foreign,     \* history: doc[t] was edited since the last sync of t
    synced,      \* history: what the last successful sync of t was for
    changes, faults, edits

vars == <<routes, broken, doc, dirty, holder, sync, out, status, foreign,
          synced, changes, faults, edits>>

NoOne == "none"
NoDoc == [read |-> FALSE, rules |-> <<>>]
NoSync == [routes |-> {}, down |-> {}, transient |-> FALSE, todo |-> <<>>,
           cur |-> NoDoc, failed |-> {}, failedPartitions |-> {}]
NoResult == [some |-> FALSE, routes |-> {}, down |-> {}, failed |-> {},
             failedPartitions |-> {}, syncErr |-> FALSE, requeue |-> FALSE]
NoSnapshot == [some |-> FALSE, routes |-> {}, down |-> {}]
NoStatus == [g \in Gateways |-> "none"]

Init ==
    /\ \E s \in Starts : routes = s.routes /\ broken = s.broken
    /\ doc = [t \in TunnelSet |-> <<>>]
    /\ dirty = [w \in Workers |-> w # "infra"]
    /\ holder = NoOne
    /\ sync = NoSync
    /\ out = [w \in Workers |-> NoResult]
    /\ status = [r \in Routes |-> NoStatus]
    /\ foreign = [t \in TunnelSet |-> FALSE]
    /\ synced = [t \in TunnelSet |-> NoSnapshot]
    /\ changes = 0 /\ faults = 0 /\ edits = 0

-----------------------------------------------------------------------------
(* Partitions and tunnel groups                                            *)

\* The partitions of a sync: the shared one, then the Gateways that resolved.
PartitionKeys(down) == <<Shared>> \o Where(OptedIn, Infra \ down)

PartitionKeysFor(r, down) ==
    {IF g \in Infra THEN g ELSE Shared : g \in Parents[r] \ down}

PartitionRoutes(k, down, R) ==
    Where(RouteList, {r \in R : k \in PartitionKeysFor(r, down)})

\* The partitions on one tunnel, and the tunnels in the order of the groups.
GroupPartitions(t, down) == Where(PartitionKeys(down), {k \in Infra \cup {Shared} : TunnelOf[k] = t})
BuildTunnelGroups(down) == Where(Tunnels, {t \in TunnelSet : GroupPartitions(t, down) # <<>>})

\* Mutant: only the first partition of a group contributes its routes.
GroupRoutes_First(t, down, R) == PartitionRoutes(GroupPartitions(t, down)[1], down, R)

\* The union of the group's routes, each of them once.
GroupRoutes(t, down, R) ==
    LET keys == GroupPartitions(t, down)
        all == FlattenSeq([i \in DOMAIN keys |-> PartitionRoutes(keys[i], down, R)])
        first == Where([i \in DOMAIN all |-> i],
                       {i \in DOMAIN all : \A j \in 1..(i - 1) : all[j] # all[i]})
    IN  [i \in DOMAIN first |-> all[first[i]]]

RouteEntries(rs) == FlattenSeq([i \in DOMAIN rs |-> Entries[rs[i]]])

\* The rules of the group's routes (syncTunnelGroup).
GroupRules(t, down, R) ==
    LET OfKind(k) == Where(GroupRoutes(t, down, R), {r \in R : Kind[r] = k})
    IN  IF GroupPartitions(t, down) = <<>> THEN <<>>
        ELSE MergeAndSortRules(Build(RouteEntries(OfKind("http")), TRUE),
                               Build(RouteEntries(OfKind("grpc")), FALSE))

DesiredRules ==
    [t \in TunnelSet |-> [down \in SUBSET Infra |-> [R \in SUBSET Routes |-> GroupRules(t, down, R)]]]

-----------------------------------------------------------------------------
(* SyncAllRoutes                                                           *)

\* RouteSyncer.syncMu is free and w is not busy with an earlier result.
MayBegin(w) == holder = NoOne /\ dirty[w] /\ ~out[w].some

\* The routes, and the Gateways whose data plane does not resolve: the
\* misconfigured ones and those whose configuration cannot be read right now.
Begin(w) ==
    /\ MayBegin(w)
    /\ \E blips \in SUBSET (Infra \ broken) :
         /\ faults' = faults + Cardinality(blips) /\ faults' <= MaxFaults
         /\ sync' = [NoSync EXCEPT !.routes = routes, !.down = broken \cup blips,
                                   !.transient = blips # {},
                                   !.todo = BuildTunnelGroups(broken \cup blips)]
    /\ holder' = w
    /\ dirty' = [dirty EXCEPT ![w] = FALSE]
    /\ UNCHANGED <<routes, broken, doc, out, status, foreign, synced, changes, edits>>

\* An error before the groups.  When the class config, the account or the
\* Gateways cannot be read every route gets the error (buildResultForError);
\* when the routes cannot be listed no status is written.
EarlyError(w) ==
    /\ MayBegin(w)
    /\ faults < MaxFaults /\ faults' = faults + 1
    /\ \/ /\ out' = [out EXCEPT ![w] = [NoResult EXCEPT !.some = TRUE, !.routes = routes,
                                         !.syncErr = TRUE, !.requeue = TRUE]]
          /\ dirty' = [dirty EXCEPT ![w] = FALSE]
       \/ UNCHANGED out /\ dirty' = [dirty EXCEPT ![w] = w # "infra"]
    /\ UNCHANGED <<routes, broken, doc, holder, sync, status, foreign, synced,
                   changes, edits>>

\* A failed group is charged to every partition on its tunnel.
GroupFailed(t) ==
    sync' = [sync EXCEPT !.todo = Tail(@), !.cur = NoDoc, !.failed = @ \cup {t},
               !.failedPartitions = @ \cup Range(GroupPartitions(t, sync.down))]

GroupDone(t) ==
    /\ sync' = [sync EXCEPT !.todo = Tail(@), !.cur = NoDoc]
    /\ synced' = [synced EXCEPT ![t] =
                    [some |-> TRUE, routes |-> sync.routes, down |-> sync.down]]

\* The account lookup and the GET of the next group's document.
GetConfig(w) ==
    /\ holder = w /\ sync.todo # <<>> /\ ~sync.cur.read
    /\ \/ sync' = [sync EXCEPT !.cur = [read |-> TRUE, rules |-> doc[Head(sync.todo)]]] /\ UNCHANGED faults
       \/ faults < MaxFaults /\ faults' = faults + 1 /\ GroupFailed(Head(sync.todo))
    /\ UNCHANGED <<routes, broken, doc, dirty, holder, out, status, foreign,
                   synced, changes, edits>>

\* Diff, limit check, unchanged skip, and the PUT.  A PUT that reports an
\* error may have been applied.
UpdateConfig(w) ==
    LET t == Head(sync.todo)
        cur == sync.cur.rules
        final == FinalRules(cur, DesiredRules[t][sync.down][sync.routes])
        Fault == faults < MaxFaults /\ faults' = faults + 1
        Put == doc' = [doc EXCEPT ![t] = final] /\ foreign' = [foreign EXCEPT ![t] = FALSE]
    IN
    /\ holder = w /\ sync.todo # <<>> /\ sync.cur.read
    /\ \/ /\ Len(final) > MaxIngressRules
          /\ GroupFailed(t)
          /\ UNCHANGED <<doc, foreign, synced, faults>>
       \/ /\ Len(final) <= MaxIngressRules /\ RulesUnchanged(cur, final)
          /\ GroupDone(t)
          /\ foreign' = [foreign EXCEPT ![t] = doc[t] # cur]
          /\ UNCHANGED <<doc, faults>>
       \/ /\ Len(final) <= MaxIngressRules /\ ~RulesUnchanged(cur, final)
          /\ \/ Put /\ GroupDone(t) /\ UNCHANGED faults
             \/ Fault /\ GroupFailed(t) /\ UNCHANGED <<doc, foreign, synced>>
             \/ /\ Fault /\ Put /\ GroupFailed(t)
                /\ synced' = [synced EXCEPT ![t] =
                     [some |-> TRUE, routes |-> sync.routes, down |-> sync.down]]
    /\ UNCHANGED <<routes, broken, dirty, holder, out, status, changes, edits>>

\* Mutant: Gateways that could not be read are not tried again.
EndSync_NotTransient(w) ==
    LET groups == Range(BuildTunnelGroups(sync.down)) IN
    /\ holder = w /\ sync.todo = <<>>
    /\ out' = [out EXCEPT ![w] =
         [some |-> TRUE, routes |-> sync.routes, down |-> sync.down,
          failed |-> sync.failed, failedPartitions |-> sync.failedPartitions,
          syncErr |-> sync.failed = groups, requeue |-> sync.failed # {}]]
    /\ holder' = NoOne
    /\ sync' = NoSync
    /\ UNCHANGED <<routes, broken, doc, dirty, status, foreign, synced, changes,
                   faults, edits>>

\* The end of SyncAllRoutes.  When every group failed the error is global.
EndSync(w) ==
    LET groups == Range(BuildTunnelGroups(sync.down)) IN
    /\ holder = w /\ sync.todo = <<>>
    /\ out' = [out EXCEPT ![w] =
         [some |-> TRUE, routes |-> sync.routes, down |-> sync.down,
          failed |-> sync.failed, failedPartitions |-> sync.failedPartitions,
          syncErr |-> sync.failed = groups,
          requeue |-> sync.failed # {} \/ sync.transient]]
    /\ holder' = NoOne
    /\ sync' = NoSync
    /\ UNCHANGED <<routes, broken, doc, dirty, status, foreign, synced, changes,
                   faults, edits>>

-----------------------------------------------------------------------------
(* Route statuses                                                          *)

\* gatewaySyncError: the parent's plane is down, or its partition failed.
GatewaySyncError(g, res) ==
    \/ g \in res.down
    \/ (IF g \in Infra THEN g ELSE Shared) \in res.failedPartitions

\* buildAcceptedCondition as far as perParentSyncErr decides it.
AcceptedFor(r, res) ==
    [g \in Gateways |-> CASE g \notin Parents[r] -> "none"
                          [] res.syncErr \/ GatewaySyncError(g, res) -> "pending"
                          [] OTHER -> "accepted"]

\* Mutant: a failed status update is logged and forgotten.
UpdateRoutesStatus_DropsErr(w) ==
    LET mine == {r \in out[w].routes : Kind[r] = KindOf(w)} IN
    /\ out[w].some
    /\ \E lost \in SUBSET (mine \cap routes) :
         /\ faults' = faults + Cardinality(lost) /\ faults' <= MaxFaults
         /\ status' = [r \in Routes |-> IF r \in (mine \cap routes) \ lost
                                          THEN AcceptedFor(r, out[w]) ELSE status[r]]
         /\ dirty' = [dirty EXCEPT ![w] =
                @ \/ (w # "infra" /\ (out[w].requeue))]
    /\ out' = [out EXCEPT ![w] = NoResult]
    /\ UNCHANGED <<routes, broken, doc, holder, sync, foreign, synced, changes, edits>>

\* updateRoutesStatus.  A route that is gone, or whose update fails, is an
\* error; that and a requested requeue run the sync again, except for the
\* infra reconciler, which drops the result.
UpdateRoutesStatus(w) ==
    LET mine == {r \in out[w].routes : Kind[r] = KindOf(w)} IN
    /\ out[w].some
    /\ \E lost \in SUBSET (mine \cap routes) :
         /\ faults' = faults + Cardinality(lost) /\ faults' <= MaxFaults
         /\ status' = [r \in Routes |-> IF r \in (mine \cap routes) \ lost
                                          THEN AcceptedFor(r, out[w]) ELSE status[r]]
         /\ dirty' = [dirty EXCEPT ![w] =
                @ \/ (w # "infra" /\ (out[w].requeue \/ lost # {} \/ ~(mine \subseteq routes)))]
    /\ out' = [out EXCEPT ![w] = NoResult]
    /\ UNCHANGED <<routes, broken, doc, holder, sync, foreign, synced, changes, edits>>

WorkerStep(w) ==
    \/ Begin(w) \/ EarlyError(w) \/ GetConfig(w) \/ UpdateConfig(w) \/ EndSync(w)
    \/ UpdateRoutesStatus(w)

-----------------------------------------------------------------------------
(* The environment                                                         *)

Change == changes < MaxChanges /\ changes' = changes + 1
Enqueue(kinds) == dirty' = [w \in Workers |-> dirty[w] \/ w \in kinds]

\* A route is created or deleted.
ChangeRoute(r) ==
    /\ Change
    /\ routes' = IF r \in routes THEN routes \ {r} ELSE routes \cup {r}
    /\ status' = [status EXCEPT ![r] = NoStatus]
    /\ Enqueue({Kind[r]})
    /\ UNCHANGED <<broken, doc, holder, sync, out, foreign, synced, faults, edits>>

\* A plane breaks or is repaired: by an edit of the Gateway, which enqueues
\* the routes that name it, or silently, by its GatewayConfig or Secret,
\* which the route controllers do not watch.  A plane that resolves may be
\* rendered anew, and then the infra reconciler syncs.
ChangePlane(g) ==
    /\ Change
    /\ broken' = IF g \in broken THEN broken \ {g} ELSE broken \cup {g}
    /\ \E rendered \in BOOLEAN :
         /\ rendered => g \in broken
         /\ Enqueue((IF Silent THEN {} ELSE {Kind[r] : r \in {q \in routes : g \in Parents[q]}})
                    \cup (IF rendered THEN {"infra"} ELSE {}))
    /\ UNCHANGED <<routes, doc, holder, sync, out, status, foreign, synced, faults, edits>>

\* Somebody else edits a document; nobody is told.
EditDocument(t, d) ==
    /\ edits < MaxEdits /\ edits' = edits + 1
    /\ doc[t] # d
    /\ doc' = [doc EXCEPT ![t] = d]
    /\ foreign' = [foreign EXCEPT ![t] = TRUE]
    /\ UNCHANGED <<routes, broken, dirty, holder, sync, out, status, synced,
                   changes, faults>>

Environment ==
    \/ \E r \in Routes : ChangeRoute(r)
    \/ \E g \in Infra : ChangePlane(g)
    \/ \E t \in TunnelSet, d \in Edits : EditDocument(t, d)

Next == (\E w \in Workers : WorkerStep(w)) \/ Environment

Spec == Init /\ [][Next]_vars

\* A queued sync gets the mutex in the end (a waiter of a Go mutex is not
\* overtaken for ever), the calls of a sync return, so that it ends, and its
\* statuses are written.  The environment owes nothing.
FairSpec ==
    /\ Spec
    /\ \A w \in Workers :
         /\ SF_vars(Begin(w) \/ EarlyError(w))
         /\ []<>(holder # w)
         /\ WF_vars(UpdateRoutesStatus(w))

-----------------------------------------------------------------------------
(* Properties                                                              *)

\* The tunnel that serves Gateway g.
ServingTunnel(g) == TunnelOf[IF g \in Infra THEN g ELSE Shared]
RulesIn(d) == Range(FilterOutCatchAll(d))
RulesOf == [r \in Routes |-> RulesIn(Build(Entries[r], Kind[r] = "http"))]

\* A sync leaves in a tunnel's document the rules of every route on that
\* tunnel, and of no other: what the partitions promise their tenants, and
\* what the diff against any deployed document must come to.  Whatever it
\* found, the document is one that cloudflared and the Cloudflare API accept:
\* one catch-all, at the end, hostnames grouped, wildcards behind them, and
\* not above the rule limit.
Exact ==
    \A t \in TunnelSet : synced[t].some /\ ~foreign[t] =>
        /\ RulesIn(doc[t]) =
               UNION {RulesOf[r] : r \in {q \in synced[t].routes : \E g \in Parents[q] \ synced[t].down :
                                 ServingTunnel(g) = t}}
        /\ Closed(doc[t]) /\ Ordered(doc[t]) /\ Len(doc[t]) <= MaxIngressRules

Desired(t) == DesiredRules[t][broken][routes]
OverLimit(t) == Len(Desired(t)) + 1 > MaxIngressRules
Attached(g) == \E r \in routes : g \in Parents[r]

\* Once the routes, the planes and the API have calmed down, every tunnel
\* that serves routes comes to hold exactly their rules, unless they are too
\* many or somebody else edited the document last.
Converges ==
    <>[](\A t \in TunnelSet :
           (\E g \in Gateways \ broken :
              Attached(g) /\ ServingTunnel(g) = t) =>
           foreign[t] \/ OverLimit(t) \/ RulesIn(doc[t]) = Range(Desired(t)))

\* The same as long as only the route controllers sync: what they requeue
\* after a failed tunnel or an unreadable Gateway is enough.
RequeuesConverge == []~dirty["infra"] => Converges

Reported ==
    \A r \in routes, g \in Gateways : Kind[r] = "grpc" /\ g \in Parents[r] =>
        CASE g \in broken -> status[r][g] = "pending"
          [] OverLimit(ServingTunnel(g)) -> TRUE
          [] OTHER -> status[r][g] = "accepted"

\* A GRPCRoute's status ends up saying what is the case on each parent: no
\* Pending stays behind after the failure that caused it is over.
GRPCHeals == <>[]Reported
=============================================================================
