------------------------- MODULE ControlPlane_proofs -------------------------
(***************************************************************************)
(* The statuses that the route controllers share with other controllers,   *)
(* and what a sync serves, for every cluster, every change of it and every *)
(* schedule.                                                               *)
(***************************************************************************)
EXTENDS ControlPlane, Routes_proofs

-----------------------------------------------------------------------------
(* Statuses                                                                *)

IsStatus(s) ==
    /\ s = [ours |-> s.ours, foreign |-> s.foreign]
    /\ s.ours \in Seq(Range(s.ours)) /\ s.foreign \in Seq(Nat)
    /\ Len(s.ours) + Len(s.foreign) <= RouteParentStatusMaxCount

\* The inductive invariant: a status for each route, with room for no more
\* entries than the API allows.
StatusInv ==
    /\ scenario \in DOMAIN Scenarios /\ left \subseteq DOMAIN Scenarios[scenario].changes
    /\ IsWorld(world)
    /\ DOMAIN status = {Key(r) : r \in world.routes}
    /\ \A k \in DOMAIN status : IsStatus(status[k])

(* A route without entries.                                                 *)
LEMMA NoStatusIs == IsStatus(NoStatus)
<1>1. NoStatus.ours = <<>> /\ NoStatus.foreign = <<>> /\ Range(<<>>) = {}
  BY DEF NoStatus, Range
<1>2. <<>> \in Seq({}) /\ <<>> \in Seq(Nat) /\ Len(<<>>) = 0
  OBVIOUS
<1>3. NoStatus = [ours |-> NoStatus.ours, foreign |-> NoStatus.foreign]
  BY DEF NoStatus
<1> QED
  BY <1>1, <1>2, <1>3, RouteParentStatusMaxCountAssumption DEF IsStatus

(* What is kept of n entries beside f others fits into m.                   *)
LEMMA RoomIs ==
    ASSUME NEW m \in Nat, NEW f \in Nat, f <= m, NEW n \in Nat
    PROVE  LET room == m - f
               available == IF room > 0 THEN room ELSE 0
               count == IF n > available THEN available ELSE n
           IN  count \in Nat /\ count <= n /\ count + f <= m
OBVIOUS

(* The rewritten status keeps the entries of others and finds room for      *)
(* those of ours that it keeps.                                             *)
LEMMA UpdateIs ==
    ASSUME NEW w, NEW outcome, NEW route, IsRoute(route), NEW s, IsStatus(s)
    PROVE  LET u == updateRouteParentStatuses(w, outcome, route, s) IN u.foreign = s.foreign /\ IsStatus(u)
<1> DEFINE picked == [i \in DOMAIN route.parents |->
                         IF parentRefSelectsManagedGateway(w, route, route.parents[i]) THEN <<i>> ELSE <<>>]
           ours == FlattenSeq(picked)
           room == RouteParentStatusMaxCount - Len(s.foreign)
           available == IF room > 0 THEN room ELSE 0
           count == IF Len(ours) > available THEN available ELSE Len(ours)
           kept == SubSeq(ours, 1, count)
           entries == [n \in DOMAIN kept |-> buildParentStatus(outcome, route, kept[n])]
           u == updateRouteParentStatuses(w, outcome, route, s)
<1>1. u = IF statusGenerationStale(outcome.route.gen, s) THEN s ELSE [s EXCEPT !.ours = entries]
  BY DEF updateRouteParentStatuses
<1>2. ours \in Seq(Nat)
  <2>1. Len(route.parents) \in Nat /\ DOMAIN route.parents = 1..Len(route.parents)
    BY DEF IsRoute
  <2>2. \A i \in DOMAIN route.parents : <<i>> \in Seq(Nat) /\ <<>> \in Seq(Nat)
    BY <2>1
  <2>3. picked \in Seq(Seq(Nat))
    BY <2>1, <2>2
  <2> HIDE DEF picked
  <2> QED
    BY <2>3, FlattenElements
<1> HIDE DEF ours
<1>3. Len(s.foreign) \in Nat /\ Len(s.ours) \in Nat /\ RouteParentStatusMaxCount \in Nat
      /\ Len(s.ours) + Len(s.foreign) <= RouteParentStatusMaxCount
  BY RouteParentStatusMaxCountAssumption DEF IsStatus
<1>4. count \in Nat /\ count <= Len(ours) /\ count + Len(s.foreign) <= RouteParentStatusMaxCount
  <2> DEFINE f == Len(s.foreign)
             n == Len(ours)
  <2>1. \A a, b \in Nat : a + b <= RouteParentStatusMaxCount => b <= RouteParentStatusMaxCount
    BY <1>3
  <2>2. f \in Nat /\ f <= RouteParentStatusMaxCount
    BY Zenon, <1>3, <2>1
  <2>3. n \in Nat
    BY <1>2
  <2> HIDE DEF f, n
  <2> QED
    BY <1>3, <2>2, <2>3, RoomIs DEF f, n
<1> HIDE DEF count
<1>5. Len(kept) = count /\ DOMAIN kept = 1..count
  BY <1>2, <1>4
<1> HIDE DEF kept
<1>6. entries \in Seq(Range(entries)) /\ Len(entries) = count
  <2>1. DOMAIN entries = 1..count /\ entries = [i \in 1..count |-> entries[i]]
    BY <1>5
  <2> HIDE DEF entries
  <2>2. \A i \in 1..count : entries[i] \in Range(entries)
    BY <2>1 DEF Range
  <2> QED
    BY <1>4, <2>1, <2>2
<1> HIDE DEF entries, u
<1>7. CASE statusGenerationStale(outcome.route.gen, s)
  BY <1>1, <1>7 DEF u
<1>8. CASE ~statusGenerationStale(outcome.route.gen, s)
  <2>1. u = [ours |-> entries, foreign |-> s.foreign]
    BY <1>1, <1>8 DEF IsStatus
  <2>2. u.ours = entries /\ u.foreign = s.foreign /\ u = [ours |-> u.ours, foreign |-> u.foreign]
    BY <2>1
  <2>3. s.foreign \in Seq(Nat)
    BY DEF IsStatus
  <2>4. IsStatus(u)
    BY <1>4, <1>6, <2>2, <2>3 DEF IsStatus
  <2> QED
    BY <2>2, <2>4 DEF u
<1> QED
  BY <1>7, <1>8

(* Every step keeps the statuses in shape, and the entries of others.       *)
LEMMA StatusStep ==
    ASSUME StatusInv, [Next]_vars
    PROVE  /\ StatusInv'
           /\ \A k \in DOMAIN status \cap DOMAIN status' : IsPrefix(status[k].foreign, status'[k].foreign)
<1> DEFINE Kept == \A k \in DOMAIN status \cap DOMAIN status' : IsPrefix(status[k].foreign, status'[k].foreign)
<1>1. \A s \in Seq(Nat) : IsPrefix(s, s)
  BY DEF IsPrefix
<1>2. \A k \in DOMAIN status : status[k].foreign \in Seq(Nat)
  BY DEF StatusInv, IsStatus
<1>3. ASSUME UNCHANGED <<scenario, world, status>>, left' = left
      PROVE  StatusInv' /\ Kept
  BY <1>1, <1>2, <1>3 DEF StatusInv
<1>4. ASSUME NEW i \in left, Change(i)
      PROVE  StatusInv' /\ Kept
  <2> DEFINE change == Scenarios[scenario].changes[i]
             after == Apply(world, change)
  <2>1. /\ left' = left \ {i} /\ scenario' = scenario /\ world' = after
        /\ status' = [k \in {Key(r) : r \in after.routes} |->
                         IF k \in DOMAIN status /\ Stored(world, k[1], k) # <<>> THEN status[k] ELSE NoStatus]
    BY <1>4 DEF Change, Notice
  <2>2. IsChange(change)
    BY ScenariosAssumption DEF StatusInv
  <2>3. IsWorld(after)
    <3> HIDE DEF change
    <3> QED
      BY <2>2, ApplyIs DEF StatusInv
  <2> HIDE DEF change, after
  <2>4. \A k \in DOMAIN status : Stored(world, k[1], k) # <<>>
    <3>1. ASSUME NEW k \in DOMAIN status
          PROVE  Stored(world, k[1], k) # <<>>
      <4>1. k \in {Key(r) : r \in world.routes} /\ \A r \in world.routes : IsRoute(r)
        BY DEF StatusInv, IsWorld
      <4>2. PICK r \in world.routes : Stored(world, k[1], k) = <<r>>
        BY <4>1, StoredIs
      <4> QED
        BY <4>2
    <3> QED
      BY <3>1
  <2>5. DOMAIN status' = {Key(r) : r \in world'.routes} /\ \A k \in DOMAIN status' : IsStatus(status'[k])
    BY <2>1, NoStatusIs DEF StatusInv
  <2>6. StatusInv'
    BY <2>1, <2>3, <2>5 DEF StatusInv, IsStatus
  <2>7. \A k \in DOMAIN status \cap DOMAIN status' : status'[k] = status[k]
    BY <2>1, <2>4
  <2> QED
    BY <1>1, <1>2, <2>6, <2>7
<1>5. ASSUME NEW k \in DOMAIN status, Foreign(k)
      PROVE  StatusInv' /\ Kept
  <2> DEFINE s == status[k]
             t == [ours |-> s.ours, foreign |-> Append(s.foreign, Len(s.foreign) + 1)]
  <2>1. IsStatus(s)
    BY DEF StatusInv
  <2>2. Len(s.ours) + Len(s.foreign) < RouteParentStatusMaxCount /\ UNCHANGED <<scenario, world, left>>
    BY <1>5 DEF Foreign
  <2>3. status' = [status EXCEPT ![k] = t]
    <3>1. status' = [status EXCEPT ![k] = [s EXCEPT !.foreign = Append(s.foreign, Len(s.foreign) + 1)]]
      BY <1>5, Zenon DEF Foreign
    <3>2. s = [ours |-> s.ours, foreign |-> s.foreign]
      BY <2>1 DEF IsStatus
    <3>3. ASSUME NEW x
          PROVE  [s EXCEPT !.foreign = x] = [ours |-> s.ours, foreign |-> x]
      <4> HIDE DEF s
      <4> QED
        BY <3>2
    <3>4. [s EXCEPT !.foreign = Append(s.foreign, Len(s.foreign) + 1)] = t
      <4> HIDE DEF s
      <4> QED
        BY Zenon, <3>3
    <3> QED
      BY <3>1, <3>4
  <2>4. s.foreign \in Seq(Nat) /\ Len(s.foreign) \in Nat /\ Len(s.ours) \in Nat /\ s.ours \in Seq(Range(s.ours))
    BY <2>1 DEF IsStatus
  <2> HIDE DEF s
  <2>5. Append(s.foreign, Len(s.foreign) + 1) \in Seq(Nat) /\ Len(Append(s.foreign, Len(s.foreign) + 1)) = Len(s.foreign) + 1
    BY <2>4
  <2>6. t.ours = s.ours /\ t.foreign = Append(s.foreign, Len(s.foreign) + 1) /\ t = [ours |-> t.ours, foreign |-> t.foreign]
    OBVIOUS
  <2> HIDE DEF t
  <2>7. IsStatus(t)
    <3>1. \A o, f \in Nat : o + f < RouteParentStatusMaxCount => o + (f + 1) <= RouteParentStatusMaxCount
      BY RouteParentStatusMaxCountAssumption
    <3>2. Len(t.ours) + Len(t.foreign) <= RouteParentStatusMaxCount
      BY Zenon, <2>2, <2>4, <2>5, <2>6, <3>1
    <3> QED
      BY Zenon, <2>4, <2>5, <2>6, <3>2 DEF IsStatus
  <2>8. IsPrefix(s.foreign, t.foreign)
    <3> DEFINE f == s.foreign
               g == t.foreign
    <3>1. f \in Seq(Nat) /\ g \in Seq(Nat) /\ Len(f) \in Nat /\ Len(g) = Len(f) + 1 /\ \A i \in 1..Len(f) : g[i] = f[i]
      BY <2>4, <2>5, <2>6
    <3> HIDE DEF f, g
    <3>2. SubSeq(f, 1, Len(f)) = f
      BY <3>1
    <3>3. SubSeq(g, 1, Len(f)) = f
      BY <3>1
    <3> QED
      BY <3>1, <3>2, <3>3 DEF IsPrefix, f, g
  <2>9. DOMAIN status' = DOMAIN status /\ status'[k] = t /\ \A j \in DOMAIN status \ {k} : status'[j] = status[j]
    BY <2>3
  <2>10. StatusInv'
    BY <2>2, <2>7, <2>9 DEF StatusInv, IsStatus
  <2> QED
    BY <1>1, <1>2, <2>8, <2>9, <2>10 DEF s
<1>6. ASSUME WriteStatus
      PROVE  StatusInv' /\ Kept
  <2> DEFINE k == Key(sync.todo[1].route)
  <2>1. UNCHANGED <<scenario, world, left>>
    BY <1>6 DEF WriteStatus
  <2>2. CASE ~Unchanged(k)
    BY <1>3, <1>6, <2>1, <2>2 DEF WriteStatus
  <2>3. CASE Unchanged(k)
    <3> DEFINE route == Stored(world, k[1], k)[1]
               s == status[k]
               t == updateRouteParentStatuses(world, sync.todo[1], route, s)
    <3>1. k \in DOMAIN status /\ sync.read = <<[route |-> route, status |-> s]>>
      BY <2>3 DEF Unchanged
    <3>2. status' = [status EXCEPT ![k] = updateRouteParentStatuses(world, sync.todo[1], sync.read[1].route, sync.read[1].status)]
      BY <1>6, <2>3 DEF WriteStatus
    <3>3. sync.read[1].route = route /\ sync.read[1].status = s
      <4> HIDE DEF route, s
      <4> QED
        BY <3>1
    <3>4. status' = [status EXCEPT ![k] = t]
      BY <3>2, <3>3
    <3>5. IsRoute(route) /\ IsStatus(s)
      <4>1. k \in {Key(r) : r \in world.routes} /\ (\A r \in world.routes : IsRoute(r)) /\ IsStatus(s)
        BY <3>1 DEF StatusInv, IsWorld
      <4> HIDE DEF k
      <4>2. PICK r \in world.routes : Stored(world, k[1], k) = <<r>>
        BY <4>1, StoredIs
      <4> QED
        BY <4>1, <4>2
    <3> HIDE DEF route, s
    <3>6. t.foreign = s.foreign /\ IsStatus(t)
      BY <3>5, UpdateIs
    <3> HIDE DEF t, k
    <3>7. DOMAIN status' = DOMAIN status /\ status'[k] = t /\ \A j \in DOMAIN status \ {k} : status'[j] = status[j]
      BY <3>1, <3>4
    <3>8. StatusInv'
      BY <2>1, <3>6, <3>7 DEF StatusInv, IsStatus
    <3> QED
      BY <1>1, <1>2, <3>6, <3>7, <3>8 DEF s
  <2> QED
    BY <2>2, <2>3
<1>7. ASSUME NEW kind \in Kinds, StartupSync(kind)
      PROVE  StatusInv' /\ Kept
  BY <1>3, <1>7 DEF StartupSync
<1>8. ASSUME NEW k \in queue, Reconcile(k)
      PROVE  StatusInv' /\ Kept
  BY <1>3, <1>8 DEF Reconcile
<1>9. ASSUME Build \/ Convert \/ Expand \/ MarkEmpty \/ Publish \/ ReadStatus \/ Finish \/ Crash
      PROVE  StatusInv' /\ Kept
  <2>1. UNCHANGED <<scenario, world, status>> /\ left' = left
    BY <1>9, Zenon DEF Build, Convert, Expand, MarkEmpty, Publish, ReadStatus, Finish, Crash
  <2> QED
    BY <1>3, <2>1
<1>10. ASSUME NEW kind \in world.broken, Synced(kind)
       PROVE  StatusInv' /\ Kept
  <2> DEFINE rest == world.broken \ {kind}
  <2>1. world' = [world EXCEPT !.broken = rest] /\ UNCHANGED <<scenario, left, status>>
    BY <1>10, Zenon DEF Synced
  <2>2. DOMAIN world' = DOMAIN world /\ \A f \in DOMAIN world \ {"broken"} : world'[f] = world[f]
    BY <2>1
  <2>3. {"routes", "gateways", "listenerSets", "policies", "namespaces", "slices"} \subseteq DOMAIN world
    BY DEF StatusInv, IsWorld
  <2>4. /\ world'.routes = world.routes /\ world'.gateways = world.gateways /\ world'.listenerSets = world.listenerSets
        /\ world'.policies = world.policies /\ world'.namespaces = world.namespaces /\ world'.slices = world.slices
    BY <2>2, <2>3
  <2>5. IsWorld(world)'
    BY <2>2, <2>4 DEF StatusInv, IsWorld
  <2> QED
    BY <1>1, <1>2, <2>1, <2>4, <2>5 DEF StatusInv, IsStatus
<1>11. CASE UNCHANGED vars
  BY <1>3, <1>11 DEF vars
<1> QED
  BY Zenon, <1>4, <1>5, <1>6, <1>7, <1>8, <1>9, <1>10, <1>11 DEF Next, Step, Environment

(* The statuses start out in shape.                                         *)
LEMMA StatusInit ==
    ASSUME Init
    PROVE  StatusInv
<1>1. scenario \in DOMAIN Scenarios /\ world = Scenarios[scenario].world /\ left = DOMAIN Scenarios[scenario].changes
      /\ status = [k \in {Key(r) : r \in world.routes} |-> NoStatus]
  BY DEF Init
<1>2. IsWorld(world)
  BY <1>1, ScenariosAssumption
<1> QED
  BY <1>1, <1>2, NoStatusIs DEF StatusInv

(* Whatever the cluster, its changes and the schedule, a step of the        *)
(* controllers loses no entry that another controller has in the status of  *)
(* a route, and no write makes the list longer than the API allows: the     *)
(* read-modify-write of updateRouteParentStatuses, refused when the object  *)
(* has changed, is safe beside the writes of others.                        *)
THEOREM ForeignKeptHolds == Spec => ForeignKept
<1> DEFINE Step_ == \A k \in DOMAIN status \cap DOMAIN status' :
                       /\ IsPrefix(status[k].foreign, status'[k].foreign)
                       /\ status'[k].ours # status[k].ours =>
                             Len(status'[k].ours) + Len(status'[k].foreign) <= RouteParentStatusMaxCount
<1>1. Init => StatusInv
  BY StatusInit
<1>2. StatusInv /\ [Next]_vars => StatusInv'
  BY StatusStep
<1>3. StatusInv /\ [Next]_vars => Step_
  <2>1. SUFFICES ASSUME StatusInv, [Next]_vars PROVE Step_
    OBVIOUS
  <2>2. \A k \in DOMAIN status' : Len(status'[k].ours) + Len(status'[k].foreign) <= RouteParentStatusMaxCount
    BY <2>1, StatusStep DEF StatusInv, IsStatus
  <2> QED
    BY <2>1, <2>2, StatusStep
<1>4. StatusInv /\ [Next]_vars => [Step_]_vars
  BY <1>3
<1> QED
  BY <1>1, <1>2, <1>4, PTL DEF Spec, ForeignKept

\* The inductive invariant: the conflicts of the sync in progress are settled.
CrossInv ==
    /\ DOMAIN sync = DOMAIN Idle
    /\ Settled(sync.routes, sync.bindings, sync.seen)
    /\ CrossTypeExclusive

(* A sync starts out settled.                                               *)
LEMMA IdleSettled == Settled(Idle.routes, Idle.bindings, Idle.seen)
<1>1. Idle.routes = {} /\ Idle.bindings = <<>> /\ DOMAIN <<>> = {}
  BY DEF Idle
<1> HIDE DEF Idle
<1> QED
  BY <1>1 DEF Settled

LEMMA CrossStep ==
    ASSUME StatusInv, CrossInv, [Next]_vars
    PROVE  CrossInv'
<1>1. ASSUME DOMAIN sync' = DOMAIN Idle, sync'.routes = sync.routes, sync'.bindings = sync.bindings,
             sync.seen \subseteq sync'.seen
      PROVE  DOMAIN sync' = DOMAIN Idle /\ Settled(sync'.routes, sync'.bindings, sync'.seen)
  BY <1>1, SettledGrows DEF CrossInv
<1>2. ASSUME served' = served, DOMAIN sync' = DOMAIN Idle /\ Settled(sync'.routes, sync'.bindings, sync'.seen)
      PROVE  CrossInv'
  BY <1>2, Zenon DEF CrossInv, CrossTypeExclusive, Settled
<1>3. {"stage", "routes", "bindings", "seen", "rules", "todo", "read", "retry", "failed", "outage", "httpFailed", "grpcFailed", "diags"} \subseteq DOMAIN sync
  BY DEF CrossInv, Idle
<1>4. ASSUME sync' = sync, served' = served
      PROVE  CrossInv'
  BY <1>2, <1>4 DEF CrossInv
<1>5. ASSUME sync' = Idle, served' = served
      PROVE  CrossInv'
  BY <1>2, <1>5, IdleSettled
<1>6. ASSUME NEW kind, NEW key, Bind(kind, key), served' = served
      PROVE  CrossInv'
  <2> DEFINE b == BindAll(world, store)
             next == [Idle EXCEPT !.stage = "bound", !.kind = kind, !.key = key, !.routes = world.routes,
                                  !.bindings = b, !.seen = {world}]
  <2>1. sync' = next
    BY <1>6, Zenon DEF Bind
  <2>2. Settled(world.routes, b, {world})
    BY BindAllIs DEF StatusInv
  <2> HIDE DEF b
  <2>3. DOMAIN next = DOMAIN Idle /\ next.routes = world.routes /\ next.bindings = b /\ next.seen = {world}
    BY DEF Idle
  <2> HIDE DEF next
  <2> QED
    BY <1>2, <1>6, <2>1, <2>2, <2>3
<1>7. ASSUME Build \/ Convert \/ Expand \/ MarkEmpty
      PROVE  CrossInv'
  <2>1. served' = served
    BY <1>7, Zenon DEF Build, Convert, Expand, MarkEmpty
  <2>2. ASSUME NEW s, DOMAIN s = DOMAIN Idle, s.routes = sync.routes, s.bindings = sync.bindings, s.seen = sync.seen, sync' = See(s)
        PROVE  CrossInv'
    <3> DEFINE more == s.seen \cup {world}
    <3>1. sync' = [s EXCEPT !.seen = more]
      BY <2>2, Zenon DEF See
    <3>2. sync.seen \subseteq more
      BY <2>2
    <3> HIDE DEF more
    <3>3. DOMAIN sync' = DOMAIN Idle /\ sync'.routes = sync.routes /\ sync'.bindings = sync.bindings /\ sync'.seen = more
      BY <1>3, <2>2, <3>1 DEF CrossInv
    <3> QED
      BY <1>1, <1>2, <2>1, <3>2, <3>3
  <2>3. CASE Build
    <3> DEFINE http == FailedRefs(world, Accepted(sync, "HTTPRoute"))
               grpc == FailedRefs(world, Accepted(sync, "GRPCRoute"))
    <3>1. PICK failed, outage : sync' = See([sync EXCEPT !.stage = "built", !.failed = failed, !.outage = outage,
                                                         !.httpFailed = http, !.grpcFailed = grpc])
      BY <2>3, Zenon DEF Build
    <3> HIDE DEF http, grpc
    <3> DEFINE s == [sync EXCEPT !.stage = "built", !.failed = failed, !.outage = outage,
                                 !.httpFailed = http, !.grpcFailed = grpc]
    <3>2. DOMAIN s = DOMAIN Idle /\ s.routes = sync.routes /\ s.bindings = sync.bindings /\ s.seen = sync.seen
      BY <1>3 DEF CrossInv
    <3> HIDE DEF s
    <3> QED
      BY <2>2, <3>1, <3>2 DEF s
  <2>4. CASE Convert
    <3> DEFINE rules == ConvertAll(world, store, Accepted(sync, "HTTPRoute"), Accepted(sync, "GRPCRoute"),
                                   sync.httpFailed, sync.grpcFailed)
               diags == Diagnostics(rules)
               s == [sync EXCEPT !.stage = "converted", !.views = store, !.rules = rules, !.diags = diags]
    <3>1. sync' = See(s)
      BY <2>4, Zenon DEF Convert, WithRules
    <3> HIDE DEF rules, diags
    <3>2. DOMAIN s = DOMAIN Idle /\ s.routes = sync.routes /\ s.bindings = sync.bindings /\ s.seen = sync.seen
      BY <1>3 DEF CrossInv
    <3> HIDE DEF s
    <3> QED
      BY <2>2, <3>1, <3>2
  <2>5. CASE Expand \/ MarkEmpty
    <3>1. PICK stage, rules : sync' = See([sync EXCEPT !.stage = stage, !.rules = rules])
      <4>1. \/ sync' = See([sync EXCEPT !.stage = "expanded", !.rules = expandHeadlessBackends(world, sync.rules, AcceptedRoutes(sync))])
            \/ sync' = See([sync EXCEPT !.stage = "marked", !.rules = markZeroEndpointBackends(world, sync.rules, AcceptedRoutes(sync))])
        BY <2>5, Zenon DEF Expand, MarkEmpty
      <4> QED
        BY <4>1, Zenon
    <3> DEFINE s == [sync EXCEPT !.stage = stage, !.rules = rules]
    <3>2. DOMAIN s = DOMAIN Idle /\ s.routes = sync.routes /\ s.bindings = sync.bindings /\ s.seen = sync.seen
      BY <1>3 DEF CrossInv
    <3> HIDE DEF s
    <3> QED
      BY <2>2, <3>1, <3>2 DEF s
  <2> QED
    BY <1>7, <2>3, <2>4, <2>5
<1>8. ASSUME Publish
      PROVE  CrossInv'
  <2> DEFINE rules == resolveExternalBackends(world, sync.rules)
             s == See([sync EXCEPT !.rules = rules])
             more == sync.seen \cup {world}
             todo == StatusEntries(s)
             accepted == AcceptedRoutes(s)
  <2>1. /\ served' = [rules |-> rules, routes |-> accepted, bindings |-> s.bindings, views |-> s.views, seen |-> s.seen]
        /\ sync' = [s EXCEPT !.stage = "status", !.todo = todo]
    BY <1>8, Zenon DEF Publish
  <2>2. accepted = {r \in s.routes : (r.kind = "HTTPRoute" \/ r.kind = "GRPCRoute") /\ s.bindings[Key(r)].accepted}
    <3> HIDE DEF s
    <3> QED
      BY DEF AcceptedRoutes, Accepted
  <2> HIDE DEF todo, rules, accepted
  <2>3. /\ DOMAIN s = DOMAIN Idle /\ s.routes = sync.routes /\ s.bindings = sync.bindings /\ s.seen = more
    <3>1. s = [[sync EXCEPT !.rules = rules] EXCEPT !.seen = more]
      <4>1. [sync EXCEPT !.rules = rules].seen = sync.seen
        BY <1>3
      <4> QED
        BY <4>1 DEF See
    <3> HIDE DEF s, more
    <3> QED
      BY <1>3, <3>1 DEF CrossInv
  <2> HIDE DEF s
  <2>4. DOMAIN sync' = DOMAIN Idle /\ sync'.routes = sync.routes /\ sync'.bindings = sync.bindings /\ sync'.seen = more
    <3> HIDE DEF more
    <3> QED
      BY <1>3, <2>1, <2>3 DEF CrossInv
  <2>5. Settled(sync'.routes, sync'.bindings, sync'.seen)
    BY <1>1, <2>4
  <2>6. served'.bindings = sync'.bindings /\ served'.seen = sync'.seen /\ served'.routes = accepted
        /\ accepted = {r \in sync'.routes : r.kind \in Kinds /\ sync'.bindings[Key(r)].accepted}
    BY <2>1, <2>2, <2>3, <2>4 DEF Kinds
  <2>7. CrossTypeExclusive'
    <3> DEFINE R == sync'.routes
               B == sync'.bindings
    <3>1. ASSUME NEW r \in served'.routes, NEW q \in served'.routes, r.kind # q.kind, hostnamesIntersect(r.hostnames, q.hostnames)
          PROVE  served'.bindings[Key(r)].gateways \cap served'.bindings[Key(q)].gateways = {}
      <4>1. r \in R /\ q \in R /\ B[Key(r)].accepted /\ B[Key(q)].accepted
        BY <2>6, <3>1
      <4>2. B[Key(r)].gateways \cap B[Key(q)].gateways = {}
        BY Zenon, <2>5, <3>1, <4>1 DEF Settled
      <4> QED
        BY <2>6, <4>2
    <3>2. ASSUME NEW k \in DOMAIN served'.bindings, TurnedAway(served'.bindings[k])
          PROVE  \E q \in served'.routes : \E v \in served'.seen : \E r \in v.routes : Key(r) = k /\ q.created <= r.created
      <4>1. PICK q \in R : /\ B[Key(q)].accepted /\ q.kind \in Kinds
                           /\ \E v \in sync'.seen : \E r \in v.routes : Key(r) = k /\ q.created <= r.created
        BY Zenon, <2>5, <2>6, <3>2 DEF Settled
      <4>2. q \in served'.routes
        BY <2>6, <4>1
      <4> QED
        BY Zenon, <2>6, <4>1, <4>2
    <3> QED
      BY Zenon, <3>1, <3>2 DEF CrossTypeExclusive, TurnedAway
  <2> QED
    BY Zenon, <2>4, <2>5, <2>7 DEF CrossInv
<1>9. ASSUME ReadStatus \/ WriteStatus
      PROVE  CrossInv'
  <2>1. served' = served
    BY <1>9, Zenon DEF ReadStatus, WriteStatus
  <2>2. \/ \E x : sync' = [sync EXCEPT !.read = x]
        \/ \E x, y : sync' = [sync EXCEPT !.todo = x, !.retry = y]
        \/ \E x, y : sync' = [sync EXCEPT !.read = x, !.todo = y]
    BY <1>9, Zenon DEF ReadStatus, WriteStatus
  <2>3. DOMAIN sync' = DOMAIN Idle /\ sync'.routes = sync.routes /\ sync'.bindings = sync.bindings /\ sync'.seen = sync.seen
    BY <1>3, <2>2 DEF CrossInv
  <2> QED
    BY <1>1, <1>2, <2>1, <2>3
<1>10. ASSUME NEW kind \in Kinds, StartupSync(kind)
       PROVE  CrossInv'
  BY <1>6, <1>10, Zenon DEF StartupSync
<1>11. ASSUME NEW k \in queue, Reconcile(k)
       PROVE  CrossInv'
  <2>1. served' = served /\ (sync' = sync \/ Bind(k[1], k))
    BY <1>11, Zenon DEF Reconcile
  <2> QED
    BY <1>4, <1>6, <2>1, Zenon
<1>12. ASSUME Finish \/ Crash
       PROVE  CrossInv'
  BY <1>5, <1>12, Zenon DEF Finish, Crash
<1>13. ASSUME NEW i \in left, Change(i)
       PROVE  CrossInv'
  BY <1>4, <1>13, Zenon DEF Change
<1>14. ASSUME NEW k \in DOMAIN status, Foreign(k)
       PROVE  CrossInv'
  BY <1>4, <1>14, Zenon DEF Foreign
<1>15. ASSUME NEW kind \in world.broken, Synced(kind)
       PROVE  CrossInv'
  BY <1>4, <1>15, Zenon DEF Synced
<1>16. CASE UNCHANGED vars
  BY <1>4, <1>16 DEF vars
<1> QED
  BY Zenon, <1>7, <1>8, <1>9, <1>10, <1>11, <1>12, <1>13, <1>14, <1>15, <1>16 DEF Next, Step, Environment

(* Whatever the cluster, its changes and the schedule, an HTTPRoute and a   *)
(* GRPCRoute are never both served for a hostname on a Gateway they share,  *)
(* and whoever resolveCrossTypeConflicts turns away is outlived by a served *)
(* route that is no younger: a chain of conflicts, in which the winner of   *)
(* one pair loses another, never turns everybody away.                      *)
THEOREM CrossTypeExclusiveHolds == Spec => []CrossTypeExclusive
<1>1. Init => StatusInv /\ CrossInv
  <2>1. SUFFICES ASSUME Init PROVE StatusInv /\ CrossInv
    OBVIOUS
  <2>2. sync = Idle
    BY <2>1, Zenon DEF Init
  <2>3. served.routes = {} /\ served.bindings = <<>> /\ DOMAIN <<>> = {}
    BY <2>1 DEF Init
  <2>4. CrossTypeExclusive
    BY <2>3 DEF CrossTypeExclusive
  <2> QED
    BY <2>1, <2>2, <2>4, IdleSettled, StatusInit, Zenon DEF CrossInv
<1>2. StatusInv /\ CrossInv /\ [Next]_vars => (StatusInv /\ CrossInv)'
  BY StatusStep, CrossStep
<1>3. StatusInv /\ CrossInv => CrossTypeExclusive
  BY DEF CrossInv
<1> QED
  BY <1>1, <1>2, <1>3, PTL DEF Spec
=============================================================================
