------------------------- MODULE PushTargets_proofs --------------------------
(***************************************************************************)
(* Proofs about PushTargets: types, routes, and tokens, skip keys and      *)
(* cached states.                                                          *)
(***************************************************************************)
EXTENDS PushTargets, TLAPS

------------------------------------------------------------------------------
(***************************************************************************)
(* Type correctness of PushTargets, for any Gateways, routes, tunnels and  *)
(* workers.                                                                *)
(***************************************************************************)

Tokens == [of : Planes, gen : Nat]
Configs == [some : BOOLEAN, routes : SUBSET Routes]
Pods == [cfg : Configs, token : Tokens, addr : Nat]
Targets == [exists : BOOLEAN, lastCfg : Configs, hash : Configs, token : Tokens, pushedTo : Nat, authToken : Tokens]
Parts == [at : {"none", "todo", "put", "done"}, routes : SUBSET Routes, token : Tokens, to : Nat]
Requests == Planes \cup {Unattributed}
Resyncs == [request : Requests, keys : SUBSET Planes, key : Planes, token : Tokens,
            at : {"idle", "next", "read"}, failed : BOOLEAN]

ClusterOK ==
    /\ routes \subseteq Routes
    /\ gateway \in [Gateways -> GatewayStates] /\ \A g \in Gateways : gateway[g] \in States[g]
    /\ secret \in [Planes -> Nat]
    /\ seen \in [Gateways -> SUBSET GatewayStates]

WorkersOK ==
    /\ pc \in [Workers -> {"idle", "bound", "pushing"}]
    /\ bound \in [Workers -> [Routes -> SUBSET Gateways]]
    /\ part \in [Workers -> [Planes -> Parts]]
    /\ transient \in [Workers -> SUBSET Gateways]

PlanesOK ==
    /\ pod \in [Planes -> Pods]
    /\ target \in [Planes -> Targets]
    /\ event \subseteq Requests
    /\ resync \in Resyncs

TypeInv == ClusterOK /\ WorkersOK /\ PlanesOK

-----------------------------------------------------------------------------
\* The shared plane is a plane, and so is every Gateway's.
LEMMA PlaneKinds == Shared \in Planes /\ Gateways \subseteq Planes /\ Planes \subseteq Requests /\ Unattributed \in Requests
  BY Zenon DEF Planes, Requests

\* The values that stand for "nothing yet" are well typed.
LEMMA NoTokenType == NoToken \in Tokens
  BY PlaneKinds, TargetsAssumption DEF NoToken, Tokens

\* A config is never taken for none.
LEMMA ConfigTypes == NoCfg \in Configs /\ \A R \in SUBSET Routes : Cfg(R) \in Configs /\ Cfg(R) # NoCfg
  BY DEF NoCfg, Cfg, Configs

\* No target, no share, a settled share and no replay.
LEMMA NothingTypes == NoTarget \in Targets /\ NoPart \in Parts /\ Done \in Parts /\ NoResync \in Resyncs
  <1>1. NoTarget \in Targets
    BY NoTokenType, ConfigTypes, Zenon DEF NoTarget, Targets
  <1>2. NoPart \in Parts
    BY NoTokenType, Zenon DEF NoPart, Parts
  <1>3. Done \in Parts
    BY <1>2, Zenon DEF Done, Parts
  <1>4. NoResync \in Resyncs
    BY NoTokenType, PlaneKinds, Zenon DEF NoResync, Resyncs
  <1> QED
    BY <1>1, <1>2, <1>3, <1>4, Zenon

\* A plane's current token is a token.
LEMMA CurrentType ==
    ASSUME TypeInv, NEW k \in Planes
    PROVE  Current(k) \in Tokens
  BY Zenon DEF TypeInv, ClusterOK, Current, Tokens

\* The controller starts well typed.
LEMMA TypeInit == Init => TypeInv
  <1> SUFFICES ASSUME Init PROVE TypeInv
    BY Zenon
  <1>1. secret \in [Planes -> Nat]
    BY DEF Init
  <1>2. ClusterOK
    BY <1>1, Zenon DEF Init, ClusterOK
  <1>3. WorkersOK
    BY NothingTypes, Zenon DEF Init, WorkersOK, Unbound, NoParts
  <1>4. \A k \in Planes : Current(k) \in Tokens
    BY <1>1, Zenon DEF Current, Tokens
  <1>5. pod \in [Planes -> Pods]
    <2>1. \A k \in Planes : (IF k \in Late /\ gateway[k] # "ok" THEN 0 ELSE 1) \in Nat
      OBVIOUS
    <2> QED
      BY <1>4, <2>1, ConfigTypes, Zenon DEF Init, Pods
  <1>6. PlanesOK
    BY <1>5, NothingTypes, Zenon DEF Init, PlanesOK
  <1> QED
    BY <1>2, <1>3, <1>6, Zenon DEF TypeInv

-----------------------------------------------------------------------------
\* Writes to one worker's share of one plane.
LEMMA PartUpdate ==
    ASSUME TypeInv, NEW w \in Workers, NEW k \in Planes, NEW x \in Parts, part' = [part EXCEPT ![w][k] = x]
    PROVE  part' \in [Workers -> [Planes -> Parts]]
  BY Zenon DEF TypeInv, WorkersOK

\* The fields of a worker's share.
LEMMA PartFields ==
    ASSUME TypeInv, NEW w \in Workers, NEW k \in Planes
    PROVE  /\ part[w][k] \in Parts /\ part[w][k].routes \in SUBSET Routes /\ part[w][k].token \in Tokens
           /\ part[w][k].to \in Nat
  BY DEF TypeInv, WorkersOK, Parts

\* The fields of a pod and of a plane's push state.
LEMMA PlaneFields ==
    ASSUME TypeInv, NEW k \in Planes
    PROVE  /\ pod[k] \in Pods /\ pod[k].cfg \in Configs /\ pod[k].token \in Tokens /\ pod[k].addr \in Nat
           /\ target[k] \in Targets /\ target[k].lastCfg \in Configs /\ target[k].authToken \in Tokens
           /\ target[k].pushedTo \in Nat
  BY Zenon DEF TypeInv, PlanesOK, Pods, Targets

\* A pod that takes a config stays well typed.
LEMMA ServeType ==
    ASSUME TypeInv, NEW k \in Planes, NEW c \in Configs, Serve(k, c)
    PROVE  pod' \in [Planes -> Pods] /\ event' \subseteq Requests
  <1>1. pod' \in [Planes -> Pods]
    BY Zenon DEF TypeInv, PlanesOK, Serve, Pods
  <1>2. event' \subseteq Requests
    BY PlaneKinds, Zenon DEF TypeInv, PlanesOK, Serve
  <1> QED
    BY <1>1, <1>2, Zenon

\* The routes of a plane are routes.
LEMMA UnionType ==
    ASSUME NEW b, NEW k, NEW resolved, NEW broken
    PROVE  UnionPartitionRoutes(b, k, resolved, broken) \in SUBSET Routes
  BY Zenon DEF UnionPartitionRoutes, PartitionRoutes

\* What a sync resolves to: the opted-in Gateways are resolved or broken, the
\* fine ones that are broken are transient, and the shares follow from both.
Shares(b, resolved, broken) ==
    [k \in Planes |->
        IF k \in resolved \cup {Shared}
          THEN [at |-> "todo", token |-> AuthTokenFor(k), to |-> 0,
                routes |-> UnionPartitionRoutes(b, k, resolved, broken)]
          ELSE NoPart]

Split(w, resolved, broken) ==
    /\ resolved \subseteq {g \in Gateways : gateway[g] = "ok"}
    /\ {g \in Gateways : gateway[g] \in {"ok", "invalid"}} \subseteq resolved \cup broken
    /\ part' = [part EXCEPT ![w] = Shares(bound[w], resolved, broken)]
    /\ \E blips \in SUBSET Gateways : /\ transient' = [transient EXCEPT ![w] = blips]
                                      /\ {g \in Gateways : gateway[g] = "ok"} \subseteq resolved \cup blips

\* A sync that resolves splits so.
LEMMA ResolveSplits ==
    ASSUME NEW w \in Workers, Resolve(w)
    PROVE  \E resolved \in SUBSET Gateways, broken \in SUBSET Gateways : Split(w, resolved, broken)
  <1> DEFINE res(blips) == {g \in Gateways : gateway[g] = "ok"} \ blips
             brk(blips) == {g \in Gateways : gateway[g] = "invalid"} \cup blips
  <1>1. PICK blips \in SUBSET {g \in Gateways : gateway[g] \in {"ok", "invalid"}} :
            /\ transient' = [transient EXCEPT ![w] = blips]
            /\ part' = [part EXCEPT ![w] = Shares(bound[w], res(blips), brk(blips))]
    BY Zenon DEF Resolve, Shares
  <1>2. res(blips) \in SUBSET Gateways /\ brk(blips) \in SUBSET Gateways /\ blips \in SUBSET Gateways
    BY <1>1, Zenon
  <1>3. /\ res(blips) \subseteq {g \in Gateways : gateway[g] = "ok"}
        /\ {g \in Gateways : gateway[g] \in {"ok", "invalid"}} \subseteq res(blips) \cup brk(blips)
        /\ {g \in Gateways : gateway[g] = "ok"} \subseteq res(blips) \cup blips
    BY Zenon
  <1> HIDE DEF res, brk
  <1> QED
    BY <1>1, <1>2, <1>3, Zenon DEF Split

\* A sync stays well typed up to its pushes.
LEMMA TypeSync ==
    ASSUME TypeInv, NEW w \in Workers, Bind(w) \/ EarlyError(w) \/ Resolve(w) \/ RetainPartitions(w)
    PROVE  TypeInv'
  <1>1. CASE Bind(w)
    <2>1. bound' \in [Workers -> [Routes -> SUBSET Gateways]]
      BY <1>1, TargetsAssumption, Zenon DEF Bind, TypeInv, WorkersOK
    <2>2. pc' \in [Workers -> {"idle", "bound", "pushing"}]
      BY <1>1, Zenon DEF Bind, TypeInv, WorkersOK
    <2> QED
      BY <1>1, <2>1, <2>2, Zenon DEF Bind, TypeInv, ClusterOK, WorkersOK, PlanesOK, clusterVars
  <1>2. CASE EarlyError(w)
    <2>1. bound' \in [Workers -> [Routes -> SUBSET Gateways]]
      BY <1>2, Zenon DEF EarlyError, TypeInv, WorkersOK, Unbound
    <2>2. pc' \in [Workers -> {"idle", "bound", "pushing"}]
      BY <1>2, Zenon DEF EarlyError, TypeInv, WorkersOK
    <2> QED
      BY <1>2, <2>1, <2>2, Zenon DEF EarlyError, TypeInv, ClusterOK, WorkersOK, PlanesOK, clusterVars
  <1>3. CASE Resolve(w)
    <2>1. bound' \in [Workers -> [Routes -> SUBSET Gateways]]
      BY <1>3, Zenon DEF Resolve, TypeInv, WorkersOK, Unbound
    <2>2. pc' \in [Workers -> {"idle", "bound", "pushing"}]
      BY <1>3, Zenon DEF Resolve, TypeInv, WorkersOK
    <2>3. part' \in [Workers -> [Planes -> Parts]] /\ transient' \in [Workers -> SUBSET Gateways]
      <3>1. PICK resolved \in SUBSET Gateways, broken \in SUBSET Gateways : Split(w, resolved, broken)
        BY <1>3, ResolveSplits, Zenon
      <3>2. /\ part' = [part EXCEPT ![w] = Shares(bound[w], resolved, broken)]
            /\ transient' \in [Workers -> SUBSET Gateways]
        BY <3>1, Zenon DEF Split, TypeInv, WorkersOK
      <3>3. \A k \in Planes : [at |-> "todo", token |-> AuthTokenFor(k), to |-> 0,
                               routes |-> UnionPartitionRoutes(bound[w], k, resolved, broken)] \in Parts
        <4> SUFFICES ASSUME NEW k \in Planes
                     PROVE  [at |-> "todo", token |-> AuthTokenFor(k), to |-> 0,
                             routes |-> UnionPartitionRoutes(bound[w], k, resolved, broken)] \in Parts
          BY Zenon
        <4>1. AuthTokenFor(k) \in Tokens
          BY CurrentType, Zenon DEF AuthTokenFor
        <4>2. 0 \in Nat
          BY SMT
        <4> QED
          BY <4>1, <4>2, UnionType, Zenon DEF Parts
      <3>4. part' \in [Workers -> [Planes -> Parts]]
        BY <3>2, <3>3, NothingTypes, Zenon DEF TypeInv, WorkersOK, Shares
      <3> QED
        BY <3>2, <3>4, Zenon
    <2> QED
      BY <1>3, <2>1, <2>2, <2>3, Zenon DEF Resolve, TypeInv, ClusterOK, WorkersOK, PlanesOK, clusterVars
  <1>4. CASE RetainPartitions(w)
    <2>1. target' \in [Planes -> Targets]
      BY <1>4, NothingTypes, Zenon DEF RetainPartitions, TypeInv, PlanesOK
    <2>2. part' \in [Workers -> [Planes -> Parts]]
      BY <1>4, NothingTypes, Zenon DEF RetainPartitions, TypeInv, WorkersOK, NoParts
    <2>3. transient' \in [Workers -> SUBSET Gateways]
      BY <1>4, Zenon DEF RetainPartitions, TypeInv, WorkersOK
    <2>4. pc' \in [Workers -> {"idle", "bound", "pushing"}]
      BY <1>4, Zenon DEF RetainPartitions, TypeInv, WorkersOK
    <2> QED
      BY <1>4, <2>1, <2>2, <2>3, <2>4, Zenon DEF RetainPartitions, TypeInv, ClusterOK, WorkersOK, PlanesOK, clusterVars
  <1> QED
    BY <1>1, <1>2, <1>3, <1>4, Zenon

\* The pushes of a sync and their records are well typed.
LEMMA TypePush ==
    ASSUME TypeInv, NEW w \in Workers, NEW k \in Planes,
           PreparePush(w, k) \/ RecordPushOK(w, k) \/ RecordPushFailed(w, k)
    PROVE  TypeInv'
  <1> DEFINE p == part[w][k]
  <1>p. /\ p \in Parts /\ p.routes \in SUBSET Routes /\ p.token \in Tokens /\ p.to \in Nat
        /\ Cfg(p.routes) \in Configs
    BY PartFields, ConfigTypes, Zenon
  <1> HIDE DEF p
  <1>1. CASE PreparePush(w, k)
    <2>1. target' \in [Planes -> Targets]
      BY <1>1, <1>p, Zenon DEF PreparePush, TypeInv, PlanesOK, Targets, p
    <2>2. [p EXCEPT !.at = "put", !.to = pod[k].addr] \in Parts
      BY <1>p, PlaneFields, Zenon DEF Parts
    <2>3. part' \in [Workers -> [Planes -> Parts]]
      BY <1>1, <2>2, NothingTypes, Zenon DEF PreparePush, TypeInv, WorkersOK, p
    <2> QED
      BY <1>1, <2>1, <2>3, Zenon DEF PreparePush, TypeInv, ClusterOK, WorkersOK, PlanesOK, clusterVars
  <1>2. CASE RecordPushOK(w, k)
    <2>1. pod' \in [Planes -> Pods] /\ event' \subseteq Requests
      BY <1>2, <1>p, ServeType, Zenon DEF RecordPushOK, p
    <2>2. target' \in [Planes -> Targets]
      <3>1. CASE target[k].exists
        <4>1. target' = [target EXCEPT ![k].lastCfg = Cfg(p.routes), ![k].hash = Cfg(p.routes),
                                       ![k].token = p.token, ![k].pushedTo = p.to]
          BY <1>2, <3>1, Zenon DEF RecordPushOK, p
        <4>2. [target[k] EXCEPT !.lastCfg = Cfg(p.routes), !.hash = Cfg(p.routes), !.token = p.token,
                                !.pushedTo = p.to] \in Targets
          BY <1>p, PlaneFields, Zenon DEF Targets
        <4>3. target' = [target EXCEPT ![k] = [target[k] EXCEPT !.lastCfg = Cfg(p.routes), !.hash = Cfg(p.routes),
                                                                !.token = p.token, !.pushedTo = p.to]]
          BY <4>1 DEF TypeInv, PlanesOK
        <4> QED
          BY <4>2, <4>3, Zenon DEF TypeInv, PlanesOK
      <3>2. CASE ~target[k].exists
        BY <1>2, <3>2, Zenon DEF RecordPushOK, TypeInv, PlanesOK
      <3> QED
        BY <3>1, <3>2, Zenon
    <2>3. part' \in [Workers -> [Planes -> Parts]]
      BY <1>2, NothingTypes, PartUpdate, Zenon DEF RecordPushOK
    <2> QED
      BY <1>2, <2>1, <2>2, <2>3, Zenon DEF RecordPushOK, TypeInv, ClusterOK, WorkersOK, PlanesOK, clusterVars
  <1>3. CASE RecordPushFailed(w, k)
    <2>1. 0 \in Nat
      BY SMT
    <2>2. target' \in [Planes -> Targets]
      <3>1. CASE target[k].exists
        <4>1. target' = [target EXCEPT ![k].hash = NoCfg, ![k].pushedTo = 0]
          BY <1>3, <3>1, Zenon DEF RecordPushFailed
        <4> QED
          BY <4>1, <2>1, ConfigTypes, Zenon DEF TypeInv, PlanesOK, Targets
      <3>2. CASE ~target[k].exists
        BY <1>3, <3>2, Zenon DEF RecordPushFailed, TypeInv, PlanesOK
      <3> QED
        BY <3>1, <3>2, Zenon
    <2>3. part' \in [Workers -> [Planes -> Parts]]
      BY <1>3, NothingTypes, PartUpdate, Zenon DEF RecordPushFailed
    <2> QED
      BY <1>3, <2>2, <2>3, Zenon DEF RecordPushFailed, TypeInv, ClusterOK, WorkersOK, PlanesOK, clusterVars
  <1> QED
    BY <1>1, <1>2, <1>3, Zenon

\* The endpoint reconciler's steps are well typed.
LEMMA TypeResync == TypeInv /\ ResyncStep => TypeInv'
  <1> SUFFICES ASSUME TypeInv, ResyncStep PROVE TypeInv'
    BY Zenon
  <1>r. /\ resync \in Resyncs /\ resync.request \in Requests /\ resync.keys \in SUBSET Planes
        /\ resync.key \in Planes /\ resync.token \in Tokens
    BY DEF TypeInv, PlanesOK, Resyncs
  <1>f. /\ [resync EXCEPT !.at = "next", !.key = Shared, !.token = NoToken] \in Resyncs
        /\ [resync EXCEPT !.at = "next", !.key = Shared, !.token = NoToken, !.failed = TRUE] \in Resyncs
    BY <1>r, PlaneKinds, NoTokenType, Zenon DEF Resyncs
  <1>1. CASE ResyncBegin
    <2>1. PICK e \in event :
            /\ event' = event \ {e}
            /\ resync' = [NoResync EXCEPT
                  !.request = e, !.at = "next",
                  !.keys = IF e \in Planes /\ (e \in Gateways => gateway[e] # "absent")
                             THEN {e} ELSE {k \in Planes : target[k].exists}]
      BY <1>1, Zenon DEF ResyncBegin
    <2>2. event' \subseteq Requests /\ e \in Requests
      BY <2>1, Zenon DEF TypeInv, PlanesOK
    <2>3. (IF e \in Planes /\ (e \in Gateways => gateway[e] # "absent")
             THEN {e} ELSE {k \in Planes : target[k].exists}) \in SUBSET Planes
      BY Zenon
    <2>4. resync' \in Resyncs
      BY <2>1, <2>2, <2>3, NothingTypes, Zenon DEF Resyncs
    <2> QED
      BY <1>1, <2>2, <2>4, Zenon DEF ResyncBegin, TypeInv, ClusterOK, WorkersOK, PlanesOK, clusterVars, workerVars
  <1>2. CASE ResyncRead
    <2>1. PICK k \in resync.keys :
            resync' = [resync EXCEPT
               !.keys = @ \ {k},
               !.key = IF k = Shared \/ target[k].exists THEN k ELSE @,
               !.token = IF k = Shared THEN Current(Shared) ELSE target[k].authToken,
               !.at = IF k = Shared \/ target[k].exists THEN "read" ELSE "next"]
      BY <1>2, Zenon DEF ResyncRead
    <2>2. k \in Planes /\ target[k].authToken \in Tokens /\ Current(Shared) \in Tokens
      BY <1>r, PlaneFields, CurrentType, PlaneKinds, Zenon
    <2>3. resync' \in Resyncs
      BY <2>1, <2>2, <1>r, Zenon DEF Resyncs
    <2> QED
      BY <1>2, <2>3, Zenon DEF ResyncRead, TypeInv, ClusterOK, WorkersOK, PlanesOK, clusterVars, workerVars
  <1>3. CASE ResyncNothing
    BY <1>3, <1>f, Zenon DEF ResyncNothing, TypeInv, ClusterOK, WorkersOK, PlanesOK, clusterVars, workerVars
  <1>4. CASE ResyncOK
    <2>1. pod' \in [Planes -> Pods] /\ event' \subseteq Requests
      BY <1>4, <1>r, ServeType, PlaneFields, Zenon DEF ResyncOK
    <2>2. target' \in [Planes -> Targets]
      <3> DEFINE k == resync.key
                 t == [target[k] EXCEPT !.hash = target[k].lastCfg, !.token = resync.token, !.pushedTo = pod[k].addr]
      <3>1. target' = [target EXCEPT ![k].hash = target[k].lastCfg, ![k].token = resync.token,
                                     ![k].pushedTo = pod[k].addr]
        BY <1>4, Zenon DEF ResyncOK
      <3>2. t \in Targets
        BY <1>r, PlaneFields, Zenon DEF Targets
      <3>3. target' = [target EXCEPT ![k] = t]
        BY <3>1, <1>r DEF TypeInv, PlanesOK
      <3> QED
        BY <3>2, <3>3, <1>r, Zenon DEF TypeInv, PlanesOK
    <2> QED
      BY <1>4, <2>1, <2>2, <1>f, Zenon DEF ResyncOK, TypeInv, ClusterOK, WorkersOK, PlanesOK, clusterVars, workerVars
  <1>5. CASE ResyncFailed
    <2>1. 0 \in Nat
      BY SMT
    <2>2. target' = [target EXCEPT ![resync.key].hash = NoCfg, ![resync.key].pushedTo = 0]
      BY <1>5, Zenon DEF ResyncFailed
    <2>3. target' \in [Planes -> Targets]
      BY <2>1, <2>2, <1>r, ConfigTypes, Zenon DEF TypeInv, PlanesOK, Targets
    <2> QED
      BY <1>5, <2>3, <1>f, Zenon DEF ResyncFailed, TypeInv, ClusterOK, WorkersOK, PlanesOK, clusterVars, workerVars
  <1>6. CASE ResyncEnd
    <2>1. event' \subseteq Requests
      BY <1>6, <1>r, Zenon DEF ResyncEnd, TypeInv, PlanesOK
    <2> QED
      BY <1>6, <2>1, NothingTypes, Zenon DEF ResyncEnd, TypeInv, ClusterOK, WorkersOK, PlanesOK, clusterVars, workerVars
  <1> QED
    BY <1>1, <1>2, <1>3, <1>4, <1>5, <1>6, Zenon DEF ResyncStep

-----------------------------------------------------------------------------
\* The cluster's own changes are well typed.
LEMMA TypeChanged ==
    ASSUME TypeInv, NEW R \in SUBSET Routes, NEW gw \in [Gateways -> GatewayStates], NEW W,
           \A g \in Gateways : gw[g] \in States[g], Changed(R, gw, W)
    PROVE  TypeInv'
  <1>1. seen' \in [Gateways -> SUBSET GatewayStates]
    BY Zenon DEF Changed, TypeInv, ClusterOK
  <1> QED
    BY <1>1, Zenon DEF Changed, TypeInv, ClusterOK, WorkersOK, PlanesOK, workerVars

\* So are those of pods and tokens.
LEMMA TypeEnvironment == TypeInv /\ Environment => TypeInv'
  <1> SUFFICES ASSUME TypeInv, Environment PROVE TypeInv'
    BY Zenon
  <1>1. CASE ChangeRoute
    <2>1. PICK r \in Routes, W \in SUBSET OfRole("route") :
              Changed(IF r \in routes THEN routes \ {r} ELSE routes \cup {r}, gateway, W)
      BY <1>1, Zenon DEF ChangeRoute
    <2>2. (IF r \in routes THEN routes \ {r} ELSE routes \cup {r}) \in SUBSET Routes
      BY Zenon DEF TypeInv, ClusterOK
    <2>3. gateway \in [Gateways -> GatewayStates] /\ \A g \in Gateways : gateway[g] \in States[g]
      BY Zenon DEF TypeInv, ClusterOK
    <2> QED
      BY <2>1, <2>2, <2>3, TypeChanged, Zenon
  <1>2. CASE ChangeGateway
    <2>0. PICK g \in Gateways :
              \E s \in States[g] \ {gateway[g]} : \E W : Changed(routes, [gateway EXCEPT ![g] = s], W)
      BY <1>2, Zenon DEF ChangeGateway
    <2>1. PICK s \in States[g] \ {gateway[g]} : \E W : Changed(routes, [gateway EXCEPT ![g] = s], W)
      BY <2>0, Zenon
    <2>2. s \in GatewayStates
      BY TargetsAssumption
    <2>3. /\ routes \in SUBSET Routes
          /\ [gateway EXCEPT ![g] = s] \in [Gateways -> GatewayStates]
          /\ \A h \in Gateways : ([gateway EXCEPT ![g] = s])[h] \in States[h]
      BY <2>2, Zenon DEF TypeInv, ClusterOK
    <2> QED
      BY <2>1, <2>3, TypeChanged, Zenon
  <1>3. ASSUME NEW k \in Planes, Rotate(k) PROVE TypeInv'
    <2>1. secret' \in [Planes -> Nat]
      BY <1>3 DEF Rotate, TypeInv, ClusterOK
    <2> QED
      BY <1>3, <2>1, Zenon DEF Rotate, TypeInv, ClusterOK, WorkersOK, PlanesOK, workerVars
  <1>4. ASSUME NEW k \in Planes, StartPod(k) \/ Replace(k) PROVE TypeInv'
    <2>1. 1 \in Nat /\ pod[k].addr + 1 \in Nat
      BY PlaneFields
    <2>2. /\ [cfg |-> NoCfg, token |-> Current(k), addr |-> 1] \in Pods
          /\ [cfg |-> NoCfg, token |-> Current(k), addr |-> pod[k].addr + 1] \in Pods
      BY <2>1, CurrentType, ConfigTypes, Zenon DEF Pods
    <2>3. pod' \in [Planes -> Pods]
      BY <1>4, <2>2, Zenon DEF StartPod, Replace, TypeInv, PlanesOK
    <2>4. event' \subseteq Requests
      BY <1>4, PlaneKinds, Zenon DEF StartPod, Replace, TypeInv, PlanesOK
    <2> QED
      BY <1>4, <2>3, <2>4, Zenon DEF StartPod, Replace, TypeInv, ClusterOK, WorkersOK, PlanesOK, clusterVars, workerVars
  <1>5. ASSUME NEW k \in Planes, RestartPod(k) PROVE TypeInv'
    <2>1. pod' \in [Planes -> Pods]
      BY <1>5, CurrentType, ConfigTypes DEF RestartPod, TypeInv, PlanesOK, Pods
    <2>2. event' \subseteq Requests
      BY <1>5, PlaneKinds, Zenon DEF RestartPod, TypeInv, PlanesOK
    <2> QED
      BY <1>5, <2>1, <2>2, Zenon DEF RestartPod, TypeInv, ClusterOK, WorkersOK, PlanesOK, clusterVars, workerVars
  <1> QED
    BY <1>1, <1>2, <1>3, <1>4, <1>5, Zenon DEF Environment

\* Every step keeps the types.
LEMMA TypeStep == TypeInv /\ [Next]_vars => TypeInv'
  <1> SUFFICES ASSUME TypeInv, [Next]_vars PROVE TypeInv'
    BY Zenon
  <1>1. CASE UNCHANGED vars
    BY <1>1, Zenon DEF vars, TypeInv, ClusterOK, WorkersOK, PlanesOK
  <1>2. ASSUME NEW w \in Workers, WorkerStep(w) PROVE TypeInv'
    BY <1>2, TypeSync, TypePush, Zenon DEF WorkerStep
  <1> QED
    BY <1>1, <1>2, TypeResync, TypeEnvironment, Zenon DEF Next

\* Every state of the planes, the workers and the endpoint reconciler is well
\* typed (ProxySyncer.targets, RouteSyncer.SyncAllRoutes).
THEOREM TypesKept == Spec => []TypeInv
  BY TypeInit, TypeStep, PTL DEF Spec

------------------------------------------------------------------------------
(***************************************************************************)
(* What every plane serves, and with which token, for any Gateways, routes,*)
(* tunnels and workers: FailsClosed and TenantIsolated.                    *)
(***************************************************************************)

\* A route fits a plane if it belongs there, or if one of its Gateways went
\* away and the plane is on the shared tunnel.  S is the history seen.
Fits(S, r, k) ==
    \E g \in Parents[r] :
        \/ TunnelOf[g] = TunnelOf[k]
        \/ S[g] \cap {"plain", "absent"} # {} /\ TunnelOf[Shared] = TunnelOf[k]

\* A plane that has routes is the shared one or that of a Gateway that can
\* resolve.
Lawful(S, R, k) == /\ \A r \in R : Fits(S, r, k)
                   /\ R = {} \/ k = Shared \/ "ok" \in States[k]

\* A sync binds routes to their parents only, and a config is lawful on its way
\* to a plane, on the plane, and in the cache a replay takes it from.
BoundInv == /\ \A g \in Gateways : gateway[g] \in seen[g]
            /\ \A w \in Workers : \A r \in Routes : bound[w][r] \subseteq Parents[r]
PartInv == \A w \in Workers : \A k \in Planes : Lawful(seen, part[w][k].routes, k)
PodInv == \A k \in Planes : Lawful(seen, pod[k].cfg.routes, k)
CacheInv == \A k \in Planes : Lawful(seen, target[k].lastCfg.routes, k)

RoutesInv == BoundInv /\ PartInv /\ PodInv /\ CacheInv

-----------------------------------------------------------------------------
\* No routes are lawful anywhere, and "nothing yet" has none.
LEMMA NoneLawful ==
    ASSUME NEW S, NEW k
    PROVE  /\ Lawful(S, {}, k)
           /\ NoCfg.routes = {} /\ NoPart.routes = {} /\ Done.routes = {} /\ NoTarget.lastCfg = NoCfg
           /\ \A R : Cfg(R).routes = R
  BY Zenon DEF Lawful, NoCfg, NoPart, Done, NoTarget, Cfg

\* What is lawful stays so as the history grows.
LEMMA LawfulGrows ==
    ASSUME NEW S, NEW T, \A g \in Gateways : S[g] \subseteq T[g],
           NEW R \in SUBSET Routes, NEW k, Lawful(S, R, k)
    PROVE  Lawful(T, R, k)
  BY TargetsAssumption, Zenon DEF Lawful, Fits

\* The shares a sync resolves to are lawful.
LEMMA SharesLawful ==
    ASSUME TypeInv, BoundInv, NEW w \in Workers, NEW resolved \in SUBSET Gateways, NEW broken \in SUBSET Gateways,
           Split(w, resolved, broken), NEW k \in Planes
    PROVE  Lawful(seen, Shares(bound[w], resolved, broken)[k].routes, k)
  <1> DEFINE R == UnionPartitionRoutes(bound[w], k, resolved, broken)
  <1>1. CASE k \notin resolved \cup {Shared}
    <2>1. Shares(bound[w], resolved, broken)[k].routes = {}
      BY <1>1, NoneLawful, Zenon DEF Shares
    <2> QED
      BY <2>1, NoneLawful
  <1>2. CASE k \in resolved \cup {Shared}
    <2>1. Shares(bound[w], resolved, broken)[k].routes = R
      BY <1>2, Zenon DEF Shares
    <2>2. ASSUME NEW r \in R PROVE Fits(seen, r, k)
      <3>1. PICK q \in resolved \cup {Shared} :
                /\ TunnelOf[q] = TunnelOf[k] /\ r \in Routes
                /\ q \in PartitionKeysFor(bound[w][r], resolved, broken)
        BY <2>2, Zenon DEF UnionPartitionRoutes, PartitionRoutes
      <3>2. bound[w][r] \subseteq Parents[r] /\ Parents[r] \subseteq Gateways
        BY <3>1, TargetsAssumption, Zenon DEF BoundInv
      <3>3. CASE q \in bound[w][r] \cap resolved
        BY <3>1, <3>2, <3>3, Zenon DEF Fits
      <3>4. CASE q = Shared /\ ~(bound[w][r] \subseteq resolved \cup broken)
        <4>1. PICK g \in bound[w][r] : g \notin resolved \cup broken
          BY <3>4, Zenon
        <4>2. g \in Gateways /\ g \in Parents[r]
          BY <4>1, <3>2, Zenon
        <4>3. gateway[g] \notin {"ok", "invalid"} /\ gateway[g] \in GatewayStates
          BY <4>1, <4>2, Zenon DEF Split, TypeInv, ClusterOK
        <4>4. gateway[g] \in {"plain", "absent"} /\ gateway[g] \in seen[g]
          BY <4>2, <4>3, Zenon DEF GatewayStates, BoundInv
        <4> QED
          BY <3>1, <3>4, <4>2, <4>4, Zenon DEF Fits
      <3> QED
        BY <3>1, <3>3, <3>4, Zenon DEF PartitionKeysFor
    <2>3. k = Shared \/ "ok" \in States[k]
      BY <1>2, Zenon DEF Split, TypeInv, ClusterOK
    <2> QED
      BY <2>1, <2>2, <2>3, Zenon DEF Lawful
  <1> QED
    BY <1>1, <1>2, Zenon

-----------------------------------------------------------------------------
\* The reads of a sync, and its end, leave every config lawful.
LEMMA RoutesSync ==
    ASSUME TypeInv, RoutesInv, NEW w \in Workers, Bind(w) \/ EarlyError(w) \/ Resolve(w) \/ RetainPartitions(w)
    PROVE  RoutesInv'
  <1>1. CASE Bind(w) \/ EarlyError(w)
    <2>1. BoundInv'
      BY <1>1 DEF Bind, EarlyError, RoutesInv, BoundInv, Unbound, TypeInv, WorkersOK, clusterVars
    <2> QED
      BY <1>1, <2>1, Zenon DEF Bind, EarlyError, RoutesInv, PartInv, PodInv, CacheInv, clusterVars
  <1>2. CASE Resolve(w)
    <2>1. BoundInv'
      BY <1>2, Zenon DEF Resolve, RoutesInv, BoundInv, Unbound, TypeInv, WorkersOK, clusterVars
    <2>2. PICK resolved \in SUBSET Gateways, broken \in SUBSET Gateways : Split(w, resolved, broken)
      BY <1>2, ResolveSplits, Zenon
    <2>3. \A k \in Planes : Lawful(seen, Shares(bound[w], resolved, broken)[k].routes, k)
      BY <2>2, SharesLawful, Zenon DEF RoutesInv
    <2>4. part' = [part EXCEPT ![w] = Shares(bound[w], resolved, broken)] /\ seen' = seen
      BY <1>2, <2>2, Zenon DEF Split, Resolve, clusterVars
    <2>5. PartInv'
      BY <2>3, <2>4, Zenon DEF RoutesInv, PartInv, TypeInv, WorkersOK
    <2> QED
      BY <1>2, <2>1, <2>5, Zenon DEF Resolve, RoutesInv, PodInv, CacheInv, clusterVars
  <1>3. CASE RetainPartitions(w)
    <2>s. seen' = seen
      BY <1>3, Zenon DEF RetainPartitions, clusterVars
    <2>0. \A v \in Workers : \A k \in Planes : part'[v][k] = part[v][k] \/ part'[v][k].routes = {}
      <3>1. part' = [part EXCEPT ![w] = [k \in Planes |-> NoPart]]
        BY <1>3, Zenon DEF RetainPartitions, NoParts
      <3> QED
        BY <3>1, NoneLawful DEF TypeInv, WorkersOK
    <2>1. PartInv'
      BY <2>s, <2>0, NoneLawful DEF RoutesInv, PartInv
    <2>3. \A k \in Planes : target'[k].lastCfg = target[k].lastCfg \/ target'[k].lastCfg.routes = {}
      BY <1>3, NoneLawful, Zenon DEF RetainPartitions
    <2>2. CacheInv'
      BY <2>s, <2>3, NoneLawful DEF RoutesInv, CacheInv
    <2> QED
      BY <1>3, <2>1, <2>2, Zenon DEF RetainPartitions, RoutesInv, BoundInv, PodInv, clusterVars
  <1> QED
    BY <1>1, <1>2, <1>3, Zenon

\* A share that is settled has no routes left.
LEMMA PartSettled ==
    ASSUME TypeInv, PartInv, NEW w \in Workers, NEW k \in Planes, seen' = seen, NEW x \in Parts,
           part' = [part EXCEPT ![w][k] = x], x.routes = {} \/ x.routes = part[w][k].routes
    PROVE  PartInv'
  <1> SUFFICES ASSUME NEW v \in Workers, NEW j \in Planes
               PROVE  Lawful(seen, part'[v][j].routes, j)
    BY Zenon DEF PartInv
  <1>1. CASE v = w /\ j = k
    <2>1. part'[v][j] = x
      BY <1>1, Zenon DEF TypeInv, WorkersOK
    <2> QED
      BY <1>1, <2>1, NoneLawful, Zenon DEF PartInv
  <1>2. CASE ~(v = w /\ j = k)
    <2>1. part'[v][j] = part[v][j]
      BY <1>2, Zenon DEF TypeInv, WorkersOK
    <2> QED
      BY <2>1, Zenon DEF PartInv
  <1> QED
    BY <1>1, <1>2, Zenon

\* A push brings a plane, and its cache, the share it was meant for.
LEMMA RoutesPush ==
    ASSUME TypeInv, RoutesInv, NEW w \in Workers, NEW k \in Planes,
           PreparePush(w, k) \/ RecordPushOK(w, k) \/ RecordPushFailed(w, k)
    PROVE  RoutesInv'
  <1> DEFINE p == part[w][k]
  <1>p. p \in Parts /\ pod[k].addr \in Nat /\ Lawful(seen, p.routes, k)
    BY PartFields, PlaneFields, Zenon DEF RoutesInv, PartInv
  <1>d. Done \in Parts /\ Done.routes = {} /\ \A R : Cfg(R).routes = R
    BY NothingTypes, NoneLawful, Zenon
  <1>s. BoundInv' /\ seen' = seen
    BY Zenon DEF PreparePush, RecordPushOK, RecordPushFailed, RoutesInv, BoundInv, clusterVars
  <1>1. CASE PreparePush(w, k)
    <2>1. [p EXCEPT !.at = "put", !.to = pod[k].addr] \in Parts
          /\ [p EXCEPT !.at = "put", !.to = pod[k].addr].routes = p.routes
      BY <1>p, Zenon DEF Parts
    <2>2. \/ part' = [part EXCEPT ![w][k] = Done]
          \/ part' = [part EXCEPT ![w][k] = [p EXCEPT !.at = "put", !.to = pod[k].addr]]
      BY <1>1, Zenon DEF PreparePush
    <2>3. PartInv'
      <3>1. CASE part' = [part EXCEPT ![w][k] = Done]
        BY <3>1, <1>d, <1>s, PartSettled, Zenon DEF RoutesInv
      <3>2. CASE part' = [part EXCEPT ![w][k] = [p EXCEPT !.at = "put", !.to = pod[k].addr]]
        BY <3>2, <2>1, <1>s, PartSettled, Zenon DEF RoutesInv
      <3> QED
        BY <2>2, <3>1, <3>2, Zenon
    <2>4. \A j \in Planes : target'[j].lastCfg = target[j].lastCfg
      BY <1>1, Zenon DEF PreparePush, TypeInv, PlanesOK, Targets
    <2>5. CacheInv'
      BY <2>4, <1>s, Zenon DEF RoutesInv, CacheInv
    <2> QED
      BY <1>1, <1>s, <2>3, <2>5, Zenon DEF PreparePush, RoutesInv, PodInv
  <1>2. CASE RecordPushOK(w, k)
    <2>1. PartInv'
      BY <1>2, <1>d, <1>s, PartSettled, Zenon DEF RecordPushOK, RoutesInv
    <2>2. \A j \in Planes : pod'[j].cfg.routes = IF j = k THEN p.routes ELSE pod[j].cfg.routes
      BY <1>2, <1>d DEF RecordPushOK, Serve, TypeInv, PlanesOK, Pods
    <2>3. \A j \in Planes : target'[j].lastCfg.routes \in {p.routes, target[j].lastCfg.routes}
                            /\ (j # k => target'[j].lastCfg = target[j].lastCfg)
      <3>1. CASE target[k].exists
        <4>1. target' = [target EXCEPT ![k].lastCfg = Cfg(p.routes), ![k].hash = Cfg(p.routes),
                                       ![k].token = p.token, ![k].pushedTo = p.to]
          BY <1>2, <3>1, Zenon DEF RecordPushOK
        <4> HIDE DEF p
        <4>2. \A j \in Planes : target'[j].lastCfg = IF j = k THEN Cfg(p.routes) ELSE target[j].lastCfg
          BY <4>1 DEF TypeInv, PlanesOK, Targets
        <4> QED
          BY <4>2, <1>d, Zenon
      <3>2. CASE ~target[k].exists
        BY <1>2, <3>2, Zenon DEF RecordPushOK
      <3> QED
        BY <3>1, <3>2, Zenon
    <2> HIDE DEF p
    <2>4. PodInv'
      BY <2>2, <1>p, <1>s, Zenon DEF RoutesInv, PodInv
    <2>5. CacheInv'
      BY <2>3, <1>p, <1>s, Zenon DEF RoutesInv, CacheInv
    <2> QED
      BY <1>s, <2>1, <2>4, <2>5, Zenon DEF RoutesInv
  <1>3. CASE RecordPushFailed(w, k)
    <2>1. PartInv'
      BY <1>3, <1>d, <1>s, PartSettled, Zenon DEF RecordPushFailed, RoutesInv
    <2>2. target' = target \/ target' = [target EXCEPT ![k].hash = NoCfg, ![k].pushedTo = 0]
      BY <1>3, Zenon DEF RecordPushFailed
    <2>3. \A j \in Planes : target'[j].lastCfg = target[j].lastCfg
      BY <2>2 DEF TypeInv, PlanesOK, Targets
    <2>4. CacheInv'
      BY <2>3, <1>s, Zenon DEF RoutesInv, CacheInv
    <2> QED
      BY <1>3, <1>s, <2>1, <2>4, Zenon DEF RecordPushFailed, RoutesInv, PodInv
  <1> QED
    BY <1>1, <1>2, <1>3, Zenon

\* A replay brings a plane what is cached for it.
LEMMA RoutesResync == TypeInv /\ RoutesInv /\ ResyncStep => RoutesInv'
  <1> SUFFICES ASSUME TypeInv, RoutesInv, ResyncStep PROVE RoutesInv'
    BY Zenon
  <1>r. resync.key \in Planes
    BY DEF TypeInv, PlanesOK, Resyncs
  <1>s. BoundInv' /\ PartInv' /\ seen' = seen
    BY Zenon DEF ResyncStep, ResyncBegin, ResyncRead, ResyncNothing, ResyncOK, ResyncFailed, ResyncEnd,
                 RoutesInv, BoundInv, PartInv, clusterVars, workerVars
  <1>1. CASE UNCHANGED <<pod, target>>
    BY <1>1, <1>s, Zenon DEF RoutesInv, PodInv, CacheInv
  <1>2. CASE ResyncOK
    <2> DEFINE k == resync.key
    <2>1. target' = [target EXCEPT ![k].hash = target[k].lastCfg, ![k].token = resync.token,
                                   ![k].pushedTo = pod[k].addr]
      BY <1>2, Zenon DEF ResyncOK
    <2>2. pod' = [pod EXCEPT ![k].cfg = target[k].lastCfg]
      BY <1>2, Zenon DEF ResyncOK, Serve
    <2>k. k \in Planes
      BY <1>r, Zenon
    <2> HIDE DEF k
    <2>3. \A j \in Planes : target'[j].lastCfg = target[j].lastCfg
      BY <2>1, <2>k DEF TypeInv, PlanesOK, Targets
    <2>4. \A j \in Planes : pod'[j].cfg = IF j = k THEN target[j].lastCfg ELSE pod[j].cfg
      BY <2>2, <2>k DEF TypeInv, PlanesOK, Pods
    <2> QED
      BY <1>s, <2>3, <2>4, Zenon DEF RoutesInv, PodInv, CacheInv
  <1>3. CASE ResyncFailed
    <2>1. target' = [target EXCEPT ![resync.key].hash = NoCfg, ![resync.key].pushedTo = 0] /\ pod' = pod
      BY <1>3, Zenon DEF ResyncFailed
    <2>2. \A j \in Planes : target'[j].lastCfg = target[j].lastCfg
      BY <2>1, <1>r DEF TypeInv, PlanesOK, Targets
    <2> QED
      BY <1>s, <2>1, <2>2, Zenon DEF RoutesInv, PodInv, CacheInv
  <1> QED
    BY <1>1, <1>2, <1>3, Zenon DEF ResyncStep, ResyncBegin, ResyncRead, ResyncNothing, ResyncEnd

\* A change of the cluster adds to the history, and a new pod is empty.
LEMMA RoutesEnvironment == TypeInv /\ RoutesInv /\ Environment => RoutesInv'
  <1> SUFFICES ASSUME TypeInv, RoutesInv, Environment PROVE RoutesInv'
    BY Zenon
  <1>1. ASSUME NEW R, NEW gw, NEW W, Changed(R, gw, W) PROVE RoutesInv'
    <2>1. \A g \in Gateways : seen[g] \subseteq seen'[g]
      BY <1>1, Zenon DEF Changed
    <2>2. BoundInv'
      BY <1>1, Zenon DEF Changed, RoutesInv, BoundInv, workerVars
    <2>3. ASSUME NEW w \in Workers, NEW k \in Planes PROVE Lawful(seen', part[w][k].routes, k)
      BY <2>1, <2>3, LawfulGrows, PartFields, Zenon DEF RoutesInv, PartInv
    <2>4. ASSUME NEW k \in Planes PROVE Lawful(seen', pod[k].cfg.routes, k) /\ Lawful(seen', target[k].lastCfg.routes, k)
      <3>1. pod[k].cfg.routes \in SUBSET Routes /\ target[k].lastCfg.routes \in SUBSET Routes
        BY PlaneFields DEF Configs
      <3> QED
        BY <2>1, <3>1, LawfulGrows, Zenon DEF RoutesInv, PodInv, CacheInv
    <2> QED
      BY <1>1, <2>2, <2>3, <2>4, Zenon DEF Changed, RoutesInv, PartInv, PodInv, CacheInv, workerVars
  <1>2. ASSUME NEW k \in Planes, Rotate(k) PROVE RoutesInv'
    BY <1>2, Zenon DEF Rotate, RoutesInv, BoundInv, PartInv, PodInv, CacheInv, workerVars
  <1>3. ASSUME NEW k \in Planes, StartPod(k) \/ Replace(k) \/ RestartPod(k) PROVE RoutesInv'
    <2>0. UNCHANGED <<gateway, seen, bound, part, target>>
      BY <1>3, Zenon DEF StartPod, Replace, RestartPod, clusterVars, workerVars
    <2>1. BoundInv' /\ PartInv' /\ CacheInv' /\ seen' = seen
      BY <2>0, Zenon DEF RoutesInv, BoundInv, PartInv, CacheInv
    <2>2. \A j \in Planes : pod'[j].cfg = pod[j].cfg \/ pod'[j].cfg = NoCfg
      <3>1. CASE StartPod(k)
        <4>1. pod' = [pod EXCEPT ![k] = [cfg |-> NoCfg, token |-> Current(k), addr |-> 1]]
          BY <3>1, Zenon DEF StartPod
        <4> QED
          BY <4>1 DEF TypeInv, PlanesOK
      <3>2. CASE Replace(k)
        <4>1. pod' = [pod EXCEPT ![k] = [cfg |-> NoCfg, token |-> Current(k), addr |-> pod[k].addr + 1]]
          BY <3>2, SMT DEF Replace
        <4> QED
          BY <4>1 DEF TypeInv, PlanesOK
      <3>3. CASE RestartPod(k)
        BY <3>3 DEF RestartPod, TypeInv, PlanesOK, Pods
      <3> QED
        BY <1>3, <3>1, <3>2, <3>3, Zenon
    <2>3. PodInv'
      BY <2>1, <2>2, NoneLawful DEF RoutesInv, PodInv
    <2> QED
      BY <2>1, <2>3, Zenon DEF RoutesInv
  <1> QED
    BY <1>1, <1>2, <1>3, Zenon DEF Environment, ChangeRoute, ChangeGateway

\* Every step keeps every config lawful.
LEMMA RoutesStep == TypeInv /\ RoutesInv /\ [Next]_vars => RoutesInv'
  <1> SUFFICES ASSUME TypeInv, RoutesInv, [Next]_vars PROVE RoutesInv'
    BY Zenon
  <1>1. CASE UNCHANGED vars
    BY <1>1, Zenon DEF vars, RoutesInv, BoundInv, PartInv, PodInv, CacheInv
  <1>2. ASSUME NEW w \in Workers, WorkerStep(w) PROVE RoutesInv'
    BY <1>2, RoutesSync, RoutesPush, Zenon DEF WorkerStep
  <1> QED
    BY <1>1, <1>2, RoutesResync, RoutesEnvironment, Zenon DEF Next

\* At the start nothing has routes.
LEMMA RoutesInit == Init => RoutesInv
  <1> SUFFICES ASSUME Init PROVE RoutesInv
    BY Zenon
  <1>1. BoundInv
    BY Zenon DEF Init, BoundInv, Unbound
  <1>2. /\ \A w \in Workers : \A k \in Planes : part[w][k].routes = {}
        /\ \A k \in Planes : pod[k].cfg.routes = {} /\ target[k].lastCfg.routes = {}
    BY NoneLawful DEF Init, NoParts
  <1> QED
    BY <1>1, <1>2, NoneLawful DEF RoutesInv, PartInv, PodInv, CacheInv

-----------------------------------------------------------------------------
\* Every config is lawful at all times: what a sync computes, what a pod
\* serves and what a replay would bring it (SyncAllRoutes, ProxySyncer).
THEOREM RoutesLawful == Spec => [](TypeInv /\ RoutesInv)
  BY TypeInit, TypeStep, RoutesInit, RoutesStep, PTL DEF Spec

\* No route of an opted-in Gateway reaches the shared plane because that
\* Gateway is invalid or cannot be read for a moment (partitionKeysFor).
THEOREM BrokenFailsClosed == Spec => []FailsClosed
  <1>1. TypeInv /\ RoutesInv => FailsClosed
    <2> SUFFICES ASSUME RoutesInv, NEW r \in pod[Shared].cfg.routes
                 PROVE  Belongs(r, Shared) \/ \E g \in Parents[r] : "absent" \in seen[g]
      BY Zenon DEF FailsClosed
    <2>1. Fits(seen, r, Shared)
      BY PlaneKinds, Zenon DEF RoutesInv, PodInv, Lawful
    <2> QED
      BY <2>1, Zenon DEF Fits, Belongs
  <1> QED
    BY <1>1, RoutesLawful, PTL

------------------------------------------------------------------------------
(***************************************************************************)
(* The tokens, skip keys and cached states of the planes, for any          *)
(* Gateways, routes, tunnels and workers: TenantIsolated, SkipKeyServed    *)
(* and CacheKept.                                                          *)
(***************************************************************************)

\* A token travels with the plane it belongs to.
ShareTokens == \A w \in Workers : \A k \in Planes : part[w][k].at \in {"todo", "put"} => part[w][k].token.of = k
TargetTokens == \A k \in Planes : target[k].exists => target[k].authToken.of = k
ResyncToken == resync.at = "read" => resync.token.of = resync.key

TokensInv == ShareTokens /\ TargetTokens /\ ResyncToken

\* A skip key has a cached config behind it, and is for an address that the
\* plane has had.
KeyFits(t, p) == /\ t.hash # NoCfg => t.lastCfg # NoCfg
                 /\ t.lastCfg # NoCfg => t.exists
                 /\ t.pushedTo <= p.addr

\* The pod that a skip key matches was pushed to with the token of the key.
Settled(t, p) == t.hash # NoCfg /\ t.pushedTo = p.addr => p.cfg # NoCfg /\ t.token = p.token

Keyed(k) == KeyFits(target[k], pod[k]) /\ (Settled(target[k], pod[k]) \/ ReplayDue(k))

SkipInv == \A k \in Planes : Keyed(k)

\* A sync under way has a share for, or a note on, every Gateway whose
\* configuration is fine all along.
KeepInv ==
    \A w \in Workers : pc[w] = "pushing" =>
        \A g \in Gateways : seen[g] = {"ok"} => part[w][g].at # "none" \/ g \in transient[w]

KeysInv == TokensInv /\ SkipInv /\ KeepInv

-----------------------------------------------------------------------------
\* What one action does to a share: it is settled, or it goes on with its
\* token.
LEMMA SharesSettled ==
    ASSUME TypeInv, ShareTokens, NEW w \in Workers, NEW k \in Planes, NEW x \in Parts,
           part' = [part EXCEPT ![w][k] = x], part[w][k].at \in {"todo", "put"},
           x.at = "done" \/ (x.at = "put" /\ x.token = part[w][k].token)
    PROVE  ShareTokens' /\ \A v \in Workers : \A j \in Planes : part[v][j].at # "none" => part'[v][j].at # "none"
  <1>1. ASSUME NEW v \in Workers, NEW j \in Planes
        PROVE  /\ part'[v][j].at \in {"todo", "put"} => part'[v][j].token.of = j
               /\ part[v][j].at # "none" => part'[v][j].at # "none"
    <2>1. CASE v = w /\ j = k
      <3>1. part'[v][j] = x
        BY <2>1, Zenon DEF TypeInv, WorkersOK
      <3> QED
        BY <2>1, <3>1 DEF ShareTokens
    <2>2. CASE ~(v = w /\ j = k)
      <3>1. part'[v][j] = part[v][j]
        BY <2>2, Zenon DEF TypeInv, WorkersOK
      <3> QED
        BY <3>1, Zenon DEF ShareTokens
    <2> QED
      BY <2>1, <2>2, Zenon
  <1> QED
    BY <1>1, Zenon DEF ShareTokens

\* The steps of a push change one share, and keep the rest of a sync.
LEMMA PushShares ==
    ASSUME TypeInv, TokensInv, KeepInv, NEW w \in Workers, NEW k \in Planes,
           PreparePush(w, k) \/ RecordPushOK(w, k) \/ RecordPushFailed(w, k)
    PROVE  ShareTokens' /\ ResyncToken' /\ KeepInv' /\ UNCHANGED <<seen, gateway, bound>>
  <1> DEFINE p == part[w][k]
             x == [p EXCEPT !.at = "put", !.to = pod[k].addr]
  <1>p. p \in Parts /\ pod[k].addr \in Nat /\ part[w][k].at \in {"todo", "put"}
    BY PartFields, PlaneFields, Zenon DEF PreparePush, RecordPushOK, RecordPushFailed
  <1>x. x \in Parts /\ x.at = "put" /\ x.token = part[w][k].token
    BY <1>p, Zenon DEF Parts
  <1>d. Done \in Parts /\ Done.at = "done"
    BY NothingTypes DEF Done, NoPart
  <1>1. part' = [part EXCEPT ![w][k] = Done] \/ part' = [part EXCEPT ![w][k] = x]
    BY Zenon DEF PreparePush, RecordPushOK, RecordPushFailed
  <1>2. ShareTokens' /\ \A v \in Workers : \A j \in Planes : part[v][j].at # "none" => part'[v][j].at # "none"
    <2> HIDE DEF x
    <2>1. CASE part' = [part EXCEPT ![w][k] = Done]
      BY <2>1, <1>p, <1>d, SharesSettled, Zenon DEF TokensInv
    <2>2. CASE part' = [part EXCEPT ![w][k] = x]
      BY <2>2, <1>p, <1>x, SharesSettled, Zenon DEF TokensInv
    <2> QED
      BY <1>1, <2>1, <2>2, Zenon
  <1>3. UNCHANGED <<seen, gateway, bound, pc, transient, resync>>
    BY Zenon DEF PreparePush, RecordPushOK, RecordPushFailed, clusterVars
  <1>4. KeepInv'
    BY <1>2, <1>3, PlaneKinds, Zenon DEF KeepInv
  <1> QED
    BY <1>2, <1>3, <1>4, Zenon DEF TokensInv, ResyncToken

-----------------------------------------------------------------------------
\* A key without a hash fits any pod.
LEMMA NoKeyFits ==
    ASSUME NEW t, NEW p \in Pods, t.hash = NoCfg, t.pushedTo = 0, t.lastCfg # NoCfg => t.exists
    PROVE  KeyFits(t, p) /\ Settled(t, p)
  BY SMT DEF KeyFits, Settled, Pods

\* The key after a push or a replay that was taken fits the pod that took it.
LEMMA NewKeyFits ==
    ASSUME NEW t, NEW p, NEW n \in Nat, t.pushedTo = n, p.addr = n, p.cfg # NoCfg, t.token = p.token,
           t.exists, t.lastCfg # NoCfg
    PROVE  KeyFits(t, p) /\ Settled(t, p)
  BY SMT DEF KeyFits, Settled

\* A replay stays due until the endpoint reconciler works on it.
LEMMA DueKept ==
    ASSUME event \subseteq event', resync' = resync, NEW k \in Planes, ReplayDue(k)
    PROVE  ReplayDue(k)'
  BY Zenon DEF ReplayDue

\* No plane with a skip key loses a replay that is due.
StillDue == \A k \in Planes : ReplayDue(k) => target[k].hash = NoCfg \/ ReplayDue(k)'

\* A step that leaves pods and targets alone, and forgets no replay, keeps the
\* keys.
LEMMA KeysUntouched ==
    ASSUME SkipInv, TargetTokens, pod' = pod, target' = target,
           StillDue \/ (resync' = resync /\ event \subseteq event')
    PROVE  SkipInv' /\ TargetTokens'
  <1>1. StillDue
    BY DueKept, Zenon DEF StillDue
  <1>2. ASSUME NEW k \in Planes PROVE Keyed(k)'
    <2>1. target[k].hash = NoCfg => Settled(target[k], pod[k])
      BY Zenon DEF Settled
    <2> QED
      BY <1>1, <2>1, Zenon DEF StillDue, SkipInv, Keyed
  <1> QED
    BY <1>2, Zenon DEF SkipInv, TargetTokens

\* A plane whose key is dropped needs no replay, the others keep theirs.
OthersDue(k) == \A j \in Planes : j # k /\ ReplayDue(j) => ReplayDue(j)'

LEMMA KeyDropped ==
    ASSUME TypeInv, SkipInv, TargetTokens, NEW k \in Planes, pod' = pod, OthersDue(k),
           target' = [target EXCEPT ![k].hash = NoCfg, ![k].pushedTo = 0]
    PROVE  SkipInv' /\ TargetTokens'
  <1>1. \A j \in Planes : /\ target'[j].exists = target[j].exists /\ target'[j].authToken = target[j].authToken
                          /\ j # k => target'[j] = target[j]
    BY DEF TypeInv, PlanesOK, Targets
  <1>2. target'[k].hash = NoCfg /\ target'[k].pushedTo = 0 /\ target'[k].lastCfg = target[k].lastCfg
    BY DEF TypeInv, PlanesOK, Targets
  <1>l. target'[k].lastCfg # NoCfg => target'[k].exists
    BY <1>1, <1>2, Zenon DEF SkipInv, Keyed, KeyFits
  <1>3. Keyed(k)'
    BY <1>2, <1>l, NoKeyFits, PlaneFields, Zenon DEF Keyed
  <1>4. ASSUME NEW j \in Planes, j # k PROVE Keyed(j)'
    BY <1>1, <1>4, Zenon DEF SkipInv, Keyed, OthersDue
  <1>5. SkipInv'
    BY <1>3, <1>4, Zenon DEF SkipInv
  <1>6. TargetTokens'
    BY <1>1 DEF TargetTokens
  <1> QED
    BY <1>5, <1>6, Zenon

\* The reads of a sync, and its end, keep tokens, keys and shares.
LEMMA KeysSync ==
    ASSUME TypeInv, BoundInv, KeysInv, NEW w \in Workers,
           Bind(w) \/ EarlyError(w) \/ Resolve(w) \/ RetainPartitions(w)
    PROVE  KeysInv'
  <1>1. CASE Bind(w) \/ EarlyError(w)
    <2>1. /\ UNCHANGED <<part, target, resync, pod, seen, transient, event>>
          /\ \A v \in Workers : pc'[v] = "pushing" => pc[v] = "pushing"
      BY <1>1, Zenon DEF Bind, EarlyError, clusterVars, TypeInv, WorkersOK
    <2>2. SkipInv' /\ TargetTokens'
      BY <2>1, KeysUntouched, Zenon DEF KeysInv, TokensInv
    <2> QED
      BY <2>1, <2>2, Zenon DEF KeysInv, TokensInv, ShareTokens, ResyncToken, KeepInv
  <1>2. CASE Resolve(w)
    <2>1. UNCHANGED <<target, resync, pod, seen, event>> /\ pc' = [pc EXCEPT ![w] = "pushing"]
      BY <1>2, Zenon DEF Resolve, clusterVars
    <2>2. PICK resolved \in SUBSET Gateways, broken \in SUBSET Gateways : Split(w, resolved, broken)
      BY <1>2, ResolveSplits, Zenon
    <2>3. part' = [part EXCEPT ![w] = Shares(bound[w], resolved, broken)]
      BY <2>2, Zenon DEF Split
    <2>4. \A k \in Planes : LET q == Shares(bound[w], resolved, broken)[k]
                            IN  /\ q.at \in {"todo", "put"} => q.token.of = k
                                /\ k \in resolved => q.at # "none"
      BY Zenon DEF Shares, AuthTokenFor, Current, NoPart
    <2>5. ShareTokens'
      BY <2>3, <2>4 DEF KeysInv, TokensInv, ShareTokens, TypeInv, WorkersOK
    <2>6. KeepInv'
      <3> SUFFICES ASSUME NEW v \in Workers, pc'[v] = "pushing", NEW g \in Gateways, seen[g] = {"ok"}
                   PROVE  part'[v][g].at # "none" \/ g \in transient'[v]
        BY <2>1, Zenon DEF KeepInv
      <3>0. PICK blips : /\ transient' = [transient EXCEPT ![w] = blips]
                         /\ {h \in Gateways : gateway[h] = "ok"} \subseteq resolved \cup blips
        BY <2>2, Zenon DEF Split
      <3>1. CASE v = w
        <4>1. gateway[g] = "ok"
          BY Zenon DEF BoundInv
        <4>2. g \in resolved \/ g \in transient'[w]
          BY <4>1, <3>0, Zenon DEF TypeInv, WorkersOK
        <4>3. part'[w][g] = Shares(bound[w], resolved, broken)[g]
          BY <2>3, Zenon DEF TypeInv, WorkersOK
        <4> QED
          BY <3>1, <4>2, <4>3, <2>4, PlaneKinds, Zenon
      <3>2. CASE v # w
        <4>1. pc'[v] = pc[v] /\ part'[v] = part[v] /\ transient'[v] = transient[v]
          BY <3>0, <3>2, <2>1, <2>3, Zenon DEF TypeInv, WorkersOK
        <4> QED
          BY <4>1, Zenon DEF KeysInv, KeepInv
      <3> QED
        BY <3>1, <3>2, Zenon
    <2>7. SkipInv' /\ TargetTokens'
      BY <2>1, KeysUntouched, Zenon DEF KeysInv, TokensInv
    <2> QED
      BY <2>1, <2>5, <2>6, <2>7, Zenon DEF KeysInv, TokensInv, ResyncToken
  <1>3. CASE RetainPartitions(w)
    <2>1. UNCHANGED <<resync, pod, seen, event>> /\ pc' = [pc EXCEPT ![w] = "idle"] /\ part' = [part EXCEPT ![w] = NoParts]
          /\ transient' = [transient EXCEPT ![w] = {}]
      BY <1>3, Zenon DEF RetainPartitions, clusterVars
    <2>2. \A k \in Planes : NoParts[k].at = "none"
      BY Zenon DEF NoParts, NoPart
    <2>3. ShareTokens'
      BY <2>1, <2>2 DEF KeysInv, TokensInv, ShareTokens, TypeInv, WorkersOK
    <2>4. KeepInv'
      BY <2>1 DEF KeysInv, KeepInv, TypeInv, WorkersOK
    <2>5. \A k \in Planes : target'[k] = target[k] \/ target'[k] = NoTarget
      BY <1>3, Zenon DEF RetainPartitions
    <2>6. TargetTokens'
      BY <2>5 DEF KeysInv, TokensInv, TargetTokens, NoTarget
    <2>8. SkipInv'
      <3> SUFFICES ASSUME NEW k \in Planes PROVE Keyed(k)'
        BY Zenon DEF SkipInv
      <3>1. NoTarget.hash = NoCfg /\ NoTarget.pushedTo = 0 /\ NoTarget.lastCfg = NoCfg
        BY Zenon DEF NoTarget
      <3>2. KeyFits(NoTarget, pod[k]) /\ Settled(NoTarget, pod[k])
        BY <3>1, NoKeyFits, PlaneFields, Zenon
      <3>3. Keyed(k) /\ (ReplayDue(k) => ReplayDue(k)')
        BY <2>1, DueKept, Zenon DEF KeysInv, SkipInv
      <3>4. pod'[k] = pod[k]
        BY <2>1, Zenon
      <3> QED
        BY <2>5, <3>2, <3>3, <3>4, Zenon DEF Keyed
    <2> QED
      BY <2>1, <2>3, <2>4, <2>6, <2>8, Zenon DEF KeysInv, TokensInv, ResyncToken
  <1> QED
    BY <1>1, <1>2, <1>3, Zenon

\* A push keeps them, and its record matches what the pod took.
LEMMA KeysPush ==
    ASSUME TypeInv, KeysInv, NEW w \in Workers, NEW k \in Planes,
           PreparePush(w, k) \/ RecordPushOK(w, k) \/ RecordPushFailed(w, k)
    PROVE  KeysInv'
  <1> DEFINE p == part[w][k]
  <1>p. /\ p \in Parts /\ p.to \in Nat /\ p.token \in Tokens /\ p.routes \in SUBSET Routes
        /\ p.at \in {"todo", "put"} => p.token.of = k
    BY PartFields, Zenon DEF KeysInv, TokensInv, ShareTokens
  <1>s. ShareTokens' /\ ResyncToken' /\ KeepInv'
    BY PushShares, Zenon DEF KeysInv
  <1>k. \A j \in Planes : Keyed(j)
    BY Zenon DEF KeysInv, SkipInv
  <1>d. \A j \in Planes : ReplayDue(j) => ReplayDue(j)'
    <2>1. event \subseteq event' /\ resync' = resync
      BY Zenon DEF PreparePush, RecordPushOK, RecordPushFailed, Serve
    <2> QED
      BY <2>1, DueKept, Zenon
  <1>1. CASE PreparePush(w, k)
    <2>1. target' = [target EXCEPT ![k].exists = TRUE, ![k].authToken = p.token] /\ pod' = pod /\ p.token.of = k
      BY <1>1, <1>p, Zenon DEF PreparePush
    <2> HIDE DEF p
    <2>2. \A j \in Planes : /\ target'[j].hash = target[j].hash /\ target'[j].token = target[j].token
                            /\ target'[j].pushedTo = target[j].pushedTo /\ target'[j].lastCfg = target[j].lastCfg
                            /\ j # k => target'[j] = target[j]
      BY <2>1, Zenon DEF TypeInv, PlanesOK, Targets
    <2>3. target'[k].authToken.of = k /\ target'[k].exists
      BY <2>1, Zenon DEF TypeInv, PlanesOK, Targets
    <2>4. TargetTokens'
      BY <2>2, <2>3 DEF KeysInv, TokensInv, TargetTokens
    <2>5. ASSUME NEW j \in Planes PROVE Keyed(j)'
      <3>1. Keyed(j) /\ pod'[j] = pod[j]
        BY <2>1, <1>k, Zenon
      <3>2. /\ target'[j].hash = target[j].hash /\ target'[j].token = target[j].token
            /\ target'[j].pushedTo = target[j].pushedTo /\ target'[j].lastCfg = target[j].lastCfg
            /\ target[j].exists => target'[j].exists
        BY <2>2, <2>3, Zenon
      <3>3. KeyFits(target'[j], pod'[j])
        BY <3>1, <3>2, Zenon DEF Keyed, KeyFits
      <3>4. Settled(target[j], pod[j]) => Settled(target'[j], pod'[j])
        BY <3>1, <3>2, Zenon DEF Settled
      <3> QED
        BY <3>1, <3>3, <3>4, <1>d, Zenon DEF Keyed
    <2>6. SkipInv'
      BY <2>5, Zenon DEF SkipInv
    <2> QED
      BY <1>s, <2>4, <2>6, Zenon DEF KeysInv, TokensInv
  <1>2. CASE RecordPushOK(w, k)
    <2>1. /\ pod' = [pod EXCEPT ![k].cfg = Cfg(p.routes)] /\ pod[k].addr = p.to /\ pod[k].token = p.token
      BY <1>2, Zenon DEF RecordPushOK, Serve, Reached
    <2>2. \/ target' = target
          \/ /\ target[k].exists
             /\ target' = [target EXCEPT ![k].lastCfg = Cfg(p.routes), ![k].hash = Cfg(p.routes),
                                         ![k].token = p.token, ![k].pushedTo = p.to]
      BY <1>2, Zenon DEF RecordPushOK
    <2>c. Cfg(p.routes) # NoCfg
      BY <1>p, ConfigTypes, Zenon
    <2> HIDE DEF p
    <2>3. \A j \in Planes : /\ target'[j].exists = target[j].exists /\ target'[j].authToken = target[j].authToken
                            /\ j # k => target'[j] = target[j]
      BY <2>2 DEF TypeInv, PlanesOK, Targets
    <2>4. target'[k] = target[k] \/ (/\ target'[k].token = p.token /\ target'[k].pushedTo = p.to
                                     /\ target'[k].exists /\ target'[k].lastCfg # NoCfg)
      BY <2>2, <2>c DEF TypeInv, PlanesOK, Targets
    <2>5. /\ \A j \in Planes : j # k => pod'[j] = pod[j]
          /\ pod'[k].cfg # NoCfg /\ pod'[k].addr = pod[k].addr /\ pod'[k].token = pod[k].token
      BY <2>1, <2>c DEF TypeInv, PlanesOK, Pods
    <2>6. Keyed(k)'
      <3>1. CASE target'[k] = target[k]
        <4>1. KeyFits(target'[k], pod'[k])
          BY <3>1, <2>5, <1>k DEF Keyed, KeyFits
        <4>2. Settled(target[k], pod[k]) => Settled(target'[k], pod'[k])
          BY <3>1, <2>5, Zenon DEF Settled
        <4> QED
          BY <4>1, <4>2, <1>d, <1>k, Zenon DEF Keyed
      <3>2. CASE /\ target'[k].token = p.token /\ target'[k].pushedTo = p.to
                 /\ target'[k].exists /\ target'[k].lastCfg # NoCfg
        <4>1. target'[k].token = pod'[k].token /\ pod'[k].addr = p.to
          BY <3>2, <2>1, <2>5
        <4>2. KeyFits(target'[k], pod'[k]) /\ Settled(target'[k], pod'[k])
          BY <3>2, <4>1, <2>5, <1>p, NewKeyFits, Zenon
        <4> QED
          BY <4>2, Zenon DEF Keyed
      <3> QED
        BY <2>4, <3>1, <3>2, Zenon
    <2>7. ASSUME NEW j \in Planes, j # k PROVE Keyed(j)'
      BY <2>3, <2>5, <2>7, <1>k, <1>d, Zenon DEF Keyed
    <2>8. SkipInv'
      BY <2>6, <2>7, Zenon DEF SkipInv
    <2>9. TargetTokens'
      BY <2>3 DEF KeysInv, TokensInv, TargetTokens
    <2> QED
      BY <1>s, <2>8, <2>9, Zenon DEF KeysInv, TokensInv
  <1>3. CASE RecordPushFailed(w, k)
    <2>1. /\ pod' = pod /\ event' = event /\ resync' = resync
          /\ target' = target \/ target' = [target EXCEPT ![k].hash = NoCfg, ![k].pushedTo = 0]
      BY <1>3, Zenon DEF RecordPushFailed
    <2>2. OthersDue(k)
      BY <1>d, Zenon DEF OthersDue
    <2>3. SkipInv' /\ TargetTokens'
      BY <2>1, <2>2, KeyDropped, KeysUntouched, Zenon DEF KeysInv, TokensInv
    <2> QED
      BY <1>s, <2>3, Zenon DEF KeysInv, TokensInv
  <1> QED
    BY <1>1, <1>2, <1>3, Zenon

\* A replay keeps them: it reads a token together with its plane's name.
LEMMA KeysResync == TypeInv /\ KeysInv /\ ResyncStep => KeysInv'
  <1> SUFFICES ASSUME TypeInv, KeysInv, ResyncStep PROVE KeysInv'
    BY Zenon
  <1>r. resync \in Resyncs /\ resync.key \in Planes /\ resync.keys \in SUBSET Planes
    BY DEF TypeInv, PlanesOK, Resyncs
  <1>s. ShareTokens' /\ KeepInv'
    <2>1. UNCHANGED <<seen, pc, part, transient>>
      BY Zenon DEF ResyncStep, ResyncBegin, ResyncRead, ResyncNothing, ResyncOK, ResyncFailed, ResyncEnd,
                   clusterVars, workerVars
    <2> QED
      BY <2>1, Zenon DEF KeysInv, TokensInv, ShareTokens, KeepInv
  <1>k. \A j \in Planes : /\ target[j].hash # NoCfg => target[j].lastCfg # NoCfg
                          /\ target[j].lastCfg # NoCfg => target[j].exists
    BY Zenon DEF KeysInv, SkipInv, Keyed, KeyFits
  <1>a. CASE ResyncBegin
    <2>1. PICK e \in event, K \in SUBSET Planes :
            /\ event' = event \ {e}
            /\ resync' = [NoResync EXCEPT !.request = e, !.at = "next", !.keys = K]
            /\ K = IF e \in Planes /\ (e \in Gateways => gateway[e] # "absent")
                     THEN {e} ELSE {j \in Planes : target[j].exists}
      BY <1>a, Zenon DEF ResyncBegin
    <2>2. resync'.at = "next" /\ resync'.keys = K
      BY <2>1 DEF NoResync
    <2>3. UNCHANGED <<pod, target>> /\ resync.at = "idle"
      BY <1>a, Zenon DEF ResyncBegin
    <2>4. ASSUME NEW j \in Planes, ReplayDue(j), target[j].hash # NoCfg PROVE ReplayDue(j)'
      <3>1. j \in event \/ Unattributed \in event
        BY <2>3, <2>4 DEF ReplayDue
      <3>2. CASE e # j /\ e # Unattributed
        BY <3>1, <3>2, <2>1, Zenon DEF ReplayDue
      <3>3. CASE e = j \/ e = Unattributed
        <4>1. j \in K
          BY <2>1, <2>4, <3>3, <1>k, TargetsAssumption, Zenon
        <4> QED
          BY <2>2, <4>1 DEF ReplayDue
      <3> QED
        BY <3>2, <3>3, Zenon
    <2>5. SkipInv' /\ TargetTokens'
      BY <2>3, <2>4, KeysUntouched, Zenon DEF StillDue, KeysInv, TokensInv
    <2> QED
      BY <1>s, <2>2, <2>5 DEF KeysInv, TokensInv, ResyncToken
  <1>b. CASE ResyncNothing
    <2>1. /\ UNCHANGED <<pod, target, event>> /\ resync.at = "read" /\ target[resync.key].lastCfg = NoCfg
          /\ resync' = [resync EXCEPT !.at = "next", !.key = Shared, !.token = NoToken]
      BY <1>b, Zenon DEF ResyncNothing
    <2>2. resync'.at = "next" /\ resync'.keys = resync.keys
      BY <2>1, <1>r DEF Resyncs
    <2>3. ASSUME NEW j \in Planes, ReplayDue(j), target[j].hash # NoCfg PROVE ReplayDue(j)'
      <3>1. j # resync.key
        BY <2>1, <2>3, <1>k, Zenon
      <3> QED
        BY <3>1, <2>1, <2>2, <2>3 DEF ReplayDue
    <2>4. SkipInv' /\ TargetTokens'
      BY <2>1, <2>3, KeysUntouched, Zenon DEF StillDue, KeysInv, TokensInv
    <2> QED
      BY <1>s, <2>2, <2>4 DEF KeysInv, TokensInv, ResyncToken
  <1>c. CASE ResyncEnd
    <2>1. /\ UNCHANGED <<pod, target>> /\ event \subseteq event' /\ resync' = NoResync
          /\ resync.at = "next" /\ resync.keys = {}
      BY <1>c, Zenon DEF ResyncEnd
    <2>2. ASSUME NEW j \in Planes, ReplayDue(j) PROVE ReplayDue(j)'
      <3>1. j \in event \/ Unattributed \in event
        BY <2>1, <2>2 DEF ReplayDue
      <3> QED
        BY <3>1, <2>1, Zenon DEF ReplayDue
    <2>3. SkipInv' /\ TargetTokens'
      BY <2>1, <2>2, KeysUntouched, Zenon DEF StillDue, KeysInv, TokensInv
    <2> QED
      BY <1>s, <2>1, <2>3 DEF KeysInv, TokensInv, ResyncToken, NoResync
  <1>2. CASE ResyncRead
    <2>1. PICK k \in resync.keys :
            resync' = [resync EXCEPT
               !.keys = @ \ {k},
               !.key = IF k = Shared \/ target[k].exists THEN k ELSE @,
               !.token = IF k = Shared THEN Current(Shared) ELSE target[k].authToken,
               !.at = IF k = Shared \/ target[k].exists THEN "read" ELSE "next"]
      BY <1>2, Zenon DEF ResyncRead
    <2>2. k \in Planes /\ (target[k].exists => target[k].authToken.of = k) /\ Current(Shared).of = Shared
      BY <1>r, Zenon DEF KeysInv, TokensInv, TargetTokens, Current
    <2>3. ResyncToken'
      <3>1. CASE k = Shared \/ target[k].exists
        <4>1. resync'.key = k /\ resync'.token = IF k = Shared THEN Current(Shared) ELSE target[k].authToken
          BY <2>1, <1>r, <3>1 DEF Resyncs
        <4> QED
          BY <4>1, <2>2, <3>1, Zenon DEF ResyncToken
      <3>2. CASE ~(k = Shared \/ target[k].exists)
        <4>1. resync'.at = "next"
          BY <2>1, <1>r, <3>2 DEF Resyncs
        <4> QED
          BY <4>1 DEF ResyncToken
      <3> QED
        BY <3>1, <3>2, Zenon
    <2>4. UNCHANGED <<pod, target, event>> /\ resync.at = "next"
      BY <1>2, Zenon DEF ResyncRead
    <2>5. /\ resync'.keys = resync.keys \ {k} /\ resync'.at \in {"read", "next"}
          /\ target[k].exists => resync'.at = "read" /\ resync'.key = k
      BY <2>1, <1>r DEF Resyncs
    <2>6. ASSUME NEW j \in Planes, ReplayDue(j), target[j].hash # NoCfg PROVE ReplayDue(j)'
      <3>1. j \in event \/ Unattributed \in event \/ j \in resync.keys
        BY <2>4, <2>6 DEF ReplayDue
      <3>2. CASE j = k
        BY <3>2, <2>5, <2>6, <1>k, Zenon DEF ReplayDue
      <3>3. CASE j # k
        BY <3>1, <3>3, <2>4, <2>5 DEF ReplayDue
      <3> QED
        BY <3>2, <3>3, Zenon
    <2>7. SkipInv' /\ TargetTokens'
      BY <2>4, <2>6, KeysUntouched, Zenon DEF StillDue, KeysInv, TokensInv
    <2> QED
      BY <1>s, <2>3, <2>7, Zenon DEF KeysInv, TokensInv
  <1>3. CASE ResyncFailed
    <2>1. /\ resync'.at = "next" /\ resync'.keys = resync.keys /\ resync.at = "read"
          /\ pod' = pod /\ event' = event
      BY <1>3, <1>r DEF ResyncFailed, Resyncs
    <2>o. OthersDue(resync.key)
      BY <2>1 DEF OthersDue, ReplayDue
    <2>2. target' = [target EXCEPT ![resync.key].hash = NoCfg, ![resync.key].pushedTo = 0]
      BY <1>3, Zenon DEF ResyncFailed
    <2>3. SkipInv' /\ TargetTokens'
      BY <2>1, <2>2, <2>o, <1>r, KeyDropped, Zenon DEF KeysInv, TokensInv
    <2> QED
      BY <1>s, <2>1, <2>3 DEF KeysInv, TokensInv, ResyncToken
  <1>4. CASE ResyncOK
    <2>0. PICK k \in Planes : k = resync.key
      BY <1>r, Zenon
    <2>1. /\ pod' = [pod EXCEPT ![k].cfg = target[k].lastCfg] /\ target[k].lastCfg # NoCfg /\ pod[k].token = resync.token
          /\ target' = [target EXCEPT ![k].hash = target[k].lastCfg, ![k].token = resync.token, ![k].pushedTo = pod[k].addr]
      BY <1>4, <2>0, Zenon DEF ResyncOK, Serve, Reached
    <2>2. resync'.at = "next" /\ resync'.keys = resync.keys /\ resync.at = "read" /\ k \in Planes
      BY <1>4, <1>r DEF ResyncOK, Resyncs
    <2>o. OthersDue(k)
      <3>1. event \subseteq event'
        BY <1>4, Zenon DEF ResyncOK, Serve
      <3> QED
        BY <3>1, <2>0, <2>2 DEF OthersDue, ReplayDue
    <2>3. /\ \A j \in Planes : j # k => pod'[j] = pod[j] /\ target'[j] = target[j]
          /\ target'[k].exists = target[k].exists /\ target'[k].authToken = target[k].authToken
      BY <2>1, <2>2 DEF TypeInv, PlanesOK, Pods, Targets
    <2>4. /\ pod'[k].cfg # NoCfg /\ pod'[k].addr = pod[k].addr /\ pod'[k].token = resync.token
          /\ target'[k].token = resync.token /\ target'[k].pushedTo = pod[k].addr
          /\ target'[k].lastCfg # NoCfg
      BY <2>1, <2>2 DEF TypeInv, PlanesOK, Pods, Targets
    <2>x. target'[k].exists /\ pod[k].addr \in Nat
      BY <2>1, <2>3, <1>k, PlaneFields, Zenon
    <2>y. target'[k].token = pod'[k].token
      BY <2>4, Zenon
    <2>z. KeyFits(target'[k], pod'[k]) /\ Settled(target'[k], pod'[k])
      BY <2>4, <2>x, <2>y, NewKeyFits, Zenon
    <2>5. Keyed(k)'
      BY <2>z, Zenon DEF Keyed
    <2>6. ASSUME NEW j \in Planes, j # k PROVE Keyed(j)'
      BY <2>3, <2>6, <2>o, Zenon DEF KeysInv, SkipInv, Keyed, OthersDue
    <2>7. SkipInv'
      BY <2>5, <2>6, Zenon DEF SkipInv
    <2>8. TargetTokens'
      BY <2>2, <2>3 DEF KeysInv, TokensInv, TargetTokens
    <2> QED
      BY <1>s, <2>2, <2>7, <2>8 DEF KeysInv, TokensInv, ResyncToken
  <1> QED
    BY <1>a, <1>b, <1>c, <1>2, <1>3, <1>4, Zenon DEF ResyncStep

\* The cluster keeps them: a new pod has an address no key is for, and one that
\* restarts in place has a replay coming.
LEMMA KeysEnvironment == TypeInv /\ BoundInv /\ KeysInv /\ Environment => KeysInv'
  <1> SUFFICES ASSUME TypeInv, BoundInv, KeysInv, Environment PROVE KeysInv'
    BY Zenon
  <1>1. ASSUME NEW R, NEW gw, NEW W, Changed(R, gw, W) PROVE KeysInv'
    <2>1. /\ UNCHANGED <<pod, target, resync, event, pc, part, transient>>
          /\ seen' = [g \in Gateways |-> seen[g] \cup {gw[g]}]
      BY <1>1, Zenon DEF Changed, workerVars
    <2>2. \A g \in Gateways : seen'[g] = {"ok"} => seen[g] = {"ok"}
      BY <2>1, Zenon DEF BoundInv
    <2>3. SkipInv' /\ TargetTokens'
      BY <2>1, KeysUntouched, Zenon DEF KeysInv, TokensInv
    <2> QED
      BY <2>1, <2>2, <2>3, Zenon DEF KeysInv, TokensInv, ShareTokens, ResyncToken, KeepInv
  <1>2. ASSUME NEW k \in Planes, Rotate(k) PROVE KeysInv'
    <2>1. UNCHANGED <<pod, target, resync, event, pc, part, transient, seen>>
      BY <1>2, Zenon DEF Rotate, workerVars
    <2>2. SkipInv' /\ TargetTokens'
      BY <2>1, KeysUntouched, Zenon DEF KeysInv, TokensInv
    <2> QED
      BY <2>1, <2>2, Zenon DEF KeysInv, TokensInv, ShareTokens, ResyncToken, KeepInv
  <1>3. ASSUME NEW k \in Planes, StartPod(k) \/ Replace(k) PROVE KeysInv'
    <2>1. UNCHANGED <<target, resync, pc, part, transient, seen>> /\ event \subseteq event'
      BY <1>3, Zenon DEF StartPod, Replace, clusterVars, workerVars
    <2>2. /\ \A j \in Planes : j # k => pod'[j] = pod[j]
          /\ pod'[k].addr = pod[k].addr + 1
      <3>1. CASE StartPod(k)
        <4>1. pod' = [pod EXCEPT ![k] = [cfg |-> NoCfg, token |-> Current(k), addr |-> 1]] /\ pod[k].addr = 0
          BY <3>1, Zenon DEF StartPod
        <4> QED
          BY <4>1 DEF TypeInv, PlanesOK
      <3>2. CASE Replace(k)
        <4>1. pod' = [pod EXCEPT ![k] = [cfg |-> NoCfg, token |-> Current(k), addr |-> pod[k].addr + 1]]
          BY <3>2, SMT DEF Replace
        <4> QED
          BY <4>1 DEF TypeInv, PlanesOK
      <3> QED
        BY <1>3, <3>1, <3>2, Zenon
    <2>3. target[k].pushedTo <= pod[k].addr /\ target[k].pushedTo \in Nat /\ pod[k].addr \in Nat
      BY PlaneFields, Zenon DEF KeysInv, SkipInv, Keyed, KeyFits
    <2>4. target[k].pushedTo # pod'[k].addr /\ target[k].pushedTo <= pod'[k].addr
      BY <2>2, <2>3, SMT
    <2>5. SkipInv'
      <3>1. Keyed(k)'
        BY <2>1, <2>4 DEF KeysInv, SkipInv, Keyed, KeyFits, Settled
      <3>2. ASSUME NEW j \in Planes, j # k PROVE Keyed(j)'
        <4>1. target'[j] = target[j] /\ pod'[j] = pod[j] /\ (ReplayDue(j) => ReplayDue(j)')
          BY <2>1, <2>2, <3>2, DueKept, Zenon
        <4> QED
          BY <4>1, Zenon DEF KeysInv, SkipInv, Keyed
      <3> QED
        BY <3>1, <3>2, Zenon DEF SkipInv
    <2> QED
      BY <2>1, <2>5, Zenon DEF KeysInv, TokensInv, ShareTokens, TargetTokens, ResyncToken, KeepInv
  <1>4. ASSUME NEW k \in Planes, RestartPod(k) PROVE KeysInv'
    <2>1. UNCHANGED <<target, resync, pc, part, transient, seen>> /\ event' = event \cup {k}
      BY <1>4, Zenon DEF RestartPod, clusterVars, workerVars
    <2>2. \A j \in Planes : pod'[j].addr = pod[j].addr /\ (j # k => pod'[j] = pod[j])
      BY <1>4 DEF RestartPod, TypeInv, PlanesOK, Pods
    <2>3. ASSUME NEW j \in Planes PROVE Keyed(j)'
      <3>1. KeyFits(target'[j], pod'[j])
        BY <2>1, <2>2 DEF KeysInv, SkipInv, Keyed, KeyFits
      <3>2. CASE j = k
        BY <2>1, <3>1, <3>2, Zenon DEF Keyed, ReplayDue
      <3>3. CASE j # k
        <4>1. target'[j] = target[j] /\ pod'[j] = pod[j] /\ (ReplayDue(j) => ReplayDue(j)')
          BY <2>1, <2>2, <3>3, DueKept, Zenon
        <4> QED
          BY <4>1, Zenon DEF KeysInv, SkipInv, Keyed
      <3> QED
        BY <3>2, <3>3, Zenon
    <2>4. SkipInv'
      BY <2>3, Zenon DEF SkipInv
    <2> QED
      BY <2>1, <2>4, Zenon DEF KeysInv, TokensInv, ShareTokens, TargetTokens, ResyncToken, KeepInv
  <1> QED
    BY <1>1, <1>2, <1>3, <1>4, Zenon DEF Environment, ChangeRoute, ChangeGateway

\* They hold at the start, and every step keeps them.
LEMMA KeysInit == Init => KeysInv
  <1> SUFFICES ASSUME Init PROVE KeysInv
    BY Zenon
  <1>1. \A w \in Workers : pc[w] = "idle" /\ \A k \in Planes : part[w][k].at = "none"
    BY Zenon DEF Init, NoParts, NoPart
  <1>2. /\ \A k \in Planes : ~target[k].exists /\ target[k].hash = NoCfg /\ target[k].pushedTo = 0 /\ target[k].lastCfg = NoCfg
        /\ resync.at = "idle"
    BY Zenon DEF Init, NoTarget, NoResync
  <1>3. \A k \in Planes : pod[k] \in Pods
    BY TypeInit, PlaneFields, Zenon
  <1>4. TokensInv /\ KeepInv
    BY <1>1, <1>2 DEF TokensInv, ShareTokens, TargetTokens, ResyncToken, KeepInv
  <1>5. SkipInv
    BY <1>2, <1>3, NoKeyFits, Zenon DEF SkipInv, Keyed
  <1> QED
    BY <1>4, <1>5, Zenon DEF KeysInv

\* A step of the controller or of the cluster keeps tokens, keys and shares.
LEMMA KeysStep == TypeInv /\ BoundInv /\ KeysInv /\ [Next]_vars => KeysInv'
  <1> SUFFICES ASSUME TypeInv, BoundInv, KeysInv, [Next]_vars PROVE KeysInv'
    BY Zenon
  <1>1. CASE UNCHANGED vars
    <2>1. UNCHANGED <<pod, target, resync, event, pc, part, transient, seen>>
      BY <1>1, Zenon DEF vars
    <2>2. SkipInv' /\ TargetTokens'
      BY <2>1, KeysUntouched, Zenon DEF KeysInv, TokensInv
    <2> QED
      BY <2>1, <2>2, Zenon DEF KeysInv, TokensInv, ShareTokens, ResyncToken, KeepInv
  <1>2. ASSUME NEW w \in Workers, WorkerStep(w) PROVE KeysInv'
    BY <1>2, KeysSync, KeysPush, Zenon DEF WorkerStep
  <1> QED
    BY <1>1, <1>2, KeysResync, KeysEnvironment, Zenon DEF Next

\* The invariant of this module, on top of those it builds on.
LEMMA KeysKept == Spec => [](TypeInv /\ RoutesInv /\ KeysInv)
  <1>1. RoutesInv => BoundInv
    BY Zenon DEF RoutesInv
  <1> QED
    BY <1>1, RoutesLawful, KeysInit, KeysStep, PTL DEF Spec

-----------------------------------------------------------------------------
\* A skip key that matches the address of a pod means that this very pod took
\* a config under the token of the key, or, after a restart in place, that the
\* endpoint reconciler still has to replay to it (shouldSkipPush, recordPush,
\* resyncTarget).
THEOREM SkipsOnlyServed == Spec => []SkipKeyServed
  <1>1. KeysInv => SkipKeyServed
    BY Zenon DEF KeysInv, SkipInv, Keyed, Settled, SkipKeyServed
  <1> QED
    BY <1>1, KeysKept, PTL

\* No Gateway that can resolve is on the tunnel of the shared plane.
OwnTunnels == \A g \in Gateways : "ok" \in States[g] => TunnelOf[g] # TunnelOf[Shared]

\* With tunnels of their own, dedicated planes only ever serve, cache and
\* replay the routes of their tunnel, and are only ever called with their own
\* token (partitionRoutes, PushWithToken, ResyncPartition).  On the shared
\* tunnel, the routes of a Gateway that vanished between the two reads of a
\* sync would come to them as well.
THEOREM TenantsIsolated == OwnTunnels => (Spec => []TenantIsolated)
  <1> SUFFICES ASSUME OwnTunnels PROVE Spec => []TenantIsolated
    BY Zenon
  <1>1. TypeInv /\ RoutesInv /\ KeysInv => TenantIsolated
    <2> SUFFICES ASSUME TypeInv, RoutesInv, KeysInv PROVE TenantIsolated
      BY Zenon
    <2>1. ASSUME NEW g \in Gateways, NEW R, Lawful(seen, R, g), NEW r \in R PROVE Belongs(r, g)
      <3>1. Fits(seen, r, g) /\ "ok" \in States[g]
        BY <2>1, TargetsAssumption, Zenon DEF Lawful
      <3>2. TunnelOf[g] # TunnelOf[Shared]
        BY <3>1, Zenon DEF OwnTunnels
      <3> QED
        BY <3>1, <3>2, Zenon DEF Fits, Belongs
    <2>2. \A g \in Gateways : Lawful(seen, pod[g].cfg.routes, g) /\ Lawful(seen, target[g].lastCfg.routes, g)
      BY PlaneKinds, Zenon DEF RoutesInv, PodInv, CacheInv
    <2>3. \A g \in Gateways : \A r \in pod[g].cfg.routes \cup target[g].lastCfg.routes : Belongs(r, g)
      BY <2>1, <2>2, Zenon
    <2> QED
      BY <2>3, Zenon DEF TenantIsolated, KeysInv, TokensInv, ShareTokens, ResyncToken
  <1> QED
    BY <1>1, KeysKept, PTL

\* No step drops the push state of a Gateway whose configuration was fine all
\* along: a resolve failure of the moment keeps it (TransientBrokenKeys,
\* RetainPartitions), and nothing else evicts.
THEOREM CacheSurvives == Spec => CacheKept
  <1> DEFINE Kept == \A g \in Gateways : seen'[g] = {"ok"} /\ target[g].exists => target'[g].exists
  <1>1. TypeInv /\ KeysInv /\ [Next]_vars => [Kept]_vars
    <2> SUFFICES ASSUME TypeInv, KeysInv, Next, NEW g \in Gateways, seen'[g] = {"ok"}, target[g].exists
                 PROVE  target'[g].exists
      BY Zenon
    <2>g. g \in Planes /\ target[g] \in Targets
      BY PlaneKinds, PlaneFields, Zenon
    <2>1. ASSUME NEW w \in Workers, RetainPartitions(w) PROVE target'[g].exists
      <3>1. seen[g] = {"ok"} /\ pc[w] = "pushing"
        BY <2>1, Zenon DEF RetainPartitions, clusterVars
      <3>2. g \in Keep(w)
        BY <3>1, <2>g, Zenon DEF KeysInv, KeepInv, Keep
      <3> QED
        BY <2>1, <3>2, <2>g, Zenon DEF RetainPartitions
    <2>2. ASSUME NEW w \in Workers, Bind(w) \/ EarlyError(w) \/ Resolve(w) PROVE target'[g].exists
      BY <2>2, Zenon DEF Bind, EarlyError, Resolve
    <2>3. ASSUME NEW w \in Workers, NEW k \in Planes, PreparePush(w, k) PROVE target'[g].exists
      <3>1. target' = [target EXCEPT ![k].exists = TRUE, ![k].authToken = part[w][k].token]
        BY <2>3, Zenon DEF PreparePush
      <3> QED
        BY <3>1, <2>g DEF TypeInv, PlanesOK, Targets
    <2>4. ASSUME NEW w \in Workers, NEW k \in Planes, RecordPushOK(w, k) PROVE target'[g].exists
      <3>1. \/ target' = target
            \/ target' = [target EXCEPT ![k].lastCfg = Cfg(part[w][k].routes), ![k].hash = Cfg(part[w][k].routes),
                                        ![k].token = part[w][k].token, ![k].pushedTo = part[w][k].to]
        BY <2>4, Zenon DEF RecordPushOK
      <3> QED
        BY <3>1, <2>g DEF TypeInv, PlanesOK, Targets
    <2>5. ASSUME NEW w \in Workers, NEW k \in Planes, RecordPushFailed(w, k) PROVE target'[g].exists
      <3>1. target' = target \/ target' = [target EXCEPT ![k].hash = NoCfg, ![k].pushedTo = 0]
        BY <2>5, Zenon DEF RecordPushFailed
      <3> QED
        BY <3>1, <2>g DEF TypeInv, PlanesOK, Targets
    <2>6. CASE ResyncStep
      <3>1. CASE target' = target
        BY <3>1, Zenon
      <3>2. CASE ResyncOK \/ ResyncFailed
        <4> DEFINE k == resync.key
        <4>1. \/ target' = [target EXCEPT ![k].hash = target[k].lastCfg, ![k].token = resync.token,
                                          ![k].pushedTo = pod[k].addr]
              \/ target' = [target EXCEPT ![k].hash = NoCfg, ![k].pushedTo = 0]
          BY <3>2, Zenon DEF ResyncOK, ResyncFailed
        <4> HIDE DEF k
        <4> QED
          BY <4>1, <2>g DEF TypeInv, PlanesOK, Targets
      <3> QED
        BY <2>6, <3>1, <3>2, Zenon DEF ResyncStep, ResyncBegin, ResyncRead, ResyncNothing, ResyncEnd
    <2>7. CASE Environment
      <3>1. ASSUME NEW R, NEW gw, NEW W, Changed(R, gw, W) PROVE target' = target
        BY <3>1, Zenon DEF Changed
      <3>2. ChangeRoute \/ ChangeGateway => target' = target
        BY <3>1, Zenon DEF ChangeRoute, ChangeGateway
      <3>3. ASSUME NEW k \in Planes, Rotate(k) \/ StartPod(k) \/ Replace(k) \/ RestartPod(k) PROVE target' = target
        BY <3>3, Zenon DEF Rotate, StartPod, Replace, RestartPod
      <3>4. target' = target
        BY <2>7, <3>2, <3>3, Zenon DEF Environment
      <3> QED
        BY <3>4, Zenon
    <2> QED
      BY <2>1, <2>2, <2>3, <2>4, <2>5, <2>6, <2>7, Zenon DEF Next, WorkerStep
  <1> QED
    BY <1>1, KeysKept, PTL DEF Spec, CacheKept

==============================================================================
