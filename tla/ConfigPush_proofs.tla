-------------------------- MODULE ConfigPush_proofs --------------------------
(*****************************************************************************)
(* Proofs about ConfigPush: types, versions, what the replicas can rely on   *)
(* while no clock is set back, and what a recorded push says of them.        *)
(*****************************************************************************)
EXTENDS ConfigPush, TLAPS

------------------------------------------------------------------------------
(*****************************************************************************)
(* Type correctness of ConfigPush for any number of workers, replicas, route *)
(* snapshots, restarts and faults.                                           *)
(*****************************************************************************)

\* The empty config is a config.
LEMMA NoConfigType == NoConfig \in Config
  BY Zenon DEF NoConfig, Config

\* No push under way is a well-typed set of legs.
LEMMA NoLegsType == NoLegs \in Legs
  BY Zenon DEF NoLegs, NoLeg, Legs, LegStates

\* The write of recordPush after a success keeps the type of the push state.
LEMMA TargetUpdate ==
    ASSUME NEW t \in Target, NEW c \in Config, NEW h \in Contents \cup {NoContent},
           NEW E \in SUBSET Endpoints, NEW s \in 0..SurfaceThreshold
    PROVE  [t EXCEPT !.lastCfg = c, !.hash = h, !.endpoints = E, !.streak = s] \in Target
  BY Zenon DEF Target

\* The writes to the skip key, with or without the streak, keep that type.
LEMMA TargetKeyUpdate ==
    ASSUME NEW t \in Target, NEW h \in Contents \cup {NoContent},
           NEW E \in SUBSET Endpoints
    PROVE  /\ [t EXCEPT !.hash = h, !.endpoints = E] \in Target
           /\ \A s \in 0..SurfaceThreshold :
                [t EXCEPT !.hash = h, !.endpoints = E, !.streak = s] \in Target
  BY Zenon DEF Target

\* So does the reset of the failure streak.
LEMMA TargetStreakUpdate ==
    ASSUME NEW t \in Target, NEW s \in 0..SurfaceThreshold
    PROVE  [t EXCEPT !.streak = s] \in Target
  BY Zenon DEF Target

\* A config under another version is a config.
LEMMA VersionUpdate ==
    ASSUME NEW c \in Config, NEW v \in Nat
    PROVE  [c EXCEPT !.version = v] \in Config
  BY Zenon DEF Config

\* The fields of a config have their types.
LEMMA ConfigFields ==
    ASSUME NEW c \in Config
    PROVE  /\ c.version \in Nat /\ c.built \in Nat /\ c.epoch \in Nat
           /\ c.content \in Contents \cup {NoContent}
  BY Zenon DEF Config

\* A freshly started controller is well typed.
LEMMA TypeInit == Init => TypeOK
  <1> SUFFICES ASSUME Init PROVE TypeOK
    BY Zenon
  <1> USE ConstantsAssumption, NoConfigType, NoLegsType
  <1>1. counter \in Nat
    BY Zenon DEF Init
  <1>2. target \in Target
    BY DEF Init, NoTarget, Target, SurfaceThreshold
  <1>3. syncMu = (pc[Resyncer] = "pushing")
    BY Zenon DEF Init, Pushers
  <1> QED
    BY <1>1, <1>2, <1>3, Zenon DEF Init, TypeOK, Pushers

\* One leg of a push moves.
LEMMA TypeSetLeg ==
    ASSUME TypeOK, NEW p \in Pushers, NEW e \in Endpoints,
           NEW at \in LegStates, NEW ver \in Nat, SetLeg(p, e, at, ver)
    PROVE  leg' \in [Pushers -> Legs]
  BY Zenon DEF TypeOK, SetLeg, Legs

\* A leg is well typed.
LEMMA TypeLeg ==
    ASSUME TypeOK, NEW p \in Pushers, NEW e \in Endpoints
    PROVE  leg[p][e] \in [at : LegStates, ver : Nat]
  BY DEF TypeOK, Legs

\* What a leg sends is a config.
LEMMA TypePayload ==
    ASSUME TypeOK, NEW p \in Pushers, NEW e \in Endpoints
    PROVE  Payload(p, e) \in Config
  <1>1. leg[p][e].ver \in Nat
    BY TypeLeg, Zenon
  <1>2. cfg[p] \in Config
    BY Zenon DEF TypeOK
  <1> QED
    BY <1>1, <1>2, VersionUpdate, Zenon DEF Payload

\* No step of pushToEndpoint breaks the types.
LEMMA TypeLegStep ==
    ASSUME TypeOK, NEW p \in Pushers, NEW e \in Endpoints, LegStep(p, e)
    PROVE  TypeOK'
  <1> USE TypeLeg, TypePayload
  <1>1. CASE DoPushOK(p, e)
    BY <1>1, TypeSetLeg, "ok" \in LegStates
    DEF DoPushOK, Serve, Reach, TypeOK, historyVars, boundVars, LegStates, BecomesReady
  <1>2. CASE DoPushStale(p, e)
    BY <1>2, TypeSetLeg, Zenon DEF DoPushStale, TypeOK, clusterVars, historyVars, boundVars, LegStates
  <1>3. CASE DoPushFailed(p, e)
    BY <1>3, TypeSetLeg DEF DoPushFailed, TypeOK, clusterVars, historyVars, LegStates
  <1>4. CASE DoPushTimedOut(p, e)
    BY <1>4, TypeSetLeg DEF DoPushTimedOut, Reach, TypeOK, historyVars, LegStates
  <1>5. CASE FetchProxyVersion(p, e)
    BY <1>5, TypeSetLeg DEF FetchProxyVersion, Reach, Config, TypeOK, clusterVars, historyVars, LegStates
  <1>6. CASE CheckRace(p, e)
    BY <1>6, TypeSetLeg, Zenon DEF CheckRace, TypeOK, clusterVars, historyVars, boundVars, LegStates
  <1>7. CASE BumpVersionCounter(p, e)
    BY <1>7, TypeSetLeg DEF BumpVersionCounter, TypeOK, clusterVars, historyVars, boundVars, LegStates
  <1>8. CASE Reissue(p, e)
    <2>1. counter + 1 \in Nat /\ "retry" \in LegStates
      BY DEF TypeOK, LegStates
    <2>a. cfg[p] \in Config
      BY Zenon DEF TypeOK
    <2>2. [cfg[p] EXCEPT !.version = counter + 1] \in Config
      BY <2>a, <2>1, VersionUpdate, Zenon
    <2>3. leg' \in [Pushers -> Legs]
      BY <1>8, <2>1, TypeSetLeg, Zenon DEF Reissue
    <2> QED
      BY <1>8, <2>1, <2>2, <2>3, Zenon DEF Reissue, TypeOK, clusterVars, boundVars
  <1> QED
    BY <1>1, <1>2, <1>3, <1>4, <1>5, <1>6, <1>7, <1>8, Zenon DEF LegStep

\* resolveEndpoints returns endpoints.
LEMMA TypeResolve ==
    ASSUME TypeOK, NEW dest, ResolveEndpoints(dest)
    PROVE  faults' \in Nat /\ dest \in SUBSET Endpoints
  BY DEF TypeOK, ResolveEndpoints, Endpoints

\* Starting the goroutines of a push keeps the legs well typed.
LEMMA TypeStartLegs ==
    ASSUME TypeOK, NEW p \in Pushers, NEW c \in Config, NEW dest, StartLegs(p, c, dest)
    PROVE  leg' \in [Pushers -> Legs]
  BY Zenon DEF TypeOK, StartLegs, Config, LegStates, NoLeg, Legs

\* Ending a push keeps the locals of its worker well typed.
LEMMA TypeFinish ==
    ASSUME TypeOK, NEW p \in Pushers, Finish(p)
    PROVE  /\ pc' \in [Pushers -> {"idle", "listed", "pushing"}]
           /\ snap' \in [Pushers -> Contents \cup {NoContent}]
           /\ cfg' \in [Pushers -> Config]
           /\ to' \in [Pushers -> SUBSET Endpoints]
           /\ leg' \in [Pushers -> Legs]
           /\ pc' = [pc EXCEPT ![p] = "idle"]
  BY NoConfigType, NoLegsType, Zenon DEF TypeOK, Finish

\* A route worker pushes, and is not the endpoint reconciler.
LEMMA WorkerPusher ==
    ASSUME NEW w \in Workers PROVE w \in Pushers /\ w # Resyncer
  BY ConstantsAssumption, Zenon DEF Pushers

\* buildProxyConfig makes a config.
LEMMA TypeBuilt ==
    ASSUME TypeOK, NEW c \in Contents \cup {NoContent}
    PROVE  Built(c) \in Config /\ counter + Burned(c) \in Nat
  BY DEF TypeOK, Built, Burned, Config

\* runStartupSync marks only startup loops.
LEMMA TypeMark ==
    ASSUME TypeOK, NEW w \in Workers, MarkComplete(w)
    PROVE  attempted' \in SUBSET StartupLoops
  BY Zenon DEF TypeOK, MarkComplete

\* No step of a route worker breaks the types.
LEMMA TypeWorkerStep ==
    ASSUME TypeOK, NEW w \in Workers, WorkerStep(w)
    PROVE  TypeOK'
  <1>a. w \in Pushers /\ w # Resyncer
    BY WorkerPusher, Zenon
  <1>b. snap[w] \in Contents \cup {NoContent} /\ cfg[w] \in Config /\ to[w] \in SUBSET Endpoints
    BY <1>a, Zenon DEF TypeOK
  <1>c. target \in Target /\ 0 \in 0..SurfaceThreshold
    BY DEF TypeOK, SurfaceThreshold
  <1>1. CASE ListAndResolve(w)
    <2>1. PICK dest \in SUBSET Endpoints : ResolveEndpoints(dest) /\ to' = [to EXCEPT ![w] = dest]
      BY <1>1, Zenon DEF ListAndResolve
    <2>2. faults' \in Nat
      BY <2>1, TypeResolve, Zenon
    <2> QED
      BY <1>1, <1>a, <2>1, <2>2 DEF ListAndResolve, TypeOK, historyVars
  <1>2. CASE PreparePushSkip(w)
    <2>1. counter' \in Nat
      BY <1>2, <1>b, TypeBuilt, Zenon DEF PreparePushSkip
    <2>2. attempted' \in SUBSET StartupLoops
      BY <1>2, TypeMark, Zenon DEF PreparePushSkip
    <2>3. target' \in Target
      BY <1>2, <1>c, TargetStreakUpdate, Zenon DEF PreparePushSkip
    <2>4. syncMu' = (pc'[Resyncer] = "pushing")
      BY <1>2, <1>a DEF PreparePushSkip, TypeOK
    <2> QED
      BY <1>2, <1>a, <2>1, <2>2, <2>3, <2>4, Zenon DEF PreparePushSkip, TypeOK, historyVars, boundVars
  <1>3. CASE PreparePush(w)
    <2>1. counter' \in Nat /\ Built(snap[w]) \in Config
      BY <1>3, <1>b, TypeBuilt, Zenon DEF PreparePush
    <2>2. leg' \in [Pushers -> Legs]
      BY <1>3, <1>a, <2>1, TypeStartLegs, Zenon DEF PreparePush
    <2>3. syncMu' = (pc'[Resyncer] = "pushing")
      BY <1>3, <1>a DEF PreparePush, TypeOK
    <2> QED
      BY <1>3, <1>a, <2>1, <2>2, <2>3, Zenon DEF PreparePush, TypeOK, clusterVars, boundVars
  <1>4. CASE RecordPushOK(w)
    <2>1. attempted' \in SUBSET StartupLoops
      BY <1>4, TypeMark, Zenon DEF RecordPushOK
    <2>2. target' \in Target
      BY <1>4, <1>b, <1>c, TargetUpdate, ConfigFields, Zenon DEF RecordPushOK
    <2>3. syncMu' = (pc'[Resyncer] = "pushing")
      BY <1>4, <1>a DEF RecordPushOK, Finish, TypeOK
    <2>4. Finish(w)
      BY <1>4, Zenon DEF RecordPushOK
    <2> QED
      BY <1>4, <1>a, <2>1, <2>2, <2>3, <2>4, TypeFinish, Zenon
      DEF RecordPushOK, TypeOK, historyVars, boundVars
  <1>5. CASE RecordPushFailed(w)
    <2>1. attempted' \in SUBSET StartupLoops
      BY <1>5, TypeMark, Zenon DEF RecordPushFailed
    <2>2. target' \in Target
      <3> DEFINE s == IF target.streak < SurfaceThreshold THEN target.streak + 1 ELSE target.streak
      <3>1. target.streak \in 0..SurfaceThreshold
        BY Zenon DEF TypeOK, Target
      <3>2. s \in 0..SurfaceThreshold
        BY <3>1 DEF SurfaceThreshold
      <3>3. target' = [target EXCEPT !.hash = NoContent, !.endpoints = {}, !.streak = s]
        BY <1>5, Zenon DEF RecordPushFailed
      <3> HIDE DEF s
      <3> QED
        BY <1>c, <3>2, <3>3, TargetKeyUpdate, Zenon
    <2>3. dirty' \in [Workers -> BOOLEAN]
      BY <1>5, Zenon DEF RecordPushFailed, TypeOK
    <2>4. syncMu' = (pc'[Resyncer] = "pushing")
      BY <1>5, <1>a DEF RecordPushFailed, Finish, TypeOK
    <2>5. Finish(w)
      BY <1>5, Zenon DEF RecordPushFailed
    <2> QED
      BY <1>5, <1>a, <2>1, <2>2, <2>3, <2>4, <2>5, TypeFinish, Zenon
      DEF RecordPushFailed, TypeOK, historyVars, boundVars
  <1> QED
    BY <1>1, <1>2, <1>3, <1>4, <1>5, Zenon DEF WorkerStep, LockStep

\* No step of the endpoint reconciler breaks the types.
LEMMA TypeResyncStep ==
    ASSUME TypeOK, ResyncStep
    PROVE  TypeOK'
  <1>a. Resyncer \in Pushers
    BY Zenon DEF Pushers
  <1>b. /\ target \in Target /\ target.lastCfg \in Config
        /\ to[Resyncer] \in SUBSET Endpoints
    BY <1>a, Zenon DEF TypeOK, Target
  <1>1. CASE ResyncResolve
    <2>1. PICK dest \in SUBSET Endpoints :
            ResolveEndpoints(dest) /\ to' = [to EXCEPT ![Resyncer] = dest]
      BY <1>1, Zenon DEF ResyncResolve
    <2>2. faults' \in Nat
      BY <2>1, TypeResolve, Zenon
    <2> QED
      BY <1>1, <1>a, <2>1, <2>2, Zenon DEF ResyncResolve, TypeOK, historyVars
  <1>2. CASE ResyncNothing
    BY <1>2, <1>a, TypeFinish, Zenon DEF ResyncNothing, TypeOK, clusterVars, historyVars, boundVars
  <1>3. CASE ResyncStart
    <2>1. leg' \in [Pushers -> Legs]
      BY <1>3, <1>a, <1>b, TypeStartLegs, Zenon DEF ResyncStart
    <2> QED
      BY <1>3, <1>a, <1>b, <2>1, Zenon
      DEF ResyncStart, TypeOK, clusterVars, historyVars, boundVars
  <1>4. CASE ResyncDone
    <2>1. target' \in Target
      BY <1>4, <1>b, TargetKeyUpdate, ConfigFields, Zenon DEF ResyncDone
    <2> QED
      BY <1>4, <1>a, <2>1, TypeFinish, Zenon
      DEF ResyncDone, TypeOK, clusterVars, historyVars, boundVars
  <1>5. CASE ResyncFailed
    <2>1. target' \in Target
      BY <1>5, <1>b, TargetKeyUpdate, Zenon DEF ResyncFailed
    <2> QED
      BY <1>5, <1>a, <2>1, TypeFinish, Zenon DEF ResyncFailed, TypeOK, historyVars, boundVars
  <1> QED
    BY <1>1, <1>2, <1>3, <1>4, <1>5, Zenon DEF ResyncStep

\* No change, fault or restart breaks the types.
LEMMA TypeEnvironment ==
    ASSUME TypeOK, Environment
    PROVE  TypeOK'
  <1>1. CASE Change
    BY <1>1 DEF Change, TypeOK, historyVars
  <1>2. ASSUME NEW m \in late, DeliverLate(m) PROVE TypeOK'
    <2>1. m.at \in Replicas /\ m.cfg \in Config
      BY Zenon DEF TypeOK
    <2>2. replica' \in [Replicas -> Config] /\ event' \in BOOLEAN
      BY <1>2, <2>1, Zenon DEF DeliverLate, Serve, TypeOK, BecomesReady
    <2> QED
      BY <1>2, <2>2, Zenon DEF DeliverLate, TypeOK, historyVars, boundVars
  <1>3. ASSUME NEW r \in Replicas, Churn(r) PROVE TypeOK'
    BY <1>3, NoConfigType DEF Churn, TypeOK, historyVars
  <1>4. CASE Restart
    <2>1. counter' \in Nat
      BY <1>4, ConstantsAssumption, Zenon DEF Restart
    <2>2. \A p \in Pushers, e \in Endpoints :
            Unanswered(p, e) \in SUBSET [at : Replicas, cfg : Config]
      <3> SUFFICES ASSUME NEW p \in Pushers, NEW e \in Endpoints, NEW m \in Unanswered(p, e)
                   PROVE  m \in [at : Replicas, cfg : Config]
        BY Zenon
      <3>1. \E r \in Reach(e) : m = [at |-> r, cfg |-> Payload(p, e)]
        BY Zenon DEF Unanswered
      <3>2. Reach(e) \subseteq Replicas
        BY Zenon DEF Reach, TypeOK
      <3> QED
        BY <3>1, <3>2, TypePayload
    <2>3. late' \in SUBSET [at : Replicas, cfg : Config]
      BY <1>4, <2>2 DEF Restart, LoseMemory, TypeOK
    <2>4. target' \in Target
      BY <1>4, NoConfigType DEF Restart, LoseMemory, NoTarget, Target, SurfaceThreshold
    <2>5. syncMu' = (pc'[Resyncer] = "pushing")
      BY <1>4, Zenon DEF Restart, LoseMemory, Pushers
    <2> QED
      BY <1>4, <2>1, <2>3, <2>4, <2>5, NoConfigType, NoLegsType
      DEF Restart, LoseMemory, TypeOK, boundVars
  <1> QED
    BY <1>1, <1>2, <1>3, <1>4, Zenon DEF Environment

\* Type correctness is inductive.
LEMMA TypeNext == TypeOK /\ [Next]_vars => TypeOK'
  <1> SUFFICES ASSUME TypeOK, [Next]_vars PROVE TypeOK'
    BY Zenon
  <1>1. CASE UNCHANGED vars
    BY <1>1, Zenon DEF TypeOK, vars
  <1> QED
    BY <1>1, TypeWorkerStep, TypeResyncStep, TypeLegStep, TypeEnvironment, Zenon DEF Next

\* Every variable keeps its type and syncMu is held exactly while the endpoint
\* reconciler pushes (resyncTarget holds the lock across its push).
THEOREM TypeCorrect == Spec => []TypeOK
  BY TypeInit, TypeNext, PTL DEF Spec

------------------------------------------------------------------------------
(*****************************************************************************)
(* Versions in ConfigPush.  As long as no clock is set back the counter is   *)
(* above every version ever issued, a version names one config, and whatever *)
(* a replica serves, a pusher sends or the replay cache holds was issued.    *)
(*****************************************************************************)

IssuedOrdered ==
    /\ \A c \in issued : /\ 0 < c.version /\ c.version <= counter
                         /\ c.built = c.version /\ c.epoch <= epoch
    /\ \A c, d \in issued : c.version = d.version => c = d
    /\ \A c, d \in issued : c.version < d.version => c.epoch <= d.epoch

Known == issued \cup {NoConfig}

KnownConfigs ==
    /\ \A r \in Replicas : replica[r] \in Known
    /\ target.lastCfg \in Known
    /\ target.lastCfg # NoConfig => target.lastCfg.epoch = epoch
    /\ \A p \in Pushers : pc[p] = "pushing" => cfg[p] \in issued /\ cfg[p].epoch = epoch
    /\ \A m \in late : m.cfg \in issued

LegVersions ==
    \A p \in Pushers, e \in Endpoints :
        /\ leg[p][e].at \notin {"bump", "issue", "retry"}
        /\ leg[p][e].at \in {"put", "stale"} => leg[p][e].ver = cfg[p].version
        /\ leg[p][e].at = "check" => leg[p][e].ver <= counter

VersionInv == IssuedOrdered /\ KnownConfigs /\ LegVersions

\* The version invariant holds when the controller starts.
LEMMA VersionInit == Init => VersionInv
  BY ConstantsAssumption DEF Init, VersionInv, IssuedOrdered, KnownConfigs,
     LegVersions, Known, NoTarget, NoLegs, NoLeg

\* A PUT under way carries an issued config.
LEMMA SentIssued ==
    ASSUME TypeOK, VersionInv, NEW p \in Pushers, NEW e \in Endpoints, Sending(p, e)
    PROVE  Payload(p, e) = cfg[p] /\ cfg[p] \in issued /\ leg[p][e].at = "put"
  <1>1. leg[p][e].at = "put" /\ pc[p] = "pushing"
    BY Zenon DEF VersionInv, LegVersions, Sending
  <1>2. leg[p][e].ver = cfg[p].version /\ cfg[p] \in issued /\ cfg[p] \in Config
    BY <1>1, Zenon DEF VersionInv, LegVersions, KnownConfigs, TypeOK
  <1> QED
    BY <1>1, <1>2, Zenon DEF Payload, Config

\* The version a replica reports was issued by this counter.
LEMMA ReplicaBelowCounter ==
    ASSUME TypeOK, VersionInv, NEW r \in Replicas
    PROVE  replica[r].version <= counter
  BY DEF TypeOK, VersionInv, IssuedOrdered, KnownConfigs, Known, NoConfig

\* No step of pushToEndpoint breaks the version invariant.
LEMMA VersionLegStep ==
    ASSUME TypeOK, VersionInv, NEW p \in Pushers, NEW e \in Endpoints, LegStep(p, e)
    PROVE  VersionInv'
  <1>t. leg \in [Pushers -> Legs] /\ leg[p] \in Legs
    BY Zenon DEF TypeOK
  <1>1. CASE DoPushOK(p, e)
    <2>1. PICK r \in Reach(e) : Serve(r, Payload(p, e))
      BY <1>1, Zenon DEF DoPushOK
    <2>a. Payload(p, e) \in issued
      BY <1>1, SentIssued, Zenon DEF DoPushOK
    <2>2. \A q \in Replicas : replica'[q] \in Known
      BY <2>1, <2>a, Zenon DEF Serve, VersionInv, KnownConfigs, Known, TypeOK
    <2>3. LegVersions'
      BY <1>1, <1>t, Zenon DEF DoPushOK, SetLeg, VersionInv, LegVersions, Legs
    <2> QED
      BY <1>1, <2>2, <2>3, Zenon DEF DoPushOK, VersionInv, IssuedOrdered, KnownConfigs, Known, historyVars
  <1>2. CASE DoPushStale(p, e)
    <2>1. leg[p][e].at = "put"
      BY <1>2, SentIssued, Zenon DEF DoPushStale
    <2>a. SetLeg(p, e, "stale", leg[p][e].ver) /\ leg[p][e].ver = cfg[p].version
      BY <1>2, <2>1, Zenon DEF DoPushStale, VersionInv, LegVersions
    <2>2. LegVersions'
      BY <1>2, <1>t, <2>a DEF DoPushStale, SetLeg, VersionInv, LegVersions, Legs
    <2> QED
      BY <1>2, <2>2, Zenon DEF DoPushStale, VersionInv, IssuedOrdered, KnownConfigs, Known,
         historyVars, clusterVars
  <1>3. CASE DoPushFailed(p, e)
    <2>1. LegVersions'
      BY <1>3, <1>t, Zenon DEF DoPushFailed, SetLeg, VersionInv, LegVersions, Legs
    <2> QED
      BY <1>3, <2>1, Zenon DEF DoPushFailed, VersionInv, IssuedOrdered, KnownConfigs, Known,
         historyVars, clusterVars
  <1>4. CASE DoPushTimedOut(p, e)
    <2>1. LegVersions'
      BY <1>4, <1>t, Zenon DEF DoPushTimedOut, SetLeg, VersionInv, LegVersions, Legs
    <2>2. \A m \in late' : m.cfg \in issued
      <3>1. Payload(p, e) \in issued
        BY <1>4, SentIssued, Zenon DEF DoPushTimedOut
      <3> QED
        BY <1>4, <3>1 DEF DoPushTimedOut, VersionInv, KnownConfigs
    <2> QED
      BY <1>4, <2>1, <2>2, Zenon DEF DoPushTimedOut, VersionInv, IssuedOrdered, KnownConfigs, Known,
         historyVars
  <1>5. CASE FetchProxyVersion(p, e)
    <2>1. Reach(e) \subseteq Replicas
      BY Zenon DEF Reach, TypeOK
    <2>a. PICK at, ver : /\ SetLeg(p, e, at, ver)
                         /\ at = "err" \/ (at = "check" /\ ver <= counter)
      BY <1>5, <2>1, ReplicaBelowCounter, Zenon DEF FetchProxyVersion
    <2>2. LegVersions'
      BY <1>5, <1>t, <2>a DEF FetchProxyVersion, SetLeg, VersionInv, LegVersions, Legs
    <2> QED
      BY <1>5, <2>2, Zenon DEF FetchProxyVersion, VersionInv, IssuedOrdered, KnownConfigs, Known,
         historyVars, clusterVars
  <1>6. CASE CheckRace(p, e)
    <2>1. SetLeg(p, e, "lost", leg[p][e].ver)
      BY <1>6, Zenon DEF CheckRace, VersionInv, LegVersions
    <2>2. LegVersions'
      BY <1>6, <1>t, <2>1 DEF CheckRace, SetLeg, VersionInv, LegVersions, Legs
    <2> QED
      BY <1>6, <2>2, Zenon DEF CheckRace, VersionInv, IssuedOrdered, KnownConfigs, Known,
         historyVars, clusterVars
  <1>7. ~BumpVersionCounter(p, e) /\ ~Reissue(p, e)
    BY Zenon DEF BumpVersionCounter, Reissue, VersionInv, LegVersions
  <1> QED
    BY <1>1, <1>2, <1>3, <1>4, <1>5, <1>6, <1>7, Zenon DEF LegStep

\* No step of a route worker breaks the version invariant: a build draws a
\* version above every issued one.
LEMMA VersionWorkerStep ==
    ASSUME TypeOK, VersionInv, NEW w \in Workers, WorkerStep(w)
    PROVE  VersionInv'
  <1>a. w \in Pushers /\ w # Resyncer
    BY WorkerPusher, Zenon
  <1>t. leg \in [Pushers -> Legs] /\ pc \in [Pushers -> {"idle", "listed", "pushing"}]
        /\ cfg \in [Pushers -> Config] /\ counter \in Nat
    BY Zenon DEF TypeOK
  <1>b. \A c : Burned(c) \in Nat /\ Burned(c) >= 1
    BY DEF Burned
  <1>1. CASE ListAndResolve(w)
    BY <1>1, <1>a, <1>t DEF ListAndResolve, VersionInv, IssuedOrdered, KnownConfigs, Known,
       LegVersions, historyVars
  <1>2. CASE PreparePushSkip(w)
    <2>1. counter' >= counter /\ counter' \in Nat
      <3>1. counter' = counter + Burned(snap[w])
        BY <1>2, Zenon DEF PreparePushSkip
      <3> QED
        BY <1>b, <1>t, <3>1
    <2>2. IssuedOrdered'
      BY <1>2, <2>1, <1>t DEF PreparePushSkip, VersionInv, IssuedOrdered, historyVars, TypeOK, Config
    <2>3. KnownConfigs'
      BY <1>2, <1>a, <1>t, Zenon DEF PreparePushSkip, VersionInv, KnownConfigs, Known, historyVars, TypeOK, Target
    <2>4. LegVersions'
      BY <1>2, <2>1, <1>t DEF PreparePushSkip, VersionInv, LegVersions, Legs
    <2> QED
      BY <2>2, <2>3, <2>4, Zenon DEF VersionInv
  <1>3. CASE PreparePush(w)
    <2> DEFINE c == Built(snap[w])
    <2>1. counter' >= counter + 1 /\ counter' \in Nat
      <3>1. counter' = counter + Burned(snap[w])
        BY <1>3, Zenon DEF PreparePush
      <3> QED
        BY <1>b, <1>t, <3>1
    <2>2. c.version = counter + 1 /\ c.built = counter + 1 /\ c.epoch = epoch
      BY Zenon DEF Built
    <2>3. issued' = issued \cup {c} /\ epoch' = epoch
      BY <1>3, Zenon DEF PreparePush
    <2> HIDE DEF c
    <2>4. IssuedOrdered'
      <3>1. issued \in SUBSET Config /\ epoch \in Nat
        BY Zenon DEF TypeOK
      <3>2. \A d \in issued : d.version \in Nat /\ d.version <= counter /\ d.epoch <= epoch
        BY <3>1, Zenon DEF VersionInv, IssuedOrdered, Config
      <3> QED
        BY <1>t, <2>1, <2>2, <2>3, <3>1, <3>2 DEF VersionInv, IssuedOrdered
    <2>5. KnownConfigs'
      <3>1. cfg' = [cfg EXCEPT ![w] = c] /\ pc' = [pc EXCEPT ![w] = "pushing"]
            /\ UNCHANGED <<replica, target, late, epoch>>
        BY <1>3, Zenon DEF PreparePush, clusterVars, c
      <3> QED
        BY <1>a, <1>t, <2>2, <2>3, <3>1, Zenon DEF VersionInv, KnownConfigs, Known
    <2>6. LegVersions'
      <3>1. cfg' = [cfg EXCEPT ![w] = c] /\ StartLegs(w, c, to[w])
        BY <1>3, Zenon DEF PreparePush, c
      <3> QED
        BY <1>a, <1>t, <2>1, <2>2, <3>1
        DEF VersionInv, LegVersions, StartLegs, Legs, NoLeg
    <2> QED
      BY <2>4, <2>5, <2>6, Zenon DEF VersionInv
  <1>4. CASE RecordPushOK(w)
    <2>1. cfg[w] \in issued /\ cfg[w].epoch = epoch
      BY <1>4, <1>a, Zenon DEF RecordPushOK, VersionInv, KnownConfigs
    <2>2. target'.lastCfg = cfg[w]
      BY <1>4, Zenon DEF RecordPushOK, TypeOK, Target
    <2>3. KnownConfigs'
      BY <1>4, <1>a, <1>t, <2>1, <2>2
      DEF RecordPushOK, Finish, VersionInv, KnownConfigs, Known, historyVars
    <2>4. LegVersions'
      BY <1>4, <1>a, <1>t, Zenon DEF RecordPushOK, Finish, VersionInv, LegVersions, NoLegs, NoLeg, Legs
    <2> QED
      BY <1>4, <2>3, <2>4, Zenon DEF RecordPushOK, VersionInv, IssuedOrdered, historyVars
  <1>5. CASE RecordPushFailed(w)
    <2>2. target'.lastCfg = target.lastCfg
      BY <1>5, Zenon DEF RecordPushFailed, TypeOK, Target
    <2>3. KnownConfigs'
      BY <1>5, <1>a, <1>t, <2>2, Zenon
      DEF RecordPushFailed, Finish, VersionInv, KnownConfigs, Known, historyVars
    <2>4. LegVersions'
      BY <1>5, <1>a, <1>t, Zenon DEF RecordPushFailed, Finish, VersionInv, LegVersions, NoLegs, NoLeg, Legs
    <2> QED
      BY <1>5, <2>3, <2>4, Zenon DEF RecordPushFailed, VersionInv, IssuedOrdered, historyVars
  <1> QED
    BY <1>1, <1>2, <1>3, <1>4, <1>5, Zenon DEF WorkerStep, LockStep

\* A replay sends a config that was issued before.
LEMMA VersionResyncStep ==
    ASSUME TypeOK, VersionInv, ResyncStep
    PROVE  VersionInv'
  <1>a. Resyncer \in Pushers
    BY Zenon DEF Pushers
  <1>t. leg \in [Pushers -> Legs] /\ pc \in [Pushers -> {"idle", "listed", "pushing"}]
        /\ cfg \in [Pushers -> Config] /\ counter \in Nat
    BY Zenon DEF TypeOK
  <1>1. CASE ResyncResolve
    BY <1>1, <1>a, <1>t, Zenon DEF ResyncResolve, VersionInv, IssuedOrdered, KnownConfigs, Known,
       LegVersions, historyVars
  <1>2. ASSUME Finish(Resyncer), target'.lastCfg = target.lastCfg,
               UNCHANGED <<replica, late, counter, historyVars>>
        PROVE  VersionInv'
    <2>1. KnownConfigs'
      BY <1>2, <1>a, <1>t, Zenon DEF Finish, VersionInv, KnownConfigs, Known, historyVars
    <2>2. LegVersions'
      BY <1>2, <1>a, <1>t, Zenon DEF Finish, VersionInv, LegVersions, NoLegs, NoLeg, Legs
    <2> QED
      BY <1>2, <2>1, <2>2, Zenon DEF VersionInv, IssuedOrdered, historyVars
  <1>3. CASE ResyncNothing
    BY <1>3, <1>2, Zenon DEF ResyncNothing, clusterVars, historyVars
  <1>4. CASE ResyncStart
    <2>1. target.lastCfg \in issued /\ target.lastCfg.epoch = epoch
      BY <1>4, Zenon DEF ResyncStart, VersionInv, KnownConfigs, Known
    <2>2. KnownConfigs'
      BY <1>4, <1>a, <1>t, <2>1, Zenon
      DEF ResyncStart, VersionInv, KnownConfigs, Known, historyVars, clusterVars
    <2>3. LegVersions'
      BY <1>4, <1>a, <1>t, Zenon DEF ResyncStart, StartLegs, VersionInv, LegVersions, Legs, NoLeg
    <2> QED
      BY <1>4, <2>2, <2>3, Zenon DEF ResyncStart, VersionInv, IssuedOrdered, historyVars
  <1>5. CASE ResyncDone
    <2>1. target'.lastCfg = target.lastCfg
      BY <1>5, Zenon DEF ResyncDone, TypeOK, Target
    <2> QED
      BY <1>5, <1>2, <2>1, Zenon DEF ResyncDone, clusterVars, historyVars
  <1>6. CASE ResyncFailed
    <2>1. target'.lastCfg = target.lastCfg
      BY <1>6, Zenon DEF ResyncFailed, TypeOK, Target
    <2> QED
      BY <1>6, <1>2, <2>1, Zenon DEF ResyncFailed, historyVars
  <1> QED
    BY <1>1, <1>3, <1>4, <1>5, <1>6, Zenon DEF ResyncStep

\* A restart keeps the version invariant because the clock has not gone back.
LEMMA VersionEnvironment ==
    ASSUME ~ClockSkew, TypeOK, VersionInv, Environment
    PROVE  VersionInv'
  <1>1. CASE Change
    BY <1>1, Zenon DEF Change, VersionInv, IssuedOrdered, KnownConfigs, Known, LegVersions, historyVars
  <1>2. ASSUME NEW m \in late, DeliverLate(m) PROVE VersionInv'
    <2>1. m.cfg \in issued
      BY Zenon DEF VersionInv, KnownConfigs
    <2>2. \A r \in Replicas : replica'[r] \in Known
      BY <1>2, <2>1, Zenon DEF DeliverLate, Serve, TypeOK, VersionInv, KnownConfigs, Known
    <2> QED
      BY <1>2, <2>2, Zenon
      DEF DeliverLate, VersionInv, IssuedOrdered, KnownConfigs, Known, LegVersions, historyVars
  <1>3. ASSUME NEW r \in Replicas, Churn(r) PROVE VersionInv'
    <2>1. \A q \in Replicas : replica'[q] \in Known
      BY <1>3, Zenon DEF Churn, TypeOK, VersionInv, KnownConfigs, Known
    <2> QED
      BY <1>3, <2>1, Zenon
      DEF Churn, VersionInv, IssuedOrdered, KnownConfigs, Known, LegVersions, historyVars
  <1>4. CASE Restart
    <2>1. counter' \in Nat /\ counter' >= counter /\ epoch' = epoch + 1 /\ issued' = issued
      BY <1>4, ConstantsAssumption DEF Restart, LoseMemory
    <2>2. IssuedOrdered'
      BY <2>1 DEF VersionInv, IssuedOrdered, TypeOK, Config
    <2>3. \A m \in late' : m.cfg \in issued
      <3>1. ASSUME NEW q \in Pushers, NEW e \in Endpoints, NEW m \in Unanswered(q, e)
            PROVE  m.cfg \in issued
        <4>1. Sending(q, e) /\ m.cfg = Payload(q, e)
          BY <3>1 DEF Unanswered
        <4> QED
          BY <4>1, SentIssued, Zenon
      <3> QED
        BY <1>4, <3>1 DEF Restart, LoseMemory, VersionInv, KnownConfigs
    <2>4. KnownConfigs'
      BY <1>4, <2>1, <2>3, Zenon DEF Restart, LoseMemory, VersionInv, KnownConfigs, Known, NoTarget
    <2>5. LegVersions'
      BY <1>4, Zenon DEF Restart, LoseMemory, LegVersions, NoLegs, NoLeg
    <2> QED
      BY <2>2, <2>4, <2>5, Zenon DEF VersionInv
  <1> QED
    BY <1>1, <1>2, <1>3, <1>4, Zenon DEF Environment

\* The version invariant is inductive, given the types.
LEMMA VersionNext ==
    ASSUME ~ClockSkew, TypeOK, VersionInv, [Next]_vars
    PROVE  VersionInv'
  <1>1. CASE UNCHANGED vars
    BY <1>1, Zenon DEF VersionInv, IssuedOrdered, KnownConfigs, Known, LegVersions, vars
  <1> QED
    BY <1>1, VersionWorkerStep, VersionResyncStep, VersionLegStep, VersionEnvironment, Zenon DEF Next

\* While no clock is set back, every config on the way, cached or served was
\* issued by configVersionCounter, and issue order is version order.
THEOREM Versions == ASSUME ~ClockSkew PROVE Spec => []VersionInv
  <1>1. TypeOK /\ VersionInv /\ [Next]_vars => VersionInv'
    BY VersionNext, Zenon
  <1> QED
    BY <1>1, VersionInit, TypeCorrect, PTL DEF Spec

------------------------------------------------------------------------------
(*****************************************************************************)
(* What the replicas of ConfigPush can rely on while no clock is set back:   *)
(* a version names one config, an older build never replaces a newer one,    *)
(* delivery implements the abstract register, and a push is abandoned only   *)
(* for a config that was built later.                                        *)
(*****************************************************************************)

\* A version names one config, so two replicas that report the same version
\* serve the same rules (pushToEndpoint compares nothing else).
THEOREM AgreementHolds == ASSUME ~ClockSkew PROVE Spec => []Agreement
  <1>1. TypeOK /\ VersionInv => Agreement
    <2> SUFFICES ASSUME TypeOK, VersionInv,
                        NEW c \in Known, NEW d \in Known, c.version = d.version
                 PROVE  c.content = d.content
      BY Zenon DEF Agreement, VersionInv, KnownConfigs
    <2> QED
      BY DEF VersionInv, IssuedOrdered, Known, NoConfig
  <1> QED
    BY <1>1, Versions, TypeCorrect, PTL

\* What a step does to one replica: it keeps its config, loses it, or takes an
\* issued config that is not older.
LEMMA ReplicaStep ==
    ASSUME TypeOK, VersionInv, [Next]_vars
    PROVE  \/ replica' = replica
           \/ \E r \in Replicas : /\ Churn(r)
                                  /\ issued' = issued
                                  /\ replica' = [replica EXCEPT ![r] = NoConfig]
           \/ \E r \in Replicas, c \in issued :
                  /\ issued' = issued
                  /\ c.version >= replica[r].version
                  /\ replica' = [replica EXCEPT ![r] = c]
  <1>a. ASSUME NEW r \in Replicas, NEW c \in issued, ~Stale(r, c.version)
        PROVE  c.version >= replica[r].version
    BY <1>a DEF Stale, TypeOK, Config, VersionInv, IssuedOrdered
  <1>1. CASE UNCHANGED vars
    BY <1>1, Zenon DEF vars
  <1>2. ASSUME NEW w \in Workers, WorkerStep(w) PROVE replica' = replica
    BY <1>2, Zenon DEF WorkerStep, LockStep, ListAndResolve, PreparePushSkip, PreparePush,
       RecordPushOK, RecordPushFailed, clusterVars
  <1>3. ASSUME ResyncStep PROVE replica' = replica
    BY <1>3, Zenon DEF ResyncStep, ResyncResolve, ResyncNothing, ResyncStart, ResyncDone,
       ResyncFailed, clusterVars
  <1>4. ASSUME NEW p \in Pushers, NEW e \in Endpoints, LegStep(p, e)
        PROVE  \/ replica' = replica
               \/ \E r \in Replicas, c \in issued :
                      /\ issued' = issued
                      /\ c.version >= replica[r].version
                      /\ replica' = [replica EXCEPT ![r] = c]
    <2>1. CASE DoPushOK(p, e)
      <3>1. PICK r \in Reach(e) : ~Stale(r, leg[p][e].ver) /\ Serve(r, Payload(p, e))
        BY <2>1, Zenon DEF DoPushOK
      <3>2. r \in Replicas /\ issued' = issued
        BY <2>1, Zenon DEF Reach, TypeOK, DoPushOK, historyVars
      <3>3. Payload(p, e) = cfg[p] /\ cfg[p] \in issued /\ leg[p][e].ver = cfg[p].version
        BY <2>1, SentIssued, Zenon DEF DoPushOK, VersionInv, LegVersions
      <3> QED
        BY <3>1, <3>2, <3>3, <1>a, Zenon DEF Serve
    <2>2. CASE ~DoPushOK(p, e)
      BY <1>4, <2>2, Zenon DEF LegStep, DoPushStale, DoPushFailed, DoPushTimedOut, FetchProxyVersion,
         CheckRace, BumpVersionCounter, Reissue, clusterVars
    <2> QED
      BY <2>1, <2>2, Zenon
  <1>5. CASE Change \/ Restart
    BY <1>5 DEF Change, Restart, LoseMemory
  <1>6. ASSUME NEW m \in late, DeliverLate(m)
        PROVE  \/ replica' = replica
               \/ \E r \in Replicas, c \in issued :
                      /\ issued' = issued
                      /\ c.version >= replica[r].version
                      /\ replica' = [replica EXCEPT ![r] = c]
    <2>1. m.cfg \in issued /\ m.at \in Replicas
      BY Zenon DEF VersionInv, KnownConfigs, TypeOK
    <2> QED
      BY <1>6, <2>1, <1>a, Zenon DEF DeliverLate, Serve, historyVars
  <1>7. ASSUME NEW r \in Replicas, Churn(r)
        PROVE  issued' = issued /\ replica' = [replica EXCEPT ![r] = NoConfig]
    BY <1>7, Zenon DEF Churn, historyVars
  <1> QED
    BY <1>1, <1>2, <1>3, <1>4, <1>5, <1>6, <1>7, Zenon DEF Next, Environment

\* An older build never replaces a newer one on any replica (#584): whatever
\* is lost, late, reordered or retried, and across restarts.
THEOREM NewerNotOverwrittenHolds == ASSUME ~ClockSkew PROVE Spec => NewerNotOverwritten
  <1>1. ASSUME TypeOK, VersionInv, [Next]_vars, NEW r \in Replicas, replica'[r] # NoConfig
        PROVE  Newer(replica'[r], replica[r])
    <2>t. replica \in [Replicas -> Config] /\ replica[r] \in Known /\ issued \in SUBSET Config
      BY <1>1, Zenon DEF TypeOK, VersionInv, KnownConfigs
    <2>1. CASE replica'[r] = replica[r]
      BY <2>t, <2>1 DEF Newer, Config
    <2>2. CASE replica'[r] # replica[r]
      <3>1. replica'[r] \in issued /\ replica'[r].version >= replica[r].version
        BY <1>1, <2>t, <2>2, ReplicaStep, Zenon
      <3>2. CASE replica[r] = NoConfig
        BY <2>t, <3>1, <3>2 DEF Newer, NoConfig, Config
      <3>3. CASE replica[r] \in issued
        <4>1. replica'[r].version > replica[r].version
          BY <1>1, <2>t, <2>2, <3>1, <3>3 DEF VersionInv, IssuedOrdered, Config
        <4> QED
          BY <1>1, <2>t, <3>1, <3>3, <4>1 DEF Newer, VersionInv, IssuedOrdered, Config
      <3> QED
        BY <2>t, <3>2, <3>3, Zenon DEF Known
    <2> QED
      BY <2>1, <2>2, Zenon
  <1>2. TypeOK /\ VersionInv /\ [Next]_vars =>
          [\A r \in Replicas : replica'[r] # NoConfig => Newer(replica'[r], replica[r])]_vars
    BY <1>1, Zenon
  <1> QED
    BY <1>2, Versions, TypeCorrect, PTL DEF Spec, NewerNotOverwritten

\* What a step issues: nothing, or one config above every issued one.
LEMMA IssueStep ==
    ASSUME TypeOK, VersionInv, [Next]_vars
    PROVE  \/ issued' = issued
           \/ \E c \in Config : /\ issued' = issued \cup {c}
                                /\ replica' = replica
                                /\ \A d \in issued : c.version > d.version
  <1>1. CASE UNCHANGED vars
    BY <1>1, Zenon DEF vars
  <1>2. ASSUME NEW w \in Workers, PreparePush(w)
        PROVE  \E c \in Config : /\ issued' = issued \cup {c}
                                 /\ replica' = replica
                                 /\ \A d \in issued : c.version > d.version
    <2>1. snap[w] \in Contents \cup {NoContent} /\ counter \in Nat /\ issued \in SUBSET Config
      BY WorkerPusher, Zenon DEF TypeOK
    <2>2. Built(snap[w]) \in Config /\ Built(snap[w]).version = counter + 1
      BY <2>1, TypeBuilt, Zenon DEF Built
    <2>3. \A d \in issued : counter + 1 > d.version
      BY <2>1 DEF VersionInv, IssuedOrdered, Config
    <2> QED
      BY <1>2, <2>2, <2>3, Zenon DEF PreparePush, clusterVars
  <1>3. ASSUME NEW w \in Workers, WorkerStep(w), ~PreparePush(w) PROVE issued' = issued
    BY <1>3, Zenon DEF WorkerStep, LockStep, ListAndResolve, PreparePushSkip,
       RecordPushOK, RecordPushFailed, historyVars
  <1>4. ASSUME ResyncStep PROVE issued' = issued
    BY <1>4, Zenon DEF ResyncStep, ResyncResolve, ResyncNothing, ResyncStart, ResyncDone,
       ResyncFailed, historyVars
  <1>5. ASSUME NEW p \in Pushers, NEW e \in Endpoints, LegStep(p, e) PROVE issued' = issued
    <2>1. ~Reissue(p, e)
      BY Zenon DEF Reissue, VersionInv, LegVersions
    <2> QED
      BY <1>5, <2>1, Zenon DEF LegStep, DoPushOK, DoPushStale, DoPushFailed, DoPushTimedOut,
         FetchProxyVersion, CheckRace, BumpVersionCounter, historyVars
  <1>6. ASSUME Environment PROVE issued' = issued
    BY <1>6 DEF Environment, Change, DeliverLate, Churn, Restart, LoseMemory, historyVars
  <1> QED
    BY <1>1, <1>2, <1>3, <1>4, <1>5, <1>6, Zenon DEF Next

\* Delivery implements the abstract register: configs are issued under ever
\* larger versions and a replica only moves forward through them.
THEOREM Refinement == ASSUME ~ClockSkew PROVE Spec => ImplementsRegister
  <1>1. Init => Register!Init
    BY Zenon DEF Init, Register!Init
  <1>2. TypeOK /\ VersionInv /\ [Next]_vars => [Register!Next]_<<issued, replica>>
    <2> SUFFICES ASSUME TypeOK, VersionInv, [Next]_vars
                 PROVE  Register!Next \/ UNCHANGED <<issued, replica>>
      BY Zenon
    <2>1. CASE issued' = issued
      <3>1. CASE replica' = replica
        BY <2>1, <3>1, Zenon
      <3>2. ASSUME NEW r \in Replicas, replica' = [replica EXCEPT ![r] = NoConfig]
            PROVE  Register!Next
        BY <2>1, <3>2, Zenon DEF Register!Next, Register!Lose
      <3>3. ASSUME NEW r \in Replicas, NEW c \in issued, c.version >= replica[r].version,
                   replica' = [replica EXCEPT ![r] = c]
            PROVE  Register!Next
        BY <2>1, <3>3, Zenon DEF Register!Next, Register!Adopt
      <3> QED
        BY <3>1, <3>2, <3>3, ReplicaStep, Zenon
    <2>2. ASSUME NEW c \in Config, issued' = issued \cup {c}, replica' = replica,
                 \A d \in issued : c.version > d.version
          PROVE  Register!Next
      <3>1. c \in issued' \ issued
        BY <2>2 DEF TypeOK, Config
      <3> QED
        BY <2>2, <3>1, Zenon DEF Register!Next, Register!Issue
    <2> QED
      BY <2>1, <2>2, IssueStep, Zenon
  <1> QED
    BY <1>1, <1>2, Versions, TypeCorrect, PTL DEF Spec, ImplementsRegister, Register!Spec

------------------------------------------------------------------------------
\* A leg on its way to being abandoned met a replica above its config.
Outrun ==
    \A p \in Pushers, r \in Replicas :
        leg[p][r].at \in {"stale", "check", "lost"} =>
            pc[p] = "pushing" /\ replica[r].version > cfg[p].version

\* Replicas only move forward when none restarts.
LEMMA ReplicaForward ==
    ASSUME NoChurn, TypeOK, VersionInv, [Next]_vars, NEW r \in Replicas
    PROVE  replica'[r].version >= replica[r].version
  <1>1. \A q \in Replicas : ~Churn(q)
    BY Zenon DEF NoChurn, Churn
  <1>2. \/ replica' = replica
        \/ \E q \in Replicas, c \in issued : /\ c.version >= replica[q].version
                                             /\ replica' = [replica EXCEPT ![q] = c]
    BY <1>1, ReplicaStep, Zenon
  <1> QED
    BY <1>2 DEF TypeOK, Config

\* A leg answered with 409 stays outrun: its replica is above what it sends.
LEMMA OutrunNext ==
    ASSUME NoChurn, TypeOK, VersionInv, Outrun, [Next]_vars
    PROVE  Outrun'
  <1>t. /\ leg \in [Pushers -> Legs] /\ replica \in [Replicas -> Config]
        /\ pc \in [Pushers -> {"idle", "listed", "pushing"}] /\ cfg \in [Pushers -> Config]
        /\ Replicas \subseteq Endpoints
    BY Zenon DEF TypeOK, Endpoints
  <1>u. replica' \in [Replicas -> Config]
    BY TypeNext, Zenon DEF TypeOK
  <1>f. \A r \in Replicas : replica'[r].version >= replica[r].version
    BY ReplicaForward, Zenon
  <1>a. ASSUME NEW p \in Pushers, NEW r \in Replicas,
               pc'[p] = pc[p], cfg'[p] = cfg[p], leg'[p][r].at = leg[p][r].at,
               leg'[p][r].at \in {"stale", "check", "lost"}
        PROVE  pc'[p] = "pushing" /\ replica'[r].version > cfg'[p].version
    <2>1. pc[p] = "pushing" /\ replica[r].version > cfg[p].version
      BY <1>a, Zenon DEF Outrun
    <2> QED
      BY <1>a, <1>f, <1>t, <1>u, <2>1 DEF Config
  <1>1. CASE UNCHANGED vars
    BY <1>1, Zenon DEF vars, Outrun
  <1>2. ASSUME NEW w \in Workers, WorkerStep(w) PROVE Outrun'
    <2>a. w \in Pushers
      BY WorkerPusher, Zenon
    <2>1. \A p \in Pushers \ {w} : leg'[p] = leg[p] /\ cfg'[p] = cfg[p] /\ pc'[p] = pc[p]
      BY <1>2, <2>a, <1>t, Zenon DEF WorkerStep, LockStep, ListAndResolve, PreparePushSkip, PreparePush,
         RecordPushOK, RecordPushFailed, Finish, StartLegs
    <2>2. ASSUME NEW r \in Replicas PROVE leg'[w][r].at \notin {"stale", "check", "lost"}
      <3>1. CASE ListAndResolve(w) \/ PreparePushSkip(w)
        BY <3>1, <2>a, <1>t, Zenon DEF Outrun, ListAndResolve, PreparePushSkip
      <3>2. CASE PreparePush(w)
        BY <3>2, <2>a, <1>t, Zenon DEF PreparePush, StartLegs, NoLeg
      <3>3. CASE RecordPushOK(w) \/ RecordPushFailed(w)
        BY <3>3, <2>a, <1>t DEF RecordPushOK, RecordPushFailed, Finish, NoLegs, NoLeg
      <3> QED
        BY <1>2, <3>1, <3>2, <3>3, Zenon DEF WorkerStep, LockStep
    <2> QED
      BY <1>a, <2>1, <2>2, Zenon DEF Outrun
  <1>3. ASSUME ResyncStep PROVE Outrun'
    <2>a. Resyncer \in Pushers
      BY Zenon DEF Pushers
    <2>1. \A p \in Pushers \ {Resyncer} : leg'[p] = leg[p] /\ cfg'[p] = cfg[p] /\ pc'[p] = pc[p]
      BY <1>3, <2>a, <1>t, Zenon DEF ResyncStep, ResyncResolve, ResyncNothing, ResyncStart,
         ResyncDone, ResyncFailed, Finish, StartLegs
    <2>2. ASSUME NEW r \in Replicas PROVE leg'[Resyncer][r].at \notin {"stale", "check", "lost"}
      <3>1. CASE ResyncResolve
        BY <3>1, <2>a, <1>t, Zenon DEF Outrun, ResyncResolve
      <3>2. CASE ResyncStart
        BY <3>2, <2>a, <1>t, Zenon DEF ResyncStart, StartLegs, NoLeg
      <3>3. CASE ResyncNothing \/ ResyncDone \/ ResyncFailed
        BY <3>3, <2>a, <1>t DEF ResyncNothing, ResyncDone, ResyncFailed, Finish, NoLegs, NoLeg
      <3> QED
        BY <1>3, <3>1, <3>2, <3>3, Zenon DEF ResyncStep
    <2> QED
      BY <1>a, <2>1, <2>2, Zenon DEF Outrun
  <1>4. ASSUME NEW p \in Pushers, NEW e \in Endpoints, LegStep(p, e) PROVE Outrun'
    <2>1. UNCHANGED <<pc, cfg>>
      BY <1>4, Zenon DEF LegStep, DoPushOK, DoPushStale, DoPushFailed, DoPushTimedOut,
         FetchProxyVersion, CheckRace, BumpVersionCounter, Reissue
    <2>2. PICK at, ver : SetLeg(p, e, at, ver)
      BY <1>4, Zenon DEF LegStep, DoPushOK, DoPushStale, DoPushFailed, DoPushTimedOut,
         FetchProxyVersion, CheckRace, BumpVersionCounter, Reissue
    <2>3. \A q \in Pushers, r \in Replicas : ~(q = p /\ r = e) => leg'[q][r] = leg[q][r]
      BY <2>2, <1>t, Zenon DEF SetLeg, Legs
    <2>4. ASSUME e \in Replicas, leg'[p][e].at \in {"stale", "check", "lost"}
          PROVE  pc'[p] = "pushing" /\ replica'[e].version > cfg'[p].version
      <3>1. CASE DoPushStale(p, e)
        <4>1. Sending(p, e) /\ \E r \in Reach(e) : Stale(r, leg[p][e].ver)
          BY <3>1, Zenon DEF DoPushStale
        <4>2. Stale(e, leg[p][e].ver) /\ leg[p][e].ver = cfg[p].version
          BY <2>4, <4>1, SentIssued, ConstantsAssumption DEF Reach, VersionInv, LegVersions
        <4> QED
          BY <1>f, <1>t, <1>u, <2>1, <2>4, <4>1, <4>2 DEF Stale, Sending, Config
      <3>2. CASE FetchProxyVersion(p, e) \/ CheckRace(p, e)
        <4>1. leg[p][e].at \in {"stale", "check"}
          BY <3>2, Zenon DEF FetchProxyVersion, CheckRace
        <4>2. pc[p] = "pushing" /\ replica[e].version > cfg[p].version
          BY <2>4, <4>1, Zenon DEF Outrun
        <4> QED
          BY <1>f, <1>t, <1>u, <2>1, <2>4, <4>2 DEF Config
      <3>3. leg[p] \in Legs
        BY <1>t, Zenon
      <3>4. ~DoPushOK(p, e) /\ ~DoPushFailed(p, e) /\ ~DoPushTimedOut(p, e)
            /\ ~BumpVersionCounter(p, e) /\ ~Reissue(p, e)
        BY <2>4, <1>t, <3>3 DEF DoPushOK, DoPushFailed, DoPushTimedOut, BumpVersionCounter,
           Reissue, SetLeg, Legs
      <3> QED
        BY <1>4, <3>1, <3>2, <3>4, Zenon DEF LegStep
    <2> QED
      BY <1>a, <2>1, <2>3, <2>4 DEF Outrun
  <1>5. ASSUME Environment PROVE Outrun'
    <2>1. CASE Restart
      BY <2>1, Zenon DEF Restart, LoseMemory, Outrun, NoLegs, NoLeg, Endpoints
    <2>2. CASE ~Restart
      <3>1. UNCHANGED <<pc, cfg, leg>>
        BY <1>5, <2>2, Zenon DEF Environment, Change, DeliverLate, Churn
      <3> QED
        BY <1>a, <3>1, Zenon DEF Outrun
    <2> QED
      BY <2>1, <2>2, Zenon
  <1> QED
    BY <1>1, <1>2, <1>3, <1>4, <1>5, Zenon DEF Next

\* A push is abandoned as a lost race only for a config that this process
\* built later: the comment in pushToEndpoint, for clocks that never go back
\* and replicas that do not restart under the push.
THEOREM LostRaceJustifiedHolds ==
    ASSUME NoChurn, ~ClockSkew
    PROVE  Spec => []LostRaceJustified
  <1>1. Init => Outrun
    BY DEF Init, Outrun, NoLegs, NoLeg, Endpoints
  <1>2. TypeOK /\ VersionInv /\ Outrun /\ [Next]_vars => Outrun'
    BY OutrunNext, Zenon
  <1>3. TypeOK /\ VersionInv /\ Outrun => LostRaceJustified
    <2> SUFFICES ASSUME TypeOK, VersionInv, Outrun, NEW p \in Pushers, NEW r \in Replicas,
                        leg[p][r].at = "lost"
                 PROVE  replica[r].epoch = epoch /\ replica[r].built > cfg[p].built
      BY Zenon DEF LostRaceJustified
    <2>1. pc[p] = "pushing" /\ replica[r].version > cfg[p].version
      BY Zenon DEF Outrun
    <2>2. cfg[p] \in issued /\ cfg[p].epoch = epoch /\ replica[r] \in Known
          /\ cfg[p] \in Config /\ replica[r] \in Config /\ epoch \in Nat
      BY <2>1, Zenon DEF VersionInv, KnownConfigs, TypeOK
    <2>3. replica[r] \in issued
      BY <2>1, <2>2 DEF Known, NoConfig, Config
    <2>4. replica[r].version \in Nat /\ cfg[p].version \in Nat
      BY <2>2, Zenon DEF Config
    <2>5. replica[r].epoch \in Nat
      BY <2>2, Zenon DEF Config
    <2> QED
      BY <2>1, <2>2, <2>3, <2>4, <2>5 DEF VersionInv, IssuedOrdered
  <1> QED
    BY <1>1, <1>2, <1>3, Versions, TypeCorrect, PTL DEF Spec

------------------------------------------------------------------------------
(*****************************************************************************)
(* What a recorded push says of the replicas, whatever the clock does, as    *)
(* long as no replica restarts (NoChurn).  A restarted replica is empty      *)
(* whatever the controller remembers; the endpoint reconciler's replay is    *)
(* what serves it, which is a liveness property.                             *)
(*****************************************************************************)

\* The skip key: a leg that succeeded left its replica at or above the config
\* it carried, for any clock.
CounterAbove ==
    /\ counter > 0
    /\ target.lastCfg.version <= counter
    /\ target.lastCfg # NoConfig => target.lastCfg.version > 0
    /\ \A p \in Pushers : pc[p] = "pushing" =>
            0 < cfg[p].version /\ cfg[p].version <= counter
    /\ \A m \in late : m.cfg.version > 0

ReplayIsCached == pc[Resyncer] = "pushing" => cfg[Resyncer] = target.lastCfg

LegAbove ==
    \A p \in Pushers, e \in Endpoints :
        leg[p][e].at \in {"put", "retry", "ok"} => leg[p][e].ver >= cfg[p].version

LegReached ==
    \A p \in Pushers, r \in Replicas :
        leg[p][r].at = "ok" => replica[r].version >= leg[p][r].ver

SkipInv == CounterAbove /\ ReplayIsCached /\ LegAbove /\ LegReached /\ SkipKeyCovered

\* A push starts its legs at the version of its config.
LEMMA StartsAbove ==
    ASSUME NEW p \in Pushers, NEW c, NEW D, c.version \in Nat, LegAbove,
           leg \in [Pushers -> Legs], cfg \in [Pushers -> Config],
           cfg' = [cfg EXCEPT ![p] = c], StartLegs(p, c, D)
    PROVE  LegAbove'
  <1> SUFFICES ASSUME NEW q \in Pushers, NEW e \in Endpoints, leg'[q][e].at \in {"put", "retry", "ok"}
               PROVE  leg'[q][e].ver >= cfg'[q].version
    BY Zenon DEF LegAbove
  <1>1. CASE q = p
    <2>1. cfg'[q] = c
      BY <1>1, Zenon
    <2>2. leg'[q][e] = IF e \in D THEN [at |-> "put", ver |-> c.version] ELSE NoLeg
      BY <1>1, Zenon DEF StartLegs
    <2>3. e \in D
      BY <2>2 DEF NoLeg
    <2>4. leg'[q][e].ver = c.version
      BY <2>2, <2>3
    <2> QED
      BY <2>1, <2>4
  <1>2. CASE q # p
    BY <1>2, Zenon DEF StartLegs, LegAbove
  <1> QED
    BY <1>1, <1>2

\* The skip invariant holds when the controller starts.
LEMMA SkipInit == Init => SkipInv
  <1> SUFFICES ASSUME Init PROVE SkipInv
    OBVIOUS
  <1>1. counter \in Nat /\ counter > 0
    BY ConstantsAssumption DEF Init
  <1>2. target.lastCfg = NoConfig /\ target.hash = NoContent /\ NoConfig.version = 0
    BY DEF Init, NoTarget, NoConfig
  <1>3. CounterAbove
    <2>1. late = {} /\ pc = [p \in Pushers |-> "idle"]
      BY DEF Init
    <2> QED
      BY <1>1, <1>2, <2>1 DEF CounterAbove
  <1>4. \A p \in Pushers, e \in Endpoints : leg[p][e] = NoLeg
    BY Zenon DEF Init, NoLegs
  <1>5. NoLeg.at \notin {"put", "retry", "ok"} /\ Replicas \subseteq Endpoints /\ Resyncer \in Pushers
    BY Zenon DEF NoLeg, Endpoints, Pushers
  <1>6. LegAbove /\ LegReached
    BY <1>4, <1>5, Zenon DEF LegAbove, LegReached
  <1>7. ReplayIsCached /\ SkipKeyCovered
    BY <1>2, <1>5, Zenon DEF Init, ReplayIsCached, SkipKeyCovered
  <1> QED
    BY <1>3, <1>6, <1>7 DEF SkipInv

\* The counter may move forward.
LEMMA CounterForward ==
    ASSUME TypeOK, SkipInv, UNCHANGED <<cfg, pc, late>>, target'.lastCfg = target.lastCfg,
           counter' \in Nat, counter' >= counter
    PROVE  CounterAbove'
  <1>1. counter \in Nat /\ target.lastCfg.version \in Nat /\ \A p \in Pushers : cfg[p].version \in Nat
    BY Zenon DEF TypeOK, Target, Config
  <1>2. \A a \in Nat : a <= counter => a <= counter'
    BY <1>1
  <1>3. counter > 0 => counter' > 0
    BY <1>1
  <1> QED
    BY <1>1, <1>2, <1>3, Zenon DEF SkipInv, CounterAbove

LEMMA AtLeast == \A a, b, c \in Nat : a >= b /\ b >= c => a >= c
  OBVIOUS

\* The replicas may move forward.
LEMMA ReplicasForward ==
    ASSUME TypeOK, SkipInv, UNCHANGED target,
           \A q \in Replicas : replica'[q].version >= replica[q].version /\ replica'[q] \in Config
    PROVE  SkipKeyCovered' /\ (UNCHANGED leg => LegReached')
  <1>1. target.lastCfg.version \in Nat
    BY Zenon DEF TypeOK, Target, Config
  <1>2. \A r \in Replicas : replica[r].version \in Nat /\ replica'[r].version \in Nat
    BY Zenon DEF TypeOK, Config
  <1>3. \A p \in Pushers, r \in Replicas : leg[p][r].ver \in Nat
    BY TypeLeg, Zenon DEF TypeOK, Endpoints
  <1>5. SkipKeyCovered'
    BY <1>1, <1>2, AtLeast, Zenon DEF SkipInv, SkipKeyCovered
  <1>6. UNCHANGED leg => LegReached'
    BY <1>2, <1>3, AtLeast, Zenon DEF SkipInv, LegReached
  <1> QED
    BY <1>5, <1>6

\* A PUT under way has a positive version.
LEMMA SentPositive ==
    ASSUME TypeOK, SkipInv, NEW p \in Pushers, NEW e \in Endpoints, Sending(p, e)
    PROVE  /\ leg[p][e].ver > 0 /\ Payload(p, e).version = leg[p][e].ver
           /\ leg[p][e].ver >= cfg[p].version
  <1>1. leg[p][e].ver \in Nat /\ cfg[p] \in Config
    BY TypeLeg, Zenon DEF TypeOK
  <1>2. 0 < cfg[p].version /\ leg[p][e].ver >= cfg[p].version
    BY Zenon DEF SkipInv, CounterAbove, LegAbove, Sending
  <1> QED
    BY <1>1, <1>2 DEF Payload, Config

\* A replica that takes a config moves forward.
LEMMA ServeForward ==
    ASSUME TypeOK, NEW r \in Replicas, NEW c \in Config,
           c.version > 0, ~Stale(r, c.version), Serve(r, c)
    PROVE  /\ \A q \in Replicas : replica'[q].version >= replica[q].version
           /\ replica'[r] = c
  BY DEF TypeOK, Stale, Serve, Config

\* No step of pushToEndpoint leaves a covered replica behind.
LEMMA SkipLegStep ==
    ASSUME TypeOK, SkipInv, NEW p \in Pushers, NEW e \in Endpoints, LegStep(p, e)
    PROVE  SkipInv'
  <1>t. /\ leg \in [Pushers -> Legs] /\ leg[p] \in Legs /\ leg[p][e].ver \in Nat
        /\ counter \in Nat /\ cfg[p] \in Config /\ target \in Target
        /\ replica \in [Replicas -> Config] /\ Replicas \subseteq Endpoints
    BY TypeLeg, Zenon DEF TypeOK, Endpoints
  <1>a. ASSUME NEW at, NEW ver, SetLeg(p, e, at, ver), at \notin {"put", "retry", "ok"},
               UNCHANGED <<replica, target, counter, cfg, pc, late>>
        PROVE  SkipInv'
    <2>1. LegAbove'
      BY <1>a, <1>t, Zenon DEF SetLeg, Legs, SkipInv, LegAbove
    <2>2. LegReached'
      BY <1>a, <1>t, Zenon DEF SetLeg, Legs, SkipInv, LegReached
    <2> QED
      BY <1>a, <2>1, <2>2, Zenon DEF SkipInv, CounterAbove, ReplayIsCached, SkipKeyCovered
  <1>1. CASE DoPushOK(p, e)
    <2>1. PICK r \in Reach(e) : ~Stale(r, leg[p][e].ver) /\ Serve(r, Payload(p, e))
      BY <1>1, Zenon DEF DoPushOK
    <2>2. r \in Replicas /\ (e \in Replicas => r = e)
      BY ConstantsAssumption, Zenon DEF Reach, TypeOK
    <2>3. leg[p][e].ver > 0 /\ Payload(p, e).version = leg[p][e].ver
          /\ leg[p][e].ver >= cfg[p].version /\ Payload(p, e) \in Config
      BY <1>1, SentPositive, TypePayload, Zenon DEF DoPushOK
    <2>4. /\ \A q \in Replicas : replica'[q].version >= replica[q].version
          /\ replica'[r] = Payload(p, e)
      BY <2>1, <2>2, <2>3, ServeForward, Zenon
    <2>5. UNCHANGED <<target, counter, cfg, pc, late>> /\ SetLeg(p, e, "ok", leg[p][e].ver)
      BY <1>1, Zenon DEF DoPushOK
    <2>t. replica' \in [Replicas -> Config]
      BY <1>t, <2>1, <2>2, <2>3, Zenon DEF Serve
    <2>6. LegAbove'
      BY <1>t, <2>3, <2>5, Zenon DEF SetLeg, Legs, SkipInv, LegAbove
    <2>7. LegReached'
      <3> SUFFICES ASSUME NEW q \in Pushers, NEW s \in Replicas, leg'[q][s].at = "ok"
                   PROVE  replica'[s].version >= leg'[q][s].ver
        BY Zenon DEF LegReached
      <3>1. CASE q = p /\ s = e
        <4>1. leg'[p][e] = [at |-> "ok", ver |-> leg[p][e].ver]
          BY <1>t, <2>5, Zenon DEF SetLeg, Legs
        <4>2. s = r /\ replica'[s].version = leg[p][e].ver
          BY <2>2, <2>3, <2>4, <3>1, Zenon
        <4>3. leg'[q][s].ver = leg[p][e].ver
          BY <3>1, <4>1
        <4>4. \A n \in Nat : n >= n
          OBVIOUS
        <4> QED
          BY <1>t, <4>2, <4>3, <4>4, Zenon
      <3>2. CASE ~(q = p /\ s = e)
        <4>1. leg'[q][s] = leg[q][s] /\ leg[q][s].ver \in Nat
          BY <1>t, <2>5, <3>2, Zenon DEF SetLeg, Legs
        <4>2. replica[s].version >= leg[q][s].ver
          BY <4>1, Zenon DEF SkipInv, LegReached
        <4>3. replica[s].version \in Nat /\ replica'[s].version \in Nat
          BY <1>t, <2>t, Zenon DEF Config
        <4> QED
          BY <2>4, <4>1, <4>2, <4>3, AtLeast, Zenon
      <3> QED
        BY <3>1, <3>2, Zenon
    <2>8. SkipKeyCovered'
      BY <2>t, <2>4, <2>5, ReplicasForward, Zenon
    <2> QED
      BY <2>5, <2>6, <2>7, <2>8, Zenon DEF SkipInv, CounterAbove, ReplayIsCached
  <1>n. {"stale", "err", "check", "lost", "bump"} \cap {"put", "retry", "ok"} = {}
    OBVIOUS
  <1>s. ASSUME NEW at \in {"stale", "err", "check", "lost", "bump"}, NEW ver, SetLeg(p, e, at, ver),
               UNCHANGED <<replica, target, counter, cfg, pc, late>>
        PROVE  SkipInv'
    BY <1>a, <1>n, <1>s, Zenon
  <1>2. CASE DoPushStale(p, e)
    BY <1>2, <1>s, Zenon DEF DoPushStale, clusterVars
  <1>3. CASE DoPushFailed(p, e)
    BY <1>3, <1>s, Zenon DEF DoPushFailed, clusterVars
  <1>4. CASE DoPushTimedOut(p, e)
    <2>1. Payload(p, e).version > 0
      BY <1>4, <1>t, SentPositive, Zenon DEF DoPushTimedOut
    <2>2. \A m \in late' : m.cfg.version > 0
      <3>1. PICK r \in Reach(e) : late' = late \cup {[at |-> r, cfg |-> Payload(p, e)]}
        BY <1>4, Zenon DEF DoPushTimedOut
      <3>2. [at |-> r, cfg |-> Payload(p, e)].cfg = Payload(p, e)
        OBVIOUS
      <3> QED
        BY <2>1, <3>1, <3>2, Zenon DEF SkipInv, CounterAbove
    <2>3. LegAbove'
      BY <1>4, <1>t, Zenon DEF DoPushTimedOut, SetLeg, Legs, SkipInv, LegAbove
    <2>4. LegReached'
      BY <1>4, <1>t, Zenon DEF DoPushTimedOut, SetLeg, Legs, SkipInv, LegReached
    <2> QED
      BY <1>4, <2>2, <2>3, <2>4, Zenon DEF DoPushTimedOut, SkipInv, CounterAbove, ReplayIsCached, SkipKeyCovered
  <1>5. CASE FetchProxyVersion(p, e)
    BY <1>5, <1>s, Zenon DEF FetchProxyVersion, clusterVars
  <1>6. CASE CheckRace(p, e)
    BY <1>6, <1>s, Zenon DEF CheckRace, clusterVars
  <1>7. CASE BumpVersionCounter(p, e)
    <2>1. counter' >= counter /\ counter' \in Nat
      <3>1. counter' = IF counter > leg[p][e].ver THEN counter ELSE leg[p][e].ver + 1
        BY <1>7, Zenon DEF BumpVersionCounter
      <3> QED
        BY <1>t, <3>1
    <2>2. LegAbove'
      BY <1>7, <1>t, Zenon DEF BumpVersionCounter, SetLeg, Legs, SkipInv, LegAbove
    <2>3. LegReached'
      BY <1>7, <1>t, Zenon DEF BumpVersionCounter, SetLeg, Legs, SkipInv, LegReached, clusterVars
    <2>4. CounterAbove'
      BY <1>7, <2>1, CounterForward, Zenon DEF BumpVersionCounter, clusterVars
    <2> QED
      BY <1>7, <2>2, <2>3, <2>4, Zenon DEF BumpVersionCounter, SkipInv, ReplayIsCached, SkipKeyCovered, clusterVars
  <1>8. CASE Reissue(p, e)
    <2>0. cfg[p].version <= counter /\ cfg[p].version \in Nat
      BY <1>8, <1>t, ConfigFields, Zenon DEF Reissue, SkipInv, CounterAbove
    <2>1. counter' = counter + 1
      BY <1>8, Zenon DEF Reissue
    <2>2. LegAbove'
      BY <1>8, <1>t, <2>0 DEF Reissue, SetLeg, Legs, SkipInv, LegAbove
    <2>3. LegReached'
      BY <1>8, <1>t, Zenon DEF Reissue, SetLeg, Legs, SkipInv, LegReached, clusterVars
    <2>4. CounterAbove'
      <3>1. counter' \in Nat /\ counter' >= counter
        BY <1>t, <2>1
      <3> QED
        BY <1>8, <3>1, CounterForward, Zenon DEF Reissue, clusterVars
    <2> QED
      BY <1>8, <2>2, <2>3, <2>4, Zenon DEF Reissue, SkipInv, ReplayIsCached, SkipKeyCovered, clusterVars
  <1> QED
    BY <1>1, <1>2, <1>3, <1>4, <1>5, <1>6, <1>7, <1>8, Zenon DEF LegStep

\* recordPush sets the skip key only for replicas its push has reached.
LEMMA SkipWorkerStep ==
    ASSUME TypeOK, SkipInv, NEW w \in Workers, WorkerStep(w)
    PROVE  SkipInv'
  <1>a. w \in Pushers /\ w # Resyncer
    BY WorkerPusher, Zenon
  <1>t. /\ leg \in [Pushers -> Legs] /\ pc \in [Pushers -> {"idle", "listed", "pushing"}]
        /\ cfg \in [Pushers -> Config] /\ counter \in Nat /\ target \in Target
        /\ replica \in [Replicas -> Config] /\ Replicas \subseteq Endpoints
    BY Zenon DEF TypeOK, Endpoints
  <1>b. \A c : Burned(c) \in Nat /\ Burned(c) >= 1
    BY DEF Burned
  <1>1. CASE ListAndResolve(w)
    <2>1. CounterAbove' /\ ReplayIsCached'
      <3>1. UNCHANGED <<cfg, late, counter, target>> /\ pc' = [pc EXCEPT ![w] = "listed"]
        BY <1>1, Zenon DEF ListAndResolve
      <3>2. \A p \in Pushers : pc'[p] = "pushing" => pc[p] = "pushing"
        BY <1>t, <3>1
      <3>3. Resyncer \in Pushers
        BY Zenon DEF Pushers
      <3> QED
        BY <3>1, <3>2, <3>3, Zenon DEF SkipInv, CounterAbove, ReplayIsCached
    <2> QED
      BY <1>1, <2>1, Zenon DEF ListAndResolve, SkipInv, LegAbove, LegReached, SkipKeyCovered
  <1>2. CASE PreparePushSkip(w)
    <2>1. counter' >= counter /\ counter' \in Nat
      <3>1. counter' = counter + Burned(snap[w])
        BY <1>2, Zenon DEF PreparePushSkip
      <3> QED
        BY <1>b, <1>t, <3>1
    <2>2. target'.lastCfg = target.lastCfg /\ target'.hash = target.hash
          /\ target'.endpoints = target.endpoints
      BY <1>2, <1>t, Zenon DEF PreparePushSkip, Target
    <2>3. CounterAbove'
      BY <1>2, <1>a, <1>t, <2>1, <2>2 DEF PreparePushSkip, SkipInv, CounterAbove, Target, Config
    <2>4. ReplayIsCached'
      BY <1>2, <1>a, <1>t, <2>2 DEF PreparePushSkip, SkipInv, ReplayIsCached
    <2> QED
      BY <1>2, <2>2, <2>3, <2>4, Zenon DEF PreparePushSkip, SkipInv, LegAbove, LegReached, SkipKeyCovered
  <1>3. CASE PreparePush(w)
    <2> DEFINE c == Built(snap[w])
    <2>1. counter' >= counter + 1 /\ counter' \in Nat
      <3>1. counter' = counter + Burned(snap[w])
        BY <1>3, Zenon DEF PreparePush
      <3> QED
        BY <1>b, <1>t, <3>1
    <2>2. c.version = counter + 1
      BY Zenon DEF Built
    <2>3. /\ cfg' = [cfg EXCEPT ![w] = c] /\ pc' = [pc EXCEPT ![w] = "pushing"]
          /\ StartLegs(w, c, to[w]) /\ UNCHANGED <<target, replica, late>>
      BY <1>3, Zenon DEF PreparePush, clusterVars
    <2> HIDE DEF c
    <2>4. CounterAbove'
      <3>1. ASSUME NEW p \in Pushers, pc'[p] = "pushing"
            PROVE  0 < cfg'[p].version /\ cfg'[p].version <= counter'
        <4>1. CASE p = w
          <5>1. cfg'[p] = c
            BY <1>t, <2>3, <4>1, Zenon
          <5> QED
            BY <1>t, <2>1, <2>2, <5>1
        <4>2. CASE p # w
          <5>1. cfg'[p] = cfg[p] /\ pc[p] = "pushing"
            BY <1>t, <2>3, <3>1, <4>2, Zenon
          <5>2. 0 < cfg[p].version /\ cfg[p].version <= counter /\ cfg[p].version \in Nat
            BY <1>t, <5>1, Zenon DEF SkipInv, CounterAbove, Config
          <5> QED
            BY <1>t, <2>1, <5>1, <5>2
        <4> QED
          BY <4>1, <4>2
      <3>2. target.lastCfg.version \in Nat
        BY <1>t, Zenon DEF Target, Config
      <3>3. counter' > 0 /\ target.lastCfg.version <= counter'
        BY <1>t, <2>1, <3>2 DEF SkipInv, CounterAbove
      <3> QED
        BY <2>3, <3>1, <3>3, Zenon DEF SkipInv, CounterAbove
    <2>5. ReplayIsCached'
      <3>1. pc'[Resyncer] = pc[Resyncer] /\ cfg'[Resyncer] = cfg[Resyncer]
        BY <1>a, <1>t, <2>3, Zenon DEF Pushers
      <3> QED
        BY <2>3, <3>1, Zenon DEF SkipInv, ReplayIsCached
    <2>6. LegAbove'
      <3>1. c.version \in Nat /\ LegAbove
        BY <1>t, <2>2 DEF SkipInv
      <3> QED
        BY <1>a, <1>t, <2>3, <3>1, StartsAbove, Zenon
    <2>7. LegReached'
      BY <1>a, <1>t, <2>3, Zenon DEF SkipInv, LegReached, StartLegs, Legs, NoLeg
    <2> QED
      BY <2>3, <2>4, <2>5, <2>6, <2>7, Zenon DEF SkipInv, SkipKeyCovered
  <1>c. ASSUME Finish(w), UNCHANGED <<counter, replica, late>>, CounterAbove', SkipKeyCovered',
               pc[Resyncer] = "pushing" => target'.lastCfg = target.lastCfg
        PROVE  SkipInv'
    <2>1. ReplayIsCached'
      BY <1>a, <1>c, <1>t DEF Finish, SkipInv, ReplayIsCached
    <2>2. LegAbove'
      BY <1>a, <1>c, <1>t, Zenon DEF Finish, SkipInv, LegAbove, NoLegs, NoLeg
    <2>3. LegReached'
      BY <1>a, <1>c, <1>t, Zenon DEF Finish, SkipInv, LegReached, NoLegs, NoLeg
    <2> QED
      BY <1>c, <2>1, <2>2, <2>3, Zenon DEF SkipInv
  <1>4. CASE RecordPushOK(w)
    <2>1. 0 < cfg[w].version /\ cfg[w].version <= counter
      BY <1>4, <1>a, Zenon DEF RecordPushOK, SkipInv, CounterAbove
    <2>2. target'.lastCfg = cfg[w] /\ target'.endpoints = to[w]
      BY <1>4, <1>t, Zenon DEF RecordPushOK, Target
    <2>3. CounterAbove'
      BY <1>4, <1>a, <1>t, <2>1, <2>2, Zenon DEF RecordPushOK, Finish, SkipInv, CounterAbove
    <2>4. SkipKeyCovered'
      <3> SUFFICES ASSUME NEW r \in to[w] \cap Replicas
                   PROVE  replica[r].version >= cfg[w].version
        BY <1>4, <2>2, Zenon DEF RecordPushOK, SkipKeyCovered
      <3>1. leg[w][r].at = "ok" /\ leg[w][r].ver \in Nat
        BY <1>4, <1>a, <1>t, TypeLeg, Zenon DEF RecordPushOK, AllOK
      <3>2. replica[r].version >= leg[w][r].ver /\ leg[w][r].ver >= cfg[w].version
        BY <1>a, <1>t, <3>1, Zenon DEF SkipInv, LegAbove, LegReached
      <3>3. replica[r].version \in Nat /\ cfg[w].version \in Nat
        BY <1>a, <1>t, Zenon DEF Config
      <3> QED
        BY <3>1, <3>2, <3>3, AtLeast, Zenon
    <2>5. ~(pc[Resyncer] = "pushing")
      BY <1>4, Zenon DEF RecordPushOK, TypeOK
    <2> QED
      BY <1>4, <1>c, <2>3, <2>4, <2>5, Zenon DEF RecordPushOK
  <1>5. CASE RecordPushFailed(w)
    <2>2. target'.lastCfg = target.lastCfg /\ target'.hash = NoContent
      BY <1>5, <1>t, Zenon DEF RecordPushFailed, Target
    <2>3. CounterAbove'
      BY <1>5, <1>a, <1>t, <2>2, Zenon DEF RecordPushFailed, Finish, SkipInv, CounterAbove
    <2>4. SkipKeyCovered'
      BY <2>2, Zenon DEF SkipKeyCovered
    <2> QED
      BY <1>5, <1>c, <2>2, <2>3, <2>4, Zenon DEF RecordPushFailed
  <1> QED
    BY <1>1, <1>2, <1>3, <1>4, <1>5, Zenon DEF WorkerStep, LockStep

\* resyncTarget sets the skip key only for replicas its replay has reached.
LEMMA SkipResyncStep ==
    ASSUME TypeOK, SkipInv, ResyncStep
    PROVE  SkipInv'
  <1>a. Resyncer \in Pushers
    BY Zenon DEF Pushers
  <1>t. /\ leg \in [Pushers -> Legs] /\ pc \in [Pushers -> {"idle", "listed", "pushing"}]
        /\ cfg \in [Pushers -> Config] /\ counter \in Nat /\ target \in Target
        /\ replica \in [Replicas -> Config] /\ Replicas \subseteq Endpoints
    BY Zenon DEF TypeOK, Endpoints
  <1>1. CASE ResyncResolve
    <2>1. CounterAbove' /\ ReplayIsCached'
      BY <1>1, <1>a, <1>t, Zenon DEF ResyncResolve, SkipInv, CounterAbove, ReplayIsCached
    <2> QED
      BY <1>1, <2>1, Zenon DEF ResyncResolve, SkipInv, LegAbove, LegReached, SkipKeyCovered
  <1>c. ASSUME Finish(Resyncer), UNCHANGED <<counter, replica, late>>, SkipKeyCovered',
               target'.lastCfg = target.lastCfg
        PROVE  SkipInv'
    <2>1. CounterAbove'
      BY <1>a, <1>c, <1>t, Zenon DEF Finish, SkipInv, CounterAbove
    <2>2. ReplayIsCached'
      BY <1>a, <1>c, <1>t, Zenon DEF Finish, ReplayIsCached
    <2>3. LegAbove'
      BY <1>a, <1>c, <1>t, Zenon DEF Finish, SkipInv, LegAbove, NoLegs, NoLeg
    <2>4. LegReached'
      BY <1>a, <1>c, <1>t, Zenon DEF Finish, SkipInv, LegReached, NoLegs, NoLeg
    <2> QED
      BY <1>c, <2>1, <2>2, <2>3, <2>4, Zenon DEF SkipInv
  <1>2. CASE ResyncNothing
    BY <1>2, <1>c, Zenon DEF ResyncNothing, SkipInv, SkipKeyCovered, clusterVars
  <1>3. CASE ResyncStart
    <2>1. CounterAbove'
      BY <1>3, <1>a, <1>t, Zenon DEF ResyncStart, SkipInv, CounterAbove, clusterVars
    <2>2. ReplayIsCached'
      BY <1>3, <1>a, <1>t, Zenon DEF ResyncStart, ReplayIsCached
    <2>3. LegAbove'
      <3>1. target.lastCfg.version \in Nat
        BY <1>t, Zenon DEF Target, Config
      <3> QED
        BY <1>3, <1>a, <1>t, <3>1, StartsAbove, Zenon DEF ResyncStart, SkipInv
    <2>4. LegReached'
      BY <1>3, <1>a, <1>t, Zenon DEF ResyncStart, StartLegs, SkipInv, LegReached, Legs, NoLeg, clusterVars
    <2> QED
      BY <1>3, <2>1, <2>2, <2>3, <2>4, Zenon DEF ResyncStart, SkipInv, SkipKeyCovered, clusterVars
  <1>4. CASE ResyncDone
    <2>1. target'.lastCfg = target.lastCfg /\ target'.endpoints = to[Resyncer]
      BY <1>4, <1>t, Zenon DEF ResyncDone, Target
    <2>2. cfg[Resyncer] = target.lastCfg
      BY <1>4, Zenon DEF ResyncDone, SkipInv, ReplayIsCached
    <2>3. SkipKeyCovered'
      <3> SUFFICES ASSUME NEW r \in to[Resyncer] \cap Replicas
                   PROVE  replica[r].version >= target.lastCfg.version
        BY <1>4, <2>1, Zenon DEF ResyncDone, SkipKeyCovered, clusterVars
      <3>1. leg[Resyncer][r].at = "ok" /\ leg[Resyncer][r].ver \in Nat
        BY <1>4, <1>a, <1>t, TypeLeg, Zenon DEF ResyncDone, AllOK
      <3>2. /\ replica[r].version >= leg[Resyncer][r].ver
            /\ leg[Resyncer][r].ver >= cfg[Resyncer].version
        BY <1>a, <1>t, <3>1, Zenon DEF SkipInv, LegAbove, LegReached
      <3>3. replica[r].version \in Nat /\ cfg[Resyncer].version \in Nat
        BY <1>a, <1>t, Zenon DEF Config
      <3> QED
        BY <2>2, <3>1, <3>2, <3>3, AtLeast, Zenon
    <2> QED
      BY <1>4, <1>c, <2>1, <2>3, Zenon DEF ResyncDone, clusterVars
  <1>5. CASE ResyncFailed
    <2>1. target'.lastCfg = target.lastCfg /\ target'.hash = NoContent
      BY <1>5, <1>t, Zenon DEF ResyncFailed, Target
    <2>2. SkipKeyCovered'
      BY <2>1, Zenon DEF SkipKeyCovered
    <2> QED
      BY <1>5, <1>c, <2>1, <2>2, Zenon DEF ResyncFailed
  <1> QED
    BY <1>1, <1>2, <1>3, <1>4, <1>5, Zenon DEF ResyncStep

\* Late requests and restarts of the controller keep the skip invariant.
LEMMA SkipEnvironment ==
    ASSUME NoChurn, TypeOK, SkipInv, Environment
    PROVE  SkipInv'
  <1>1. CASE Change
    BY <1>1, Zenon DEF Change, SkipInv, CounterAbove, ReplayIsCached, LegAbove, LegReached, SkipKeyCovered
  <1>2. ASSUME NEW m \in late, DeliverLate(m) PROVE SkipInv'
    <2>t. /\ replica \in [Replicas -> Config] /\ m.at \in Replicas /\ m.cfg \in Config
          /\ target \in Target /\ leg \in [Pushers -> Legs] /\ Replicas \subseteq Endpoints
      BY Zenon DEF TypeOK, Endpoints
    <2>1. m.cfg.version > 0
      BY Zenon DEF SkipInv, CounterAbove
    <2>2. /\ \A q \in Replicas : replica'[q].version >= replica[q].version
          /\ replica' \in [Replicas -> Config]
      <3>1. CASE ~Stale(m.at, m.cfg.version) /\ Serve(m.at, m.cfg)
        BY <2>t, <2>1, <3>1, ServeForward, Zenon DEF Serve
      <3>2. CASE replica' = replica
        <4>1. \A q \in Replicas : replica[q].version \in Nat
          BY <2>t, Zenon DEF Config
        <4>2. \A n \in Nat : n >= n
          OBVIOUS
        <4> QED
          BY <2>t, <3>2, <4>1, <4>2, Zenon
      <3> QED
        BY <1>2, <3>1, <3>2, Zenon DEF DeliverLate
    <2>3. LegReached' /\ SkipKeyCovered'
      BY <1>2, <2>2, ReplicasForward, Zenon DEF DeliverLate
    <2> QED
      BY <1>2, <2>3, Zenon DEF DeliverLate, SkipInv, CounterAbove, ReplayIsCached, LegAbove
  <1>3. ASSUME NEW r \in Replicas, Churn(r) PROVE FALSE
    BY <1>3, Zenon DEF NoChurn, Churn
  <1>4. CASE Restart
    <2>1. \A m \in late' : m.cfg.version > 0
      <3>1. ASSUME NEW q \in Pushers, NEW e \in Endpoints, NEW m \in Unanswered(q, e)
            PROVE  m.cfg.version > 0
        <4>1. Sending(q, e) /\ m.cfg = Payload(q, e)
          BY <3>1 DEF Unanswered
        <4> QED
          BY <4>1, SentPositive, Zenon
      <3>2. PICK L \in SUBSET UNION {Unanswered(p, e) : p \in Pushers, e \in Endpoints} : late' = late \cup L
        BY <1>4 DEF Restart, LoseMemory
      <3>3. \A m \in late : m.cfg.version > 0
        BY DEF SkipInv, CounterAbove
      <3> QED
        BY <3>1, <3>2, <3>3
    <2>2. counter' \in Nat /\ counter' > 0
      BY <1>4, ConstantsAssumption DEF Restart
    <2>3. CounterAbove'
      <3>1. target' = NoTarget /\ pc' = [p \in Pushers |-> "idle"]
        BY <1>4, Zenon DEF Restart, LoseMemory
      <3>2. target'.lastCfg = NoConfig /\ NoConfig.version = 0
        BY <3>1 DEF NoTarget, NoConfig
      <3> QED
        BY <2>1, <2>2, <3>1, <3>2 DEF CounterAbove
    <2> QED
      BY <1>4, <2>3, Zenon DEF Restart, LoseMemory, SkipInv, ReplayIsCached, LegAbove, LegReached,
         SkipKeyCovered, NoTarget, NoLegs, NoLeg, Pushers, Endpoints
  <1> QED
    BY <1>1, <1>2, <1>3, <1>4, Zenon DEF Environment

\* shouldSkipPush never hides a replica that missed a push: while the skip key
\* is set, every replica it covers is at or above the cached config, whatever
\* the clock does and whatever is lost or late.
THEOREM SkipKeyCoveredHolds == ASSUME NoChurn PROVE Spec => []SkipKeyCovered
  <1>1. TypeOK /\ SkipInv /\ [Next]_vars => SkipInv'
    <2> SUFFICES ASSUME TypeOK, SkipInv, [Next]_vars PROVE SkipInv'
      BY Zenon
    <2>1. CASE UNCHANGED vars
      BY <2>1, Zenon DEF vars, SkipInv, CounterAbove, ReplayIsCached, LegAbove, LegReached, SkipKeyCovered
    <2> QED
      BY <2>1, SkipWorkerStep, SkipResyncStep, SkipLegStep, SkipEnvironment, Zenon DEF Next
  <1>2. SkipInv => SkipKeyCovered
    BY Zenon DEF SkipInv
  <1> QED
    BY <1>1, <1>2, SkipInit, TypeCorrect, PTL DEF Spec

==============================================================================
