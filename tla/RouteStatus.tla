---------------------------- MODULE RouteStatus ----------------------------
(***************************************************************************)
(* What the controller writes to the status of a route (route_status.go,   *)
(* status_generation.go): one entry per parentRef that leads to one of our *)
(* Gateways, beside the entries of other controllers.                      *)
(*                                                                         *)
(* A status is [ours, foreign], both sequences; an entry of ours holds the *)
(* parentRef, the generation its conditions are stamped with, and the      *)
(* conditions.  outcome is what a sync concluded about the route: the      *)
(* route as it was read, its binding, its failed references, its           *)
(* diagnostics, the Gateways whose tunnel could not be written, whether    *)
(* none could, and the reason for which its kind is not served at all.     *)
(***************************************************************************)
EXTENDS RouteEvents, BackendPasses

CONSTANT RouteParentStatusMaxCount   \* 32 in the code
ASSUME RouteParentStatusMaxCountAssumption == RouteParentStatusMaxCount \in Nat \ {0}

NoStatus == [ours |-> <<>>, foreign |-> <<>>]

-----------------------------------------------------------------------------
(* What concerns one route in the findings of a sync.  Both filters go by   *)
(* namespace and name: diagnostics do not know the kind of their route.     *)

filterFailedRefs(failed, route) == {f \in failed : f.route = <<route.ns, route.name>>}

\* The diagnostics of converted rules, with the rule they are about.
Diagnostics(rules) ==
    UNION {{[route |-> Tail(rules[r].route), rule |-> rules[r].rule, target |-> d.target, reason |-> d.reason,
             whole |-> d.whole] : d \in rules[r].diags} : r \in DOMAIN rules}

filterDiagnostics(diags, route) == {d \in diags : d.route = <<route.ns, route.name>>}

-----------------------------------------------------------------------------
(* Conditions                                                              *)

\* diagnosticConditions: the whole route is unservable when every rule is.
WhollyUnservable(diags, ruleCount) ==
    ruleCount > 0 /\ Cardinality({d.rule : d \in {e \in diags : e.target = "Accepted" /\ e.whole}}) >= ruleCount
PartiallyInvalid(diags, ruleCount) ==
    ~WhollyUnservable(diags, ruleCount) /\ \E d \in diags : d.target = "Accepted"

\* The tunnel of the parent failed, or all of them did.
perParentSyncErr(outcome, i) ==
    \/ outcome.outage
    \/ /\ i \in DOMAIN outcome.binding.parentGateways
       /\ outcome.binding.parentGateways[i] \in outcome.failed \cap outcome.binding.gateways

\* What the caller says goes before the diagnostics.
acceptedOverride(outcome, ruleCount) ==
    IF outcome.override # <<>> THEN outcome.override
    ELSE IF WhollyUnservable(outcome.diags, ruleCount) THEN <<"UnsupportedValue">> ELSE <<>>

\* A rejected binding first, then a failed sync, then the override.  A
\* parentRef without a binding result counts as bound.
buildAcceptedCondition(outcome, i, ruleCount) ==
    LET results == outcome.binding.results
        override == acceptedOverride(outcome, ruleCount)
        Verdict(status, reason) == [status |-> status, reason |-> reason]
    IN  IF i \in DOMAIN results /\ \E r \in Range(results[i]) : ~r.accepted
        THEN Verdict(FALSE, results[i][1].reason)
        ELSE IF perParentSyncErr(outcome, i) THEN Verdict(FALSE, "Pending")
        ELSE IF override # <<>> THEN Verdict(FALSE, override[1])
        ELSE Verdict(TRUE, "Accepted")

\* The failed references, else the diagnostics; the code names the first.
buildResolvedRefsCondition(outcome) ==
    LET diags == {d.reason : d \in {e \in outcome.diags : e.target = "ResolvedRefs"}}
        refs == {f.reason : f \in outcome.refs}
    IN  [status |-> refs \cup diags = {}, reasons |-> IF refs # {} THEN refs ELSE diags]

\* The conditions of RouteShadowed, ProxyConfigPushed and TunnelShared.
buildDiagnosticConditions(diags) ==
    {t \in {"Shadowed", "ProxyConfigPush", "TunnelShared"} : \E d \in diags : d.target = t}

buildParentStatus(outcome, fresh, i) ==
    LET ref == fresh.parents[i]
        accepted == buildAcceptedCondition(outcome, i, Len(fresh.rules))
    IN  [ref |-> [ref EXCEPT !.ns = <<Default(@, fresh.ns)>>], gen |-> fresh.gen,
         accepted |-> accepted, resolvedRefs |-> buildResolvedRefsCondition(outcome),
         partiallyInvalid |-> accepted.status /\ PartiallyInvalid(outcome.diags, Len(fresh.rules)),
         others |-> IF accepted.status THEN buildDiagnosticConditions(outcome.diags) ELSE {}]

-----------------------------------------------------------------------------
(* The read-modify-write of one route                                      *)

\* Some entry of ours comes from a later reconcile.
statusGenerationStale(reconciled, status) == \E e \in Range(status.ours) : e.gen > reconciled

parentRefSelectsManagedGateway(w, route, ref) ==
    \E key \in resolveParentGatewayFromRef(w, route, ref) : w.gateways[key].ours

\* The entries are rebuilt over the parentRefs of the route as it is now,
\* with its generation, from the outcome of the route as it was read; on
\* overflow only our entries are cut.
updateRouteParentStatuses(w, outcome, fresh, status) ==
    LET ours == FlattenSeq([i \in DOMAIN fresh.parents |->
                    IF parentRefSelectsManagedGateway(w, fresh, fresh.parents[i]) THEN <<i>> ELSE <<>>])
        room == RouteParentStatusMaxCount - Len(status.foreign)
        available == IF room > 0 THEN room ELSE 0
        kept == SubSeq(ours, 1, IF Len(ours) > available THEN available ELSE Len(ours))
    IN  IF statusGenerationStale(outcome.route.gen, status) THEN status
        ELSE [status EXCEPT !.ours = [n \in DOMAIN kept |-> buildParentStatus(outcome, fresh, kept[n])]]
=============================================================================
