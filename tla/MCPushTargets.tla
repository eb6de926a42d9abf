---------------------------- MODULE MCPushTargets ----------------------------
(* One Gateway, g1, that opts in and out, comes and goes, and one, p, that   *)
(* stays on the shared plane.  Each has a route of its own.  A route         *)
(* controller w syncs next to the infra reconciler x or a startup loop s.    *)
EXTENDS PushTargets, TLC

CONSTANTS g1, p, r1, r2, t0, t1, w, x, s

Roles == [v \in Workers |-> CASE v = w -> "route" [] v = x -> "trigger" [] v = s -> "startup"]
OneTenant == g1 :> GatewayStates @@ p :> {"plain"}
OwnRoutes == r1 :> {g1} @@ r2 :> {p}
OwnTunnel == g1 :> t1 @@ p :> t0 @@ Shared :> t0
=============================================================================
