---------------------------- MODULE MCTunnelSync ----------------------------
(* The class tunnel t0 serves the Gateway p of the shared plane and the      *)
(* opted-in Gateway g1; g2 has the tunnel t2 of its own.  Route a is on      *)
(* p and g2, the GRPCRoute b is on g1 and g2.                                *)
EXTENDS TunnelSync, TLC

CONSTANTS p, g1, g2, a, b, t0, t2, svc

Two == <<g1, g2>>
RouteOrder == <<a, b>>
KindOfRoute == a :> "http" @@ b :> "grpc"
Attachments == a :> {p, g2} @@ b :> {g1, g2}
Match(host, path, prio) == [host |-> host, path |-> path, prio |-> prio, service |-> svc]
EntriesOfRoutes == a :> <<Match(2, <<1>>, 1)>>
                @@ b :> <<Match(1, <<1>>, 0), Match(2, <<1, 1, 1>>, 0)>>
TunnelNames == <<t0, t2>>
TunnelFor == Shared :> t0 @@ g1 :> t0 @@ g2 :> t2
RuleFor(host, path) == [host |-> host, path |-> path, service |-> svc]
\* A document with a stale rule behind one without a hostname that is no
\* catch-all.
Leftovers == {<<RuleFor(0, <<1>>), RuleFor(2, <<2>>), CatchAll>>}
Start(R, B) == [routes |-> R, broken |-> B]
OneBroken == {Start({b}, {g1})}
=============================================================================
