SPECIFICATION FairSpec
CONSTANTS
    p = p  g1 = g1  g2 = g2  a = a  b = b  t0 = t0  t2 = t2  svc = svc
    Shared = "shared"
    Hosts = {1, 2}
    Services = {svc}
    OptedIn <- Two
    Plain = {p}
    RouteList <- RouteOrder
    Kind <- KindOfRoute
    Parents <- Attachments
    Entries <- EntriesOfRoutes
    TunnelOf <- TunnelFor
    Tunnels <- TunnelNames
    Edits <- Leftovers
    MaxIngressRules = 3
    Starts <- OneBroken
    Silent = FALSE
    MaxChanges = 1
    MaxFaults = 1
    MaxEdits = 1
INVARIANT Exact
PROPERTY RequeuesConverge
PROPERTY GRPCHeals
CHECK_DEADLOCK FALSE
