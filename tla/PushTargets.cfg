SPECIFICATION Spec
CONSTANTS
    g1 = g1
    p = p
    r1 = r1
    r2 = r2
    t0 = t0
    t1 = t1
    w = w
    x = x
    s = s
    Gateways = {g1, p}
    Shared = shared
    Routes = {r1, r2}
    Parents <- OwnRoutes
    TunnelOf <- OwnTunnel
    Workers = {w, x}
    Role <- Roles
    States <- OneTenant
    Quiet = {shared, p}
    Late = {g1}
    MaxChanges = 1
    MaxFaults = 1
    MaxRotations = 1
INVARIANT TenantIsolated
INVARIANT FailsClosed
 
PROPERTY CacheKept
CHECK_DEADLOCK FALSE
