SPECIFICATION FairSpec
CONSTANTS
    StartupLoops = {su}
    Reconcilers = {w1}
    Gate <- GateAll
    Resyncer = ep
    Replicas = {r1, r2}
    ServiceURL = svc
    Contents = {A, B}
    GRPCContents = {}
    NoContent = none
    su = su
    Seeds = {1, 3}
    ClockSkew = FALSE
    Faults = {}
    InitialMembers = {r1, r2}
    MaxVersion = 9
    MaxChanges = 2
    MaxRestarts = 1
    MaxFaults = 0
PROPERTY Converges
CHECK_DEADLOCK FALSE
