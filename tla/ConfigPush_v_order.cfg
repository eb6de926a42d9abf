SPECIFICATION FairSpec
CONSTANTS
    StartupLoops = {su}
    Reconcilers = {w1, w2}
    Gate <- GateAll
    Resyncer = ep
    Replicas = {r1}
    ServiceURL = svc
    Contents = {A, B}
    GRPCContents = {}
    NoContent = none
    su = su
    Seeds = {1}
    ClockSkew = FALSE
    Faults = {}
    InitialMembers = {r1}
    MaxVersion = 9
    MaxChanges = 1
    MaxRestarts = 0
    MaxFaults = 0
PROPERTY Converges
CHECK_DEADLOCK FALSE
