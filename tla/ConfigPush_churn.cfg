SPECIFICATION FairSpec
CONSTANTS
    StartupLoops = {su}
    Reconcilers = {w1}
    Gate <- GateAll
    Resyncer = ep
    Replicas = {r1}
    ServiceURL = svc
    Contents = {A, B}
    GRPCContents = {}
    NoContent = none
    su = su
    Seeds = {1, 3}
    ClockSkew = TRUE
    Faults = {"churn", "drop"}
    InitialMembers = {r1}
    MaxVersion = 7
    MaxChanges = 0
    MaxRestarts = 1
    MaxFaults = 2
PROPERTY MemberServed
CHECK_DEADLOCK FALSE
