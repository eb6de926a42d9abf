SPECIFICATION FairSpec
CONSTANTS
    StartupLoops = {su}
    Reconcilers = {w1, w2}
    Gate <- GateAll
    Resyncer = ep
    Replicas = {r1}
    ServiceURL = svc
    Contents = {A, B}
    GRPCContents = {}
    NoContent = none
    su = su
    Seeds = {1, 6}
    ClockSkew = FALSE
    Faults = {}
    InitialMembers = {r1}
    MaxVersion = 14
    MaxChanges = 1
    MaxRestarts = 1
    MaxFaults = 0
INVARIANT TypeOK
INVARIANT LostRaceJustified
PROPERTY NewerNotOverwritten
PROPERTY Quiesces
CHECK_DEADLOCK FALSE
