SPECIFICATION Spec
CONSTANTS
    StartupLoops = {su}
    Reconcilers = {w1}
    Gate <- GateAll
    Resyncer = ep
    Replicas = {r1, r2}
    ServiceURL = svc
    Contents = {A, B}
    GRPCContents = {B}
    NoContent = none
    su = su
    Seeds = {1, 3, 4}
    ClockSkew = FALSE
    Faults = {"late", "dns", "drop"}
    InitialMembers = {r1, r2}
    MaxVersion = 6
    MaxChanges = 1
    MaxRestarts = 1
    MaxFaults = 1
SYMMETRY Symmetry
INVARIANT Agreement
INVARIANT SkipKeyCovered
PROPERTY ImplementsRegister
CHECK_DEADLOCK FALSE
