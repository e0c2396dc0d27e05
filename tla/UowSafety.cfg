SPECIFICATION Spec
CONSTANTS
    u1 = u1
    u2 = u2
    k1 = k1
    k2 = k2
    Calls = {u1, u2}
    Clients = {k1, k2}
    NoClient = NoClient
    Recording <- MCRecording
    MaxAttempts = 2
    MaxLosses = 1
    FaultSets <- MCSafetyFaults
INVARIANTS
    AllOrNothing
    TruthfulOutcome
    WritesStayInside
    OnlyStarvationBlocks
SYMMETRY Symmetry
CHECK_DEADLOCK FALSE
