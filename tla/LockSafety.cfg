SPECIFICATION Spec
CONSTANTS
    s1 = s1
    s2 = s2
    Sessions = {s1, s2}
    Rows = {r1}
    NoSession = NoSession
    MaxTransactions = 3
    MaxWrites = 3
    FaultSets <- MCFaultSets
INVARIANTS
    TypeOK
    NoLostUpdate
    LockedNeverLost
    NoSpuriousConflict
SYMMETRY Symmetry
CHECK_DEADLOCK FALSE
