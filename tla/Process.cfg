SPECIFICATION FairService
CONSTANTS
    runner = runner
    server = server
    pool = pool
    logs = logs
    Phases = 2
    PartsOf <- MCPartsOf
    None = None
    Causes <- MCCauses
    UsageSets <- MCUsageSets
    Runner = runner
    Pool = pool
    Jobs = {job1}
    NoTick = NoTick
    MaxTicks = 2
    FaultSets <- MCFaultSets
    Logs = logs
    Loggers = {root, child}
    Flushed = root
    MaxEntries = 1
INVARIANTS
    TypeOK
    PhaseOrder
    ExitZeroIsClean
    NoTickOnClosedPool
    FlushedBeforeExit
PROPERTIES
    TriggerLeadsToExit
CHECK_DEADLOCK FALSE
