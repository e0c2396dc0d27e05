\* Overlapping claims: two replicas hold events of one aggregate.
CONSTANTS
    c1 = c1
    c2 = c2
    Consumers <- MCConsumers
    Events <- MCEvents
    NoEvent = NoEvent
    AggOf <- MCAggOf
    NoAgg = NoAgg
    CreatedAt <- MCCreatedAt
    Topics <- MCTopics
    Own <- MCNoOwn
    Handlers <- MCHandlers
    Invalid = {}
    BatchSize = 1
    MaxRetries = 2
    MaxAttempts = 1
    FaultSets = {{"overlap"}}
    MaxStops = 0
SYMMETRY Symmetry
SPECIFICATION Spec
INVARIANTS LockClosesRace
