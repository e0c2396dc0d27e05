\* Two events of one aggregate, two replicas, a crash or disposal, in every kind of deployment.
CONSTANTS
    c1 = c1
    c2 = c2
    Consumers <- MCConsumers
    Events <- MCEvents
    NoEvent = NoEvent
    AggOf <- MCAggOf
    NoAgg = NoAgg
    CreatedAt <- MCCreatedAt
    Topics <- MCMixedTopics
    Own <- MCNoOwn
    Handlers <- MCHandlers
    Invalid = {2}
    BatchSize = 2
    MaxRetries = 2
    MaxAttempts = 1
    FaultSets = {{"lostAck"}, {"lostAck", "overlap", "badPayload", "lateEvent"}, {"lostAck", "overlap", "slowTick", "lateEvent"}}
    MaxStops = 1
SPECIFICATION Spec
INVARIANTS TypeOK DeletedWasHandled OneReplicaPerEvent OneReplicaPerAggregate OlderFirst
PROPERTIES OnlyHolderEndsClaim
