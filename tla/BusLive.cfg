\* Fair runs through retries of two handlers and of the event.
CONSTANTS
    c1 = c1
    c2 = c2
    Consumers <- MCConsumers
    Events <- MCOneEvent
    NoEvent = NoEvent
    AggOf <- MCOneAggOf
    NoAgg = NoAgg
    CreatedAt <- MCOneCreatedAt
    Topics <- MCOneTopics
    Own <- MCOwn
    Handlers <- MCTwoHandlers
    Invalid = {}
    BatchSize = 2
    MaxRetries = 2
    MaxAttempts = 2
    FaultSets = {{"lostAck", "overlap"}}
    MaxStops = 1
SPECIFICATION FairSpec
PROPERTIES EveryEventSettles
