\* One forwarder, one consumer, a crash or disposal, in the worst deployment.
CONSTANTS
    Forwarders = {f1}
    Consumers = {c1}
    Entries <- MCEntries
    CreatedAt <- MCCreatedAt
    Handlers <- MCHandlers
    OutboxRetries = 2
    BusRetries = 1
    MaxAttempts = 1
    BatchSize = 1
    FaultSets = {{"lostAck", "slowTick"}}
    MaxStops = 1
    MaxRows = 2
    None = None
SPECIFICATION FairSpec
PROPERTIES KeepsPromise PromiseSettles ForwardersSeeBus
