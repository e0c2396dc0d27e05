\* Two entries, two replicas, a crash or disposal, in every kind of deployment.
CONSTANTS
    Forwarders = {f1, f2}
    Entries <- MCEntries
    CreatedAt <- MCCreatedAt
    BatchSize = 2
    MaxRetries = 2
    FaultSets = {{}, {"lostAck"}, {"lostAck", "slowTick"}}
    MaxStops = 1
    NoEntry = NoEntry
SYMMETRY Symmetry
SPECIFICATION Spec
INVARIANTS TypeOK SentWasPublished OneForwarderPerEntry
PROPERTIES SentIsTerminal
