\* A crash between publish and markSent, and a second forwarder.
CONSTANTS
    Forwarders = {f1, f2}
    Consumers = {c1}
    Entries <- MCEntries
    CreatedAt <- MCCreatedAt
    Handlers <- MCHandlers
    OutboxRetries = 2
    BusRetries = 1
    MaxAttempts = 1
    BatchSize = 1
    FaultSets = {{}}
    MaxStops = 1
    MaxRows = 2
    None = None
SPECIFICATION Spec
INVARIANTS NoSecondRow
