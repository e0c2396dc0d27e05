\* Fair runs of one entry through retries, slow ticks, lost answers, one stop.
CONSTANTS
    Forwarders = {f1, f2}
    Entries <- MCOneEntry
    CreatedAt <- MCOneCreatedAt
    BatchSize = 2
    MaxRetries = 2
    FaultSets = {{"lostAck", "slowTick"}}
    MaxStops = 1
    NoEntry = NoEntry
SPECIFICATION FairSpec
PROPERTIES EveryEntrySettles
