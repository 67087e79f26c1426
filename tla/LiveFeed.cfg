CONSTANTS
    stream = stream
    here = here
    elsewhere = elsewhere
    p1 = p1
    p2 = p2
    NoReceipt = NoReceipt
    Streams <- StreamsDef
    Payloads <- PayloadsDef
    Queues <- QueuesDef
    Watches <- WatchesDef
    Keys <- NoKeys
    Receipts <- NoKeys
    MaxSize = 2
    MaxEvents = 3
    MaxBatch = 2
SPECIFICATION LiveSpec
INVARIANTS
    ClientSeesCampaign
    LeaksOnlyOnFailure
PROPERTY EventuallySent
CHECK_DEADLOCK FALSE
