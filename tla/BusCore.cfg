CONSTANTS
    cmp = cmp
    hero = hero
    rival = rival
    draft = draft
    brawl = brawl
    alice = alice
    bob = bob
    view = view
    Nothing = Nothing
    Invalid = Invalid
    NoReceipt = NoReceipt
    Campaigns <- CampaignsDef
    Actors <- ActorsDef
    Creations <- CreationsDef
    Encounters <- EncountersDef
    Streams <- StreamsDef
    Payloads <- PayloadsDef
    Keys <- KeysDef
    Receipts <- ReceiptsDef
    Commands <- CoreCommands
    Queues <- NoQueues
    MaxSize = 4
    MaxEvents = 16
    Suspends = FALSE
    Tries <- Once
    MaxBatch = 1
SPECIFICATION BusSpec
INVARIANTS
    MatchesLive
    RefusalsLeaveNoTrace
    AggregatesLinked
CHECK_DEADLOCK FALSE
