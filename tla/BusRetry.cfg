CONSTANTS
    cmp = cmp
    hero = hero
    rival = rival
    draft = draft
    brawl = brawl
    alice = alice
    bob = bob
    view = view
    Nothing = Nothing
    Invalid = Invalid
    NoReceipt = NoReceipt
    Campaigns <- CampaignsDef
    Actors <- ActorsDef
    Creations <- CreationsDef
    Encounters <- EncountersDef
    Streams <- StreamsDef
    Payloads <- PayloadsDef
    Keys <- KeysDef
    Receipts <- ReceiptsDef
    Commands <- RetryCommands
    Queues <- OneQueue
    MaxSize = 1
    MaxEvents = 8
    Suspends = TRUE
    Tries <- Retried
    MaxBatch = 1
SPECIFICATION BusSpec
INVARIANTS
    RollsOnRecord
    LiveLacksOnlyCutEvents
    
PROPERTY ReceiptsFinal
CHECK_DEADLOCK FALSE
