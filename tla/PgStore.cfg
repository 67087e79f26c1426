CONSTANTS
    p1 = p1
    p2 = p2
    k1 = k1
    k2 = k2
    k3 = k3
    campaign = campaign
    actor = actor
    x = x
    Nothing = Nothing
    Procs <- TwoProcs
    Streams <- TwoStreams
    Payloads <- OnePayload
    Keys <- ThreeKeys
    Commands <- CommandsDef
    MaxSequence = 3
SPECIFICATION FairSpec
INVARIANTS
    LateOnlyAcrossStreams
    ExecutedOnce
PROPERTIES
    ImplementsLog
    EventuallyOver
CHECK_DEADLOCK FALSE
