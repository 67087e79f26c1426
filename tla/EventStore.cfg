CONSTANTS
    campaign = campaign
    actor = actor
    p1 = p1
    p2 = p2
    x = x
    k1 = k1
    r1 = r1
    NoReceipt = NoReceipt
    Streams <- StreamsDef
    Payloads <- PayloadsDef
    Queues <- QueuesDef
    Keys <- KeysDef
    Receipts <- ReceiptsDef
    MaxSize = 2
    MaxEvents = 4
    MaxBatch = 2
SYMMETRY Symmetric
SPECIFICATION Spec
INVARIANTS
    TwoViewsAgree
    DeliveredInOrder
    NoSilentGap
PROPERTY ImplementsLog
CHECK_DEADLOCK FALSE
