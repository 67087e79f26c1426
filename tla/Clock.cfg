CONSTANTS
    Start = 0
    Priorities <- TwoPriorities
    MaxTime = 2
    MaxItems = 3
SPECIFICATION Spec
INVARIANTS
    EachItemOnce
    DeliveredInOrder
    OnTime
CHECK_DEADLOCK FALSE
