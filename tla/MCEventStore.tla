--------------------------- MODULE MCEventStore ---------------------------
(* Small instance of EventStore for TLC. *)
EXTENDS EventStore, TLC

CONSTANTS campaign, actor,    \* two streams
          p1, p2,             \* two subscribers' queues
          x,                  \* a payload
          k1, r1              \* a key and a receipt

StreamsDef  == {campaign, actor}
PayloadsDef == {x}
QueuesDef   == {p1, p2}
KeysDef     == {k1}
ReceiptsDef == {r1}

Symmetric == Permutations(StreamsDef) \cup Permutations(QueuesDef)
=============================================================================
