---------------------------- MODULE MCLiveFeed ----------------------------
(* Small instance of LiveFeed for TLC: two campaigns, two connections. *)
EXTENDS LiveFeed

CONSTANTS stream, here, elsewhere, p1, p2

StreamsDef  == {stream}
PayloadsDef == {here, elsewhere}
QueuesDef   == {p1, p2}
NoKeys      == {}
WatchesDef  == [q \in Queues |-> here]
=============================================================================
