----------------------------- MODULE MCPgStore -----------------------------
(* A small instance of PgStore for TLC: two processes, a command that creates a *)
(* stream with two events, one that goes on with it, and one on a stream of its *)
(* own.                                                                         *)
EXTENDS PgStore, TLC

CONSTANTS p1, p2, k1, k2, k3, campaign, actor, x

TwoProcs     == {p1, p2}
TwoStreams   == {campaign, actor}
OnePayload   == {x}
ThreeKeys    == {k1, k2, k3}
CommandsDef  == {[key |-> k1, stream |-> campaign, expected |-> 0, batch |-> <<x, x>>],
                 [key |-> k2, stream |-> campaign, expected |-> Nothing, batch |-> <<x>>],
                 [key |-> k3, stream |-> actor, expected |-> Nothing, batch |-> <<x>>]}
=============================================================================
