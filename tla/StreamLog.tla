----------------------------- MODULE StreamLog -----------------------------
(* What the engine asks of an event store (persistence/event_store.py and      *)
(* persistence/postgres.py offer the same coroutines): one totally ordered     *)
(* history, divided into streams, that only grows, and grows by whole batches, *)
(* each numbered on from the end of its stream.                                *)
EXTENDS Naturals, Sequences

CONSTANTS Streams,    \* stream identifiers, "campaign:x", "actor:y", ...
          Payloads,   \* what an event says
          Batches     \* the batches a caller may append

VARIABLES history,    \* every committed event, in commit order
          len         \* len[s]: how many of them belong to stream s

vars == <<history, len>>

Init == /\ history = <<>>
        /\ len = [s \in Streams |-> 0]

Commit(s, batch) ==
    /\ history' = history \o [i \in 1..Len(batch) |->
                      [stream |-> s, version |-> len[s] + i, payload |-> batch[i]]]
    /\ len' = [len EXCEPT ![s] = @ + Len(batch)]

Next == \E s \in Streams, batch \in Batches : Commit(s, batch)

Spec == Init /\ [][Next]_vars
=============================================================================
