------------------------------ MODULE LiveFeed ------------------------------
(* api/ws.py: the WebSocket handler of a campaign, over EventStore.  Each        *)
(* connection has two tasks, the handler, waiting for the client's messages, and *)
(* the sender it started, moving events from the connection's queue to the       *)
(* socket.  A step here runs from one await of a task to its next one.           *)
EXTENDS EventStore, SequencesExt

CONSTANTS Watches     \* Watches[q]: the campaign the connection with queue q is for

ASSUME WatchesAssumption == DOMAIN Watches = Queues

VARIABLES handler,  \* handler[q]: "none", "serving", "closing" (in its finally), "over"
          sender,   \* sender[q]: "waiting" for an event, "sending" one, "failed", "cancelled"
          gone,     \* connections whose client has left
          garbled,  \* connections whose client sent a message that is not a JSON object
          sent      \* history: sent[q], the events client q received

feedState == <<handler, sender, gone, garbled, sent>>
liveVars == <<events, streams, receipts, subscribers, queue, taken, since, unoffered,
              handler, sender, gone, garbled, sent>>

LiveInit == /\ Init
            /\ handler = [q \in Queues |-> "none"]
            /\ sender = [q \in Queues |-> "none"]
            /\ gone = {}
            /\ garbled = {}
            /\ sent = [q \in Queues |-> <<>>]

Connect(q) ==
    /\ handler[q] = "none"
    /\ Subscribe(q)
    /\ handler' = [handler EXCEPT ![q] = "serving"]
    /\ sender' = [sender EXCEPT ![q] = "waiting"]
    /\ UNCHANGED <<gone, garbled, sent>>

\* The payload of an event stands for the campaign it is of.
Ours(q) == Head(queue[q]).payload = Watches[q]

\* Wrong variants of SenderSkips: another campaign's event ends the loop; any event
\* may be dropped.
SenderStops(q) ==
    /\ sender[q] = "waiting"
    /\ Take(q) /\ ~Ours(q)
    /\ sender' = [sender EXCEPT ![q] = "cancelled"]
    /\ UNCHANGED <<handler, gone, garbled, sent>>

SenderDrops(q) == sender[q] = "waiting" /\ Take(q) /\ UNCHANGED feedState

SenderSkips(q) ==
    /\ sender[q] = "waiting"
    /\ Take(q) /\ ~Ours(q)
    /\ UNCHANGED feedState

SenderTakes(q) ==
    /\ sender[q] = "waiting"
    /\ Take(q) /\ Ours(q)
    /\ sender' = [sender EXCEPT ![q] = "sending"]
    /\ UNCHANGED <<handler, gone, garbled, sent>>

\* send_json returns once the client has room for the message.
SendCompletes(q) ==
    /\ sender[q] = "sending" /\ q \notin gone
    /\ sent' = [sent EXCEPT ![q] = Append(@, Last(taken[q]))]
    /\ sender' = [sender EXCEPT ![q] = "waiting"]
    /\ UNCHANGED <<handler, gone, garbled>> /\ UNCHANGED vars

\* send_json raises: the task ends, with an exception nobody looks at yet.
SendFails(q) ==
    /\ sender[q] = "sending" /\ q \in gone
    /\ sender' = [sender EXCEPT ![q] = "failed"]
    /\ UNCHANGED <<handler, gone, garbled, sent>> /\ UNCHANGED vars

ClientLeaves(q) ==
    /\ handler[q] = "serving" /\ q \notin gone
    /\ gone' = gone \cup {q}
    /\ UNCHANGED <<handler, sender, garbled, sent>> /\ UNCHANGED vars

\* Any other message is answered, and the handler waits for the next one.
ClientGarbles(q) ==
    /\ handler[q] = "serving" /\ q \notin gone \cup garbled
    /\ garbled' = garbled \cup {q}
    /\ UNCHANGED <<handler, sender, gone, sent>> /\ UNCHANGED vars

\* receive_json raises WebSocketDisconnect, or it or message.get raises on a message
\* that is not a JSON object, which nothing catches: either way sender.cancel() ends a
\* task that has not ended, though its client may still be there, and the handler
\* awaits it.
HandlerNotices(q) ==
    /\ handler[q] = "serving" /\ q \in gone \cup garbled
    /\ handler' = [handler EXCEPT ![q] = "closing"]
    /\ sender' = [sender EXCEPT ![q] = IF @ = "failed" THEN @ ELSE "cancelled"]
    /\ UNCHANGED <<gone, garbled, sent>> /\ UNCHANGED vars

\* Wrong variant of HandlerUnsubscribes: the queue is forgotten.
HandlerForgets(q) ==
    /\ handler[q] = "closing" /\ sender[q] = "cancelled"
    /\ handler' = [handler EXCEPT ![q] = "over"]
    /\ UNCHANGED <<sender, gone, garbled, sent>> /\ UNCHANGED vars

HandlerUnsubscribes(q) ==
    /\ handler[q] = "closing" /\ sender[q] = "cancelled"
    /\ Unsubscribe(q)
    /\ handler' = [handler EXCEPT ![q] = "over"]
    /\ UNCHANGED <<sender, gone, garbled, sent>>

\* Only CancelledError is suppressed: the sender's own exception leaves `await sender`
\* and with it the finally block, before unsubscribe.
HandlerRaises(q) ==
    /\ handler[q] = "closing" /\ sender[q] = "failed"
    /\ handler' = [handler EXCEPT ![q] = "over"]
    /\ UNCHANGED <<sender, gone, garbled, sent>> /\ UNCHANGED vars

SenderStep(q) == SenderSkips(q) \/ SenderTakes(q) \/ SendCompletes(q) \/ SendFails(q)
HandlerStep(q) == HandlerNotices(q) \/ HandlerUnsubscribes(q) \/ HandlerRaises(q)

LiveNext ==
    \/ AppendCall /\ UNCHANGED feedState
    \/ \E q \in Queues :
           \/ Connect(q) \/ ClientLeaves(q) \/ ClientGarbles(q)
           \/ SenderStep(q) \/ HandlerStep(q)

\* Ready tasks run, and a client that has not left reads what it is sent.  Clients owe
\* nothing else: they need not leave, nor send anything.
LiveSpec ==
    /\ LiveInit /\ [][LiveNext]_liveVars
    /\ \A q \in Queues : WF_liveVars(SenderStep(q)) /\ WF_liveVars(HandlerStep(q))

-----------------------------------------------------------------------------
(* Properties *)

Got(q, n) == \E i \in DOMAIN sent[q] : sent[q][i].sequence = n

\* From end to end: a client is sent events of its campaign only, in storage order,
\* each once, and none is left out before the last it was sent but those the store
\* failed to offer.
ClientSeesCampaign ==
    \A q \in Queues :
        LET s == sent[q] IN
            /\ \A i \in DOMAIN s : s[i].payload = Watches[q]
            /\ \A i, j \in DOMAIN s : i < j => s[i].sequence < s[j].sequence
            /\ q \in subscribers /\ s # <<>> =>
                   \A n \in (since[q] + 1)..Last(s).sequence :
                       events[n].payload = Watches[q] => n \in unoffered \/ Got(q, n)

\* An event of its campaign offered to a client reaches it, unless the client leaves or
\* sends something the handler dies of.
EventuallySent ==
    \A q \in Queues, n \in 1..MaxEvents :
        (/\ q \in subscribers /\ n \in (since[q] + 1)..Len(events)
         /\ events[n].payload = Watches[q] /\ n \notin unoffered)
            ~> (q \in gone \cup garbled \/ Got(q, n))

\* A connection that is over has given its queue back, unless its sender died first:
\* no other path through the handler's finally block skips unsubscribe.
LeaksOnlyOnFailure ==
    \A q \in Queues : (handler[q] = "over" /\ q \in subscribers) => sender[q] = "failed"
=============================================================================
