------------------------------ MODULE PgStore ------------------------------
(* persistence/postgres.py: the event store in PostgreSQL, called by several     *)
(* engine processes the way EngineService.execute calls a store.  The shipped    *)
(* app does not construct it yet; migration 0001 and its test do.                *)
(*                                                                               *)
(* A process runs one command at a time (execute's lock), between whose database *)
(* statements those of others come, and it may crash between any two: its open   *)
(* transaction is then rolled back.  Each statement is an action.  Transactions  *)
(* are READ COMMITTED: a select sees what is committed; select for update and an *)
(* insert of a primary key wait for the transaction that holds the row, and a    *)
(* number drawn from the sequence is never given back.                           *)
EXTENDS Naturals, Sequences, FiniteSets

CONSTANTS Procs,
          Streams, Payloads, Keys,
          Commands,     \* [key, stream, expected, batch]; expected: the version the client
                        \* names (0 for a create command), or Nothing
          Nothing,
          MaxSequence   \* bound: no command starts once this many numbers were drawn

ASSUME PgAssumption ==
    /\ Commands \subseteq [key: Keys, stream: Streams, expected: Nat \cup {Nothing},
                           batch: Seq(Payloads) \ {<<>>}]
    /\ \A c, d \in Commands : c.key = d.key => c = d
    /\ Nothing \notin Nat \cup {"accepted", "conflict"} /\ MaxSequence \in Nat

VARIABLES rows,      \* domain_events (and outbox_events), in the order they were committed
          version,   \* event_streams; Nothing: no row
          receipts,  \* command_receipts; Nothing: no row
          sequence,  \* the last number drawn for domain_events.sequence
          run,       \* run[p]: the command p executes, and how far it is
          doubtful   \* history: keys executed by two processes at once, or whose process
                     \* crashed between its commit and its receipt

vars == <<rows, version, receipts, sequence, run, doubtful>>

Idle == [at |-> "idle"]

Init == /\ rows = <<>>
        /\ version = [s \in Streams |-> Nothing]
        /\ receipts = [k \in Keys |-> Nothing]
        /\ sequence = 0
        /\ run = [p \in Procs |-> Idle]
        /\ doubtful = {}

Moves(p, r) == run' = [run EXCEPT ![p] = r]
Executes(p, c) == run[p].at # "idle" /\ run[p].command = c
Stream(p) == run[p].command.stream

-----------------------------------------------------------------------------
(* execute: get_receipt, and the version a handler reads when the client named none *)

Start(p, c) ==
    /\ run[p].at = "idle" /\ sequence < MaxSequence
    /\ receipts[c.key] = Nothing
    /\ Moves(p, [at |-> IF c.expected = Nothing THEN "read" ELSE "lock", command |-> c,
                 expected |-> c.expected])
    /\ doubtful' = IF \E q \in Procs \ {p} : Executes(q, c) THEN doubtful \cup {c.key} ELSE doubtful
    /\ UNCHANGED <<rows, version, receipts, sequence>>

CurrentVersion(s) == IF version[s] = Nothing THEN 0 ELSE version[s]

ReadVersion(p) ==
    /\ run[p].at = "read"
    /\ Moves(p, [run[p] EXCEPT !.at = "lock", !.expected = CurrentVersion(Stream(p))])
    /\ UNCHANGED <<rows, version, receipts, sequence, doubtful>>

-----------------------------------------------------------------------------
(* append: one transaction *)

\* Wrong variant of Holds: the select locks the row that is not there yet.
HoldsGap(p) == run[p].at \in {"create", "insert"}

\* p's open transaction holds the row of its stream, locked or inserted.
Holds(p) == run[p].at = "insert"
Free(s, p) == \A q \in Procs \ {p} : ~(Holds(q) /\ Stream(q) = s)

Locked(p, base) == [at |-> "insert", command |-> run[p].command, base |-> base, new |-> <<>>]
Answer(p, status) == [at |-> "save", command |-> run[p].command, status |-> status]

\* Wrong variant of LockRow: select without for update.
LockRowPlain(p) ==
    /\ run[p].at = "lock" /\ version[Stream(p)] # Nothing
    /\ Moves(p, IF version[Stream(p)] = run[p].expected THEN Locked(p, run[p].expected)
                ELSE Answer(p, "conflict"))
    /\ UNCHANGED <<rows, version, receipts, sequence, doubtful>>

\* Wrong variant of LockRow: whatever version the row is at.
LockRowAnyVersion(p) ==
    /\ run[p].at = "lock" /\ version[Stream(p)] # Nothing
    /\ Free(Stream(p), p)
    /\ Moves(p, Locked(p, version[Stream(p)]))
    /\ UNCHANGED <<rows, version, receipts, sequence, doubtful>>

LockRow(p) ==
    /\ run[p].at = "lock" /\ version[Stream(p)] # Nothing
    /\ Free(Stream(p), p)
    /\ Moves(p, IF version[Stream(p)] = run[p].expected THEN Locked(p, run[p].expected)
                ELSE Answer(p, "conflict"))
    /\ UNCHANGED <<rows, version, receipts, sequence, doubtful>>

\* There is no row to lock, so there is nothing to wait for.
LockNone(p) ==
    /\ run[p].at = "lock" /\ version[Stream(p)] = Nothing
    /\ Moves(p, IF run[p].expected = 0 THEN [run[p] EXCEPT !.at = "create"]
                ELSE Answer(p, "conflict"))
    /\ UNCHANGED <<rows, version, receipts, sequence, doubtful>>

\* The insert waits for another's insert of the row; once that is committed it raises
\* IntegrityError, which execute does not catch: no receipt is saved.
CreateRow(p) ==
    /\ run[p].at = "create"
    /\ Free(Stream(p), p)
    /\ Moves(p, IF version[Stream(p)] = Nothing THEN Locked(p, 0) ELSE Idle)
    /\ UNCHANGED <<rows, version, receipts, sequence, doubtful>>

\* One event, and its copy in the outbox.  Under the row's lock no insert can meet the
\* unique constraint on stream and version, which is therefore left out.
InsertEvent(p) ==
    /\ run[p].at = "insert"
    /\ Len(run[p].new) < Len(run[p].command.batch)
    /\ sequence' = sequence + 1
    /\ Moves(p, [run[p] EXCEPT !.new = Append(@,
            [stream |-> Stream(p), version |-> run[p].base + Len(@) + 1,
             payload |-> run[p].command.batch[Len(@) + 1],
             sequence |-> sequence + 1, key |-> run[p].command.key])])
    /\ UNCHANGED <<rows, version, receipts, doubtful>>

Commit(p) ==
    /\ run[p].at = "insert"
    /\ Len(run[p].new) = Len(run[p].command.batch)
    /\ rows' = rows \o run[p].new
    /\ version' = [version EXCEPT ![Stream(p)] = run[p].base + Len(run[p].new)]
    /\ Moves(p, Answer(p, "accepted"))
    /\ UNCHANGED <<receipts, sequence, doubtful>>

-----------------------------------------------------------------------------
(* save_receipt, and the crash *)

SelectReceipt(p) ==
    /\ run[p].at = "save"
    /\ Moves(p, IF receipts[run[p].command.key] = Nothing THEN [run[p] EXCEPT !.at = "put"] ELSE Idle)
    /\ UNCHANGED <<rows, version, receipts, sequence, doubtful>>

\* Raises IntegrityError when another process was faster.
PutReceipt(p) ==
    /\ run[p].at = "put"
    /\ receipts' = [receipts EXCEPT ![run[p].command.key] = IF @ = Nothing THEN run[p].status ELSE @]
    /\ Moves(p, Idle)
    /\ UNCHANGED <<rows, version, sequence, doubtful>>

\* Wrong variant of Crash: no transaction, what was inserted stays.
CrashKeeps(p) ==
    /\ run[p].at # "idle"
    /\ Moves(p, Idle)
    /\ rows' = IF run[p].at = "insert" THEN rows \o run[p].new ELSE rows
    /\ UNCHANGED <<version, receipts, sequence, doubtful>>

Crash(p) ==
    /\ run[p].at # "idle"
    /\ Moves(p, Idle)
    /\ doubtful' = IF run[p].at \in {"save", "put"} /\ run[p].status = "accepted"
                   THEN doubtful \cup {run[p].command.key} ELSE doubtful
    /\ UNCHANGED <<rows, version, receipts, sequence>>

Step(p) == \/ ReadVersion(p) \/ LockRow(p) \/ LockNone(p) \/ CreateRow(p)
           \/ InsertEvent(p) \/ Commit(p) \/ SelectReceipt(p) \/ PutReceipt(p)

Next == \E p \in Procs : Step(p) \/ Crash(p) \/ \E c \in Commands : Start(p, c)

Spec == Init /\ [][Next]_vars

\* A process that is not waiting for a row goes on, and a row that is let go again and
\* again is given to each process that waits for it.
FairSpec == Spec /\ \A p \in Procs : SF_vars(Step(p))

-----------------------------------------------------------------------------
(* Properties *)

L == INSTANCE StreamLog WITH
        Batches <- {c.batch : c \in Commands},
        history <- [i \in DOMAIN rows |->
                        [stream |-> rows[i].stream, version |-> rows[i].version,
                         payload |-> rows[i].payload]],
        len <- [s \in Streams |-> CurrentVersion(s)]

\* Whatever the processes do between each other's statements, and wherever they crash,
\* the committed events are the abstract log: streams that grow by whole batches, each
\* numbered on from the end of its stream.
ImplementsLog == L!Spec

\* Sequence numbers are drawn before the commit: an event may appear behind others that
\* readers have seen.  Never behind one of its own stream, and never twice.
LateOnlyAcrossStreams ==
    \A i, j \in DOMAIN rows : i < j =>
        /\ rows[i].sequence # rows[j].sequence
        /\ rows[i].stream = rows[j].stream => rows[i].sequence < rows[j].sequence

Committed(c) == {i \in DOMAIN rows : rows[i].key = c.key}

\* A command is not executed twice, unless it names no version and was retried while its
\* first execution went on or after a crash took the receipt of it.
ExecutedOnce ==
    \A c \in Commands : (c.expected # Nothing \/ c.key \notin doubtful) =>
        Cardinality(Committed(c)) <= Len(c.batch)

\* No process waits for ever: a transaction takes one stream's row and waits for nothing
\* once it holds it.
EventuallyOver == \A p \in Procs : run[p].at # "idle" ~> run[p].at = "idle"
=============================================================================
