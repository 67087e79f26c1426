---------------------------- MODULE PgStore_proofs ----------------------------
(* What holds of PgStore for any number of processes, streams and commands: the  *)
(* committed events are the abstract log, whatever crashes; events are late only *)
(* across streams; a command is executed once but for the retries it allows.     *)
EXTENDS PgStore, FiniteSetTheorems, SequenceTheorems, TLAPS

Row == [stream: Streams, version: Nat, payload: Payloads, sequence: Nat, key: Keys]

Reading   == [at: {"read"}, command: Commands, expected: {Nothing}]
Asking    == [at: {"lock"}, command: Commands, expected: Nat]
Creating  == [at: {"create"}, command: Commands, expected: {0}]
Inserting == [at: {"insert"}, command: Commands, base: Nat, new: Seq(Row)]
Answering == [at: {"save", "put"}, command: Commands, status: {"accepted", "conflict"}]
State     == {Idle} \cup Reading \cup Asking \cup Creating \cup Inserting \cup Answering

TypeOK ==
    /\ rows \in Seq(Row) /\ sequence \in Nat
    /\ version \in [Streams -> Nat \cup {Nothing}]
    /\ receipts \in [Keys -> {"accepted", "conflict", Nothing}]
    /\ run \in [Procs -> State]

-----------------------------------------------------------------------------
(* Typing *)

\* What commands are.
LEMMA CommandType ==
    ASSUME NEW c \in Commands
    PROVE  /\ c.key \in Keys /\ c.stream \in Streams /\ c.expected \in Nat \cup {Nothing}
           /\ c.batch \in Seq(Payloads) /\ Len(c.batch) \in Nat
           /\ \A i \in 1..Len(c.batch) : c.batch[i] \in Payloads
<1>1. c \in [key: Keys, stream: Streams, expected: Nat \cup {Nothing}, batch: Seq(Payloads) \ {<<>>}]
  BY PgAssumption
<1>. QED  BY <1>1, ElementOfSeq

\* What each place of a command's execution carries.
LEMMA StateForms ==
    ASSUME TypeOK, NEW p \in Procs
    PROVE  /\ run[p].at = "idle" => run[p] = Idle
           /\ run[p].at # "idle" => run[p].command \in Commands
           /\ run[p].at = "read" => run[p] \in Reading
           /\ run[p].at = "lock" => run[p] \in Asking
           /\ run[p].at = "create" => run[p] \in Creating
           /\ run[p].at = "insert" => run[p] \in Inserting
           /\ run[p].at \in {"save", "put"} => run[p] \in Answering
           /\ run[p].at \in {"idle", "read", "lock", "create", "insert", "save", "put"}
BY DEF TypeOK, State, Idle, Reading, Asking, Creating, Inserting, Answering

\* A step of p is nobody else's.
LEMMA MovesEffect ==
    ASSUME TypeOK, NEW p \in Procs, NEW r \in State, Moves(p, r)
    PROVE  run' \in [Procs -> State] /\ run'[p] = r /\ \A q \in Procs \ {p} : run'[q] = run[q]
BY DEF TypeOK, Moves

\* The numbers of what is committed and of what is about to be.
LEMMA RowTypes ==
    ASSUME TypeOK
    PROVE  /\ DOMAIN rows = 1..Len(rows) /\ Len(rows) \in Nat
           /\ \A i \in DOMAIN rows : rows[i] \in Row
           /\ \A i \in DOMAIN rows : /\ rows[i].sequence \in Nat /\ rows[i].version \in Nat
                                      /\ rows[i].stream \in Streams
           /\ \A q \in Procs : Holds(q) =>
                 /\ run[q].new \in Seq(Row) /\ run[q].base \in Nat
                 /\ DOMAIN run[q].new = 1..Len(run[q].new) /\ Len(run[q].new) \in Nat
                 /\ \A k \in DOMAIN run[q].new :
                       run[q].new[k].sequence \in Nat /\ run[q].new[k].version \in Nat
<1>1. rows \in Seq(Row)
  BY DEF TypeOK
<1>2. \A i \in DOMAIN rows : rows[i] \in Row
  <2>. HIDE DEF Row
  <2>. QED  BY <1>1, ElementOfSeq
<1>3. ASSUME NEW q \in Procs, Holds(q)
      PROVE  /\ run[q].new \in Seq(Row) /\ run[q].base \in Nat
             /\ DOMAIN run[q].new = 1..Len(run[q].new) /\ Len(run[q].new) \in Nat
             /\ \A k \in DOMAIN run[q].new :
                   run[q].new[k].sequence \in Nat /\ run[q].new[k].version \in Nat
  <2>1. run[q].new \in Seq(Row) /\ run[q].base \in Nat
    BY <1>3, StateForms DEF Holds, Inserting
  <2>2. DOMAIN run[q].new = 1..Len(run[q].new) /\ Len(run[q].new) \in Nat
    BY <2>1
  <2>3. \A k \in DOMAIN run[q].new : run[q].new[k] \in Row
    BY <2>1, <2>2, ElementOfSeq
  <2>. QED  BY <2>1, <2>2, <2>3 DEF Row
<1>4. \A i \in DOMAIN rows : /\ rows[i].sequence \in Nat /\ rows[i].version \in Nat
                             /\ rows[i].stream \in Streams
  BY <1>2 DEF Row
<1>5. DOMAIN rows = 1..Len(rows) /\ Len(rows) \in Nat
  <2>. HIDE DEF Row
  <2>. QED  BY <1>1
<1>. HIDE DEF Row
<1>. QED  BY <1>2, <1>3, <1>4, <1>5

\* A stream is at a number, with or without a row.
LEMMA VersionType ==
    ASSUME TypeOK, NEW s \in Streams
    PROVE  CurrentVersion(s) \in Nat
BY PgAssumption DEF TypeOK, CurrentVersion

-----------------------------------------------------------------------------
(* What steps do to the store *)

\* p gets the row of its stream, which nobody else holds.
Takes(p) ==
    /\ run[p].at \in {"lock", "create"}
    /\ run'[p] = Locked(p, CurrentVersion(Stream(p)))
    /\ run[p].expected = CurrentVersion(Stream(p))
    /\ Free(Stream(p), p)
    /\ UNCHANGED <<rows, version, sequence>>

\* p goes on, or back, without the row of its stream.
Waits(p) ==
    /\ run'[p].at # "insert"
    /\ UNCHANGED <<rows, version, sequence>>

Alone(p) == \A q \in Procs \ {p} : run'[q] = run[q]

\* Every step is one of four kinds, and leaves everything of its type.
LEMMA Kinds ==
    ASSUME TypeOK, NEW p \in Procs,
           Step(p) \/ Crash(p) \/ \E c \in Commands : Start(p, c)
    PROVE  TypeOK' /\ Alone(p) /\ (Takes(p) \/ Waits(p) \/ InsertEvent(p) \/ Commit(p))
<1>1. ASSUME NEW c \in Commands, Start(p, c)
      PROVE  TypeOK' /\ Alone(p) /\ Waits(p)
  <2>. DEFINE r == [at |-> IF c.expected = Nothing THEN "read" ELSE "lock", command |-> c,
                    expected |-> c.expected]
  <2>1. r \in Reading \cup Asking
    BY CommandType DEF Reading, Asking
  <2>2. Moves(p, r) /\ UNCHANGED <<rows, version, receipts, sequence>>
    BY <1>1 DEF Start
  <2>3. r \in State /\ r.at # "insert"
    BY <2>1 DEF State
  <2>. HIDE DEF r
  <2>. QED  BY <2>2, <2>3, MovesEffect DEF TypeOK, Alone, Waits
<1>2. CASE ReadVersion(p)
  <2>. DEFINE r == [run[p] EXCEPT !.at = "lock", !.expected = CurrentVersion(Stream(p))]
  <2>1. run[p] \in Reading /\ CurrentVersion(Stream(p)) \in Nat
    BY <1>2, StateForms, VersionType, CommandType DEF ReadVersion, Stream, Reading
  <2>2. r \in State /\ r.at # "insert"
    BY <2>1 DEF State, Reading, Asking
  <2>3. Moves(p, r) /\ UNCHANGED <<rows, version, receipts, sequence>>
    BY <1>2 DEF ReadVersion
  <2>. HIDE DEF r
  <2>. QED  BY <2>2, <2>3, MovesEffect DEF TypeOK, Alone, Waits
<1>3. CASE LockRow(p)
  <2>1. run[p] \in Asking /\ run[p].command \in Commands /\ Stream(p) \in Streams
    BY <1>3, StateForms, CommandType DEF LockRow, Stream
  <2>2. UNCHANGED <<rows, version, receipts, sequence>> /\ Free(Stream(p), p)
        /\ version[Stream(p)] # Nothing /\ run[p].at = "lock"
    BY <1>3 DEF LockRow
  <2>3. CASE version[Stream(p)] = run[p].expected
    <3>1. CurrentVersion(Stream(p)) = run[p].expected
      BY <2>2, <2>3 DEF CurrentVersion
    <3>2. Locked(p, run[p].expected) \in State
      BY <2>1 DEF Locked, State, Asking, Inserting
    <3>3. Moves(p, Locked(p, run[p].expected))
      BY <1>3, <2>3 DEF LockRow
    <3>. QED  BY <2>2, <3>1, <3>2, <3>3, MovesEffect DEF TypeOK, Alone, Takes
  <2>4. CASE version[Stream(p)] # run[p].expected
    <3>1. Answer(p, "conflict") \in State /\ Answer(p, "conflict").at # "insert"
      BY <2>1 DEF Answer, State, Answering
    <3>2. Moves(p, Answer(p, "conflict"))
      BY <1>3, <2>4 DEF LockRow
    <3>. QED  BY <2>2, <3>1, <3>2, MovesEffect DEF TypeOK, Alone, Waits
  <2>. QED  BY <2>3, <2>4
<1>4. CASE LockNone(p)
  <2>. DEFINE r == IF run[p].expected = 0 THEN [run[p] EXCEPT !.at = "create"]
                   ELSE Answer(p, "conflict")
  <2>1. run[p] \in Asking /\ run[p].command \in Commands
    BY <1>4, StateForms DEF LockNone
  <2>2. r \in State /\ r.at # "insert"
    BY <2>1 DEF State, Asking, Creating, Answering, Answer
  <2>3. Moves(p, r) /\ UNCHANGED <<rows, version, receipts, sequence>>
    BY <1>4 DEF LockNone
  <2>. HIDE DEF r
  <2>. QED  BY <2>2, <2>3, MovesEffect DEF TypeOK, Alone, Waits
<1>5. CASE CreateRow(p)
  <2>1. run[p] \in Creating /\ run[p].command \in Commands /\ Stream(p) \in Streams
    BY <1>5, StateForms, CommandType DEF CreateRow, Stream
  <2>2. UNCHANGED <<rows, version, receipts, sequence>> /\ Free(Stream(p), p)
    BY <1>5 DEF CreateRow
  <2>3. CASE version[Stream(p)] = Nothing
    <3>1. CurrentVersion(Stream(p)) = 0 /\ run[p].expected = 0 /\ run[p].at = "create"
      BY <2>1, <2>3 DEF CurrentVersion, Creating
    <3>2. Locked(p, 0) \in State
      BY <2>1 DEF Locked, State, Creating, Inserting
    <3>3. Moves(p, Locked(p, 0))
      BY <1>5, <2>3 DEF CreateRow
    <3>. QED  BY <2>2, <3>1, <3>2, <3>3, MovesEffect DEF TypeOK, Alone, Takes
  <2>4. CASE version[Stream(p)] # Nothing
    <3>1. Idle \in State /\ Idle.at # "insert"
      BY DEF Idle, State
    <3>2. Moves(p, Idle)
      BY <1>5, <2>4 DEF CreateRow
    <3>. QED  BY <2>2, <3>1, <3>2, MovesEffect DEF TypeOK, Alone, Waits
  <2>. QED  BY <2>3, <2>4
<1>6. CASE InsertEvent(p)
  <2>. DEFINE n == Len(run[p].new) + 1
              row == [stream |-> Stream(p), version |-> run[p].base + Len(run[p].new) + 1,
                      payload |-> run[p].command.batch[n],
                      sequence |-> sequence + 1, key |-> run[p].command.key]
              r == [run[p] EXCEPT !.new = Append(@, row)]
  <2>1. run[p] \in Inserting /\ run[p].command \in Commands /\ Stream(p) \in Streams
    BY <1>6, StateForms, CommandType DEF InsertEvent, Stream
  <2>2. run[p].new \in Seq(Row) /\ Len(run[p].new) \in Nat /\ run[p].base \in Nat
    BY <2>1 DEF Inserting
  <2>3. row \in Row /\ sequence' \in Nat
    <3>1. run[p].command.batch[n] \in Payloads
      BY <1>6, <2>1, <2>2, CommandType DEF InsertEvent
    <3>. QED  BY <1>6, <2>1, <2>2, <3>1, CommandType DEF Row, TypeOK, InsertEvent
  <2>4. Append(run[p].new, row) \in Seq(Row)
    <3>. HIDE DEF row
    <3>. QED  BY <2>2, <2>3
  <2>5. r \in State
    <3>. HIDE DEF row
    <3>. QED  BY <2>1, <2>4 DEF Inserting, State
  <2>6. Moves(p, r) /\ UNCHANGED <<rows, version, receipts>>
    BY <1>6 DEF InsertEvent
  <2>. HIDE DEF r
  <2>. QED  BY <1>6, <2>3, <2>5, <2>6, MovesEffect DEF TypeOK, Alone
<1>7. CASE Commit(p)
  <2>1. run[p] \in Inserting /\ run[p].command \in Commands /\ Stream(p) \in Streams
    BY <1>7, StateForms, CommandType DEF Commit, Stream
  <2>2. Answer(p, "accepted") \in State
    BY <2>1 DEF Answer, State, Answering
  <2>3. Moves(p, Answer(p, "accepted")) /\ UNCHANGED <<receipts, sequence>>
    BY <1>7 DEF Commit
  <2>4. rows' \in Seq(Row)
    BY <1>7, <2>1 DEF Commit, TypeOK, Inserting
  <2>5. version' \in [Streams -> Nat \cup {Nothing}]
    <3>1. run[p].base + Len(run[p].new) \in Nat
      BY <2>1 DEF Inserting
    <3>. QED  BY <1>7, <3>1 DEF Commit, TypeOK
  <2>. QED  BY <1>7, <2>2, <2>3, <2>4, <2>5, MovesEffect DEF TypeOK, Alone
<1>8. CASE SelectReceipt(p)
  <2>. DEFINE r == IF receipts[run[p].command.key] = Nothing THEN [run[p] EXCEPT !.at = "put"]
                   ELSE Idle
  <2>1. run[p] \in Answering
    BY <1>8, StateForms DEF SelectReceipt
  <2>2. r \in State /\ r.at # "insert"
    BY <2>1 DEF State, Answering, Idle
  <2>3. Moves(p, r) /\ UNCHANGED <<rows, version, receipts, sequence>>
    BY <1>8 DEF SelectReceipt
  <2>. HIDE DEF r
  <2>. QED  BY <2>2, <2>3, MovesEffect DEF TypeOK, Alone, Waits
<1>9. CASE PutReceipt(p)
  <2>1. run[p] \in Answering
    BY <1>9, StateForms DEF PutReceipt
  <2>2. receipts' \in [Keys -> {"accepted", "conflict", Nothing}]
    BY <1>9, <2>1 DEF PutReceipt, TypeOK, Answering
  <2>3. Moves(p, Idle) /\ UNCHANGED <<rows, version, sequence>>
    BY <1>9 DEF PutReceipt
  <2>4. Idle \in State /\ Idle.at # "insert"
    BY DEF Idle, State
  <2>. QED  BY <2>2, <2>3, <2>4, MovesEffect DEF TypeOK, Alone, Waits
<1>10. CASE Crash(p)
  <2>1. Moves(p, Idle) /\ UNCHANGED <<rows, version, receipts, sequence>>
    BY <1>10 DEF Crash
  <2>2. Idle \in State /\ Idle.at # "insert"
    BY DEF Idle, State
  <2>. QED  BY <2>1, <2>2, MovesEffect DEF TypeOK, Alone, Waits
<1>. QED
  BY <1>1, <1>2, <1>3, <1>4, <1>5, <1>6, <1>7, <1>8, <1>9, <1>10, Zenon DEF Step

-----------------------------------------------------------------------------
(* The invariant *)

\* The holder of a row has read its version, has numbered its events on from there, and
\* is the only one that holds it.
Held ==
    \A p \in Procs : Holds(p) =>
        /\ run[p].base = CurrentVersion(Stream(p))
        /\ Len(run[p].new) <= Len(run[p].command.batch)
        /\ \A k \in DOMAIN run[p].new :
              /\ run[p].new[k].stream = Stream(p)
              /\ run[p].new[k].version = run[p].base + k
              /\ run[p].new[k].payload = run[p].command.batch[k]
              /\ run[p].new[k].key = run[p].command.key
        /\ Free(Stream(p), p)

\* Numbers are drawn once, and by the holder of a row after those of the stream's events.
Sequenced ==
    /\ \A i \in DOMAIN rows : rows[i].sequence <= sequence
    /\ \A p \in Procs : Holds(p) =>
          /\ \A k \in DOMAIN run[p].new :
                /\ run[p].new[k].sequence <= sequence
                /\ \A i \in DOMAIN rows :
                      /\ rows[i].sequence # run[p].new[k].sequence
                      /\ rows[i].stream = Stream(p) =>
                            rows[i].sequence < run[p].new[k].sequence
                /\ \A l \in DOMAIN run[p].new : k < l =>
                      run[p].new[k].sequence < run[p].new[l].sequence
    /\ \A p, q \in Procs : (Holds(p) /\ Holds(q) /\ p # q) =>
          \A k \in DOMAIN run[p].new, l \in DOMAIN run[q].new :
              run[p].new[k].sequence # run[q].new[l].sequence

\* Within a stream, commit order is version order, up to the version of its row.
Numbered ==
    /\ \A i \in DOMAIN rows : rows[i].version <= CurrentVersion(rows[i].stream)
    /\ \A i, j \in DOMAIN rows :
          (i < j /\ rows[i].stream = rows[j].stream) => rows[i].version < rows[j].version

StoreInv == TypeOK /\ Held /\ Sequenced /\ Numbered /\ LateOnlyAcrossStreams

\* What InsertEvent adds to the transaction.
LEMMA InsertEffect ==
    ASSUME TypeOK, NEW p \in Procs, InsertEvent(p)
    PROVE  LET old == run[p].new
               new == run'[p].new
           IN  /\ Holds(p) /\ Holds(p)' /\ Stream(p)' = Stream(p) /\ Alone(p)
               /\ run'[p].command = run[p].command /\ run'[p].base = run[p].base
               /\ Len(old) \in Nat /\ Len(new) = Len(old) + 1
               /\ Len(old) < Len(run[p].command.batch)
               /\ DOMAIN old = 1..Len(old) /\ DOMAIN new = 1..(Len(old) + 1)
               /\ \A k \in 1..Len(old) : new[k] = old[k]
               /\ new[Len(old) + 1].stream = Stream(p)
               /\ new[Len(old) + 1].version = run[p].base + Len(old) + 1
               /\ new[Len(old) + 1].payload = run[p].command.batch[Len(old) + 1]
               /\ new[Len(old) + 1].sequence = sequence + 1
               /\ new[Len(old) + 1].key = run[p].command.key
               /\ sequence' = sequence + 1 /\ rows' = rows /\ version' = version
               /\ sequence \in Nat /\ run[p].base \in Nat
<1>. DEFINE n == Len(run[p].new) + 1
            row == [stream |-> Stream(p), version |-> run[p].base + Len(run[p].new) + 1,
                    payload |-> run[p].command.batch[n],
                    sequence |-> sequence + 1, key |-> run[p].command.key]
<1>1. run[p] \in Inserting
  BY StateForms DEF InsertEvent
<1>2. run[p].new \in Seq(Row) /\ run[p].base \in Nat /\ run[p].at = "insert"
  BY <1>1 DEF Inserting
<1>3. run' = [run EXCEPT ![p] = [run[p] EXCEPT !.new = Append(@, row)]]
  BY DEF InsertEvent, Moves
<1>4. UNCHANGED <<rows, version>> /\ sequence' = sequence + 1 /\ sequence \in Nat
      /\ Len(run[p].new) < Len(run[p].command.batch)
  BY DEF InsertEvent, TypeOK
<1>8. /\ row.stream = Stream(p) /\ row.version = run[p].base + Len(run[p].new) + 1
      /\ row.payload = run[p].command.batch[Len(run[p].new) + 1]
      /\ row.sequence = sequence + 1 /\ row.key = run[p].command.key
  OBVIOUS
<1>. HIDE DEF row
<1>5. /\ run'[p] = [run[p] EXCEPT !.new = Append(@, row)]
      /\ \A q \in Procs \ {p} : run'[q] = run[q]
  BY <1>3 DEF TypeOK
<1>6. /\ run'[p].new = Append(run[p].new, row) /\ run'[p].at = "insert"
      /\ run'[p].command = run[p].command /\ run'[p].base = run[p].base
  BY <1>1, <1>5 DEF Inserting
<1>7. /\ Len(run'[p].new) = Len(run[p].new) + 1
      /\ DOMAIN run[p].new = 1..Len(run[p].new) /\ DOMAIN run'[p].new = 1..(Len(run[p].new) + 1)
      /\ \A k \in 1..Len(run[p].new) : run'[p].new[k] = run[p].new[k]
      /\ run'[p].new[Len(run[p].new) + 1] = row
      /\ Len(run[p].new) \in Nat
  <2>1. PICK s \in Seq(Row) : s = run[p].new
    BY <1>2
  <2>2. /\ Len(Append(s, row)) = Len(s) + 1 /\ Len(s) \in Nat
        /\ DOMAIN s = 1..Len(s) /\ DOMAIN Append(s, row) = 1..(Len(s) + 1)
        /\ \A k \in 1..Len(s) : Append(s, row)[k] = s[k]
        /\ Append(s, row)[Len(s) + 1] = row
    BY <2>1
  <2>. QED  BY <1>6, <2>1, <2>2
<1>9. Holds(p) /\ Holds(p)' /\ Stream(p)' = Stream(p) /\ Alone(p)
  BY <1>2, <1>5, <1>6 DEF Holds, Stream, Alone
<1>. QED  BY <1>2, <1>4, <1>6, <1>7, <1>8, <1>9

\* What Commit adds to the store.
LEMMA CommitEffect ==
    ASSUME StoreInv, NEW p \in Procs, Commit(p)
    PROVE  LET new == run[p].new
               m == Len(rows)
           IN  /\ Holds(p) /\ ~Holds(p)' /\ Alone(p) /\ Stream(p) \in Streams
               /\ m \in Nat /\ DOMAIN rows = 1..m
               /\ DOMAIN new = 1..Len(new) /\ Len(new) = Len(run[p].command.batch)
               /\ Len(new) \in Nat
               /\ DOMAIN rows' = 1..(m + Len(new))
               /\ \A i \in 1..m : rows'[i] = rows[i]
               /\ \A i \in (m + 1)..(m + Len(new)) : rows'[i] = new[i - m] /\ i - m \in DOMAIN new
               /\ \A s \in Streams : CurrentVersion(s)' =
                     IF s = Stream(p) THEN CurrentVersion(s) + Len(new) ELSE CurrentVersion(s)
               /\ sequence' = sequence /\ sequence \in Nat
<1>1. run[p] \in Inserting /\ Stream(p) \in Streams /\ TypeOK
  BY StateForms, CommandType DEF Commit, Stream, StoreInv
<1>2. run[p].new \in Seq(Row) /\ run[p].base \in Nat /\ Holds(p)
      /\ run[p].base = CurrentVersion(Stream(p))
  BY <1>1 DEF Inserting, Holds, StoreInv, Held
<1>3. rows \in Seq(Row) /\ rows' = rows \o run[p].new
  BY <1>1 DEF TypeOK, Commit
<1>4. run'[p] = Answer(p, "accepted") /\ Alone(p) /\ sequence' = sequence /\ sequence \in Nat
  BY <1>1 DEF Commit, Moves, TypeOK, Alone
<1>5. ~Holds(p)'
  BY <1>4 DEF Holds, Answer
<1>6. /\ version' = [version EXCEPT ![Stream(p)] = run[p].base + Len(run[p].new)]
      /\ Len(run[p].new) = Len(run[p].command.batch)
  BY DEF Commit
<1>7. /\ version'[Stream(p)] = run[p].base + Len(run[p].new)
      /\ \A s \in Streams \ {Stream(p)} : version'[s] = version[s]
  BY <1>1, <1>6 DEF TypeOK
<1>8. run[p].base + Len(run[p].new) # Nothing
  BY <1>2, PgAssumption
<1>9. \A s \in Streams : CurrentVersion(s)' =
         IF s = Stream(p) THEN CurrentVersion(s) + Len(run[p].new) ELSE CurrentVersion(s)
  BY <1>2, <1>7, <1>8 DEF CurrentVersion
<1>10. /\ Len(rows) \in Nat /\ DOMAIN rows = 1..Len(rows)
       /\ DOMAIN run[p].new = 1..Len(run[p].new) /\ Len(run[p].new) \in Nat
       /\ DOMAIN rows' = 1..(Len(rows) + Len(run[p].new))
       /\ \A i \in 1..Len(rows) : rows'[i] = rows[i]
       /\ \A i \in (Len(rows) + 1)..(Len(rows) + Len(run[p].new)) :
             rows'[i] = run[p].new[i - Len(rows)] /\ i - Len(rows) \in DOMAIN run[p].new
  BY <1>2, <1>3
<1>. QED  BY <1>1, <1>2, <1>4, <1>5, <1>6, <1>9, <1>10

\* A process that gets its row starts from the stream's version, with nothing drawn yet.
LEMMA TakesKeeps ==
    ASSUME StoreInv, TypeOK', NEW p \in Procs, Takes(p), Alone(p)
    PROVE  StoreInv'
<1>. DEFINE s == Stream(p)
<1>1. /\ UNCHANGED <<rows, version, sequence>> /\ Free(Stream(p), p)
      /\ run'[p] = Locked(p, CurrentVersion(Stream(p)))
  BY DEF Takes
<1>2. /\ run'[p].command = run[p].command /\ run'[p].base = CurrentVersion(Stream(p))
      /\ run'[p].new = <<>> /\ run'[p].at = "insert"
  BY <1>1 DEF Locked
<1>3. \A q \in Procs \ {p} : run'[q] = run[q]
  BY DEF Alone
<1>4. \A t \in Streams : CurrentVersion(t)' = CurrentVersion(t)
  BY <1>1 DEF CurrentVersion
<1>5. Stream(p)' = Stream(p) /\ Stream(p) \in Streams /\ Len(run[p].command.batch) \in Nat
      /\ \A q \in Procs \ {p} : Stream(q)' = Stream(q) /\ Holds(q)' = Holds(q)
  <2>1. run[p].command \in Commands
    BY StateForms DEF StoreInv, Takes
  <2>. QED  BY <1>2, <1>3, <2>1, CommandType DEF Stream, Holds
<1>6. Held'
  <2>1. ASSUME NEW q \in Procs, Holds(q)', q # p
        PROVE  /\ run'[q].base = CurrentVersion(Stream(q))' /\ Free(Stream(q), q)'
               /\ Len(run'[q].new) <= Len(run'[q].command.batch)
               /\ \A k \in DOMAIN run'[q].new :
                     /\ run'[q].new[k].stream = Stream(q)'
                     /\ run'[q].new[k].version = run'[q].base + k
                     /\ run'[q].new[k].payload = run'[q].command.batch[k]
                     /\ run'[q].new[k].key = run'[q].command.key
    <3>1. Holds(q) /\ run'[q] = run[q] /\ Stream(q)' = Stream(q)
      BY <1>3, <1>5, <2>1
    <3>2. Stream(q) # Stream(p)
      BY <1>1, <2>1, <3>1 DEF Free
    <3>3. Free(Stream(q), q)'
      BY <1>5, <3>1, <3>2 DEF StoreInv, Held, Free
    <3>4. CurrentVersion(Stream(q))' = CurrentVersion(Stream(q))
      BY <1>1, <3>1 DEF CurrentVersion
    <3>. QED  BY <3>1, <3>3, <3>4 DEF StoreInv, Held
  <2>2. /\ run'[p].base = CurrentVersion(Stream(p))' /\ Free(Stream(p), p)'
        /\ Len(run'[p].new) <= Len(run'[p].command.batch) /\ DOMAIN run'[p].new = {}
    <3>1. CurrentVersion(Stream(p))' = CurrentVersion(Stream(p))
      BY <1>1, <1>5 DEF CurrentVersion
    <3>2. Free(Stream(p), p)'
      BY <1>1, <1>5 DEF Free
    <3>. QED  BY <1>2, <1>5, <3>1, <3>2
  <2>. QED  BY <2>1, <2>2 DEF Held
<1>7. Sequenced'
  <2>1. DOMAIN run'[p].new = {}
    BY <1>2
  <2>. QED  BY <1>1, <1>3, <1>5, <2>1 DEF StoreInv, Sequenced
<1>8. Numbered' /\ LateOnlyAcrossStreams'
  BY <1>1 DEF StoreInv, Numbered, LateOnlyAcrossStreams, CurrentVersion
<1>. QED  BY <1>6, <1>7, <1>8 DEF StoreInv

\* A process that does not hold its row after a step changed nothing of the store.
LEMMA WaitsKeeps ==
    ASSUME StoreInv, TypeOK', NEW p \in Procs, Waits(p), Alone(p)
    PROVE  StoreInv'
<1>1. UNCHANGED <<rows, version, sequence>> /\ ~Holds(p)'
  BY DEF Waits, Holds
<1>2. \A q \in Procs \ {p} : run'[q] = run[q] /\ Stream(q)' = Stream(q) /\ Holds(q)' = Holds(q)
  BY DEF Alone, Stream, Holds
<1>3. Held'
  <2>. SUFFICES ASSUME NEW q \in Procs \ {p}, Holds(q)
                PROVE  /\ run'[q].base = CurrentVersion(Stream(q))' /\ Free(Stream(q), q)'
                       /\ Len(run'[q].new) <= Len(run'[q].command.batch)
                       /\ \A k \in DOMAIN run'[q].new :
                             /\ run'[q].new[k].stream = Stream(q)'
                             /\ run'[q].new[k].version = run'[q].base + k
                             /\ run'[q].new[k].payload = run'[q].command.batch[k]
                             /\ run'[q].new[k].key = run'[q].command.key
    BY <1>1, <1>2 DEF Held
  <2>1. Free(Stream(q), q)'
    BY <1>1, <1>2 DEF StoreInv, Held, Free
  <2>2. CurrentVersion(Stream(q))' = CurrentVersion(Stream(q))
    BY <1>1, <1>2 DEF CurrentVersion
  <2>. QED  BY <1>2, <2>1, <2>2 DEF StoreInv, Held
<1>4. Sequenced'
  BY <1>1, <1>2 DEF StoreInv, Sequenced
<1>5. Numbered' /\ LateOnlyAcrossStreams'
  BY <1>1 DEF StoreInv, Numbered, LateOnlyAcrossStreams, CurrentVersion
<1>. QED  BY <1>3, <1>4, <1>5 DEF StoreInv

\* One more event in p's transaction: numbered on, and drawn after everything else.
LEMMA InsertKeeps ==
    ASSUME StoreInv, TypeOK', NEW p \in Procs, InsertEvent(p)
    PROVE  StoreInv'
<1>. DEFINE n == Len(run[p].new)
<1>1. /\ Holds(p) /\ Holds(p)' /\ Stream(p)' = Stream(p)
      /\ run'[p].command = run[p].command /\ run'[p].base = run[p].base
      /\ n \in Nat /\ DOMAIN run[p].new = 1..n /\ DOMAIN run'[p].new = 1..(n + 1)
      /\ Len(run'[p].new) = n + 1 /\ n < Len(run[p].command.batch)
      /\ \A k \in 1..n : run'[p].new[k] = run[p].new[k]
      /\ sequence' = sequence + 1 /\ rows' = rows /\ version' = version
      /\ sequence \in Nat /\ run[p].base \in Nat
  BY InsertEffect DEF StoreInv
<1>. HIDE DEF n
<1>2. /\ run'[p].new[n + 1].stream = Stream(p) /\ run'[p].new[n + 1].version = run[p].base + n + 1
      /\ run'[p].new[n + 1].payload = run[p].command.batch[n + 1]
      /\ run'[p].new[n + 1].key = run[p].command.key
      /\ run'[p].new[n + 1].sequence = sequence + 1
  BY InsertEffect DEF StoreInv, n
<1>3. \A q \in Procs \ {p} : run'[q] = run[q] /\ Stream(q)' = Stream(q) /\ Holds(q)' = Holds(q)
  BY InsertEffect DEF StoreInv, Alone, Stream, Holds
<1>4. \A i \in DOMAIN rows : rows[i].sequence \in Nat
  BY RowTypes DEF StoreInv
<1>5. ASSUME NEW q \in Procs, Holds(q), NEW k \in DOMAIN run[q].new
      PROVE  run[q].new[k].sequence \in Nat
  BY <1>5, RowTypes DEF StoreInv
<1>9. \A k \in DOMAIN run'[p].new : k \in 1..n \/ k = n + 1
  <2>1. n \in Nat /\ DOMAIN run'[p].new = 1..(n + 1)
    BY <1>1
  <2>. QED  BY <2>1
<1>10. \A k \in 1..n : /\ run'[p].new[k] = run[p].new[k] /\ k \in DOMAIN run[p].new
                        /\ k \in DOMAIN run'[p].new
  BY <1>1
<1>6. Held'
  <2>1. \A q \in Procs : Holds(q)' => Free(Stream(q), q)'
    BY <1>1, <1>3 DEF StoreInv, Held, Free
  <2>2. \A q \in Procs : Holds(q)' => run'[q].base = CurrentVersion(Stream(q))'
    BY <1>1, <1>3 DEF StoreInv, Held, CurrentVersion
  <2>3. ASSUME NEW k \in DOMAIN run'[p].new
        PROVE  /\ run'[p].new[k].stream = Stream(p)'
               /\ run'[p].new[k].version = run'[p].base + k
               /\ run'[p].new[k].payload = run'[p].command.batch[k]
               /\ run'[p].new[k].key = run'[p].command.key
    <3>1. CASE k \in 1..n
      <4>1. /\ run[p].new[k].stream = Stream(p)
            /\ run[p].new[k].version = run[p].base + k
            /\ run[p].new[k].payload = run[p].command.batch[k]
            /\ run[p].new[k].key = run[p].command.key
        BY <1>1, <1>10, <3>1 DEF StoreInv, Held
      <4>. QED  BY <1>1, <1>10, <3>1, <4>1
    <3>2. CASE k = n + 1
      <4>1. run[p].base + n + 1 = run'[p].base + k
        <5>1. n \in Nat /\ run[p].base \in Nat /\ run'[p].base = run[p].base
          BY <1>1
        <5>2. run[p].base + n + 1 = run[p].base + (n + 1)
          BY <5>1
        <5>. QED  BY <3>2, <5>1, <5>2
      <4>2. /\ run'[p].new[k] = run'[p].new[n + 1]
            /\ run'[p].command.batch[k] = run[p].command.batch[n + 1]
            /\ run'[p].command.key = run[p].command.key /\ Stream(p)' = Stream(p)
        BY <1>1, <3>2
      <4>. QED  BY <1>2, <4>1, <4>2
    <3>. QED  BY <1>9, <3>1, <3>2
  <2>4. Len(run'[p].new) <= Len(run'[p].command.batch)
    <3>1. Len(run[p].command.batch) \in Nat
      BY <1>1, StateForms, CommandType DEF StoreInv, Holds
    <3>. QED  BY <1>1, <3>1
  <2>5. ASSUME NEW q \in Procs \ {p}, Holds(q)'
        PROVE  /\ Len(run'[q].new) <= Len(run'[q].command.batch)
               /\ \A k \in DOMAIN run'[q].new :
                     /\ run'[q].new[k].stream = Stream(q)'
                     /\ run'[q].new[k].version = run'[q].base + k
                     /\ run'[q].new[k].payload = run'[q].command.batch[k]
                     /\ run'[q].new[k].key = run'[q].command.key
    BY <1>3, <2>5 DEF StoreInv, Held
  <2>. QED  BY <2>1, <2>2, <2>3, <2>4, <2>5 DEF Held
<1>7. Sequenced'
  <2>1. \A i \in DOMAIN rows : rows[i].sequence <= sequence
    BY DEF StoreInv, Sequenced
  <2>2. \A q \in Procs : Holds(q) =>
           \A k \in DOMAIN run[q].new : run[q].new[k].sequence <= sequence
    BY DEF StoreInv, Sequenced
  <2>3. \A i \in DOMAIN rows' : rows'[i].sequence <= sequence'
    BY <1>1, <1>4, <2>1
  <2>4. ASSUME NEW q \in Procs, Holds(q)', NEW k \in DOMAIN run'[q].new
        PROVE  /\ run'[q].new[k].sequence <= sequence'
               /\ \A i \in DOMAIN rows' :
                     /\ rows'[i].sequence # run'[q].new[k].sequence
                     /\ rows'[i].stream = Stream(q)' =>
                           rows'[i].sequence < run'[q].new[k].sequence
               /\ \A l \in DOMAIN run'[q].new : k < l =>
                     run'[q].new[k].sequence < run'[q].new[l].sequence
    <3>1. CASE q # p
      BY <1>1, <1>3, <1>5, <2>2, <2>4, <3>1 DEF StoreInv, Sequenced
    <3>2. CASE q = p /\ k = n + 1
      BY <1>1, <1>2, <1>4, <2>1, <3>2
    <3>3. CASE q = p /\ k \in 1..n
      <4>1. run'[p].new[k] = run[p].new[k] /\ k \in DOMAIN run[p].new
            /\ run[p].new[k].sequence \in Nat /\ run[p].new[k].sequence <= sequence
        BY <1>1, <1>5, <2>2, <3>3
      <4>2. \A l \in DOMAIN run'[p].new : k < l =>
               run'[p].new[k].sequence < run'[p].new[l].sequence
        <5>1. \A l \in 1..n : k < l => run'[p].new[k].sequence < run'[p].new[l].sequence
          BY <1>1, <1>10, <3>3, <4>1 DEF StoreInv, Sequenced
        <5>2. run'[p].new[k].sequence < run'[p].new[n + 1].sequence
          BY <1>1, <1>2, <4>1
        <5>. QED  BY <1>9, <5>1, <5>2
      <4>3. \A i \in DOMAIN rows' :
               /\ rows'[i].sequence # run'[p].new[k].sequence
               /\ rows'[i].stream = Stream(p)' => rows'[i].sequence < run'[p].new[k].sequence
        <5>1. \A i \in DOMAIN rows :
                 /\ rows[i].sequence # run[p].new[k].sequence
                 /\ rows[i].stream = Stream(p) => rows[i].sequence < run[p].new[k].sequence
          BY <1>1, <4>1 DEF StoreInv, Sequenced
        <5>. QED  BY <1>1, <4>1, <5>1
      <4>4. run'[p].new[k].sequence <= sequence'
        BY <1>1, <4>1
      <4>. QED  BY <3>3, <4>2, <4>3, <4>4
    <3>. QED  BY <1>9, <2>4, <3>1, <3>2, <3>3
  <2>5. ASSUME NEW q \in Procs \ {p}, Holds(q)',
               NEW k \in DOMAIN run'[p].new, NEW l \in DOMAIN run'[q].new
        PROVE  run'[p].new[k].sequence # run'[q].new[l].sequence
    <3>1. run'[q].new[l] = run[q].new[l] /\ Holds(q) /\ l \in DOMAIN run[q].new
      BY <1>3, <2>5
    <3>2. CASE k = n + 1
      BY <1>1, <1>2, <1>5, <2>2, <3>1, <3>2
    <3>3. CASE k \in 1..n
      BY <1>1, <3>1, <3>3 DEF StoreInv, Sequenced
    <3>. QED  BY <1>9, <3>2, <3>3
  <2>6. ASSUME NEW q \in Procs, NEW r \in Procs, Holds(q)', Holds(r)', q # r,
               NEW k \in DOMAIN run'[q].new, NEW l \in DOMAIN run'[r].new
        PROVE  run'[q].new[k].sequence # run'[r].new[l].sequence
    <3>1. CASE q # p /\ r # p
      BY <1>3, <2>6, <3>1 DEF StoreInv, Sequenced
    <3>. QED  BY <2>5, <2>6, <3>1
  <2>. QED  BY <2>3, <2>4, <2>6 DEF Sequenced
<1>8. Numbered' /\ LateOnlyAcrossStreams'
  BY <1>1 DEF StoreInv, Numbered, LateOnlyAcrossStreams, CurrentVersion
<1>. QED  BY <1>6, <1>7, <1>8 DEF StoreInv

\* A commit puts the transaction's events behind all others, in version order of their
\* stream and, there, in sequence order.
LEMMA CommitKeeps ==
    ASSUME StoreInv, TypeOK', NEW p \in Procs, Commit(p)
    PROVE  StoreInv'
<1>. DEFINE m == Len(rows)
            new == run[p].new
<1>1. /\ Holds(p) /\ ~Holds(p)' /\ Alone(p) /\ Stream(p) \in Streams
      /\ m \in Nat /\ DOMAIN rows = 1..m /\ DOMAIN new = 1..Len(new) /\ Len(new) \in Nat
      /\ DOMAIN rows' = 1..(m + Len(new))
      /\ \A i \in 1..m : rows'[i] = rows[i]
      /\ \A i \in (m + 1)..(m + Len(new)) : rows'[i] = new[i - m] /\ i - m \in DOMAIN new
      /\ \A s \in Streams : CurrentVersion(s)' =
            IF s = Stream(p) THEN CurrentVersion(s) + Len(new) ELSE CurrentVersion(s)
      /\ sequence' = sequence /\ sequence \in Nat
  BY CommitEffect
<1>2. \A q \in Procs \ {p} : run'[q] = run[q] /\ Stream(q)' = Stream(q) /\ Holds(q)' = Holds(q)
  BY <1>1 DEF Alone, Stream, Holds
<1>3. \A i \in DOMAIN rows : /\ rows[i].sequence \in Nat /\ rows[i].version \in Nat
                             /\ rows[i].stream \in Streams
  BY RowTypes DEF StoreInv
<1>4. \A k \in DOMAIN new : /\ new[k].sequence \in Nat /\ new[k].version \in Nat
                            /\ new[k].stream = Stream(p)
                            /\ new[k].version = CurrentVersion(Stream(p)) + k
  BY <1>1, RowTypes DEF StoreInv, Held
<1>5. \A s \in Streams : CurrentVersion(s) \in Nat
  BY VersionType DEF StoreInv
<1>. HIDE DEF new, m
<1>6. Held'
  <2>. SUFFICES ASSUME NEW q \in Procs \ {p}, Holds(q)
                PROVE  /\ run'[q].base = CurrentVersion(Stream(q))' /\ Free(Stream(q), q)'
                       /\ Len(run'[q].new) <= Len(run'[q].command.batch)
                       /\ \A k \in DOMAIN run'[q].new :
                             /\ run'[q].new[k].stream = Stream(q)'
                             /\ run'[q].new[k].version = run'[q].base + k
                             /\ run'[q].new[k].payload = run'[q].command.batch[k]
                             /\ run'[q].new[k].key = run'[q].command.key
    BY <1>1, <1>2 DEF Held
  <2>1. Stream(q) # Stream(p) /\ Stream(q) \in Streams
    <3>1. Free(Stream(p), p)
      BY <1>1 DEF StoreInv, Held
    <3>2. run[q].command \in Commands
      BY StateForms DEF StoreInv, Holds
    <3>. QED  BY <3>1, <3>2, CommandType DEF Free, Stream
  <2>2. Free(Stream(q), q)'
    BY <1>1, <1>2 DEF StoreInv, Held, Free
  <2>3. CurrentVersion(Stream(q))' = CurrentVersion(Stream(q))
    <3>1. \A s \in Streams \ {Stream(p)} : CurrentVersion(s)' = CurrentVersion(s)
      BY <1>1
    <3>. QED  BY <1>2, <2>1, <3>1 DEF CurrentVersion
  <2>. QED  BY <1>2, <2>2, <2>3 DEF StoreInv, Held
<1>7. Sequenced'
  <2>1. ASSUME NEW i \in DOMAIN rows' PROVE rows'[i].sequence <= sequence'
    <3>1. CASE i \in 1..m
      BY <1>1, <3>1 DEF StoreInv, Sequenced
    <3>2. CASE i \in (m + 1)..(m + Len(new))
      BY <1>1, <3>2 DEF StoreInv, Sequenced, new
    <3>. QED  BY <1>1, <3>1, <3>2
  <2>2. ASSUME NEW q \in Procs, Holds(q)', NEW k \in DOMAIN run'[q].new
        PROVE  /\ run'[q].new[k].sequence <= sequence'
               /\ \A i \in DOMAIN rows' :
                     /\ rows'[i].sequence # run'[q].new[k].sequence
                     /\ rows'[i].stream = Stream(q)' =>
                           rows'[i].sequence < run'[q].new[k].sequence
               /\ \A l \in DOMAIN run'[q].new : k < l =>
                     run'[q].new[k].sequence < run'[q].new[l].sequence
    <3>1. q # p /\ Holds(q) /\ run'[q] = run[q] /\ Stream(q)' = Stream(q)
      BY <1>1, <1>2, <2>2
    <3>2. Stream(q) # Stream(p)
      BY <1>1, <3>1 DEF StoreInv, Held, Free
    <3>3. ASSUME NEW i \in (m + 1)..(m + Len(new))
          PROVE  /\ rows'[i].sequence # run'[q].new[k].sequence
                 /\ rows'[i].stream # Stream(q)'
      <4>1. rows'[i] = new[i - m] /\ i - m \in DOMAIN new
        BY <1>1
      <4>2. new[i - m].sequence # run[q].new[k].sequence
        BY <1>1, <2>2, <3>1, <4>1 DEF StoreInv, Sequenced, new
      <4>. QED  BY <1>4, <3>1, <3>2, <4>1, <4>2
    <3>4. ASSUME NEW i \in 1..m
          PROVE  /\ rows'[i].sequence # run'[q].new[k].sequence
                 /\ rows'[i].stream = Stream(q)' => rows'[i].sequence < run'[q].new[k].sequence
      BY <1>1, <2>2, <3>1 DEF StoreInv, Sequenced
    <3>5. \A i \in DOMAIN rows' : i \in 1..m \/ i \in (m + 1)..(m + Len(new))
      BY <1>1
    <3>6. /\ run'[q].new[k].sequence <= sequence'
          /\ \A l \in DOMAIN run'[q].new : k < l =>
                run'[q].new[k].sequence < run'[q].new[l].sequence
      BY <1>1, <2>2, <3>1 DEF StoreInv, Sequenced
    <3>. QED  BY <3>3, <3>4, <3>5, <3>6
  <2>3. ASSUME NEW q \in Procs, NEW r \in Procs, Holds(q)', Holds(r)', q # r,
               NEW k \in DOMAIN run'[q].new, NEW l \in DOMAIN run'[r].new
        PROVE  run'[q].new[k].sequence # run'[r].new[l].sequence
    BY <1>1, <1>2, <2>3 DEF StoreInv, Sequenced
  <2>. QED  BY <2>1, <2>2, <2>3 DEF Sequenced
<1>8. Numbered'
  <2>1. ASSUME NEW i \in DOMAIN rows'
        PROVE  rows'[i].version <= CurrentVersion(rows[i].stream)'
    <3>1. CASE i \in 1..m
      <4>1. rows'[i] = rows[i] /\ rows[i].stream \in Streams /\ rows[i].version \in Nat
            /\ rows[i].version <= CurrentVersion(rows[i].stream)
        BY <1>1, <1>3, <3>1 DEF StoreInv, Numbered
      <4>2. CurrentVersion(rows[i].stream) \in Nat
        BY <1>5, <4>1
      <4>3. \A s \in Streams : s = rows[i].stream => rows[i].version <= CurrentVersion(s)'
        BY <1>1, <1>5, <4>1
      <4>. QED  BY <4>1, <4>3 DEF CurrentVersion
    <3>2. CASE i \in (m + 1)..(m + Len(new))
      <4>1. rows'[i] = new[i - m] /\ i - m \in 1..Len(new)
        BY <1>1, <3>2
      <4>2. rows'[i].stream = Stream(p) /\ rows'[i].version = CurrentVersion(Stream(p)) + (i - m)
        BY <1>1, <1>4, <4>1
      <4>3. \A s \in Streams : s = Stream(p) => rows'[i].version <= CurrentVersion(s)'
        BY <1>1, <1>5, <4>1, <4>2
      <4>. QED  BY <1>1, <4>2, <4>3 DEF CurrentVersion
    <3>. QED  BY <1>1, <3>1, <3>2
  <2>2. ASSUME NEW i \in DOMAIN rows', NEW j \in DOMAIN rows', i < j,
               rows'[i].stream = rows'[j].stream
        PROVE  rows'[i].version < rows'[j].version
    <3>1. CASE j \in 1..m
      BY <1>1, <2>2, <3>1 DEF StoreInv, Numbered
    <3>2. CASE i \in 1..m /\ j \in (m + 1)..(m + Len(new))
      <4>1. rows'[j] = new[j - m] /\ j - m \in 1..Len(new)
        BY <1>1, <3>2
      <4>2. rows'[j].stream = Stream(p) /\ rows'[j].version = CurrentVersion(Stream(p)) + (j - m)
        BY <1>1, <1>4, <4>1
      <4>3. rows'[i] = rows[i] /\ rows[i].version <= CurrentVersion(Stream(p))
        BY <1>1, <2>2, <3>2, <4>2 DEF StoreInv, Numbered
      <4>. QED  BY <1>1, <1>3, <1>5, <3>2, <4>1, <4>2, <4>3
    <3>3. CASE i \in (m + 1)..(m + Len(new)) /\ j \in (m + 1)..(m + Len(new))
      <4>1. /\ rows'[i] = new[i - m] /\ i - m \in DOMAIN new
            /\ rows'[j] = new[j - m] /\ j - m \in DOMAIN new /\ i - m < j - m
            /\ i - m \in Nat /\ j - m \in Nat
        BY <1>1, <2>2, <3>3
      <4>2. CurrentVersion(Stream(p)) \in Nat
        BY <1>1, <1>5
      <4>3. /\ rows'[i].version = CurrentVersion(Stream(p)) + (i - m)
            /\ rows'[j].version = CurrentVersion(Stream(p)) + (j - m)
        BY <1>4, <4>1
      <4>. QED  BY <4>1, <4>2, <4>3
    <3>. QED  BY <1>1, <2>2, <3>1, <3>2, <3>3
  <2>. QED  BY <2>1, <2>2 DEF Numbered
<1>9. LateOnlyAcrossStreams'
  <2>. SUFFICES ASSUME NEW i \in DOMAIN rows', NEW j \in DOMAIN rows', i < j
                PROVE  /\ rows'[i].sequence # rows'[j].sequence
                       /\ rows'[i].stream = rows'[j].stream =>
                             rows'[i].sequence < rows'[j].sequence
    BY DEF LateOnlyAcrossStreams
  <2>1. CASE j \in 1..m
    BY <1>1, <2>1 DEF StoreInv, LateOnlyAcrossStreams
  <2>2. CASE i \in 1..m /\ j \in (m + 1)..(m + Len(new))
    <3>1. rows'[j] = new[j - m] /\ j - m \in DOMAIN new /\ rows'[i] = rows[i] /\ i \in DOMAIN rows
      BY <1>1, <2>2
    <3>. QED  BY <1>1, <1>4, <3>1 DEF StoreInv, Sequenced, new
  <2>3. CASE i \in (m + 1)..(m + Len(new)) /\ j \in (m + 1)..(m + Len(new))
    <3>1. /\ rows'[i] = new[i - m] /\ i - m \in DOMAIN new
          /\ rows'[j] = new[j - m] /\ j - m \in DOMAIN new /\ i - m < j - m
      BY <1>1, <2>3
    <3>2. new[i - m].sequence < new[j - m].sequence
      BY <1>1, <3>1 DEF StoreInv, Sequenced, new
    <3>. QED  BY <1>4, <3>1, <3>2
  <2>. QED  BY <1>1, <2>1, <2>2, <2>3
<1>. QED  BY <1>6, <1>7, <1>8, <1>9 DEF StoreInv

-----------------------------------------------------------------------------
(* The invariant holds *)

\* The empty tables.
LEMMA InitStore == Init => StoreInv
<1>. SUFFICES ASSUME Init PROVE StoreInv
  OBVIOUS
<1>1. rows = <<>> /\ DOMAIN rows = {} /\ sequence = 0
  BY DEF Init
<1>2. \A p \in Procs : run[p] = Idle /\ ~Holds(p)
  BY DEF Init, Idle, Holds
<1>3. TypeOK
  BY <1>1, <1>2 DEF Init, TypeOK, State
<1>. QED  BY <1>1, <1>2, <1>3
         DEF StoreInv, Held, Sequenced, Numbered, LateOnlyAcrossStreams

\* Every step keeps it.
LEMMA NextStore == StoreInv /\ [Next]_vars => StoreInv'
<1>. SUFFICES ASSUME StoreInv, [Next]_vars PROVE StoreInv'
  OBVIOUS
<1>1. ASSUME NEW p \in Procs, Step(p) \/ Crash(p) \/ \E c \in Commands : Start(p, c)
      PROVE  StoreInv'
  <2>1. TypeOK' /\ Alone(p) /\ (Takes(p) \/ Waits(p) \/ InsertEvent(p) \/ Commit(p))
    BY <1>1, Kinds DEF StoreInv
  <2>2. CASE Takes(p)
    BY <2>1, <2>2, TakesKeeps
  <2>3. CASE Waits(p)
    BY <2>1, <2>3, WaitsKeeps
  <2>4. CASE InsertEvent(p)
    BY <2>1, <2>4, InsertKeeps
  <2>5. CASE Commit(p)
    BY <2>1, <2>5, CommitKeeps
  <2>. QED  BY <2>1, <2>2, <2>3, <2>4, <2>5
<1>2. CASE UNCHANGED vars
  BY <1>2 DEF vars, StoreInv, TypeOK, Held, Sequenced, Numbered, LateOnlyAcrossStreams,
              Holds, Stream, Free, CurrentVersion
<1>. QED  BY <1>1, <1>2, Zenon DEF Next

\* The tables and the open transactions stay related as StoreInv says.
THEOREM StoreInvariant == Spec => []StoreInv
BY InitStore, NextStore, PTL DEF Spec

\* Type correctness of the tables and of the processes.
THEOREM TypeCorrect == Spec => []TypeOK
<1>1. StoreInv => TypeOK
  BY DEF StoreInv
<1>. QED  BY <1>1, StoreInvariant, PTL

\* Sequence numbers are never used twice, and within a stream they follow the order of
\* the commits, though they are drawn before them.
THEOREM LateIsAcross == Spec => []LateOnlyAcrossStreams
<1>1. StoreInv => LateOnlyAcrossStreams
  BY DEF StoreInv
<1>. QED  BY <1>1, StoreInvariant, PTL

-----------------------------------------------------------------------------
(* The committed events are the abstract log *)

LogEntry == [stream: Streams, version: Nat, payload: Payloads]

\* The concatenation of two sequences, by their elements.
LEMMA Concatenated ==
    ASSUME NEW a \in Seq(LogEntry), NEW b \in Seq(LogEntry), NEW c \in Seq(LogEntry),
           Len(c) = Len(a) + Len(b),
           \A i \in 1..Len(a) : c[i] = a[i],
           \A i \in 1..Len(b) : c[Len(a) + i] = b[i]
    PROVE  c = a \o b
<1>1. a \o b \in Seq(LogEntry) /\ Len(a \o b) = Len(c)
  OBVIOUS
<1>2. ASSUME NEW n \in 1..Len(c) PROVE c[n] = (a \o b)[n]
  <2>1. CASE n \in 1..Len(a)
    BY <2>1
  <2>2. CASE n \notin 1..Len(a)
    <3>1. n - Len(a) \in 1..Len(b) /\ n = Len(a) + (n - Len(a))
      BY <2>2
    <3>2. c[n] = b[n - Len(a)]
      BY <3>1
    <3>. QED  BY <2>2, <3>1, <3>2
  <2>. QED  BY <2>1, <2>2
<1>. QED  BY <1>1, <1>2, SeqEqual

\* The empty tables are the empty log.
LEMMA InitMaps == Init => L!Init
BY DEF Init, L!Init, CurrentVersion

\* A database commit is a commit of the log.
LEMMA CommitMaps ==
    ASSUME StoreInv, NEW p \in Procs, Commit(p), TypeOK',
           NEW s, NEW batch, s = Stream(p), batch = run[p].command.batch
    PROVE  L!Commit(s, batch)
<1>. DEFINE m == Len(rows)
            n == Len(run[p].new)
            h == [i \in DOMAIN rows |-> [stream  |-> rows[i].stream,
                                         version |-> rows[i].version,
                                         payload |-> rows[i].payload]]
            new == [i \in 1..Len(batch) |-> [stream  |-> s,
                                             version |-> CurrentVersion(s) + i,
                                             payload |-> batch[i]]]
<1>1. /\ Holds(p) /\ s \in Streams /\ m \in Nat /\ n \in Nat /\ n = Len(batch)
      /\ DOMAIN rows = 1..m /\ DOMAIN run[p].new = 1..n /\ DOMAIN rows' = 1..(m + n)
      /\ \A i \in 1..m : rows'[i] = rows[i]
      /\ \A i \in (m + 1)..(m + n) : rows'[i] = run[p].new[i - m]
      /\ \A t \in Streams : CurrentVersion(t)' =
            IF t = s THEN CurrentVersion(t) + n ELSE CurrentVersion(t)
  BY CommitEffect
<1>2. run[p].command \in Commands /\ CurrentVersion(s) \in Nat
  BY <1>1, StateForms, VersionType DEF StoreInv, Holds
<1>3. /\ \A i \in 1..m : rows[i] \in Row
      /\ \A i \in 1..(m + n) : rows'[i] \in Row
  <2>1. \A i \in 1..m : rows[i] \in Row
    BY <1>1, RowTypes DEF StoreInv
  <2>2. rows' \in Seq(Row)
    BY DEF TypeOK
  <2>3. \A i \in 1..(m + n) : rows'[i] \in Row
    <3>. HIDE DEF Row
    <3>. QED  BY <1>1, <2>2, ElementOfSeq
  <2>. QED  BY <2>1, <2>3
<1>4. \A i \in 1..n : batch[i] \in Payloads
  BY <1>1, <1>2, CommandType
<1>5. \A i \in 1..n : /\ run[p].new[i].stream = s
                      /\ run[p].new[i].version = CurrentVersion(s) + i
                      /\ run[p].new[i].payload = batch[i]
  BY <1>1 DEF StoreInv, Held
<1>6. \A i \in 1..n : rows'[m + i] = run[p].new[i] /\ m + i \in DOMAIN rows'
  <2>. SUFFICES ASSUME NEW i \in 1..n
                PROVE  rows'[m + i] = run[p].new[i] /\ m + i \in DOMAIN rows'
    OBVIOUS
  <2>1. m + i \in (m + 1)..(m + n) /\ (m + i) - m = i /\ m + i \in 1..(m + n)
    BY <1>1
  <2>. QED  BY <1>1, <2>1
<1>7. h \in Seq(LogEntry) /\ Len(h) = m
  BY <1>1, <1>3 DEF Row, LogEntry
<1>8. new \in Seq(LogEntry) /\ Len(new) = n
  BY <1>1, <1>2, <1>4 DEF LogEntry
<1>9. h' \in Seq(LogEntry) /\ Len(h') = m + n
  BY <1>1, <1>3 DEF Row, LogEntry
<1>10. ASSUME NEW i \in 1..m PROVE h'[i] = h[i]
  <2>1. i \in DOMAIN rows /\ i \in DOMAIN rows'
    BY <1>1
  <2>. QED  BY <1>1, <2>1
<1>11. ASSUME NEW i \in 1..n PROVE h'[m + i] = new[i]
  BY <1>1, <1>5, <1>6
<1>12. h' = h \o new
  <2>. DEFINE g == h'
  <2>. HIDE DEF h, new, g, m, n
  <2>1. \A i \in 1..Len(h) : g[i] = h[i]
    BY <1>7, <1>10 DEF g
  <2>2. \A i \in 1..Len(new) : g[Len(h) + i] = new[i]
    BY <1>7, <1>8, <1>11 DEF g
  <2>3. g \in Seq(LogEntry) /\ Len(g) = Len(h) + Len(new)
    BY <1>7, <1>8, <1>9 DEF g
  <2>4. g = h \o new
    BY <1>7, <1>8, <2>1, <2>2, <2>3, Concatenated
  <2>. QED  BY <2>4 DEF g
<1>. QED  BY <1>1, <1>2, <1>12 DEF L!Commit

\* Whatever the processes do and wherever they crash, the database moves as the log
\* does: by one batch at the end of its stream, or not at all.
THEOREM Implements == Spec => ImplementsLog
<1>1. Init => L!Init
  BY InitMaps
<1>2. StoreInv /\ [Next]_vars => [L!Next]_(L!vars)
  <2>. SUFFICES ASSUME StoreInv, [Next]_vars PROVE [L!Next]_(L!vars)
    OBVIOUS
  <2>1. CASE UNCHANGED <<rows, version>>
    BY <2>1 DEF L!vars, CurrentVersion
  <2>2. ASSUME NEW p \in Procs, Step(p) \/ Crash(p) \/ \E c \in Commands : Start(p, c)
        PROVE  L!Next \/ UNCHANGED <<rows, version>>
    <3>1. TypeOK' /\ Alone(p) /\ (Takes(p) \/ Waits(p) \/ InsertEvent(p) \/ Commit(p))
      BY <2>2, Kinds DEF StoreInv
    <3>2. CASE Commit(p)
      <4>1. run[p].command \in Commands
        BY <3>2, StateForms DEF StoreInv, Commit
      <4>2. Stream(p) \in Streams /\ run[p].command.batch \in {c.batch : c \in Commands}
        BY <4>1, CommandType DEF Stream
      <4>3. PICK s \in Streams, batch \in {c.batch : c \in Commands} :
                s = Stream(p) /\ batch = run[p].command.batch
        BY <4>2
      <4>4. L!Commit(s, batch)
        BY <3>1, <3>2, <4>3, CommitMaps
      <4>. QED  BY <4>3, <4>4 DEF L!Next
    <3>. QED  BY <3>1, <3>2 DEF Takes, Waits, InsertEvent
  <2>3. CASE UNCHANGED vars
    BY <2>1, <2>3 DEF vars
  <2>4. CASE Next
    <3>1. PICK p \in Procs : Step(p) \/ Crash(p) \/ \E c \in Commands : Start(p, c)
      BY <2>4, Zenon DEF Next
    <3>. QED  BY <2>1, <2>2, <3>1
  <2>. QED  BY <2>3, <2>4
<1>. QED  BY <1>1, <1>2, StoreInvariant, PTL DEF Spec, ImplementsLog, L!Spec

-----------------------------------------------------------------------------
(* A command is executed once *)

Early == {"read", "lock", "create", "insert"}
Accepted(p) == run[p].at \in {"save", "put"} /\ run[p].status = "accepted"

\* Two processes at one command are on record.
NotTwice == \A p, q \in Procs, c \in Commands :
                p # q /\ Executes(p, c) /\ Executes(q, c) => c.key \in doubtful

\* As long as its key is not doubtful, what a command committed is one batch, on its way
\* to a receipt or with one, and nobody is about to commit it again.
Sole(c) ==
    /\ Committed(c) # {} => receipts[c.key] # Nothing \/ \E p \in Procs : Executes(p, c) /\ Accepted(p)
    /\ \A p \in Procs : Executes(p, c) /\ run[p].at \in Early => Committed(c) = {}
    /\ \E b \in Nat : Committed(c) \subseteq (b + 1)..(b + Len(c.batch))

\* A command that names its version keeps it to the insert ...
Named(p) ==
    /\ run[p].at = "read" => run[p].command.expected = Nothing
    /\ run[p].at \in {"lock", "create"} /\ run[p].command.expected # Nothing =>
           run[p].expected = run[p].command.expected
    /\ run[p].at = "insert" /\ run[p].command.expected # Nothing =>
           run[p].base = run[p].command.expected

\* ... so that all it ever commits has the same few places in its stream.
Placed ==
    \A i \in DOMAIN rows, c \in Commands : rows[i].key = c.key /\ c.expected # Nothing =>
        /\ rows[i].stream = c.stream
        /\ rows[i].version \in (c.expected + 1)..(c.expected + Len(c.batch))

OnceInv == /\ NotTwice
           /\ \A c \in Commands : c.key \notin doubtful => Sole(c)
           /\ \A p \in Procs : Named(p)
           /\ Placed

\* What a step does to the execution of p's command.
GoesOn(p) ==
    /\ UNCHANGED <<rows, receipts, doubtful>>
    /\ run[p].at # "idle" /\ run'[p].at # "idle" /\ run'[p].command = run[p].command
    /\ run'[p].at \in Early => run[p].at \in Early
    /\ run[p].at \in {"save", "put"} => run'[p].at \in {"save", "put"} /\ run'[p].status = run[p].status
Ends(p) ==
    /\ UNCHANGED rows /\ run'[p] = Idle /\ run[p].at # "idle"
    /\ \A k \in Keys : receipts[k] # Nothing => receipts'[k] # Nothing
    /\ doubtful \subseteq doubtful'
    /\ Accepted(p) => receipts'[run[p].command.key] # Nothing \/ run[p].command.key \in doubtful'

\* Every step begins an execution, takes it on, ends it or commits it.
LEMMA Phases ==
    ASSUME TypeOK, NEW p \in Procs, Step(p) \/ Crash(p) \/ \E c \in Commands : Start(p, c)
    PROVE  \/ \E c \in Commands : Start(p, c)
           \/ GoesOn(p) /\ (Named(p) => Named(p)')
           \/ Ends(p) \/ Commit(p)
<1>. USE DEF Early, Accepted
<1>1. \A r : Moves(p, r) => run'[p] = r
  BY DEF TypeOK, Moves
<1>2. CASE ReadVersion(p)
  <2>1. run[p] \in Reading
    BY <1>2, StateForms DEF ReadVersion
  <2>2. run'[p] = [run[p] EXCEPT !.at = "lock", !.expected = CurrentVersion(Stream(p))]
    BY <1>1, <1>2 DEF ReadVersion
  <2>3. run'[p].at = "lock" /\ run'[p].command = run[p].command /\ run[p].at = "read"
    BY <2>1, <2>2 DEF Reading
  <2>. QED  BY <1>2, <2>3 DEF ReadVersion, GoesOn, Named
<1>3. CASE LockRow(p)
  <2>1. run[p] \in Asking
    BY <1>3, StateForms DEF LockRow
  <2>2. run'[p] = Locked(p, run[p].expected) \/ run'[p] = Answer(p, "conflict")
    BY <1>1, <1>3 DEF LockRow
  <2>. QED  BY <1>3, <2>1, <2>2 DEF LockRow, GoesOn, Named, Locked, Answer, Asking
<1>4. CASE LockNone(p)
  <2>1. run[p] \in Asking
    BY <1>4, StateForms DEF LockNone
  <2>2. run'[p] = [run[p] EXCEPT !.at = "create"] \/ run'[p] = Answer(p, "conflict")
    BY <1>1, <1>4 DEF LockNone
  <2>. QED  BY <1>4, <2>1, <2>2 DEF LockNone, GoesOn, Named, Answer, Asking
<1>5. CASE CreateRow(p)
  <2>1. run[p] \in Creating
    BY <1>5, StateForms DEF CreateRow
  <2>2. CASE run'[p] = Locked(p, 0)
    BY <1>5, <2>1, <2>2 DEF CreateRow, GoesOn, Named, Locked, Creating
  <2>3. CASE run'[p] = Idle
    BY <1>5, <2>1, <2>3 DEF CreateRow, Ends, Creating
  <2>4. run'[p] = Locked(p, 0) \/ run'[p] = Idle
    BY <1>1, <1>5 DEF CreateRow
  <2>. QED  BY <2>2, <2>3, <2>4
<1>6. CASE InsertEvent(p)
  <2>1. run'[p].command = run[p].command /\ run'[p].base = run[p].base /\ Holds(p) /\ Holds(p)'
    BY <1>6, InsertEffect
  <2>. QED  BY <1>6, <2>1 DEF InsertEvent, GoesOn, Named, Holds
<1>7. CASE SelectReceipt(p)
  <2>1. run[p] \in Answering /\ run[p].at = "save"
    BY <1>7, StateForms DEF SelectReceipt
  <2>2. CASE receipts[run[p].command.key] = Nothing
    <3>1. run'[p] = [run[p] EXCEPT !.at = "put"]
      BY <1>1, <1>7, <2>2 DEF SelectReceipt
    <3>2. run'[p].at = "put" /\ run'[p].command = run[p].command /\ run'[p].status = run[p].status
      BY <2>1, <3>1 DEF Answering
    <3>. QED  BY <1>7, <2>1, <3>2 DEF SelectReceipt, GoesOn, Named
  <2>3. CASE receipts[run[p].command.key] # Nothing
    <3>1. run'[p] = Idle
      BY <1>1, <1>7, <2>3 DEF SelectReceipt
    <3>. QED  BY <1>7, <2>1, <2>3, <3>1 DEF SelectReceipt, Ends
  <2>. QED  BY <2>2, <2>3
<1>8. CASE PutReceipt(p)
  <2>1. run[p] \in Answering /\ run[p].at = "put" /\ run[p].command \in Commands
    BY <1>8, StateForms DEF PutReceipt
  <2>2. run'[p] = Idle
    BY <1>1, <1>8 DEF PutReceipt
  <2>3. run[p].command.key \in Keys /\ run[p].status # Nothing
    BY <2>1, CommandType, PgAssumption DEF Answering
  <2>4. /\ \A k \in Keys : receipts[k] # Nothing => receipts'[k] # Nothing
        /\ receipts'[run[p].command.key] # Nothing
    BY <1>8, <2>3 DEF PutReceipt, TypeOK
  <2>. QED  BY <1>8, <2>1, <2>2, <2>4 DEF PutReceipt, Ends
<1>9. CASE Crash(p)
  <2>1. run'[p] = Idle
    BY <1>1, <1>9 DEF Crash
  <2>. QED  BY <1>9, <2>1 DEF Crash, Ends
<1>. QED
  BY <1>2, <1>3, <1>4, <1>5, <1>6, <1>7, <1>8, <1>9, Zenon DEF Step

\* As long as p's execution is what changes, nobody else's does.
LEMMA ExecutesAlone ==
    ASSUME NEW p \in Procs, Alone(p)
    PROVE  \A q \in Procs \ {p} : /\ \A c : Executes(q, c)' <=> Executes(q, c)
                                  /\ Accepted(q)' <=> Accepted(q)
                                  /\ Named(q) => Named(q)'
                                  /\ run'[q] = run[q]
BY DEF Alone, Executes, Accepted, Named

LEMMA StartKeepsOnce ==
    ASSUME TypeOK, OnceInv, NEW p \in Procs, NEW c \in Commands, Start(p, c), Alone(p)
    PROVE  OnceInv'
<1>1. /\ run'[p] = [at |-> IF c.expected = Nothing THEN "read" ELSE "lock", command |-> c,
                    expected |-> c.expected]
      /\ run[p].at = "idle" /\ receipts[c.key] = Nothing /\ UNCHANGED <<rows, receipts>>
      /\ doubtful' = IF \E q \in Procs \ {p} : Executes(q, c) THEN doubtful \cup {c.key} ELSE doubtful
  BY DEF Start, Moves, TypeOK
<1>2. /\ run'[p].command = c /\ run'[p].expected = c.expected /\ run'[p].at \in {"read", "lock"}
      /\ run'[p].at = "read" => c.expected = Nothing
  BY <1>1
<1>3. \A d : Executes(p, d)' <=> d = c
  BY <1>2 DEF Executes
<1>4. ~Accepted(p) /\ ~Accepted(p)' /\ \A d : ~Executes(p, d)
  BY <1>1, <1>2 DEF Accepted, Executes
<1>5. Named(p)'
  BY <1>2 DEF Named
<1>6. NotTwice'
  <2>. SUFFICES ASSUME NEW q \in Procs, NEW r \in Procs, NEW d \in Commands,
                       q # r, Executes(q, d)', Executes(r, d)'
                PROVE  d.key \in doubtful'
    BY DEF NotTwice
  <2>1. CASE q # p /\ r # p
    BY <1>1, <2>1, ExecutesAlone DEF OnceInv, NotTwice
  <2>2. CASE q = p \/ r = p
    <3>1. d = c /\ \E t \in Procs \ {p} : Executes(t, c)
      BY <1>3, <2>2, ExecutesAlone
    <3>. QED  BY <1>1, <3>1
  <2>. QED  BY <2>1, <2>2
<1>7. ASSUME NEW d \in Commands, d.key \notin doubtful' PROVE Sole(d)'
  <2>1. d.key \notin doubtful /\ Sole(d)
    BY <1>1, <1>7 DEF OnceInv
  <2>2. Committed(d)' = Committed(d)
    BY <1>1 DEF Committed
  <2>3. ASSUME Committed(d) # {}
        PROVE  receipts'[d.key] # Nothing \/ \E q \in Procs : Executes(q, d)' /\ Accepted(q)'
    BY <1>1, <1>4, <2>1, <2>3, ExecutesAlone DEF Sole
  <2>4. ASSUME NEW q \in Procs, Executes(q, d)', run'[q].at \in Early
        PROVE  Committed(d) = {}
    <3>1. CASE q # p
      BY <2>1, <2>4, <3>1, ExecutesAlone DEF Sole
    <3>2. CASE q = p
      <4>1. d = c /\ receipts[d.key] = Nothing
        BY <1>1, <1>3, <2>4, <3>2
      <4>2. ~\E t \in Procs : Executes(t, c)
        BY <1>1, <1>4, <1>7, <4>1
      <4>. QED  BY <2>1, <4>1, <4>2 DEF Sole
    <3>. QED  BY <3>1, <3>2
  <2>. QED  BY <2>1, <2>2, <2>3, <2>4 DEF Sole
<1>8. \A q \in Procs : Named(q)'
  BY <1>5, ExecutesAlone DEF OnceInv
<1>9. Placed'
  BY <1>1 DEF OnceInv, Placed
<1>. QED  BY <1>6, <1>7, <1>8, <1>9 DEF OnceInv

LEMMA GoesOnKeepsOnce ==
    ASSUME TypeOK, OnceInv, NEW p \in Procs, GoesOn(p), Named(p)', Alone(p)
    PROVE  OnceInv'
<1>1. /\ UNCHANGED <<rows, receipts, doubtful>>
      /\ \A d : Executes(p, d)' <=> Executes(p, d)
      /\ Accepted(p) => Accepted(p)'
      /\ run'[p].at \in Early => run[p].at \in Early
  BY DEF GoesOn, Executes, Accepted
<1>2. \A q \in Procs : /\ \A d : Executes(q, d)' <=> Executes(q, d)
                       /\ Accepted(q) => Accepted(q)'
                       /\ run'[q].at \in Early => run[q].at \in Early
  BY <1>1, ExecutesAlone
<1>3. NotTwice'
  BY <1>1, <1>2 DEF OnceInv, NotTwice
<1>4. ASSUME NEW d \in Commands, d.key \notin doubtful' PROVE Sole(d)'
  <2>1. Sole(d) /\ Committed(d)' = Committed(d)
    BY <1>1, <1>4 DEF OnceInv, Committed
  <2>. QED  BY <1>1, <1>2, <2>1 DEF Sole
<1>5. \A q \in Procs : Named(q)'
  BY ExecutesAlone DEF OnceInv
<1>6. Placed'
  BY <1>1 DEF OnceInv, Placed
<1>. QED  BY <1>3, <1>4, <1>5, <1>6 DEF OnceInv

LEMMA EndsKeepsOnce ==
    ASSUME TypeOK, OnceInv, NEW p \in Procs, Ends(p), Alone(p)
    PROVE  OnceInv'
<1>1. /\ UNCHANGED rows /\ doubtful \subseteq doubtful'
      /\ \A k \in Keys : receipts[k] # Nothing => receipts'[k] # Nothing
      /\ Accepted(p) => receipts'[run[p].command.key] # Nothing \/ run[p].command.key \in doubtful'
      /\ run'[p].at = "idle"
  BY DEF Ends, Idle
<1>2. Named(p)' /\ \A d : ~Executes(p, d)'
  BY <1>1 DEF Named, Executes
<1>3. NotTwice'
  BY <1>1, <1>2, ExecutesAlone DEF OnceInv, NotTwice
<1>4. ASSUME NEW d \in Commands, d.key \notin doubtful' PROVE Sole(d)'
  <2>1. Sole(d) /\ Committed(d)' = Committed(d) /\ d.key \in Keys
    BY <1>1, <1>4, CommandType DEF OnceInv, Committed
  <2>2. ASSUME Committed(d) # {}
        PROVE  receipts'[d.key] # Nothing \/ \E q \in Procs : Executes(q, d)' /\ Accepted(q)'
    <3>1. CASE receipts[d.key] # Nothing
      BY <1>1, <2>1, <3>1
    <3>2. CASE \E q \in Procs : Executes(q, d) /\ Accepted(q)
      <4>1. PICK q \in Procs : Executes(q, d) /\ Accepted(q)
        BY <3>2
      <4>2. CASE q = p
        BY <1>1, <1>4, <4>1, <4>2 DEF Executes
      <4>3. CASE q # p
        BY <4>1, <4>3, ExecutesAlone
      <4>. QED  BY <4>2, <4>3
    <3>. QED  BY <2>1, <2>2, <3>1, <3>2 DEF Sole
  <2>3. ASSUME NEW q \in Procs, Executes(q, d)', run'[q].at \in Early
        PROVE  Committed(d) = {}
    BY <1>2, <2>1, <2>3, ExecutesAlone DEF Sole
  <2>. QED  BY <2>1, <2>2, <2>3 DEF Sole
<1>5. \A q \in Procs : Named(q)'
  BY <1>2, ExecutesAlone DEF OnceInv
<1>6. Placed'
  BY <1>1 DEF OnceInv, Placed
<1>. QED  BY <1>3, <1>4, <1>5, <1>6 DEF OnceInv

\* A commit adds its command's batch and nothing of any other.
LEMMA CommitKeepsOnce ==
    ASSUME StoreInv, OnceInv, NEW p \in Procs, Commit(p), Alone(p)
    PROVE  OnceInv'
<1>1. PICK m \in Nat : m = Len(rows)
  BY CommitEffect
<1>2. PICK n \in Nat : n = Len(run[p].new)
  BY CommitEffect
<1>3. PICK c \in Commands : c = run[p].command
  BY StateForms DEF StoreInv, Commit
<1>4. /\ Holds(p) /\ DOMAIN rows = 1..m /\ DOMAIN rows' = 1..(m + n)
      /\ DOMAIN run[p].new = 1..n /\ n = Len(c.batch)
      /\ \A i \in 1..m : rows'[i] = rows[i]
      /\ \A i \in (m + 1)..(m + n) : rows'[i] = run[p].new[i - m] /\ i - m \in 1..n
  BY <1>1, <1>2, <1>3, CommitEffect
<1>5. /\ run[p].base \in Nat
      /\ \A k \in 1..n : /\ run[p].new[k].stream = c.stream
                         /\ run[p].new[k].version = run[p].base + k
                         /\ run[p].new[k].key = c.key
  BY <1>3, <1>4, RowTypes DEF StoreInv, Held, Stream
<1>6. /\ run'[p] = Answer(p, "accepted") /\ UNCHANGED <<receipts, doubtful>> /\ run[p].at = "insert"
  BY DEF Commit, Moves, StoreInv, TypeOK
<1>7. /\ \A d : Executes(p, d)' <=> d = c
      /\ \A d : Executes(p, d) <=> d = c
      /\ Accepted(p)' /\ ~Accepted(p) /\ run'[p].at \notin Early /\ run[p].at \in Early
      /\ Named(p)'
  BY <1>3, <1>6 DEF Answer, Executes, Accepted, Named, Early
<1>8. \A i \in 1..(m + n) : i \in 1..m \/ i \in (m + 1)..(m + n)
  OBVIOUS
<1>9. NotTwice'
  <2>1. \A q \in Procs : \A d : Executes(q, d)' <=> Executes(q, d)
    BY <1>7, ExecutesAlone
  <2>. QED  BY <1>6, <2>1 DEF OnceInv, NotTwice
<1>10. Placed'
  <2>. SUFFICES ASSUME NEW i \in DOMAIN rows', NEW d \in Commands,
                       rows'[i].key = d.key, d.expected # Nothing
                PROVE  /\ rows'[i].stream = d.stream
                       /\ rows'[i].version \in (d.expected + 1)..(d.expected + Len(d.batch))
    BY DEF Placed
  <2>1. CASE i \in 1..m
    BY <1>4, <2>1 DEF OnceInv, Placed
  <2>2. CASE i \in (m + 1)..(m + n)
    <3>1. PICK k \in 1..n : rows'[i] = run[p].new[k]
      BY <1>4, <2>2
    <3>2. d = c
      BY <1>5, <3>1, PgAssumption
    <3>3. run[p].base = c.expected
      BY <1>3, <1>6, <3>2 DEF OnceInv, Named
    <3>4. rows'[i].stream = d.stream /\ rows'[i].version = d.expected + k
      BY <1>5, <3>1, <3>2, <3>3
    <3>5. n = Len(d.batch) /\ d.expected \in Nat
      BY <1>4, <1>5, <3>2, <3>3
    <3>. QED  BY <3>4, <3>5
  <2>. QED  BY <1>4, <1>8, <2>1, <2>2
<1>11. ASSUME NEW d \in Commands, d.key \notin doubtful' PROVE Sole(d)'
  <2>1. Sole(d)
    BY <1>6, <1>11 DEF OnceInv
  <2>2. CASE d # c
    <3>1. \A i \in (m + 1)..(m + n) : rows'[i].key # d.key
      <4>1. c.key # d.key
        BY <2>2, PgAssumption
      <4>2. ASSUME NEW i \in (m + 1)..(m + n) PROVE rows'[i].key = c.key
        <5>1. PICK k \in 1..n : rows'[i] = run[p].new[k]
          BY <1>4
        <5>. QED  BY <1>5, <5>1
      <4>. QED  BY <4>1, <4>2
    <3>2. \A i \in 1..m : i \in 1..(m + n)
      OBVIOUS
    <3>3. Committed(d)' = Committed(d)
      BY <1>4, <1>8, <3>1, <3>2 DEF Committed
    <3>4. ASSUME Committed(d) # {}
          PROVE  receipts'[d.key] # Nothing \/ \E q \in Procs : Executes(q, d)' /\ Accepted(q)'
      BY <1>6, <1>7, <2>1, <2>2, <3>4, ExecutesAlone DEF Sole
    <3>5. ASSUME NEW q \in Procs, Executes(q, d)', run'[q].at \in Early
          PROVE  Committed(d) = {}
      BY <1>7, <2>1, <2>2, <3>5, ExecutesAlone DEF Sole
    <3>. QED  BY <2>1, <3>3, <3>4, <3>5 DEF Sole
  <2>3. CASE d = c
    <3>1. Committed(d) = {}
      BY <1>7, <2>1, <2>3 DEF Sole
    <3>2. \A i \in 1..m : rows'[i].key # d.key
      BY <1>4, <3>1 DEF Committed
    <3>3. Committed(d)' \subseteq (m + 1)..(m + Len(d.batch))
      BY <1>4, <1>8, <2>3, <3>2 DEF Committed
    <3>4. \A q \in Procs \ {p} : ~Executes(q, d)'
      BY <1>6, <1>7, <1>11, <2>3, ExecutesAlone DEF OnceInv, NotTwice
    <3>. QED  BY <1>7, <2>3, <3>3, <3>4 DEF Sole
  <2>. QED  BY <2>2, <2>3
<1>12. \A q \in Procs : Named(q)'
  BY <1>7, ExecutesAlone DEF OnceInv
<1>. QED  BY <1>9, <1>10, <1>11, <1>12 DEF OnceInv

LEMMA InitOnce == Init => OnceInv
<1>. SUFFICES ASSUME Init PROVE OnceInv
  OBVIOUS
<1>1. rows = <<>> /\ \A p \in Procs : run[p].at = "idle"
  BY DEF Init, Idle
<1>2. \A c \in Commands : Committed(c) = {}
  BY <1>1 DEF Committed
<1>. QED  BY <1>1, <1>2 DEF OnceInv, NotTwice, Sole, Named, Placed, Executes, Early

LEMMA NextOnce == StoreInv /\ OnceInv /\ [Next]_vars => OnceInv'
<1>. SUFFICES ASSUME StoreInv, OnceInv, [Next]_vars PROVE OnceInv'
  OBVIOUS
<1>1. ASSUME NEW p \in Procs, Step(p) \/ Crash(p) \/ \E c \in Commands : Start(p, c)
      PROVE  OnceInv'
  <2>1. TypeOK /\ Alone(p) /\ Named(p)
    BY <1>1, Kinds DEF StoreInv, OnceInv
  <2>. QED  BY <1>1, <2>1, Phases, StartKeepsOnce, GoesOnKeepsOnce, EndsKeepsOnce, CommitKeepsOnce
<1>2. CASE UNCHANGED vars
  BY <1>2 DEF vars, OnceInv, NotTwice, Sole, Named, Placed, Executes, Accepted, Committed
<1>. QED  BY <1>1, <1>2, Zenon DEF Next

LEMMA IntervalSize ==
    ASSUME NEW b \in Nat, NEW n \in Nat
    PROVE  IsFiniteSet((b + 1)..(b + n)) /\ Cardinality((b + 1)..(b + n)) = n
<1>1. PICK u \in Int, v \in Int : u = b + 1 /\ v = b + n
  OBVIOUS
<1>2. IsFiniteSet(u..v) /\ Cardinality(u..v) = IF u > v THEN 0 ELSE v - u + 1
  BY FS_Interval
<1>3. (IF u > v THEN 0 ELSE v - u + 1) = n
  BY <1>1
<1>. QED  BY <1>1, <1>2, <1>3

\* A command's events fill at most its batch.
LEMMA OneBatch ==
    ASSUME StoreInv, OnceInv, NEW c \in Commands, c.expected # Nothing \/ c.key \notin doubtful
    PROVE  Cardinality(Committed(c)) <= Len(c.batch)
<1>1. Len(c.batch) \in Nat /\ c.expected \in Nat \cup {Nothing}
  BY CommandType
<1>2. CASE c.key \notin doubtful
  <2>1. PICK b \in Nat : Committed(c) \subseteq (b + 1)..(b + Len(c.batch))
    BY <1>2 DEF OnceInv, Sole
  <2>2. /\ IsFiniteSet((b + 1)..(b + Len(c.batch)))
        /\ Cardinality((b + 1)..(b + Len(c.batch))) = Len(c.batch)
    BY <1>1, IntervalSize
  <2>. QED  BY <2>1, <2>2, FS_Subset
<1>3. CASE c.expected # Nothing
  <2>. DEFINE T == (c.expected + 1)..(c.expected + Len(c.batch))
              f == [i \in Committed(c) |-> rows[i].version]
  <2>1. IsFiniteSet(T) /\ Cardinality(T) = Len(c.batch)
    BY <1>1, <1>3, IntervalSize
  <2>2. \A i \in Committed(c) : rows[i].version \in T /\ rows[i].stream = c.stream
    BY <1>3 DEF OnceInv, Placed, Committed
  <2>3. ASSUME NEW i \in Committed(c), NEW j \in Committed(c), rows[i].version = rows[j].version
        PROVE  i = j
    <3>1. i \in DOMAIN rows /\ j \in DOMAIN rows /\ rows[i].stream = rows[j].stream
      BY <2>2 DEF Committed
    <3>2. i \in Int /\ j \in Int /\ rows[i].version \in Nat
      BY <3>1, RowTypes DEF StoreInv
    <3>3. ~(i < j) /\ ~(j < i)
      BY <2>3, <3>1, <3>2 DEF StoreInv, Numbered
    <3>. QED  BY <3>2, <3>3
  <2>4. f \in Injection(Committed(c), T)
    BY <2>2, <2>3 DEF Injection, IsInjective
  <2>. QED  BY <2>1, <2>4, FS_Injection
<1>. QED  BY <1>2, <1>3

\* No command is executed twice but one that names no version, and that one only when it
\* was retried while it ran or after a crash took its receipt.
THEOREM ExecutesOnce == Spec => []ExecutedOnce
<1>1. Spec => []OnceInv
  BY InitOnce, NextOnce, StoreInvariant, PTL DEF Spec
<1>2. StoreInv /\ OnceInv => ExecutedOnce
  BY OneBatch DEF ExecutedOnce
<1>. QED  BY <1>1, <1>2, StoreInvariant, PTL
=============================================================================
