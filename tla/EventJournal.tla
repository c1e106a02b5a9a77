---------------------------- MODULE EventJournal ----------------------------
(***************************************************************************)
(* The event store's files (store.go, event_journal.go): events.jsonl with *)
(* one row per event and event-updates.jsonl with one row per change, both *)
(* append-only and synced before an operation returns; their repair and    *)
(* replay when the store is opened.                                        *)
(*                                                                         *)
(* A file is a sequence of chunks as they were appended.  A chunk is a     *)
(* whole row with its newline ("row"), a row that lacks only the newline   *)
(* ("open") or less than a row ("torn").  The last two are no line of      *)
(* their own: whatever is appended next continues their line.              *)
(***************************************************************************)
EXTENDS Naturals, Sequences, FiniteSetsExt

CONSTANTS
    Events,         \* event IDs
    MaxRev,         \* bound: operations in a behaviour
    MaxShortWrites, \* bound: writes that fail part way (a full disk)
    MaxSyncErrors,  \* bound: syncs that fail
    MaxKills,       \* bound: process failures
    MaxPowerLosses  \* bound: power failures

ASSUME JournalAssumption ==
    MaxRev \in Nat /\ MaxShortWrites \in Nat /\ MaxSyncErrors \in Nat
    /\ MaxKills \in Nat /\ MaxPowerLosses \in Nat

VARIABLES
    base,    \* events.jsonl: [rows, synced]
    updates, \* event-updates.jsonl
    memory,  \* EventStore.events: event -> revision, 0 when absent
    mode,    \* "up", or a stage of NewEventStore, or its failure
    op,      \* the operation that holds the store's mutex
    acked,   \* event -> revision of the last operation that returned nil
    lastRev, \* operations so far
    faults   \* faults so far

files == <<base, updates>>
vars == <<files, memory, mode, op, acked, lastRev, faults>>

Revs == 1..MaxRev
Absent == [e \in Events |-> 0]
Chunk == [id : Events, rev : Revs, part : {"row", "open", "torn"}]
File(f) == /\ f.rows \in Seq(Chunk)
           /\ f.synced \in 0..Len(f.rows)
NoOp == [kind |-> "none", todo |-> <<>>, ids |-> {}, rev |-> 0]

TypeOK ==
    /\ File(base) /\ File(updates)
    /\ memory \in [Events -> 0..MaxRev]
    /\ mode \in {"up", "down", "base", "failed"}
    /\ op.kind \in {"none", "append", "update"}
    /\ op.todo \in Seq(Chunk) /\ op.ids \subseteq Events /\ op.rev \in 0..MaxRev
    /\ acked \in [Events -> 0..MaxRev]
    /\ lastRev \in 0..MaxRev
    /\ faults.short \in 0..MaxShortWrites
    /\ faults.sync \in 0..MaxSyncErrors
    /\ faults.kills \in 0..MaxKills
    /\ faults.power \in 0..MaxPowerLosses

Init ==
    /\ base = [rows |-> <<>>, synced |-> 0]
    /\ updates = [rows |-> <<>>, synced |-> 0]
    /\ memory = Absent
    /\ mode = "up"
    /\ op = NoOp
    /\ acked = Absent
    /\ lastRev = 0
    /\ faults = [short |-> 0, sync |-> 0, kills |-> 0, power |-> 0]

-----------------------------------------------------------------------------
(* Reading *)

\* Complete lines end at the last newline.
Boundary(rows) == Max({0} \cup {i \in DOMAIN rows : rows[i].part = "row"})

\* A line inside the file that is not one row: the scanner hands it to
\* json.Unmarshal, which rejects it.
BadLine(rows) ==
    \E i \in DOMAIN rows : rows[i].part # "row" /\ i < Boundary(rows)

RowsOf(rows, e) == {i \in DOMAIN rows : rows[i].part = "row" /\ rows[i].id = e}

\* Faulty variant of Replay: the first update row of an event wins.
ReplayFirst(b, u) ==
    [e \in Events |->
        IF RowsOf(b, e) = {} THEN 0
        ELSE IF RowsOf(u, e) = {} THEN b[Max(RowsOf(b, e))].rev
        ELSE u[Min(RowsOf(u, e))].rev]

\* NewEventStore reads the base rows; loadUpdates replaces an event by its last
\* update row and skips rows of unknown events.
Replay(b, u) ==
    [e \in Events |->
        IF RowsOf(b, e) = {} THEN 0
        ELSE IF RowsOf(u, e) = {} THEN b[Max(RowsOf(b, e))].rev
        ELSE u[Max(RowsOf(u, e))].rev]

\* Faulty variants of the repair: none; the newest complete row goes too; the
\* torn tail is cut but still counted.
RepairNothing(f) == f
RepairTooMuch(f) ==
    LET rows == f.rows
        b == Boundary(rows)
        n == IF b > 0 THEN b - 1 ELSE 0
    IN IF b = Len(rows) THEN f ELSE [rows |-> SubSeq(rows, 1, n), synced |-> n]
RepairMiscounted(f) ==
    LET b == Boundary(f.rows) IN
      IF b = Len(f.rows) THEN f ELSE [rows |-> SubSeq(f.rows, 1, b), synced |-> Len(f.rows)]

\* repairTornEventTail: a tail that parses gets its newline, any other tail is
\* copied aside and cut off.
Repair(f) ==
    LET rows == f.rows
        b == Boundary(rows)
    IN IF b = Len(rows) THEN f
       ELSE IF b + 1 = Len(rows) /\ rows[b + 1].part = "open"
       THEN [rows |-> [rows EXCEPT ![b + 1].part = "row"], synced |-> b + 1]
       ELSE [rows |-> SubSeq(rows, 1, b), synced |-> Min({f.synced, b})]

-----------------------------------------------------------------------------
(* Operations; the store's mutex serialises them *)

Row(e, r) == [id |-> e, rev |-> r, part |-> "row"]

\* Append of a new event.
BeginAppend(e) ==
    /\ mode = "up" /\ op = NoOp /\ lastRev < MaxRev
    /\ memory[e] = 0 /\ acked[e] = 0
    /\ RowsOf(base.rows, e) = {}  \* IDs are never used twice
    /\ lastRev' = lastRev + 1
    /\ op' = [kind |-> "append", todo |-> <<Row(e, lastRev')>>, ids |-> {e}, rev |-> lastRev']
    /\ UNCHANGED <<files, memory, mode, acked, faults>>

\* UpdateTranscript, UpdateAnalysis, UpdateDecoderMessages, UpdateAudioPath,
\* UpdateIQPath and UpdateAnalysisStatus (one event), ReconcileRemovedMedia
\* (several): memory changes before anything is written.
BeginUpdate(todo) ==
    /\ mode = "up" /\ op = NoOp /\ lastRev < MaxRev
    /\ todo # <<>> /\ \A i \in DOMAIN todo : memory[todo[i]] # 0
    /\ lastRev' = lastRev + 1
    /\ LET ids == {todo[i] : i \in DOMAIN todo} IN
         /\ memory' = [e \in Events |-> IF e \in ids THEN lastRev' ELSE memory[e]]
         /\ op' = [kind |-> "update", todo |-> [i \in DOMAIN todo |-> Row(todo[i], lastRev')],
                   ids |-> ids, rev |-> lastRev']
    /\ UNCHANGED <<files, mode, acked, faults>>

AppendChunks(chunks) ==
    IF op.kind = "append"
    THEN base' = [base EXCEPT !.rows = @ \o chunks] /\ UNCHANGED updates
    ELSE updates' = [updates EXCEPT !.rows = @ \o chunks] /\ UNCHANGED base

\* Rows reach the file in order; the buffered writer of a batch may flush in
\* several pieces.
WriteRow ==
    /\ op.todo # <<>>
    /\ AppendChunks(<<Head(op.todo)>>)
    /\ op' = [op EXCEPT !.todo = Tail(@)]
    /\ UNCHANGED <<memory, mode, acked, lastRev, faults>>

\* The write fails part way: the caller gets the error, the bytes stay.
ShortWrite(part) ==
    /\ op.todo # <<>> /\ faults.short < MaxShortWrites
    /\ faults' = [faults EXCEPT !.short = @ + 1]
    /\ AppendChunks(<<[Head(op.todo) EXCEPT !.part = part]>>)
    /\ op' = NoOp
    /\ UNCHANGED <<memory, mode, acked, lastRev>>

\* The operation succeeded.
Acknowledge ==
    /\ acked' = [e \in Events |-> IF e \in op.ids THEN op.rev ELSE acked[e]]
    /\ memory' = [e \in Events |-> IF e \in op.ids THEN op.rev ELSE memory[e]]
    /\ op' = NoOp

\* Sync, and for Append the change of memory that follows it.
SyncAndReturn ==
    /\ op # NoOp /\ op.todo = <<>>
    /\ IF op.kind = "append"
       THEN base' = [base EXCEPT !.synced = Len(base.rows)] /\ UNCHANGED updates
       ELSE updates' = [updates EXCEPT !.synced = Len(updates.rows)] /\ UNCHANGED base
    /\ Acknowledge
    /\ UNCHANGED <<mode, lastRev, faults>>

SyncFails ==
    /\ op # NoOp /\ op.todo = <<>> /\ faults.sync < MaxSyncErrors
    /\ faults' = [faults EXCEPT !.sync = @ + 1]
    /\ op' = NoOp
    /\ UNCHANGED <<files, memory, mode, acked, lastRev>>

-----------------------------------------------------------------------------
(* Failures and NewEventStore *)

\* A file's first k chunks, and those with part p of the next one.
CutAt(f, k) == [rows |-> SubSeq(f.rows, 1, k), synced |-> k]
TornAt(f, k, p) ==
    [rows |-> Append(SubSeq(f.rows, 1, k), [f.rows[k + 1] EXCEPT !.part = p]), synced |-> k + 1]

\* What may be left of a file without power: everything synced, then some of
\* the rest, the first lost chunk perhaps in part.
Survivors(f) ==
    {CutAt(f, k) : k \in f.synced..Len(f.rows)}
    \cup {TornAt(f, k, p) : k \in f.synced..(Len(f.rows) - 1), p \in {"open", "torn"}}

GoesDown ==
    /\ mode # "failed"
    /\ mode' = "down"
    /\ memory' = Absent
    /\ op' = NoOp
    /\ UNCHANGED <<acked, lastRev>>

\* The process ends or is killed; the system keeps what was written.
Kill ==
    /\ GoesDown
    /\ faults.kills < MaxKills
    /\ faults' = [faults EXCEPT !.kills = @ + 1]
    /\ UNCHANGED files

PowerLoss ==
    /\ GoesDown
    /\ faults.power < MaxPowerLosses
    /\ faults' = [faults EXCEPT !.power = @ + 1]
    /\ base' \in Survivors(base)
    /\ updates' \in Survivors(updates)

\* NewEventStore repairs events.jsonl and reads it ...
OpenBase ==
    /\ mode = "down"
    /\ base' = Repair(base)
    /\ mode' = IF BadLine(base'.rows) THEN "failed" ELSE "base"
    /\ UNCHANGED <<updates, memory, op, acked, lastRev, faults>>

\* Faulty variant: the update rows are checked and not replayed.
OpenUpdatesUnread ==
    /\ mode = "base"
    /\ updates' = Repair(updates)
    /\ IF BadLine(updates'.rows)
       THEN mode' = "failed" /\ UNCHANGED memory
       ELSE mode' = "up" /\ memory' = Replay(base.rows, <<>>)
    /\ UNCHANGED <<base, op, acked, lastRev, faults>>

\* ... then loadUpdates does the same with event-updates.jsonl.
OpenUpdates ==
    /\ mode = "base"
    /\ updates' = Repair(updates)
    /\ IF BadLine(updates'.rows)
       THEN mode' = "failed" /\ UNCHANGED memory
       ELSE mode' = "up" /\ memory' = Replay(base.rows, updates'.rows)
    /\ UNCHANGED <<base, op, acked, lastRev, faults>>

-----------------------------------------------------------------------------
Next ==
    \/ \E e \in Events : BeginAppend(e)
    \/ \E e \in Events : BeginUpdate(<<e>>)
    \/ \E d, e \in Events : d # e /\ BeginUpdate(<<d, e>>)
    \/ WriteRow
    \/ \E part \in {"open", "torn"} : ShortWrite(part)
    \/ SyncAndReturn
    \/ SyncFails
    \/ Kill
    \/ PowerLoss
    \/ OpenBase
    \/ OpenUpdates

Spec == Init /\ [][Next]_vars

-----------------------------------------------------------------------------
(* Properties *)

\* "A power interruption can leave only the final append incomplete": however
\* often operations are cut short, the store opens again, unless a write failed
\* part way and the program appended more.
Bootable == faults.short = 0 => mode # "failed"

\* No process was killed and no write cut short: what is in a file and not
\* synced is the end of the operation that holds the mutex, or of one that
\* failed.
Unharmed == faults.short = 0 /\ faults.kills = 0

\* What a reader would find if power failed right now and nothing but synced
\* chunks survived.
StableRows(f) == SubSeq(f.rows, 1, f.synced)
Stable == Replay(StableRows(base), StableRows(updates))

\* An operation that returned nil survives every later crash and repair: both
\* files together, as far as they are synced, replay to its revision or a
\* newer one.  (An append that failed to sync and then outlived its process is
\* served, and its updates are acknowledged, while power can still take it.)
AckedSurvive == Unharmed => \A e \in Events : acked[e] <= Stable[e]

\* As long as the machine has power, the store serves nothing older than what
\* it acknowledged, whatever killed the program and whichever write was cut.
AckedServed == faults.power = 0 /\ mode = "up" => \A e \in Events : acked[e] <= memory[e]

\* Revisions that are written or about to be, and may still be lost.
Unsynced(e) ==
    {r \in Revs :
        /\ r > Stable[e]
        /\ \/ e \in op.ids /\ r = op.rev
           \/ \E i \in DOMAIN base.rows : base.rows[i].id = e /\ base.rows[i].rev = r
           \/ \E i \in DOMAIN updates.rows : updates.rows[i].id = e /\ updates.rows[i].rev = r}

History == INSTANCE EventHistory WITH
    up <- mode = "up", view <- memory, stable <- Stable,
    fresh <- [e \in Events |-> Unsynced(e)]

\* The files implement the history the callers rely on, step by step, until a
\* process is killed or a write cut short.
HistoryKept == History!Init /\ [][Unharmed' => [History!Next]_(History!vars)]_vars

\* The store opens again, and neither a power failure nor a kill takes what was
\* acknowledged.
AckedKept == Bootable /\ AckedSurvive /\ AckedServed
=============================================================================
