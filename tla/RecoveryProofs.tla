---------------------------- MODULE RecoveryProofs ----------------------------
(***************************************************************************)
(* What the event journal promises for every number of events, operations  *)
(* and failures: the store opens again, neither a power failure nor a kill *)
(* takes what was acknowledged, and the files implement EventHistory.  And *)
(* what the analysis of captures promises of them and their events, cited  *)
(* from DeferredProofs.                                                    *)
(***************************************************************************)
EXTENDS MCRecovery, SequenceTheorems, WellFoundedInduction, TLAPS

JournalFile == [rows : Seq(Chunk), synced : Nat]
Operation == [kind : {"none", "append", "update"}, todo : Seq(Chunk),
              ids : SUBSET Events, rev : 0..MaxRev]
Faults == [short : 0..MaxShortWrites, sync : 0..MaxSyncErrors,
           kills : 0..MaxKills, power : 0..MaxPowerLosses]

TypeInv ==
    /\ base \in JournalFile /\ base.synced \in 0..Len(base.rows)
    /\ updates \in JournalFile /\ updates.synced \in 0..Len(updates.rows)
    /\ memory \in [Events -> 0..MaxRev]
    /\ mode \in {"up", "down", "base", "failed"}
    /\ op \in Operation
    /\ acked \in [Events -> 0..MaxRev]
    /\ lastRev \in 0..MaxRev
    /\ faults \in Faults

-----------------------------------------------------------------------------
(* The inductive invariant. *)

\* Revisions grow along a file, and the counter has passed all of them, and
\* those that were acknowledged.
Ordered(rows) == \A i, j \in 1..Len(rows) : i <= j => rows[i].rev <= rows[j].rev
Passed(rows, r) == \A i \in 1..Len(rows) : rows[i].rev <= r
RevsGrow ==
    /\ Ordered(base.rows) /\ Passed(base.rows, lastRev)
    /\ Ordered(updates.rows) /\ Passed(updates.rows, lastRev)
    /\ \A e \in Events : acked[e] <= lastRev

\* An append has its one row still to write, of an event without a row, or it
\* is the last of the file; an update has each of its events, all of them
\* served, still to write or in the file.
AppendUnderWay ==
    /\ op.kind = "append"
    /\ \E e \in Events :
         /\ op.ids = {e}
         /\ \/ op.todo = <<Row(e, op.rev)>> /\ RowsOf(base.rows, e) = {}
            \/ /\ op.todo = <<>>
               /\ Len(base.rows) > 0 /\ base.rows[Len(base.rows)] = Row(e, op.rev)

UpdateUnderWay ==
    /\ op.kind = "update"
    /\ \A i \in 1..Len(op.todo) : op.todo[i].id \in op.ids /\ op.todo[i] = Row(op.todo[i].id, op.rev)
    /\ \A e \in op.ids :
         /\ memory[e] # 0
         /\ \/ \E i \in 1..Len(op.todo) : op.todo[i].id = e
            \/ \E j \in 1..Len(updates.rows) : updates.rows[j] = Row(e, op.rev)

OperationSound ==
    \/ op = NoOp
    \/ mode = "up" /\ op.rev = lastRev /\ op.rev # 0 /\ (AppendUnderWay \/ UpdateUnderWay)

\* Without a short write, only a power failure leaves a chunk that is no row,
\* at the end, and the stages of NewEventStore cut or complete it.
AllRows(rows) == \A i \in 1..Len(rows) : rows[i].part = "row"
TailOnly(rows) == \A i \in 1..Len(rows) : i < Len(rows) => rows[i].part = "row"
TailsTorn ==
    faults.short = 0 =>
        /\ mode # "failed"
        /\ TailOnly(base.rows) /\ TailOnly(updates.rows)
        /\ mode \in {"up", "base"} => AllRows(base.rows)
        /\ mode = "up" => AllRows(updates.rows)

\* The first n chunks of a file have a row of event e, of revision r or later.
HasRow(rows, n, e, r) ==
    \E i \in 1..Len(rows) : i <= n /\ rows[i].part = "row" /\ rows[i].id = e /\ rows[i].rev >= r

\* With the first nb chunks of base b and nu of updates u, every event that is
\* updated, acknowledged or served has its base row, the acknowledged revision
\* is in one of the files, and updates are newer than their event.
Covered(b, nb, u, nu, ack, served) ==
    /\ \A j \in 1..Len(u) : HasRow(b, nb, u[j].id, 0)
    /\ \A i \in 1..Len(b), j \in 1..Len(u) : b[i].id = u[j].id => b[i].rev <= u[j].rev
    /\ \A e \in Events : ack[e] # 0 =>
         /\ HasRow(b, nb, e, 0)
         /\ HasRow(b, nb, e, ack[e]) \/ HasRow(u, nu, e, ack[e])
    /\ \A e \in served : HasRow(b, nb, e, 0)

Served == {e \in Events : mode = "up" /\ memory[e] # 0}

\* Neither holds after both a kill and a power failure: an append that failed
\* to sync and outlived its process is served until power takes it.
NothingLost ==
    /\ Unharmed => Covered(base.rows, base.synced, updates.rows, updates.synced, acked, Served)
    /\ faults.power = 0 =>
         Covered(base.rows, Len(base.rows), updates.rows, Len(updates.rows), acked, Served)

\* What a power failure leaves is on the disk.
OpensSynced == Unharmed /\ mode # "up" => base.synced = Len(base.rows)

JournalInv ==
    /\ TypeInv /\ RevsGrow /\ OperationSound /\ TailsTorn
    /\ NothingLost /\ OpensSynced /\ AckedServed

-----------------------------------------------------------------------------
(* Chunks, and greatest elements. *)

LEMMA ChunksAre ==
    ASSUME NEW rows \in Seq(Chunk)
    PROVE  /\ Len(rows) \in Nat
           /\ \A i \in 1..Len(rows) :
                rows[i] \in Chunk /\ rows[i].id \in Events /\ rows[i].rev \in Revs
                /\ rows[i].rev \in Nat
<1>1. Len(rows) \in Nat /\ \A i \in 1..Len(rows) : rows[i] \in Chunk
  OBVIOUS
<1>2. \A c \in Chunk : c.id \in Events /\ c.rev \in Revs
  BY DEF Chunk
<1>3. Revs \subseteq Nat
  BY JournalAssumption DEF Revs
<1> QED BY <1>1, <1>2, <1>3

\* A set of bounded numbers has a greatest one, and Max is it.
LEMMA MaxBounds ==
    ASSUME NEW n \in Nat, NEW T, T \subseteq 0..n, T # {}
    PROVE  Max(T) \in T /\ \A x \in T : x <= Max(T)
<1> DEFINE U == {n - x : x \in T}
<1>1. U \subseteq Nat /\ U # {}
  <2>1. \A x \in T : n - x \in Nat
    OBVIOUS
  <2> QED BY <2>1
<1>2. PICK u \in U : \A y \in U : ~ (<<y, u>> \in OpToRel(<, Nat))
  <2> HIDE DEF U
  <2> QED BY <1>1, NatLessThanWellFounded, WFMin
<1>3. \A y \in U : ~ (y < u)
  BY <1>1, <1>2 DEF OpToRel
<1>4. PICK m \in T : u = n - m
  OBVIOUS
<1>5. \A x \in T : m >= x
  BY <1>3, <1>4
<1>6. \E x \in T : \A y \in T : x >= y
  BY <1>5
<1>7. Max(T) \in T /\ \A y \in T : Max(T) >= y
  BY <1>6 DEF Max
<1> QED BY <1>7

LEMMA MinOfTwo ==
    ASSUME NEW a \in Nat, NEW b \in Nat
    PROVE  Min({a, b}) = IF a <= b THEN a ELSE b
<1>1. \E x \in {a, b} : \A y \in {a, b} : x <= y
  OBVIOUS
<1>2. Min({a, b}) \in {a, b} /\ \A y \in {a, b} : Min({a, b}) <= y
  BY <1>1 DEF Min
<1> QED BY <1>2

LEMMA BoundaryIs ==
    ASSUME NEW rows \in Seq(Chunk)
    PROVE  /\ Boundary(rows) \in 0..Len(rows)
           /\ \A i \in 1..Len(rows) : rows[i].part = "row" => i <= Boundary(rows)
           /\ Boundary(rows) # 0 => rows[Boundary(rows)].part = "row"
<1> DEFINE T == {0} \cup {i \in DOMAIN rows : rows[i].part = "row"}
<1>1. DOMAIN rows = 1..Len(rows) /\ Len(rows) \in Nat
  OBVIOUS
<1>2. T \subseteq 0..Len(rows) /\ T # {}
  BY <1>1
<1>3. Max(T) \in T /\ \A x \in T : x <= Max(T)
  <2> HIDE DEF T
  <2> QED BY <1>1, <1>2, MaxBounds
<1>4. Boundary(rows) = Max(T)
  BY DEF Boundary
<1> QED BY <1>1, <1>2, <1>3, <1>4

-----------------------------------------------------------------------------
(* Replay. *)

LEMMA RowsOfIs ==
    ASSUME NEW rows \in Seq(Chunk), NEW e
    PROVE  /\ RowsOf(rows, e) = {i \in 1..Len(rows) : rows[i].part = "row" /\ rows[i].id = e}
           /\ RowsOf(rows, e) # {} =>
                /\ Max(RowsOf(rows, e)) \in RowsOf(rows, e)
                /\ \A i \in RowsOf(rows, e) : i <= Max(RowsOf(rows, e))
<1>1. RowsOf(rows, e) = {i \in 1..Len(rows) : rows[i].part = "row" /\ rows[i].id = e}
  BY DEF RowsOf
<1>2. Len(rows) \in Nat /\ RowsOf(rows, e) \subseteq 0..Len(rows)
  BY <1>1
<1> QED BY <1>1, <1>2, MaxBounds

LEMMA ReplayType ==
    ASSUME NEW b \in Seq(Chunk), NEW u \in Seq(Chunk)
    PROVE  /\ Replay(b, u) \in [Events -> 0..MaxRev]
           /\ \A e \in Events : Replay(b, u)[e] # 0 => HasRow(b, Len(b), e, 0)
<1> SUFFICES ASSUME NEW e \in Events
             PROVE  /\ Replay(b, u)[e] \in 0..MaxRev
                    /\ Replay(b, u)[e] # 0 => HasRow(b, Len(b), e, 0)
  BY DEF Replay
<1>1. /\ \A i \in 1..Len(b) : b[i].rev \in 1..MaxRev
      /\ \A i \in 1..Len(u) : u[i].rev \in 1..MaxRev
  BY ChunksAre DEF Revs
<1>2. CASE RowsOf(b, e) = {}
  BY <1>2, JournalAssumption DEF Replay
<1>3. CASE RowsOf(b, e) # {}
  <2>1. HasRow(b, Len(b), e, 0)
    BY <1>1, <1>3, RowsOfIs DEF HasRow
  <2>2. CASE RowsOf(u, e) = {}
    <3>1. Max(RowsOf(b, e)) \in 1..Len(b)
      BY <1>3, RowsOfIs
    <3> QED BY <1>1, <1>3, <2>1, <2>2, <3>1 DEF Replay
  <2>3. CASE RowsOf(u, e) # {}
    <3>1. Max(RowsOf(u, e)) \in 1..Len(u)
      BY <2>3, RowsOfIs
    <3> QED BY <1>1, <1>3, <2>1, <2>3, <3>1 DEF Replay
  <2> QED BY <2>2, <2>3
<1> QED BY <1>2, <1>3

\* Files in which revisions grow, and in which updates are newer than their
\* event, replay to every revision that one of them has a row of.
LEMMA ReplayServes ==
    ASSUME NEW b \in Seq(Chunk), NEW u \in Seq(Chunk), NEW e \in Events, NEW r \in Nat,
           Ordered(b), Ordered(u),
           \A i \in 1..Len(b), j \in 1..Len(u) : b[i].id = u[j].id => b[i].rev <= u[j].rev,
           HasRow(b, Len(b), e, 0),
           HasRow(b, Len(b), e, r) \/ HasRow(u, Len(u), e, r)
    PROVE  r <= Replay(b, u)[e]
<1>1. /\ \A i \in 1..Len(b) : b[i].rev \in Nat
      /\ \A i \in 1..Len(u) : u[i].rev \in Nat
  BY ChunksAre
<1>2. RowsOf(b, e) # {}
  BY RowsOfIs DEF HasRow
<1>3. CASE RowsOf(u, e) = {}
  <2> DEFINE m == Max(RowsOf(b, e))
  <2>1. m \in 1..Len(b) /\ \A i \in RowsOf(b, e) : i <= m
    BY <1>2, RowsOfIs
  <2>2. ~HasRow(u, Len(u), e, r)
    BY <1>3, RowsOfIs DEF HasRow
  <2>3. PICK i \in 1..Len(b) : b[i].part = "row" /\ b[i].id = e /\ b[i].rev >= r
    BY <2>2 DEF HasRow
  <2>4. i <= m
    BY <2>1, <2>3, RowsOfIs
  <2>5. b[i].rev <= b[m].rev
    BY <2>1, <2>4 DEF Ordered
  <2>6. Replay(b, u)[e] = b[m].rev
    BY <1>2, <1>3 DEF Replay
  <2> HIDE DEF m
  <2> QED BY <1>1, <2>1, <2>3, <2>5, <2>6
<1>4. CASE RowsOf(u, e) # {}
  <2> DEFINE m == Max(RowsOf(u, e))
  <2>1. m \in 1..Len(u) /\ u[m].id = e /\ \A i \in RowsOf(u, e) : i <= m
    BY <1>4, RowsOfIs
  <2>2. Replay(b, u)[e] = u[m].rev
    BY <1>2, <1>4 DEF Replay
  <2>3. CASE HasRow(b, Len(b), e, r)
    <3>1. PICK i \in 1..Len(b) : b[i].id = e /\ b[i].rev >= r
      BY <2>3 DEF HasRow
    <3>2. b[i].rev <= u[m].rev
      BY <2>1, <3>1
    <3> HIDE DEF m
    <3> QED BY <1>1, <2>1, <2>2, <3>1, <3>2
  <2>4. CASE HasRow(u, Len(u), e, r)
    <3>1. PICK i \in 1..Len(u) : u[i].part = "row" /\ u[i].id = e /\ u[i].rev >= r
      BY <2>4 DEF HasRow
    <3>2. i <= m
      BY <2>1, <3>1, RowsOfIs
    <3>3. u[i].rev <= u[m].rev
      BY <2>1, <3>2 DEF Ordered
    <3> HIDE DEF m
    <3> QED BY <1>1, <2>1, <2>2, <3>1, <3>3
  <2> QED BY <2>3, <2>4
<1> QED BY <1>3, <1>4

-----------------------------------------------------------------------------
(* What a repair and a power failure leave of a file. *)

\* g has the first chunks of f, perhaps with other ends of their lines.
Kept(f, g) ==
    /\ Len(g.rows) <= Len(f.rows)
    /\ \A i \in 1..Len(g.rows) : g.rows[i].id = f.rows[i].id /\ g.rows[i].rev = f.rows[i].rev

\* The first k chunks of a file.
LEMMA Prefix ==
    ASSUME NEW rows \in Seq(Chunk), NEW k \in 0..Len(rows)
    PROVE  /\ SubSeq(rows, 1, k) \in Seq(Chunk) /\ Len(SubSeq(rows, 1, k)) = k
           /\ \A i \in 1..k : SubSeq(rows, 1, k)[i] = rows[i]
<1>1. \A i \in 1..k : rows[i] \in Chunk
  OBVIOUS
<1>2. /\ SubSeq(rows, 1, k) \in Seq(Chunk)
      /\ Len(SubSeq(rows, 1, k)) = IF 1 <= k THEN k - 1 + 1 ELSE 0
      /\ \A i \in 1..(k - 1 + 1) : SubSeq(rows, 1, k)[i] = rows[1 + i - 1]
  BY <1>1, SubSeqProperties
<1> QED BY <1>2

LEMMA RepairKeeps ==
    ASSUME NEW f \in JournalFile, f.synced \in 0..Len(f.rows)
    PROVE  /\ Repair(f) \in JournalFile /\ Repair(f).synced \in 0..Len(Repair(f).rows)
           /\ Kept(f, Repair(f))
           /\ \A i \in 1..Len(f.rows) : f.rows[i].part = "row" =>
                /\ i <= Len(Repair(f).rows) /\ Repair(f).rows[i].part = "row"
                /\ i <= f.synced => i <= Repair(f).synced
           /\ f.synced = Len(f.rows) => Repair(f).synced = Len(Repair(f).rows)
           /\ TailOnly(f.rows) => AllRows(Repair(f).rows)
<1> DEFINE rows == f.rows
           b == Boundary(rows)
<1>0. rows \in Seq(Chunk) /\ Len(rows) \in Nat /\ f = [rows |-> f.rows, synced |-> f.synced]
  BY DEF JournalFile
<1>1. /\ b \in 0..Len(rows)
      /\ \A i \in 1..Len(rows) : rows[i].part = "row" => i <= b
      /\ b # 0 => rows[b].part = "row"
  BY <1>0, BoundaryIs
<1>2. TailOnly(rows) => \A i \in 1..Len(rows) : i < Len(rows) => i <= b
  BY <1>1 DEF TailOnly
<1> HIDE DEF b
<1>3. CASE b = Len(rows)
  <2>1. Repair(f) = f
    BY <1>3 DEF Repair, b
  <2>2. TailOnly(rows) => AllRows(rows)
    BY <1>0, <1>1, <1>3 DEF TailOnly, AllRows
  <2> QED BY <1>0, <2>1, <2>2 DEF Kept
<1>4. CASE b # Len(rows) /\ b + 1 = Len(rows) /\ rows[b + 1].part = "open"
  <2> DEFINE g == [rows EXCEPT ![b + 1].part = "row"]
             c == [rows[b + 1] EXCEPT !.part = "row"]
  <2>1. Repair(f) = [rows |-> g, synced |-> b + 1]
    BY <1>4 DEF Repair, b
  <2>2. b + 1 \in 1..Len(rows) /\ rows[b + 1] \in Chunk
    BY <1>0, <1>1, <1>4
  <2>3. c \in Chunk /\ c.part = "row" /\ c.id = rows[b + 1].id /\ c.rev = rows[b + 1].rev
    BY <2>2 DEF Chunk
  <2>4. g = [rows EXCEPT ![b + 1] = c]
    OBVIOUS
  <2> HIDE DEF g, c
  <2>5. /\ g \in Seq(Chunk) /\ Len(g) = Len(rows)
        /\ \A i \in 1..Len(rows) : g[i] = IF i = b + 1 THEN c ELSE rows[i]
    BY <1>0, <2>2, <2>3, <2>4, ExceptSeq
  <2>6. Repair(f) \in JournalFile /\ Repair(f).synced = b + 1 /\ Repair(f).rows = g
    BY <1>0, <1>4, <2>1, <2>5 DEF JournalFile
  <2>7. TailOnly(rows) => AllRows(g)
    BY <1>4, <2>3, <2>5 DEF TailOnly, AllRows
  <2> QED BY <1>0, <1>1, <1>4, <2>3, <2>5, <2>6, <2>7, SMTT(30) DEF Kept
<1>5. CASE b # Len(rows) /\ ~(b + 1 = Len(rows) /\ rows[b + 1].part = "open")
  <2> DEFINE g == SubSeq(rows, 1, b)
             n == Min({f.synced, b})
  <2>1. Repair(f) = [rows |-> g, synced |-> n]
    BY <1>5 DEF Repair, b
  <2>2. /\ g \in Seq(Chunk) /\ Len(g) = b
        /\ \A i \in 1..b : g[i] = rows[i]
    BY <1>0, <1>1, Prefix
  <2>3. n = IF f.synced <= b THEN f.synced ELSE b
    BY <1>1, MinOfTwo
  <2> HIDE DEF g, n
  <2>4. Repair(f) \in JournalFile /\ Repair(f).synced = n /\ Repair(f).rows = g
    BY <1>1, <2>1, <2>2, <2>3 DEF JournalFile
  <2>5. TailOnly(rows) => AllRows(g)
    BY <1>0, <1>1, <2>2 DEF TailOnly, AllRows
  <2> QED BY <1>0, <1>1, <1>5, <2>2, <2>3, <2>4, <2>5 DEF Kept
<1> QED BY <1>3, <1>4, <1>5

LEMMA SurvivorsKeep ==
    ASSUME NEW f \in JournalFile, f.synced \in 0..Len(f.rows), NEW g \in Survivors(f)
    PROVE  /\ g \in JournalFile /\ g.synced = Len(g.rows) /\ f.synced <= g.synced
           /\ Kept(f, g)
           /\ \A i \in 1..f.synced : g.rows[i] = f.rows[i]
           /\ TailOnly(f.rows) => TailOnly(g.rows)
<1>0. f.rows \in Seq(Chunk) /\ Len(f.rows) \in Nat
  BY DEF JournalFile
<1>1. ASSUME NEW k \in 0..Len(f.rows)
      PROVE  /\ SubSeq(f.rows, 1, k) \in Seq(Chunk) /\ Len(SubSeq(f.rows, 1, k)) = k
             /\ \A i \in 1..k : SubSeq(f.rows, 1, k)[i] = f.rows[i]
  BY <1>0, Prefix
<1>2. CASE \E k \in f.synced..Len(f.rows) : g = [rows |-> SubSeq(f.rows, 1, k), synced |-> k]
  <2>1. PICK k \in f.synced..Len(f.rows) : g = [rows |-> SubSeq(f.rows, 1, k), synced |-> k]
    BY <1>2
  <2>2. k \in 0..Len(f.rows)
    BY <1>0, <2>1
  <2>3. /\ g \in JournalFile /\ g.synced = k /\ Len(g.rows) = k
        /\ \A i \in 1..k : g.rows[i] = f.rows[i]
    BY <1>1, <2>1, <2>2 DEF JournalFile
  <2>4. Kept(f, g)
    BY <1>0, <2>2, <2>3 DEF Kept
  <2>5. TailOnly(f.rows) => TailOnly(g.rows)
    BY <1>0, <2>2, <2>3 DEF TailOnly
  <2>6. f.synced <= k /\ \A i \in 1..f.synced : i \in 1..k
    BY <1>0, <2>1
  <2> QED BY <2>3, <2>4, <2>5, <2>6
<1>3. CASE \E k \in f.synced..(Len(f.rows) - 1), p \in {"open", "torn"} :
             g = [rows |-> Append(SubSeq(f.rows, 1, k), [f.rows[k + 1] EXCEPT !.part = p]),
                  synced |-> k + 1]
  <2>1. PICK k \in f.synced..(Len(f.rows) - 1), p \in {"open", "torn"} :
             g = [rows |-> Append(SubSeq(f.rows, 1, k), [f.rows[k + 1] EXCEPT !.part = p]),
                  synced |-> k + 1]
    BY <1>3
  <2>2. k \in 0..Len(f.rows) /\ k + 1 \in 1..Len(f.rows)
    BY <1>0, <2>1
  <2> DEFINE c == [f.rows[k + 1] EXCEPT !.part = p]
             s == SubSeq(f.rows, 1, k)
  <2>3. c \in Chunk /\ c.id = f.rows[k + 1].id /\ c.rev = f.rows[k + 1].rev
    <3>1. f.rows[k + 1] \in Chunk
      BY <1>0, <2>2
    <3> QED BY <3>1 DEF Chunk
  <2>4. s \in Seq(Chunk) /\ Len(s) = k /\ \A i \in 1..k : s[i] = f.rows[i]
    BY <1>1, <2>2
  <2> HIDE DEF c, s
  <2>5. /\ Append(s, c) \in Seq(Chunk) /\ Len(Append(s, c)) = k + 1
        /\ \A i \in 1..k : Append(s, c)[i] = s[i]
        /\ Append(s, c)[k + 1] = c
    BY <2>3, <2>4, AppendProperties
  <2>6. g = [rows |-> Append(s, c), synced |-> k + 1]
    BY <2>1 DEF s, c
  <2>7. /\ g \in JournalFile /\ g.synced = k + 1 /\ Len(g.rows) = k + 1
        /\ \A i \in 1..k : g.rows[i] = f.rows[i]
        /\ g.rows[k + 1] = c
    BY <2>2, <2>4, <2>5, <2>6 DEF JournalFile
  <2>8. Kept(f, g)
    <3>1. k + 1 <= Len(f.rows) /\ \A i \in 1..(k + 1) : i = k + 1 \/ i \in 1..k
      BY <2>2
    <3>2. \A i \in 1..(k + 1) : g.rows[i].id = f.rows[i].id /\ g.rows[i].rev = f.rows[i].rev
      BY <2>3, <2>7, <3>1
    <3> QED BY <2>7, <3>1, <3>2 DEF Kept
  <2>9. TailOnly(f.rows) => TailOnly(g.rows)
    <3> SUFFICES ASSUME TailOnly(f.rows), NEW i \in 1..Len(g.rows), i < Len(g.rows)
                 PROVE  g.rows[i].part = "row"
      BY DEF TailOnly
    <3>1. i \in 1..k /\ i \in 1..Len(f.rows) /\ i < Len(f.rows)
      BY <1>0, <2>2, <2>7
    <3> QED BY <2>7, <3>1 DEF TailOnly
  <2>10. f.synced <= k + 1 /\ \A i \in 1..f.synced : i \in 1..k
    BY <1>0, <2>1
  <2> QED BY <2>7, <2>8, <2>9, <2>10
<1>4. g \in {CutAt(f, k) : k \in f.synced..Len(f.rows)}
            \cup {TornAt(f, k, p) : k \in f.synced..(Len(f.rows) - 1), p \in {"open", "torn"}}
  BY DEF Survivors
<1>5. \/ \E k \in f.synced..Len(f.rows) : g = CutAt(f, k)
      \/ \E k \in f.synced..(Len(f.rows) - 1), p \in {"open", "torn"} : g = TornAt(f, k, p)
  BY <1>4
<1>6. ASSUME \E k \in f.synced..Len(f.rows) : g = CutAt(f, k)
      PROVE  \E k \in f.synced..Len(f.rows) : g = [rows |-> SubSeq(f.rows, 1, k), synced |-> k]
  BY <1>6 DEF CutAt
<1>7. ASSUME \E k \in f.synced..(Len(f.rows) - 1), p \in {"open", "torn"} : g = TornAt(f, k, p)
      PROVE  \E k \in f.synced..(Len(f.rows) - 1), p \in {"open", "torn"} :
             g = [rows |-> Append(SubSeq(f.rows, 1, k), [f.rows[k + 1] EXCEPT !.part = p]),
                  synced |-> k + 1]
  BY <1>7 DEF TornAt
<1> QED BY <1>2, <1>3, <1>5, <1>6, <1>7

-----------------------------------------------------------------------------
(* Coverage, as files change. *)

\* Nothing is lost as long as the rows that counted still do.
LEMMA StaysCovered ==
    ASSUME NEW f \in JournalFile, NEW g \in JournalFile, NEW nf, NEW ng,
           NEW h \in JournalFile, NEW k \in JournalFile, NEW nh, NEW nk,
           NEW ack, NEW served, NEW left,
           Covered(f.rows, nf, h.rows, nh, ack, served),
           Kept(f, g), Kept(h, k),
           \A e \in Events, r \in Nat :
               /\ HasRow(f.rows, nf, e, r) => HasRow(g.rows, ng, e, r)
               /\ HasRow(h.rows, nh, e, r) => HasRow(k.rows, nk, e, r),
           ack \in [Events -> 0..MaxRev],
           \A e \in left : HasRow(g.rows, ng, e, 0)
    PROVE  Covered(g.rows, ng, k.rows, nk, ack, left)
<1>0. /\ \A j \in 1..Len(h.rows) : h.rows[j].id \in Events
      /\ Len(g.rows) \in Nat /\ Len(f.rows) \in Nat /\ Len(h.rows) \in Nat /\ Len(k.rows) \in Nat
      /\ MaxRev \in Nat
  BY ChunksAre, JournalAssumption DEF JournalFile
<1>1. \A j \in 1..Len(k.rows) : HasRow(g.rows, ng, k.rows[j].id, 0)
  <2> TAKE j \in 1..Len(k.rows)
  <2>1. j \in 1..Len(h.rows) /\ k.rows[j].id = h.rows[j].id
    BY <1>0 DEF Kept
  <2>2. HasRow(f.rows, nf, h.rows[j].id, 0)
    BY <2>1 DEF Covered
  <2> QED BY <1>0, <2>1, <2>2
<1>2. \A i \in 1..Len(g.rows), j \in 1..Len(k.rows) :
        g.rows[i].id = k.rows[j].id => g.rows[i].rev <= k.rows[j].rev
  <2> TAKE i \in 1..Len(g.rows), j \in 1..Len(k.rows)
  <2>1. /\ i \in 1..Len(f.rows) /\ g.rows[i].id = f.rows[i].id /\ g.rows[i].rev = f.rows[i].rev
        /\ j \in 1..Len(h.rows) /\ k.rows[j].id = h.rows[j].id /\ k.rows[j].rev = h.rows[j].rev
    BY <1>0 DEF Kept
  <2> QED BY <2>1 DEF Covered
<1>3. \A e \in Events : ack[e] # 0 =>
        /\ HasRow(g.rows, ng, e, 0)
        /\ HasRow(g.rows, ng, e, ack[e]) \/ HasRow(k.rows, nk, e, ack[e])
  BY <1>0 DEF Covered
<1> QED BY <1>1, <1>2, <1>3 DEF Covered

\* Rows further on count as well.
LEMMA MoreCovered ==
    ASSUME NEW rows \in Seq(Chunk), NEW m \in Nat, NEW n \in Nat, m <= n, NEW e, NEW r,
           HasRow(rows, m, e, r)
    PROVE  HasRow(rows, n, e, r)
BY DEF HasRow

LEMMA KeptOrdered ==
    ASSUME NEW f \in JournalFile, NEW g \in JournalFile, Kept(f, g), NEW r,
           Ordered(f.rows), Passed(f.rows, r)
    PROVE  Ordered(g.rows) /\ Passed(g.rows, r)
<1>1. Len(f.rows) \in Nat /\ Len(g.rows) \in Nat
  BY DEF JournalFile
<1> QED BY <1>1, SMTT(30) DEF Kept, Ordered, Passed

LEMMA KeptItself == ASSUME NEW f, Len(f.rows) \in Nat PROVE Kept(f, f)
BY DEF Kept

\* Repaired files count every row they counted before.
LEMMA RepairCounts ==
    ASSUME NEW f \in JournalFile, f.synced \in 0..Len(f.rows), NEW e, NEW r
    PROVE  /\ HasRow(f.rows, f.synced, e, r) => HasRow(Repair(f).rows, Repair(f).synced, e, r)
           /\ HasRow(f.rows, Len(f.rows), e, r) =>
                HasRow(Repair(f).rows, Len(Repair(f).rows), e, r)
<1> DEFINE g == Repair(f)
<1>1. Len(f.rows) \in Nat /\ Len(g.rows) \in Nat
  BY RepairKeeps DEF JournalFile
<1>2. ASSUME NEW i \in 1..Len(f.rows), f.rows[i].part = "row"
      PROVE  /\ i \in 1..Len(g.rows) /\ g.rows[i].part = "row"
             /\ g.rows[i].id = f.rows[i].id /\ g.rows[i].rev = f.rows[i].rev
             /\ i <= f.synced => i <= g.synced
  BY <1>1, <1>2, RepairKeeps DEF Kept
<1> HIDE DEF g
<1>3. HasRow(f.rows, f.synced, e, r) => HasRow(g.rows, g.synced, e, r)
  BY <1>2 DEF HasRow
<1>4. HasRow(f.rows, Len(f.rows), e, r) => HasRow(g.rows, Len(g.rows), e, r)
  BY <1>1, <1>2 DEF HasRow
<1> QED BY <1>3, <1>4 DEF g

\* So do the survivors of a power failure, as far as the file was synced.
LEMMA SurvivorsCount ==
    ASSUME NEW f \in JournalFile, f.synced \in 0..Len(f.rows), NEW g \in Survivors(f),
           NEW e, NEW r, HasRow(f.rows, f.synced, e, r)
    PROVE  HasRow(g.rows, g.synced, e, r)
<1>1. Len(f.rows) \in Nat /\ Len(g.rows) \in Nat
  BY SurvivorsKeep DEF JournalFile
<1>2. PICK i \in 1..Len(f.rows) :
        i <= f.synced /\ f.rows[i].part = "row" /\ f.rows[i].id = e /\ f.rows[i].rev >= r
  BY DEF HasRow
<1>3. i \in 1..f.synced /\ f.synced \in Nat
  BY <1>1, <1>2
<1>4. g.rows[i] = f.rows[i] /\ g.synced = Len(g.rows) /\ f.synced <= g.synced
  BY <1>3, SurvivorsKeep
<1> QED BY <1>1, <1>2, <1>3, <1>4 DEF HasRow

-----------------------------------------------------------------------------
LEMMA InvariantMeans == JournalInv => TypeOK /\ AckedKept
<1> SUFFICES ASSUME JournalInv PROVE TypeOK /\ AckedKept
  OBVIOUS
<1>1. TypeOK
  BY DEF JournalInv, TypeInv, TypeOK, File, JournalFile, Operation, Faults
<1>2. Bootable /\ AckedServed
  BY DEF JournalInv, TailsTorn, Bootable
<1>3. AckedSurvive
  <2> SUFFICES ASSUME Unharmed, NEW e \in Events PROVE acked[e] <= Stable[e]
    BY DEF AckedSurvive
  <2> DEFINE b == StableRows(base)
             u == StableRows(updates)
  <2>0. /\ base.rows \in Seq(Chunk) /\ updates.rows \in Seq(Chunk)
        /\ base.synced \in 0..Len(base.rows) /\ updates.synced \in 0..Len(updates.rows)
        /\ Len(base.rows) \in Nat /\ Len(updates.rows) \in Nat
        /\ acked[e] \in Nat
    BY JournalAssumption DEF JournalInv, TypeInv, JournalFile
  <2>1. /\ b \in Seq(Chunk) /\ Len(b) = base.synced
        /\ \A i \in 1..Len(b) : b[i] = base.rows[i]
        /\ u \in Seq(Chunk) /\ Len(u) = updates.synced
        /\ \A i \in 1..Len(u) : u[i] = updates.rows[i]
    BY <2>0, Prefix DEF StableRows
  <2>2. Stable = Replay(b, u)
    BY DEF Stable
  <2> HIDE DEF b, u
  <2>3. Covered(base.rows, base.synced, updates.rows, updates.synced, acked, Served)
    BY DEF JournalInv, NothingLost
  <2>4. /\ Ordered(b) /\ Ordered(u)
        /\ Len(b) \in Nat /\ Len(u) \in Nat
        /\ \A i \in 1..Len(b) : i \in 1..Len(base.rows) /\ i <= base.synced
        /\ \A i \in 1..Len(u) : i \in 1..Len(updates.rows) /\ i <= updates.synced
    <3>1. /\ Len(b) \in Nat /\ Len(u) \in Nat
          /\ \A i \in 1..Len(b) : i \in 1..Len(base.rows) /\ i <= base.synced
          /\ \A i \in 1..Len(u) : i \in 1..Len(updates.rows) /\ i <= updates.synced
      BY <2>0, <2>1
    <3> QED BY <2>1, <3>1 DEF JournalInv, RevsGrow, Ordered
  <2>5. \A i \in 1..Len(b), j \in 1..Len(u) : b[i].id = u[j].id => b[i].rev <= u[j].rev
    BY <2>1, <2>3, <2>4 DEF Covered
  <2>6. \A r \in Nat : /\ HasRow(base.rows, base.synced, e, r) => HasRow(b, Len(b), e, r)
                       /\ HasRow(updates.rows, updates.synced, e, r) => HasRow(u, Len(u), e, r)
    <3> SUFFICES ASSUME NEW r \in Nat
                 PROVE  /\ HasRow(base.rows, base.synced, e, r) => HasRow(b, Len(b), e, r)
                        /\ HasRow(updates.rows, updates.synced, e, r) => HasRow(u, Len(u), e, r)
      OBVIOUS
    <3>1. /\ \A i \in 1..Len(base.rows) : i <= base.synced => i \in 1..Len(b) /\ i <= Len(b)
          /\ \A i \in 1..Len(updates.rows) : i <= updates.synced => i \in 1..Len(u) /\ i <= Len(u)
      BY <2>0, <2>1
    <3>2. HasRow(base.rows, base.synced, e, r) => HasRow(b, Len(b), e, r)
      BY <2>1, <3>1 DEF HasRow
    <3>3. HasRow(updates.rows, updates.synced, e, r) => HasRow(u, Len(u), e, r)
      BY <2>1, <3>1 DEF HasRow
    <3> QED BY <3>2, <3>3
  <2>7. CASE acked[e] = 0
    BY <2>1, <2>2, <2>7, ReplayType, JournalAssumption
  <2>8. CASE acked[e] # 0
    <3>1. HasRow(b, Len(b), e, 0) /\ (HasRow(b, Len(b), e, acked[e]) \/ HasRow(u, Len(u), e, acked[e]))
      BY <2>0, <2>3, <2>6, <2>8 DEF Covered
    <3> QED BY <2>0, <2>1, <2>2, <2>4, <2>5, <3>1, ReplayServes
  <2> QED BY <2>7, <2>8
<1> QED BY <1>1, <1>2, <1>3 DEF AckedKept

LEMMA InitInv == Init => JournalInv
<1> SUFFICES ASSUME Init PROVE JournalInv
  OBVIOUS
<1> USE JournalAssumption
<1>1. TypeInv
  BY DEF Init, TypeInv, JournalFile, NoOp, Operation, Absent, Faults
<1>2. base.rows = <<>> /\ updates.rows = <<>> /\ base.synced = 0 /\ updates.synced = 0
  BY DEF Init
<1>3. RevsGrow /\ OperationSound /\ TailsTorn /\ OpensSynced
  BY <1>2 DEF Init, RevsGrow, Ordered, Passed, OperationSound, TailsTorn, AllRows, TailOnly,
     OpensSynced, Absent
<1>4. NothingLost /\ AckedServed
  BY <1>2 DEF Init, NothingLost, Covered, Served, Absent, AckedServed
<1> QED BY <1>1, <1>3, <1>4 DEF JournalInv

-----------------------------------------------------------------------------
(* Operations. *)

\* What the beginning of an operation leaves as it was.
LEMMA FilesUntouched ==
    ASSUME JournalInv, UNCHANGED <<files, mode, acked>>,
           lastRev \in Nat, lastRev' \in Nat, lastRev <= lastRev',
           memory \in [Events -> Nat], memory' \in [Events -> Nat],
           \A e \in Events : /\ memory'[e] # 0 => memory[e] # 0
                            /\ memory'[e] \in {memory[e], lastRev'},
           faults'.short = faults.short, faults'.kills = faults.kills,
           faults'.power = faults.power
    PROVE  RevsGrow' /\ TailsTorn' /\ NothingLost' /\ OpensSynced' /\ AckedServed'
<1> USE JournalAssumption
<1>1. UNCHANGED <<base, updates, mode, acked>> /\ Unharmed' = Unharmed
  BY DEF files, Unharmed
<1>2. /\ \A i \in 1..Len(base.rows) : base.rows[i].rev \in Nat
      /\ \A i \in 1..Len(updates.rows) : updates.rows[i].rev \in Nat
      /\ acked \in [Events -> Nat]
  <2>1. base.rows \in Seq(Chunk) /\ updates.rows \in Seq(Chunk)
    BY DEF JournalInv, TypeInv, JournalFile
  <2>2. acked \in [Events -> Nat]
    BY DEF JournalInv, TypeInv
  <2> QED BY <2>1, <2>2, ChunksAre
<1>3. RevsGrow'
  BY <1>1, <1>2 DEF JournalInv, RevsGrow, Passed
<1>4. TailsTorn' /\ OpensSynced'
  BY <1>1 DEF JournalInv, TailsTorn, OpensSynced
<1>5. \A e \in Served' : e \in Served
  BY <1>1 DEF Served
<1>6. NothingLost'
  BY <1>1, <1>5 DEF JournalInv, NothingLost, Covered
<1>7. AckedServed'
  <2>1. \A e \in Events : acked[e] <= lastRev'
    BY <1>2 DEF JournalInv, RevsGrow
  <2> QED BY <1>1, <1>2, <2>1 DEF JournalInv, AckedServed
<1> QED BY <1>3, <1>4, <1>6, <1>7

LEMMA RowType ==
    ASSUME NEW e \in Events, NEW r \in Revs
    PROVE  Row(e, r) \in Chunk /\ Row(e, r).id = e /\ Row(e, r).rev = r /\ Row(e, r).part = "row"
BY DEF Row, Chunk

LEMMA BeginAppendStep ==
    ASSUME JournalInv, NEW e \in Events, BeginAppend(e)
    PROVE  JournalInv'
<1> USE JournalAssumption
<1>1. /\ mode = "up" /\ RowsOf(base.rows, e) = {} /\ lastRev' = lastRev + 1
      /\ lastRev' \in Revs
      /\ op' = [kind |-> "append", todo |-> <<Row(e, lastRev')>>, ids |-> {e}, rev |-> lastRev']
      /\ UNCHANGED <<files, memory, mode, acked, faults>>
  BY DEF BeginAppend, JournalInv, TypeInv, Revs
<1>2. <<Row(e, lastRev')>> \in Seq(Chunk)
  BY <1>1, RowType
<1>3. op' \in Operation
  BY <1>1, <1>2 DEF Operation, Revs
<1>4. TypeInv'
  BY <1>1, <1>3 DEF JournalInv, TypeInv, files, Revs
<1>5. AppendUnderWay'
  BY <1>1 DEF AppendUnderWay, files
<1>6. OperationSound'
  BY <1>1, <1>5 DEF OperationSound, Revs
<1>7. /\ lastRev \in Nat /\ lastRev' \in Nat /\ memory \in [Events -> Nat]
      /\ memory' \in [Events -> Nat]
  BY <1>1 DEF JournalInv, TypeInv
<1> QED BY <1>1, <1>4, <1>6, <1>7, FilesUntouched DEF JournalInv

LEMMA BeginUpdateStep ==
    ASSUME JournalInv, NEW todo \in Seq(Events), BeginUpdate(todo)
    PROVE  JournalInv'
<1> USE JournalAssumption
<1> DEFINE ids == {todo[i] : i \in DOMAIN todo}
           chunks == [i \in DOMAIN todo |-> Row(todo[i], lastRev')]
<1>0. DOMAIN todo = 1..Len(todo) /\ Len(todo) \in Nat /\ \A i \in 1..Len(todo) : todo[i] \in Events
  OBVIOUS
<1>1. /\ mode = "up" /\ lastRev' = lastRev + 1 /\ lastRev' \in Revs
      /\ \A e \in ids : memory[e] # 0
      /\ memory' = [e \in Events |-> IF e \in ids THEN lastRev' ELSE memory[e]]
      /\ op' = [kind |-> "update", todo |-> chunks, ids |-> ids, rev |-> lastRev']
      /\ UNCHANGED <<files, mode, acked, faults>>
  BY DEF BeginUpdate, JournalInv, TypeInv, Revs
<1>2. ids \subseteq Events
  BY <1>0
<1>3. chunks \in [1..Len(todo) -> Chunk] /\ \A i \in 1..Len(todo) : chunks[i] = Row(todo[i], lastRev')
  BY <1>0, <1>1, RowType
<1>4. chunks \in Seq(Chunk) /\ Len(chunks) = Len(todo)
  BY <1>0, <1>3
<1>5. \A e \in ids : \E i \in 1..Len(chunks) : chunks[i].id = e
  BY <1>0, <1>1, <1>3, <1>4, RowType
<1>6. \A i \in 1..Len(chunks) : chunks[i].id \in ids /\ chunks[i] = Row(chunks[i].id, lastRev')
  BY <1>0, <1>1, <1>3, <1>4, RowType
<1> HIDE DEF ids, chunks
<1>7. op' \in Operation
  BY <1>1, <1>2, <1>4 DEF Operation, Revs
<1>8. /\ memory' \in [Events -> 0..MaxRev] /\ lastRev \in Nat /\ lastRev' \in Nat
      /\ memory \in [Events -> 0..MaxRev]
  BY <1>1 DEF JournalInv, TypeInv, Revs
<1>9. TypeInv'
  BY <1>1, <1>7, <1>8 DEF JournalInv, TypeInv, files, Revs
<1>10. \A e \in ids : memory'[e] # 0
  BY <1>1, <1>2 DEF Revs
<1>11. UpdateUnderWay'
  BY <1>1, <1>5, <1>6, <1>10 DEF UpdateUnderWay
<1>12. OperationSound'
  BY <1>1, <1>11 DEF OperationSound, Revs
<1>13. \A e \in Events : /\ memory'[e] # 0 => memory[e] # 0
                        /\ memory'[e] \in {memory[e], lastRev'}
  BY <1>1, <1>8
<1> QED BY <1>1, <1>8, <1>9, <1>12, <1>13, FilesUntouched DEF JournalInv

\* f with one more chunk.
Grown(f, g, c) ==
    /\ g \in JournalFile /\ g.synced = f.synced
    /\ Len(g.rows) = Len(f.rows) + 1
    /\ \A i \in 1..Len(f.rows) : g.rows[i] = f.rows[i]
    /\ g.rows[Len(f.rows) + 1] = c

LEMMA FileGrows ==
    ASSUME NEW f \in JournalFile, NEW c \in Chunk
    PROVE  Grown(f, [f EXCEPT !.rows = @ \o <<c>>], c)
<1>1. f.rows \in Seq(Chunk) /\ <<c>> \in Seq(Chunk) /\ Len(<<c>>) = 1 /\ <<c>>[1] = c
  BY DEF JournalFile
<1>2. /\ f.rows \o <<c>> \in Seq(Chunk)
      /\ Len(f.rows \o <<c>>) = Len(f.rows) + 1
      /\ \A i \in 1..(Len(f.rows) + 1) :
           (f.rows \o <<c>>)[i] = IF i <= Len(f.rows) THEN f.rows[i] ELSE <<c>>[i - Len(f.rows)]
  BY <1>1, ConcatProperties
<1> DEFINE s == f.rows \o <<c>>
<1>3. /\ [f EXCEPT !.rows = @ \o <<c>>].rows = s
      /\ [f EXCEPT !.rows = @ \o <<c>>].synced = f.synced
      /\ [f EXCEPT !.rows = @ \o <<c>>] \in JournalFile
  BY <1>2 DEF JournalFile
<1>4. Len(f.rows) \in Nat
  BY <1>1
<1> QED BY <1>1, <1>2, <1>3, <1>4 DEF Grown

LEMMA GrownOrdered ==
    ASSUME NEW f \in JournalFile, NEW g \in JournalFile, NEW c \in Chunk, NEW r \in Nat,
           Grown(f, g, c), Ordered(f.rows), Passed(f.rows, r), c.rev = r
    PROVE  Ordered(g.rows) /\ Passed(g.rows, r)
<1>1. Len(f.rows) \in Nat /\ \A i \in 1..Len(f.rows) : f.rows[i].rev \in Nat
  BY ChunksAre DEF JournalFile
<1>2. \A i \in 1..Len(g.rows) : i \in 1..Len(f.rows) \/ i = Len(f.rows) + 1
  BY <1>1 DEF Grown
<1>3. Passed(g.rows, r)
  BY <1>1, <1>2 DEF Grown, Passed
<1>4. Ordered(g.rows)
  <2> SUFFICES ASSUME NEW i \in 1..Len(g.rows), NEW j \in 1..Len(g.rows), i <= j
               PROVE  g.rows[i].rev <= g.rows[j].rev
    BY DEF Ordered
  <2>1. CASE j \in 1..Len(f.rows)
    <3>1. i \in 1..Len(f.rows)
      BY <1>1, <2>1
    <3> QED BY <2>1, <3>1 DEF Grown, Ordered
  <2>2. CASE j = Len(f.rows) + 1
    <3>1. g.rows[j].rev = r
      BY <2>2 DEF Grown
    <3> QED BY <1>3, <3>1 DEF Passed
  <2> QED BY <1>2, <2>1, <2>2
<1> QED BY <1>3, <1>4

LEMMA GrownHasRow ==
    ASSUME NEW f \in JournalFile, NEW g \in JournalFile, NEW c, Grown(f, g, c),
           NEW e, NEW r
    PROVE  /\ HasRow(f.rows, f.synced, e, r) => HasRow(g.rows, g.synced, e, r)
           /\ HasRow(f.rows, Len(f.rows), e, r) => HasRow(g.rows, Len(g.rows), e, r)
BY DEF Grown, HasRow, JournalFile

\* A chunk of an append: no update of its event is in the files.
LEMMA BaseGrows ==
    ASSUME NEW f \in JournalFile, NEW g \in JournalFile, NEW c \in Chunk, Grown(f, g, c),
           NEW u \in Seq(Chunk), NEW nf, NEW ng, NEW nu,
           NEW ack \in [Events -> 0..MaxRev], NEW served \in SUBSET Events,
           RowsOf(f.rows, c.id) = {},
           Covered(f.rows, nf, u, nu, ack, served),
           \A e \in Events, r \in Nat : HasRow(f.rows, nf, e, r) => HasRow(g.rows, ng, e, r)
    PROVE  Covered(g.rows, ng, u, nu, ack, served)
<1>0. /\ \A j \in 1..Len(u) : u[j].id \in Events
      /\ \A e \in Events : ack[e] \in Nat
      /\ f.rows \in Seq(Chunk) /\ Len(f.rows) \in Nat
  BY ChunksAre, JournalAssumption DEF JournalFile
<1>1. \A j \in 1..Len(u) : HasRow(g.rows, ng, u[j].id, 0)
  BY <1>0 DEF Covered
<1>2. \A j \in 1..Len(u) : u[j].id # c.id
  <2>1. ~HasRow(f.rows, nf, c.id, 0)
    BY <1>0, RowsOfIs DEF HasRow
  <2> QED BY <2>1 DEF Covered
<1>3. \A i \in 1..Len(g.rows), j \in 1..Len(u) :
        g.rows[i].id = u[j].id => g.rows[i].rev <= u[j].rev
  <2> SUFFICES ASSUME NEW i \in 1..Len(g.rows), NEW j \in 1..Len(u), g.rows[i].id = u[j].id
               PROVE  g.rows[i].rev <= u[j].rev
    OBVIOUS
  <2>1. i # Len(f.rows) + 1
    BY <1>2 DEF Grown
  <2>2. i \in 1..Len(f.rows) /\ g.rows[i] = f.rows[i]
    BY <1>0, <2>1 DEF Grown
  <2> QED BY <2>2 DEF Covered
<1>4. \A e \in Events : ack[e] # 0 =>
        /\ HasRow(g.rows, ng, e, 0)
        /\ HasRow(g.rows, ng, e, ack[e]) \/ HasRow(u, nu, e, ack[e])
  BY <1>0 DEF Covered
<1>5. \A e \in served : HasRow(g.rows, ng, e, 0)
  BY DEF Covered
<1> QED BY <1>1, <1>3, <1>4, <1>5 DEF Covered

\* A chunk of an update, newer than everything, of an event that is served.
LEMMA UpdatesGrow ==
    ASSUME NEW f \in JournalFile, NEW g \in JournalFile, NEW c \in Chunk, Grown(f, g, c),
           NEW b \in Seq(Chunk), NEW nb, NEW nf, NEW ng,
           NEW ack \in [Events -> 0..MaxRev], NEW served, c.id \in served, Passed(b, c.rev),
           Covered(b, nb, f.rows, nf, ack, served),
           \A e \in Events, r \in Nat : HasRow(f.rows, nf, e, r) => HasRow(g.rows, ng, e, r)
    PROVE  Covered(b, nb, g.rows, ng, ack, served)
<1>0. Len(f.rows) \in Nat /\ \A e \in Events : ack[e] \in Nat
  BY JournalAssumption DEF JournalFile
<1>1. \A j \in 1..Len(g.rows) :
        g.rows[j] = c \/ (j \in 1..Len(f.rows) /\ g.rows[j] = f.rows[j])
  BY <1>0 DEF Grown
<1>2. \A j \in 1..Len(g.rows) : HasRow(b, nb, g.rows[j].id, 0)
  BY <1>1 DEF Covered
<1>3. \A i \in 1..Len(b), j \in 1..Len(g.rows) :
        b[i].id = g.rows[j].id => b[i].rev <= g.rows[j].rev
  BY <1>1 DEF Covered, Passed
<1>4. \A e \in Events : ack[e] # 0 =>
        /\ HasRow(b, nb, e, 0)
        /\ HasRow(b, nb, e, ack[e]) \/ HasRow(g.rows, ng, e, ack[e])
  BY <1>0 DEF Covered
<1> QED BY <1>2, <1>3, <1>4 DEF Covered

LEMMA FaultCounted ==
    ASSUME NEW f \in Faults
    PROVE  /\ f.short < MaxShortWrites =>
                LET g == [f EXCEPT !.short = @ + 1] IN
                  g \in Faults /\ g.short # 0 /\ g.kills = f.kills /\ g.power = f.power
           /\ f.sync < MaxSyncErrors =>
                LET g == [f EXCEPT !.sync = @ + 1] IN
                  g \in Faults /\ g.short = f.short /\ g.kills = f.kills /\ g.power = f.power
           /\ f.kills < MaxKills =>
                LET g == [f EXCEPT !.kills = @ + 1] IN
                  g \in Faults /\ g.short = f.short /\ g.kills # 0 /\ g.power = f.power
           /\ f.power < MaxPowerLosses =>
                LET g == [f EXCEPT !.power = @ + 1] IN
                  g \in Faults /\ g.short = f.short /\ g.kills = f.kills /\ g.power # 0
<1>1. /\ f.short \in Nat /\ f.sync \in Nat /\ f.kills \in Nat /\ f.power \in Nat
      /\ f.short < MaxShortWrites => f.short + 1 \in 0..MaxShortWrites
      /\ f.sync < MaxSyncErrors => f.sync + 1 \in 0..MaxSyncErrors
      /\ f.kills < MaxKills => f.kills + 1 \in 0..MaxKills
      /\ f.power < MaxPowerLosses => f.power + 1 \in 0..MaxPowerLosses
  BY JournalAssumption DEF Faults
<1> QED BY <1>1 DEF Faults

\* The chunk an operation writes, whole or cut short.
LEMMA ChunkWritten ==
    ASSUME JournalInv, op.todo # <<>>, NEW c \in Chunk,
           c.id = Head(op.todo).id, c.rev = op.rev, AppendChunks(<<c>>),
           UNCHANGED <<memory, mode, acked, lastRev>>,
           Unharmed' => Unharmed, faults'.power = faults.power,
           faults'.short = 0 => faults.short = 0 /\ c.part = "row"
    PROVE  /\ RevsGrow' /\ TailsTorn' /\ NothingLost' /\ OpensSynced' /\ AckedServed'
           /\ base' \in JournalFile /\ base'.synced \in 0..Len(base'.rows)
           /\ updates' \in JournalFile /\ updates'.synced \in 0..Len(updates'.rows)
           /\ op.kind = "append" => UNCHANGED updates /\ Grown(base, base', c)
           /\ op.kind # "append" => UNCHANGED base /\ Grown(updates, updates', c)
<1> USE JournalAssumption
<1>0. /\ base \in JournalFile /\ base.synced \in 0..Len(base.rows)
      /\ updates \in JournalFile /\ updates.synced \in 0..Len(updates.rows)
      /\ base.rows \in Seq(Chunk) /\ updates.rows \in Seq(Chunk)
      /\ Len(base.rows) \in Nat /\ Len(updates.rows) \in Nat
      /\ acked \in [Events -> 0..MaxRev] /\ Served \in SUBSET Events
  BY DEF JournalInv, TypeInv, JournalFile, Served
<1>1. /\ mode = "up" /\ op.rev = lastRev /\ lastRev \in Nat
      /\ op.kind = "append" => AppendUnderWay
      /\ op.kind # "append" => UpdateUnderWay
  <2>1. op # NoOp
    BY DEF NoOp
  <2>2. lastRev \in Nat
    BY DEF JournalInv, TypeInv
  <2> QED BY <2>1, <2>2 DEF JournalInv, OperationSound, AppendUnderWay, UpdateUnderWay
<1>2. Served' = Served
  BY DEF Served
<1>3. OpensSynced' /\ AckedServed'
  BY <1>1 DEF JournalInv, OpensSynced, AckedServed
<1>4. CASE op.kind = "append"
  <2>1. UNCHANGED updates /\ Grown(base, base', c)
    BY <1>0, <1>4, FileGrows DEF AppendChunks
  <2>2. RowsOf(base.rows, c.id) = {}
    <3>1. PICK e \in Events : op.todo = <<Row(e, op.rev)>> /\ RowsOf(base.rows, e) = {}
      BY <1>1, <1>4 DEF AppendUnderWay
    <3>2. c.id = e
      BY <3>1 DEF Row
    <3> QED BY <3>1, <3>2
  <2>3. base' \in JournalFile /\ base'.synced \in 0..Len(base'.rows)
    BY <1>0, <2>1 DEF Grown
  <2>4. RevsGrow'
    BY <1>0, <1>1, <2>1, <2>3, GrownOrdered DEF JournalInv, RevsGrow
  <2>5. TailsTorn'
    <3> SUFFICES ASSUME faults'.short = 0
                 PROVE  AllRows(base'.rows) /\ AllRows(updates'.rows)
      BY <1>1 DEF TailsTorn, TailOnly, AllRows
    <3>1. AllRows(base.rows) /\ AllRows(updates.rows) /\ c.part = "row"
      BY <1>1 DEF JournalInv, TailsTorn
    <3>2. \A i \in 1..Len(base'.rows) : i \in 1..Len(base.rows) \/ i = Len(base.rows) + 1
      BY <1>0, <2>1 DEF Grown
    <3> QED BY <2>1, <3>1, <3>2 DEF AllRows, Grown
  <2>6. \A e \in Events, r \in Nat :
          /\ HasRow(base.rows, base.synced, e, r) => HasRow(base'.rows, base'.synced, e, r)
          /\ HasRow(base.rows, Len(base.rows), e, r) => HasRow(base'.rows, Len(base'.rows), e, r)
    BY <1>0, <2>1, <2>3, GrownHasRow
  <2>7. NothingLost'
    <3>1. Unharmed' =>
            Covered(base'.rows, base'.synced, updates.rows, updates.synced, acked, Served)
      BY <1>0, <2>1, <2>2, <2>3, <2>6, BaseGrows DEF JournalInv, NothingLost
    <3>2. faults'.power = 0 =>
            Covered(base'.rows, Len(base'.rows), updates.rows, Len(updates.rows), acked, Served)
      BY <1>0, <2>1, <2>2, <2>3, <2>6, BaseGrows DEF JournalInv, NothingLost
    <3> QED BY <1>2, <2>1, <3>1, <3>2 DEF NothingLost
  <2> QED BY <1>0, <1>3, <1>4, <2>1, <2>3, <2>4, <2>5, <2>7
<1>5. CASE op.kind # "append"
  <2>1. UNCHANGED base /\ Grown(updates, updates', c)
    BY <1>0, <1>5, FileGrows DEF AppendChunks
  <2>2. c.id \in Served
    <3>1. Head(op.todo) = op.todo[1] /\ 1 \in 1..Len(op.todo)
      BY DEF JournalInv, TypeInv, Operation
    <3>2. c.id \in op.ids /\ op.ids \subseteq Events
      BY <1>1, <1>5, <3>1 DEF UpdateUnderWay, JournalInv, TypeInv, Operation
    <3> QED BY <1>1, <1>5, <3>2 DEF UpdateUnderWay, Served
  <2>3. updates' \in JournalFile /\ updates'.synced \in 0..Len(updates'.rows)
    BY <1>0, <2>1 DEF Grown
  <2>4. RevsGrow'
    BY <1>0, <1>1, <2>1, <2>3, GrownOrdered DEF JournalInv, RevsGrow
  <2>5. TailsTorn'
    <3> SUFFICES ASSUME faults'.short = 0
                 PROVE  AllRows(base'.rows) /\ AllRows(updates'.rows)
      BY <1>1 DEF TailsTorn, TailOnly, AllRows
    <3>1. AllRows(base.rows) /\ AllRows(updates.rows) /\ c.part = "row"
      BY <1>1 DEF JournalInv, TailsTorn
    <3>2. \A i \in 1..Len(updates'.rows) :
            i \in 1..Len(updates.rows) \/ i = Len(updates.rows) + 1
      BY <1>0, <2>1 DEF Grown
    <3> QED BY <2>1, <3>1, <3>2 DEF AllRows, Grown
  <2>6. \A e \in Events, r \in Nat :
          /\ HasRow(updates.rows, updates.synced, e, r)
               => HasRow(updates'.rows, updates'.synced, e, r)
          /\ HasRow(updates.rows, Len(updates.rows), e, r)
               => HasRow(updates'.rows, Len(updates'.rows), e, r)
    BY <1>0, <2>1, <2>3, GrownHasRow
  <2>7. Passed(base.rows, c.rev)
    BY <1>1 DEF JournalInv, RevsGrow
  <2>8. NothingLost'
    <3>1. Unharmed' =>
            Covered(base.rows, base.synced, updates'.rows, updates'.synced, acked, Served)
      BY <1>0, <2>1, <2>2, <2>3, <2>6, <2>7, UpdatesGrow DEF JournalInv, NothingLost
    <3>2. faults'.power = 0 =>
            Covered(base.rows, Len(base.rows), updates'.rows, Len(updates'.rows), acked, Served)
      BY <1>0, <2>1, <2>2, <2>3, <2>6, <2>7, UpdatesGrow DEF JournalInv, NothingLost
    <3> QED BY <1>2, <2>1, <3>1, <3>2 DEF NothingLost
  <2> QED BY <1>0, <1>3, <1>5, <2>1, <2>3, <2>4, <2>5, <2>8
<1> QED BY <1>4, <1>5

LEMMA WriteRowStep ==
    ASSUME JournalInv, WriteRow
    PROVE  JournalInv'
<1> USE JournalAssumption
<1> DEFINE c == Head(op.todo)
<1>1. /\ op.todo # <<>> /\ AppendChunks(<<c>>) /\ op' = [op EXCEPT !.todo = Tail(op.todo)]
      /\ UNCHANGED <<memory, mode, acked, lastRev, faults>>
  BY DEF WriteRow
<1>2. /\ op \in Operation /\ op.todo \in Seq(Chunk) /\ c \in Chunk /\ c = op.todo[1]
      /\ Tail(op.todo) \in Seq(Chunk) /\ Len(Tail(op.todo)) = Len(op.todo) - 1
      /\ \A i \in 1..Len(Tail(op.todo)) : Tail(op.todo)[i] = op.todo[i + 1]
      /\ Len(op.todo) \in Nat \ {0}
  BY <1>1, HeadTailProperties DEF JournalInv, TypeInv, Operation
<1>3. /\ mode = "up" /\ op.rev = lastRev /\ op.rev # 0 /\ (AppendUnderWay \/ UpdateUnderWay)
  BY <1>1 DEF JournalInv, OperationSound, NoOp
<1>4. c.rev = op.rev /\ c.part = "row" /\ c = Row(c.id, op.rev)
  <2>1. CASE AppendUnderWay
    <3>1. PICK e \in Events : op.todo = <<Row(e, op.rev)>>
      BY <1>1, <2>1 DEF AppendUnderWay
    <3> QED BY <3>1 DEF Row
  <2>2. CASE UpdateUnderWay
    BY <1>2, <2>2 DEF UpdateUnderWay, Row
  <2> QED BY <1>3, <2>1, <2>2
<1>5. op' \in Operation /\ op'.todo = Tail(op.todo) /\ op'.kind = op.kind /\ op'.ids = op.ids
      /\ op'.rev = op.rev
  BY <1>1, <1>2 DEF Operation
<1> HIDE DEF c
<1>6. /\ RevsGrow' /\ TailsTorn' /\ NothingLost' /\ OpensSynced' /\ AckedServed'
      /\ base' \in JournalFile /\ base'.synced \in 0..Len(base'.rows)
      /\ updates' \in JournalFile /\ updates'.synced \in 0..Len(updates'.rows)
      /\ op.kind = "append" => UNCHANGED updates /\ Grown(base, base', c)
      /\ op.kind # "append" => UNCHANGED base /\ Grown(updates, updates', c)
  <2>1. Unharmed' => Unharmed
    BY <1>1 DEF Unharmed
  <2>2. c.id = Head(op.todo).id
    BY DEF c
  <2> QED BY <1>1, <1>2, <1>4, <2>1, <2>2, ChunkWritten
<1>7. TypeInv'
  BY <1>1, <1>5, <1>6 DEF JournalInv, TypeInv
<1>8. CASE op.kind = "append"
  <2>1. PICK e \in Events : op.ids = {e} /\ op.todo = <<Row(e, op.rev)>>
    BY <1>1, <1>3, <1>8 DEF AppendUnderWay, UpdateUnderWay
  <2>2. Len(op.todo) = 1 /\ c = Row(e, op.rev)
    BY <1>2, <2>1
  <2>3. op'.todo = <<>>
    <3>1. Len(op'.todo) = 0 /\ op'.todo \in Seq(Chunk)
      BY <1>2, <1>5, <2>2
    <3> QED BY <3>1, EmptySeq
  <2>4. Len(base.rows) \in Nat
    BY DEF JournalInv, TypeInv, JournalFile
  <2>5. Len(base'.rows) > 0 /\ base'.rows[Len(base'.rows)] = Row(e, op'.rev)
    BY <1>5, <1>6, <1>8, <2>2, <2>4 DEF Grown
  <2>6. AppendUnderWay'
    BY <1>5, <1>8, <2>1, <2>3, <2>5 DEF AppendUnderWay
  <2>7. OperationSound'
    BY <1>1, <1>3, <1>5, <2>6 DEF OperationSound
  <2> QED BY <1>6, <1>7, <2>7 DEF JournalInv
<1>9. CASE op.kind # "append"
  <2>1. UpdateUnderWay
    BY <1>3, <1>9 DEF AppendUnderWay
  <2>2. \A i \in 1..Len(op'.todo) :
          op'.todo[i].id \in op'.ids /\ op'.todo[i] = Row(op'.todo[i].id, op'.rev)
    <3> SUFFICES ASSUME NEW i \in 1..Len(Tail(op.todo))
                 PROVE  /\ Tail(op.todo)[i].id \in op.ids
                        /\ Tail(op.todo)[i] = Row(Tail(op.todo)[i].id, op.rev)
      BY <1>5
    <3>1. i + 1 \in 1..Len(op.todo) /\ Tail(op.todo)[i] = op.todo[i + 1]
      BY <1>2
    <3> QED BY <2>1, <3>1 DEF UpdateUnderWay
  <2>3. Len(updates.rows) \in Nat
    BY DEF JournalInv, TypeInv, JournalFile
  <2>4. ASSUME NEW e \in op.ids
        PROVE  \/ \E i \in 1..Len(op'.todo) : op'.todo[i].id = e
               \/ \E j \in 1..Len(updates'.rows) : updates'.rows[j] = Row(e, op'.rev)
    <3>1. CASE \E j \in 1..Len(updates.rows) : updates.rows[j] = Row(e, op.rev)
      <4>1. PICK j \in 1..Len(updates.rows) : updates.rows[j] = Row(e, op.rev)
        BY <3>1
      <4>2. j \in 1..Len(updates'.rows) /\ updates'.rows[j] = Row(e, op'.rev)
        BY <1>5, <1>6, <1>9, <2>3, <4>1 DEF Grown
      <4> QED BY <4>2
    <3>2. CASE c.id = e
      <4>1. Len(updates.rows) + 1 \in 1..Len(updates'.rows)
        BY <1>6, <1>9, <2>3 DEF Grown
      <4>2. updates'.rows[Len(updates.rows) + 1] = Row(e, op'.rev)
        BY <1>4, <1>5, <1>6, <1>9, <3>2 DEF Grown
      <4> QED BY <4>1, <4>2
    <3>3. CASE c.id # e /\ \E i \in 1..Len(op.todo) : op.todo[i].id = e
      <4>1. PICK i \in 1..Len(op.todo) : op.todo[i].id = e
        BY <3>3
      <4>2. i # 1
        BY <1>2, <3>3, <4>1
      <4>3. i - 1 \in 1..Len(Tail(op.todo)) /\ Tail(op.todo)[i - 1] = op.todo[i - 1 + 1]
        BY <1>2, <4>1, <4>2
      <4>4. Tail(op.todo)[i - 1].id = e
        BY <1>2, <4>1, <4>3
      <4> QED BY <1>5, <4>3, <4>4
    <3> QED BY <2>1, <3>1, <3>2, <3>3 DEF UpdateUnderWay
  <2>5. UpdateUnderWay'
    BY <1>1, <1>5, <2>1, <2>2, <2>4 DEF UpdateUnderWay
  <2>6. OperationSound'
    BY <1>1, <1>3, <1>5, <2>5 DEF OperationSound
  <2> QED BY <1>6, <1>7, <2>6 DEF JournalInv
<1> QED BY <1>8, <1>9

LEMMA ShortWriteStep ==
    ASSUME JournalInv, NEW rest \in {"open", "torn"}, ShortWrite(rest)
    PROVE  JournalInv'
<1> USE JournalAssumption
<1> DEFINE c == [Head(op.todo) EXCEPT !.part = rest]
<1>1. /\ op.todo # <<>> /\ AppendChunks(<<c>>) /\ op' = NoOp
      /\ faults' = [faults EXCEPT !.short = @ + 1] /\ faults.short < MaxShortWrites
      /\ UNCHANGED <<memory, mode, acked, lastRev>>
  BY DEF ShortWrite
<1>2. faults' \in Faults /\ faults'.short # 0 /\ faults'.power = faults.power
  BY <1>1, FaultCounted DEF JournalInv, TypeInv
<1>3. op.todo \in Seq(Chunk) /\ Head(op.todo) \in Chunk /\ Head(op.todo) = op.todo[1]
      /\ 1 \in 1..Len(op.todo)
  BY <1>1, HeadTailProperties DEF JournalInv, TypeInv, Operation
<1>4. Head(op.todo).rev = op.rev
  <2>1. AppendUnderWay \/ UpdateUnderWay
    BY <1>1 DEF JournalInv, OperationSound, NoOp
  <2>2. CASE AppendUnderWay
    <3>1. PICK e \in Events : op.todo = <<Row(e, op.rev)>>
      BY <1>1, <2>2 DEF AppendUnderWay
    <3> QED BY <3>1 DEF Row
  <2>3. CASE UpdateUnderWay
    <3>1. op.todo[1] = Row(op.todo[1].id, op.rev)
      BY <1>3, <2>3 DEF UpdateUnderWay
    <3>2. Row(op.todo[1].id, op.rev).rev = op.rev
      BY DEF Row
    <3> QED BY <1>3, <3>1, <3>2
  <2> QED BY <2>1, <2>2, <2>3
<1>5. c \in Chunk /\ c.id = Head(op.todo).id /\ c.rev = op.rev
  BY <1>3, <1>4 DEF Chunk
<1> HIDE DEF c
<1>6. ~Unharmed'
  BY <1>2 DEF Unharmed
<1>7. /\ RevsGrow' /\ TailsTorn' /\ NothingLost' /\ OpensSynced' /\ AckedServed'
      /\ base' \in JournalFile /\ base'.synced \in 0..Len(base'.rows)
      /\ updates' \in JournalFile /\ updates'.synced \in 0..Len(updates'.rows)
  BY <1>1, <1>2, <1>5, <1>6, ChunkWritten
<1>8. NoOp \in Operation
  BY DEF NoOp, Operation
<1>9. TypeInv'
  BY <1>1, <1>2, <1>7, <1>8 DEF JournalInv, TypeInv
<1> QED BY <1>1, <1>7, <1>9 DEF JournalInv, OperationSound

LEMMA SyncFailsStep ==
    ASSUME JournalInv, SyncFails
    PROVE  JournalInv'
<1> USE JournalAssumption
<1>1. /\ op' = NoOp /\ UNCHANGED <<files, memory, mode, acked, lastRev>>
      /\ faults' = [faults EXCEPT !.sync = @ + 1] /\ faults.sync < MaxSyncErrors
  BY DEF SyncFails
<1>2. /\ faults' \in Faults /\ faults'.short = faults.short /\ faults'.kills = faults.kills
      /\ faults'.power = faults.power
  BY <1>1, FaultCounted DEF JournalInv, TypeInv
<1>3. NoOp \in Operation
  BY DEF NoOp, Operation
<1>4. TypeInv'
  BY <1>1, <1>2, <1>3 DEF JournalInv, TypeInv, files
<1>5. lastRev \in Nat /\ memory \in [Events -> Nat]
  BY DEF JournalInv, TypeInv
<1> QED BY <1>1, <1>2, <1>4, <1>5, FilesUntouched DEF JournalInv, OperationSound

LEMMA SyncAndReturnStep ==
    ASSUME JournalInv, SyncAndReturn
    PROVE  JournalInv'
<1> USE JournalAssumption
<1>0. /\ base \in JournalFile /\ base.synced \in 0..Len(base.rows)
      /\ updates \in JournalFile /\ updates.synced \in 0..Len(updates.rows)
      /\ base.rows \in Seq(Chunk) /\ updates.rows \in Seq(Chunk)
      /\ Len(base.rows) \in Nat /\ Len(updates.rows) \in Nat
      /\ acked \in [Events -> 0..MaxRev] /\ memory \in [Events -> 0..MaxRev]
      /\ op.ids \subseteq Events
  BY DEF JournalInv, TypeInv, JournalFile, Operation
<1>1. /\ op # NoOp /\ op.todo = <<>> /\ op' = NoOp /\ UNCHANGED <<mode, lastRev, faults>>
      /\ acked' = [e \in Events |-> IF e \in op.ids THEN op.rev ELSE acked[e]]
      /\ memory' = [e \in Events |-> IF e \in op.ids THEN op.rev ELSE memory[e]]
  BY DEF SyncAndReturn, Acknowledge
<1>2. /\ mode = "up" /\ op.rev = lastRev /\ op.rev \in 1..MaxRev /\ (AppendUnderWay \/ UpdateUnderWay)
  BY <1>1 DEF JournalInv, OperationSound, TypeInv, Operation
<1>3. /\ base' \in JournalFile /\ base'.rows = base.rows
      /\ base'.synced = IF op.kind = "append" THEN Len(base.rows) ELSE base.synced
      /\ updates' \in JournalFile /\ updates'.rows = updates.rows
      /\ updates'.synced = IF op.kind = "append" THEN updates.synced ELSE Len(updates.rows)
  BY <1>0 DEF SyncAndReturn, JournalFile
<1>4. acked' \in [Events -> 0..MaxRev] /\ memory' \in [Events -> 0..MaxRev]
  BY <1>0, <1>1, <1>2
<1>5. TypeInv'
  <2>1. NoOp \in Operation
    BY DEF NoOp, Operation
  <2> QED BY <1>0, <1>1, <1>3, <1>4, <2>1 DEF JournalInv, TypeInv
<1>6. RevsGrow' /\ TailsTorn' /\ OpensSynced' /\ OperationSound'
  BY <1>1, <1>2, <1>3 DEF JournalInv, RevsGrow, TailsTorn, OpensSynced, OperationSound
<1>7. AckedServed'
  <2> SUFFICES ASSUME faults.power = 0, NEW e \in Events PROVE acked'[e] <= memory'[e]
    BY <1>1 DEF AckedServed
  <2>1. acked[e] <= memory[e]
    BY <1>2 DEF JournalInv, AckedServed
  <2> QED BY <1>1, <1>2, <2>1
\* The rows of the operation are in the file that is synced.
<1>8. ASSUME NEW nb \in 0..Len(base.rows), NEW nu \in 0..Len(updates.rows),
             NEW mb \in 0..Len(base.rows), NEW mu \in 0..Len(updates.rows),
             nb <= mb, nu <= mu,
             op.kind = "append" => mb = Len(base.rows),
             op.kind # "append" => mu = Len(updates.rows),
             Covered(base.rows, nb, updates.rows, nu, acked, Served)
      PROVE  Covered(base.rows, mb, updates.rows, mu, acked', Served')
  <2>1. \A e \in Events, r \in Nat :
          /\ HasRow(base.rows, nb, e, r) => HasRow(base.rows, mb, e, r)
          /\ HasRow(updates.rows, nu, e, r) => HasRow(updates.rows, mu, e, r)
    BY <1>0, <1>8, MoreCovered
  <2>2. ASSUME NEW e \in op.ids
        PROVE  /\ HasRow(base.rows, mb, e, 0)
               /\ HasRow(base.rows, mb, e, op.rev) \/ HasRow(updates.rows, mu, e, op.rev)
    <3>0. e \in Events
      BY <1>0
    <3>1. CASE AppendUnderWay
      <4>1. Len(base.rows) \in 1..Len(base.rows) /\ base.rows[Len(base.rows)] = Row(e, op.rev)
        BY <1>0, <1>1, <3>1 DEF AppendUnderWay
      <4>2. mb = Len(base.rows)
        BY <1>8, <3>1 DEF AppendUnderWay
      <4> QED BY <1>2, <4>1, <4>2 DEF HasRow, Row
    <3>2. CASE UpdateUnderWay
      <4>1. HasRow(base.rows, mb, e, 0)
        BY <1>2, <1>8, <2>1, <3>0, <3>2 DEF UpdateUnderWay, Covered, Served
      <4>2. PICK j \in 1..Len(updates.rows) : updates.rows[j] = Row(e, op.rev)
        BY <1>1, <3>2 DEF UpdateUnderWay
      <4>3. mu = Len(updates.rows)
        BY <1>8, <3>2 DEF UpdateUnderWay
      <4>4. HasRow(updates.rows, mu, e, op.rev)
        <5>1. /\ updates.rows[j].part = "row" /\ updates.rows[j].id = e
              /\ updates.rows[j].rev = op.rev
          BY <4>2 DEF Row
        <5> QED BY <1>0, <1>2, <4>3, <5>1 DEF HasRow
      <4> QED BY <4>1, <4>4
    <3> QED BY <1>2, <3>1, <3>2
  <2>3. \A j \in 1..Len(updates.rows) : HasRow(base.rows, mb, updates.rows[j].id, 0)
    <3>1. \A j \in 1..Len(updates.rows) : updates.rows[j].id \in Events
      BY <1>0, ChunksAre
    <3> QED BY <1>8, <2>1, <3>1 DEF Covered
  <2>4. \A e \in Events : acked'[e] # 0 =>
          /\ HasRow(base.rows, mb, e, 0)
          /\ HasRow(base.rows, mb, e, acked'[e]) \/ HasRow(updates.rows, mu, e, acked'[e])
    <3> SUFFICES ASSUME NEW e \in Events, acked'[e] # 0
                 PROVE  /\ HasRow(base.rows, mb, e, 0)
                        /\ HasRow(base.rows, mb, e, acked'[e]) \/ HasRow(updates.rows, mu, e, acked'[e])
      OBVIOUS
    <3>1. CASE e \in op.ids
      BY <1>1, <2>2, <3>1
    <3>2. CASE e \notin op.ids
      <4>1. acked'[e] = acked[e] /\ acked[e] \in Nat
        BY <1>0, <1>1, <3>2
      <4> QED BY <1>8, <2>1, <4>1 DEF Covered
    <3> QED BY <3>1, <3>2
  <2>5. \A e \in Served' : HasRow(base.rows, mb, e, 0)
    <3> SUFFICES ASSUME NEW e \in Served' PROVE HasRow(base.rows, mb, e, 0)
      OBVIOUS
    <3>1. e \in Events /\ (e \in op.ids \/ e \in Served)
      BY <1>1, <1>2 DEF Served
    <3> QED BY <1>8, <2>1, <2>2, <3>1 DEF Covered
  <2> QED BY <1>8, <2>3, <2>4, <2>5 DEF Covered
<1>9. NothingLost'
  <2>1. Unharmed' =>
          Covered(base.rows, base'.synced, updates.rows, updates'.synced, acked', Served')
    <3> SUFFICES ASSUME Unharmed
                 PROVE  Covered(base.rows, base'.synced, updates.rows, updates'.synced, acked', Served')
      BY <1>1 DEF Unharmed
    <3>1. Covered(base.rows, base.synced, updates.rows, updates.synced, acked, Served)
      BY DEF JournalInv, NothingLost
    <3>2. /\ base'.synced \in 0..Len(base.rows) /\ updates'.synced \in 0..Len(updates.rows)
          /\ base.synced <= base'.synced /\ updates.synced <= updates'.synced
          /\ op.kind = "append" => base'.synced = Len(base.rows)
          /\ op.kind # "append" => updates'.synced = Len(updates.rows)
      BY <1>0, <1>3
    <3> QED BY <1>0, <1>8, <3>1, <3>2
  <2>2. faults'.power = 0 =>
          Covered(base.rows, Len(base.rows), updates.rows, Len(updates.rows), acked', Served')
    <3> SUFFICES ASSUME faults.power = 0
                 PROVE  Covered(base.rows, Len(base.rows), updates.rows, Len(updates.rows), acked', Served')
      BY <1>1
    <3>1. Covered(base.rows, Len(base.rows), updates.rows, Len(updates.rows), acked, Served)
      BY DEF JournalInv, NothingLost
    <3>2. Len(base.rows) \in 0..Len(base.rows) /\ Len(updates.rows) \in 0..Len(updates.rows)
      BY <1>0
    <3> QED BY <1>8, <3>1, <3>2
  <2> QED BY <1>3, <2>1, <2>2 DEF NothingLost
<1> QED BY <1>5, <1>6, <1>7, <1>9 DEF JournalInv

-----------------------------------------------------------------------------
(* Failures and NewEventStore. *)

\* A store that is down keeps its invariant as long as its files do.
LEMMA DownStep ==
    ASSUME JournalInv, GoesDown, faults' \in Faults,
           base' \in JournalFile, base'.synced \in 0..Len(base'.rows), Kept(base, base'),
           updates' \in JournalFile, updates'.synced \in 0..Len(updates'.rows),
           Kept(updates, updates'),
           faults'.short = 0 =>
             faults.short = 0 /\ TailOnly(base'.rows) /\ TailOnly(updates'.rows),
           Unharmed' => base'.synced = Len(base'.rows),
           Unharmed' =>
             Covered(base'.rows, base'.synced, updates'.rows, updates'.synced, acked, {}),
           faults'.power = 0 =>
             Covered(base'.rows, Len(base'.rows), updates'.rows, Len(updates'.rows), acked, {})
    PROVE  JournalInv'
<1> USE JournalAssumption
<1>1. mode' = "down" /\ memory' = Absent /\ op' = NoOp /\ UNCHANGED <<acked, lastRev>>
  BY DEF GoesDown
<1>2. TypeInv'
  <2>1. NoOp \in Operation
    BY DEF NoOp, Operation
  <2>2. Absent \in [Events -> 0..MaxRev]
    BY DEF Absent
  <2> QED BY <1>1, <2>1, <2>2 DEF JournalInv, TypeInv
<1>3. RevsGrow'
  <2>1. base \in JournalFile /\ updates \in JournalFile
    BY DEF JournalInv, TypeInv
  <2>2. /\ Ordered(base.rows) /\ Passed(base.rows, lastRev)
        /\ Ordered(updates.rows) /\ Passed(updates.rows, lastRev)
        /\ \A e \in Events : acked[e] <= lastRev
    BY DEF JournalInv, RevsGrow
  <2>3. Ordered(base'.rows) /\ Passed(base'.rows, lastRev)
    BY <2>1, <2>2, KeptOrdered
  <2>4. Ordered(updates'.rows) /\ Passed(updates'.rows, lastRev)
    BY <2>1, <2>2, KeptOrdered
  <2> QED BY <1>1, <2>2, <2>3, <2>4 DEF RevsGrow
<1>4. OperationSound' /\ OpensSynced' /\ AckedServed'
  BY <1>1 DEF OperationSound, OpensSynced, AckedServed
<1>5. TailsTorn'
  BY <1>1 DEF TailsTorn
<1>6. Served' = {}
  BY <1>1 DEF Served
<1>7. NothingLost'
  BY <1>1, <1>6 DEF NothingLost
<1> QED BY <1>2, <1>3, <1>4, <1>5, <1>7 DEF JournalInv

LEMMA KillStep == ASSUME JournalInv, Kill PROVE JournalInv'
<1>1. /\ GoesDown /\ UNCHANGED <<base, updates>> /\ faults.kills < MaxKills
      /\ faults' = [faults EXCEPT !.kills = @ + 1]
  BY DEF Kill, files
<1>2. faults' \in Faults /\ faults'.short = faults.short /\ faults'.kills # 0
      /\ faults'.power = faults.power
  BY <1>1, FaultCounted DEF JournalInv, TypeInv
<1>3. /\ base \in JournalFile /\ base.synced \in 0..Len(base.rows) /\ Len(base.rows) \in Nat
      /\ updates \in JournalFile /\ updates.synced \in 0..Len(updates.rows)
      /\ Len(updates.rows) \in Nat
  BY DEF JournalInv, TypeInv, JournalFile
<1>4. Kept(base, base') /\ Kept(updates, updates')
  BY <1>1, <1>3, KeptItself
<1>5. ~Unharmed'
  BY <1>2 DEF Unharmed
<1>6. faults'.short = 0 =>
        faults.short = 0 /\ TailOnly(base'.rows) /\ TailOnly(updates'.rows)
  BY <1>1, <1>2 DEF JournalInv, TailsTorn
<1>7. faults'.power = 0 =>
        Covered(base'.rows, Len(base'.rows), updates'.rows, Len(updates'.rows), acked, {})
  BY <1>1, <1>2 DEF JournalInv, NothingLost, Covered
<1> QED BY <1>1, <1>2, <1>3, <1>4, <1>5, <1>6, <1>7, DownStep

LEMMA PowerLossStep == ASSUME JournalInv, PowerLoss PROVE JournalInv'
<1>1. /\ GoesDown /\ base' \in Survivors(base) /\ updates' \in Survivors(updates)
      /\ faults.power < MaxPowerLosses /\ faults' = [faults EXCEPT !.power = @ + 1]
  BY DEF PowerLoss
<1>2. /\ faults' \in Faults /\ faults'.short = faults.short /\ faults'.kills = faults.kills
      /\ faults'.power # 0
  BY <1>1, FaultCounted DEF JournalInv, TypeInv
<1>3. /\ base \in JournalFile /\ base.synced \in 0..Len(base.rows)
      /\ updates \in JournalFile /\ updates.synced \in 0..Len(updates.rows)
      /\ acked \in [Events -> 0..MaxRev]
  BY DEF JournalInv, TypeInv
<1>4. /\ base' \in JournalFile /\ base'.synced = Len(base'.rows) /\ Kept(base, base')
      /\ TailOnly(base.rows) => TailOnly(base'.rows)
      /\ Len(base'.rows) \in Nat
  BY <1>1, <1>3, SurvivorsKeep DEF JournalFile
<1>5. /\ updates' \in JournalFile /\ updates'.synced = Len(updates'.rows)
      /\ Kept(updates, updates')
      /\ TailOnly(updates.rows) => TailOnly(updates'.rows)
      /\ Len(updates'.rows) \in Nat
  BY <1>1, <1>3, SurvivorsKeep DEF JournalFile
<1>6. faults'.short = 0 =>
        faults.short = 0 /\ TailOnly(base'.rows) /\ TailOnly(updates'.rows)
  BY <1>2, <1>4, <1>5 DEF JournalInv, TailsTorn
<1>7. ASSUME Unharmed'
      PROVE  Covered(base'.rows, base'.synced, updates'.rows, updates'.synced, acked, {})
  <2>1. Covered(base.rows, base.synced, updates.rows, updates.synced, acked, Served)
    BY <1>2, <1>7 DEF JournalInv, NothingLost, Unharmed
  <2>2. \A e \in Events, r \in Nat :
          /\ HasRow(base.rows, base.synced, e, r) => HasRow(base'.rows, base'.synced, e, r)
          /\ HasRow(updates.rows, updates.synced, e, r)
               => HasRow(updates'.rows, updates'.synced, e, r)
    BY <1>1, <1>3, SurvivorsCount
  <2> QED BY <1>3, <1>4, <1>5, <2>1, <2>2, StaysCovered
<1> QED BY <1>1, <1>2, <1>3, <1>4, <1>5, <1>6, <1>7, DownStep

LEMMA GoodLines == ASSUME NEW rows, AllRows(rows), DOMAIN rows = 1..Len(rows) PROVE ~BadLine(rows)
BY DEF AllRows, BadLine

LEMMA OpenBaseStep == ASSUME JournalInv, OpenBase PROVE JournalInv'
<1>1. /\ mode = "down" /\ base' = Repair(base)
      /\ mode' = IF BadLine(base'.rows) THEN "failed" ELSE "base"
      /\ UNCHANGED <<updates, memory, op, acked, lastRev, faults>>
  BY DEF OpenBase
<1>2. /\ base \in JournalFile /\ base.synced \in 0..Len(base.rows)
      /\ updates \in JournalFile /\ Len(updates.rows) \in Nat
      /\ acked \in [Events -> 0..MaxRev] /\ op = NoOp
  BY <1>1 DEF JournalInv, TypeInv, OperationSound, JournalFile
<1>3. /\ base' \in JournalFile /\ base'.synced \in 0..Len(base'.rows) /\ Kept(base, base')
      /\ base.synced = Len(base.rows) => base'.synced = Len(base'.rows)
      /\ TailOnly(base.rows) => AllRows(base'.rows)
  BY <1>1, <1>2, RepairKeeps
<1>4. TypeInv'
  BY <1>1, <1>3 DEF JournalInv, TypeInv
<1>5. RevsGrow'
  <2>1. Ordered(base'.rows) /\ Passed(base'.rows, lastRev)
    BY <1>2, <1>3, KeptOrdered DEF JournalInv, RevsGrow
  <2> QED BY <1>1, <2>1 DEF JournalInv, RevsGrow
<1>6. TailsTorn'
  <2> SUFFICES ASSUME faults.short = 0
               PROVE  mode' = "base" /\ AllRows(base'.rows) /\ TailOnly(updates.rows)
    BY <1>1 DEF TailsTorn, AllRows, TailOnly
  <2>1. TailOnly(base.rows) /\ TailOnly(updates.rows)
    BY DEF JournalInv, TailsTorn
  <2>2. DOMAIN base'.rows = 1..Len(base'.rows)
    BY <1>3 DEF JournalFile
  <2> QED BY <1>1, <1>3, <2>1, <2>2, GoodLines
<1>7. Unharmed' = Unharmed /\ Served' = {}
  BY <1>1 DEF Unharmed, Served
<1>8. OpensSynced' /\ OperationSound' /\ AckedServed'
  BY <1>1, <1>2, <1>3, <1>7 DEF JournalInv, OpensSynced, OperationSound, AckedServed
<1>9. \A e \in Events, r \in Nat :
        /\ HasRow(base.rows, base.synced, e, r) => HasRow(base'.rows, base'.synced, e, r)
        /\ HasRow(base.rows, Len(base.rows), e, r) => HasRow(base'.rows, Len(base'.rows), e, r)
  BY <1>1, <1>2, RepairCounts
<1>10. Kept(updates, updates)
  BY <1>2, KeptItself
<1>11. Unharmed =>
         Covered(base'.rows, base'.synced, updates.rows, updates.synced, acked, {})
  BY <1>2, <1>3, <1>9, <1>10, StaysCovered DEF JournalInv, NothingLost
<1>12. faults.power = 0 =>
         Covered(base'.rows, Len(base'.rows), updates.rows, Len(updates.rows), acked, {})
  BY <1>2, <1>3, <1>9, <1>10, StaysCovered DEF JournalInv, NothingLost
<1>13. NothingLost'
  BY <1>1, <1>7, <1>11, <1>12 DEF NothingLost
<1> QED BY <1>4, <1>5, <1>6, <1>8, <1>13 DEF JournalInv

LEMMA OpenUpdatesStep == ASSUME JournalInv, OpenUpdates PROVE JournalInv'
<1>1. /\ mode = "base" /\ updates' = Repair(updates)
      /\ \/ BadLine(updates'.rows) /\ mode' = "failed" /\ memory' = memory
         \/ ~BadLine(updates'.rows) /\ mode' = "up" /\ memory' = Replay(base.rows, updates'.rows)
      /\ UNCHANGED <<base, op, acked, lastRev, faults>>
  BY DEF OpenUpdates
<1>2. /\ updates \in JournalFile /\ updates.synced \in 0..Len(updates.rows)
      /\ base \in JournalFile /\ Len(base.rows) \in Nat /\ base.rows \in Seq(Chunk)
      /\ acked \in [Events -> 0..MaxRev] /\ op = NoOp
  BY <1>1 DEF JournalInv, TypeInv, OperationSound, JournalFile
<1>3. /\ updates' \in JournalFile /\ updates'.synced \in 0..Len(updates'.rows)
      /\ Kept(updates, updates') /\ updates'.rows \in Seq(Chunk)
      /\ TailOnly(updates.rows) => AllRows(updates'.rows)
  BY <1>1, <1>2, RepairKeeps DEF JournalFile
<1>4. /\ Replay(base.rows, updates'.rows) \in [Events -> 0..MaxRev]
      /\ \A e \in Served' : HasRow(base.rows, Len(base.rows), e, 0)
  BY <1>1, <1>2, <1>3, ReplayType DEF Served
<1>5. TypeInv'
  BY <1>1, <1>3, <1>4 DEF JournalInv, TypeInv
<1>6. RevsGrow'
  <2>1. Ordered(updates'.rows) /\ Passed(updates'.rows, lastRev)
    BY <1>2, <1>3, KeptOrdered DEF JournalInv, RevsGrow
  <2> QED BY <1>1, <2>1 DEF JournalInv, RevsGrow
<1>7. TailsTorn'
  <2> SUFFICES ASSUME faults.short = 0
               PROVE  mode' = "up" /\ AllRows(base.rows) /\ AllRows(updates'.rows)
    BY <1>1 DEF TailsTorn, AllRows, TailOnly
  <2>1. AllRows(base.rows) /\ TailOnly(updates.rows)
    BY <1>1 DEF JournalInv, TailsTorn
  <2>2. DOMAIN updates'.rows = 1..Len(updates'.rows)
    BY <1>3
  <2> QED BY <1>1, <1>3, <2>1, <2>2, GoodLines
<1>8. Unharmed' = Unharmed
  BY <1>1 DEF Unharmed
<1>9. OpensSynced' /\ OperationSound'
  BY <1>1, <1>2, <1>8 DEF JournalInv, OpensSynced, OperationSound
<1>10. \A e \in Events, r \in Nat :
         /\ HasRow(updates.rows, updates.synced, e, r)
              => HasRow(updates'.rows, updates'.synced, e, r)
         /\ HasRow(updates.rows, Len(updates.rows), e, r)
              => HasRow(updates'.rows, Len(updates'.rows), e, r)
  BY <1>1, <1>2, RepairCounts
<1>11. Kept(base, base)
  BY <1>2, KeptItself
<1>12. Unharmed =>
         Covered(base.rows, base.synced, updates'.rows, updates'.synced, acked, Served')
  <2> SUFFICES ASSUME Unharmed
               PROVE  Covered(base.rows, base.synced, updates'.rows, updates'.synced, acked, Served')
    OBVIOUS
  <2>1. base.synced = Len(base.rows)
    BY <1>1 DEF JournalInv, OpensSynced
  <2>2. Covered(base.rows, base.synced, updates.rows, updates.synced, acked, Served)
    BY DEF JournalInv, NothingLost
  <2> QED BY <1>2, <1>3, <1>4, <1>10, <1>11, <2>1, <2>2, StaysCovered, ZenonT(60)
<1>13. faults.power = 0 =>
         Covered(base.rows, Len(base.rows), updates'.rows, Len(updates'.rows), acked, Served')
  BY <1>2, <1>3, <1>4, <1>10, <1>11, StaysCovered DEF JournalInv, NothingLost
<1>14. NothingLost'
  BY <1>1, <1>8, <1>12, <1>13 DEF NothingLost
<1>15. AckedServed'
  <2> SUFFICES ASSUME faults.power = 0, mode' = "up", NEW e \in Events
               PROVE  acked[e] <= memory'[e]
    BY <1>1 DEF AckedServed
  <2>1. memory' = Replay(base.rows, updates'.rows)
    BY <1>1
  <2>2. acked[e] \in Nat /\ memory'[e] \in 0..MaxRev
    BY <1>2, <1>4, <2>1, JournalAssumption
  <2>3. CASE acked[e] = 0
    BY <2>2, <2>3, JournalAssumption
  <2>4. CASE acked[e] # 0
    <3>1. Ordered(base.rows) /\ Ordered(updates'.rows)
      BY <1>1, <1>6 DEF RevsGrow
    <3>2. /\ HasRow(base.rows, Len(base.rows), e, 0)
          /\ \/ HasRow(base.rows, Len(base.rows), e, acked[e])
             \/ HasRow(updates'.rows, Len(updates'.rows), e, acked[e])
          /\ \A i \in 1..Len(base.rows), j \in 1..Len(updates'.rows) :
               base.rows[i].id = updates'.rows[j].id => base.rows[i].rev <= updates'.rows[j].rev
      BY <1>13, <2>4 DEF Covered
    <3> QED BY <1>2, <1>3, <2>1, <2>2, <3>1, <3>2, ReplayServes
  <2> QED BY <2>3, <2>4
<1> QED BY <1>5, <1>6, <1>7, <1>9, <1>14, <1>15 DEF JournalInv

-----------------------------------------------------------------------------
LEMMA InductiveStep == JournalInv /\ [Next]_vars => JournalInv'
<1> SUFFICES ASSUME JournalInv, [Next]_vars PROVE JournalInv'
  OBVIOUS
<1>1. ASSUME NEW e \in Events, BeginUpdate(<<e>>) PROVE JournalInv'
  <2>1. <<e>> \in Seq(Events)
    OBVIOUS
  <2> QED BY <1>1, <2>1, BeginUpdateStep
<1>2. ASSUME NEW d \in Events, NEW e \in Events, BeginUpdate(<<d, e>>) PROVE JournalInv'
  <2>1. <<d, e>> \in Seq(Events)
    OBVIOUS
  <2> QED BY <1>2, <2>1, BeginUpdateStep
<1>3. CASE UNCHANGED vars
  BY <1>3 DEF vars, files, JournalInv, TypeInv, RevsGrow, OperationSound, AppendUnderWay,
     UpdateUnderWay, TailsTorn, NothingLost, Unharmed, Served, OpensSynced, AckedServed
<1> QED BY <1>1, <1>2, <1>3, BeginAppendStep, WriteRowStep, ShortWriteStep, SyncAndReturnStep,
        SyncFailsStep, KillStep, PowerLossStep, OpenBaseStep, OpenUpdatesStep DEF Next

\* For any number of events, operations and failures: a store whose writes were
\* never cut short opens again after every kill and every power failure; an
\* operation that returned nil survives power failures as long as no process
\* was killed, and kills and cut writes as long as power stays (Append, the
\* updates, repairTornEventTail, NewEventStore, loadUpdates).
THEOREM JournalKept == Spec => []AckedKept
BY InitInv, InductiveStep, InvariantMeans, PTL DEF Spec

\* Every variable of the journal keeps its type.
THEOREM JournalTyped == Spec => []TypeOK
BY InitInv, InductiveStep, InvariantMeans, PTL DEF Spec

-----------------------------------------------------------------------------
(***************************************************************************)
(* The journal files implement EventHistory: its stable revisions are what *)
(* the synced rows replay to, and its fresh ones those that a file may     *)
(* still lose.                                                             *)
(***************************************************************************)

\* Among the first n chunks is a row of e with exactly this revision.
IsRow(rows, n, e, r) ==
    \E i \in 1..Len(rows) : i <= n /\ rows[i].part = "row" /\ rows[i].id = e /\ rows[i].rev = r

\* A chunk, whole or not, with this event and revision.
Mentions(rows, e, r) == \E i \in 1..Len(rows) : rows[i].id = e /\ rows[i].rev = r

\* Two files as the invariant leaves them.
Paired(b, u) ==
    /\ b \in JournalFile /\ b.synced \in 0..Len(b.rows)
    /\ u \in JournalFile /\ u.synced \in 0..Len(u.rows)
    /\ Ordered(b.rows) /\ Ordered(u.rows)
    /\ \A i \in 1..Len(b.rows), j \in 1..Len(u.rows) :
         b.rows[i].id = u.rows[j].id => b.rows[i].rev <= u.rows[j].rev

Durable(b, u) == Replay(StableRows(b), StableRows(u))

-----------------------------------------------------------------------------
(* What files replay to. *)

\* A served revision stands in one of the files.
LEMMA ReplaySource ==
    ASSUME NEW b \in Seq(Chunk), NEW u \in Seq(Chunk), NEW e \in Events, Replay(b, u)[e] # 0
    PROVE  IsRow(b, Len(b), e, Replay(b, u)[e]) \/ IsRow(u, Len(u), e, Replay(b, u)[e])
<1>1. RowsOf(b, e) # {}
  BY DEF Replay
<1>2. CASE RowsOf(u, e) = {}
  <2>1. Replay(b, u)[e] = b[Max(RowsOf(b, e))].rev
    BY <1>1, <1>2 DEF Replay
  <2>2. Max(RowsOf(b, e)) \in RowsOf(b, e) /\ Len(b) \in Nat
    BY <1>1, RowsOfIs
  <2>3. PICK m \in RowsOf(b, e) : Replay(b, u)[e] = b[m].rev
    BY <2>1, <2>2
  <2>4. m \in 1..Len(b) /\ b[m].part = "row" /\ b[m].id = e /\ m <= Len(b)
    BY <2>2, <2>3, RowsOfIs
  <2> QED BY <2>3, <2>4 DEF IsRow
<1>3. CASE RowsOf(u, e) # {}
  <2>1. Replay(b, u)[e] = u[Max(RowsOf(u, e))].rev
    BY <1>1, <1>3 DEF Replay
  <2>2. Max(RowsOf(u, e)) \in RowsOf(u, e) /\ Len(u) \in Nat
    BY <1>3, RowsOfIs
  <2>3. PICK m \in RowsOf(u, e) : Replay(b, u)[e] = u[m].rev
    BY <2>1, <2>2
  <2>4. m \in 1..Len(u) /\ u[m].part = "row" /\ u[m].id = e /\ m <= Len(u)
    BY <2>2, <2>3, RowsOfIs
  <2> QED BY <2>3, <2>4 DEF IsRow
<1> QED BY <1>2, <1>3

\* The synced part of a file has the rows the file has up to there.
LEMMA StablePart ==
    ASSUME NEW f \in JournalFile, f.synced \in 0..Len(f.rows), NEW e, NEW r
    PROVE  /\ StableRows(f) \in Seq(Chunk) /\ Len(StableRows(f)) = f.synced
           /\ \A i \in 1..f.synced : StableRows(f)[i] = f.rows[i] /\ i \in 1..Len(f.rows)
           /\ HasRow(StableRows(f), f.synced, e, r) <=> HasRow(f.rows, f.synced, e, r)
           /\ IsRow(StableRows(f), f.synced, e, r) <=> IsRow(f.rows, f.synced, e, r)
<1> DEFINE s == StableRows(f)
<1>1. f.rows \in Seq(Chunk) /\ Len(f.rows) \in Nat
  BY DEF JournalFile
<1>2. /\ s \in Seq(Chunk) /\ Len(s) = f.synced
      /\ \A i \in 1..f.synced : s[i] = f.rows[i]
  BY <1>1, Prefix DEF StableRows
<1> HIDE DEF s
<1>3. \A i : i \in 1..Len(s) <=> i \in 1..Len(f.rows) /\ i <= f.synced
  BY <1>1, <1>2
<1>4. \A i \in 1..Len(s) : i <= f.synced /\ s[i] = f.rows[i]
  BY <1>2, <1>3
<1>5. HasRow(s, f.synced, e, r) <=> HasRow(f.rows, f.synced, e, r)
  BY <1>3, <1>4 DEF HasRow
<1>6. IsRow(s, f.synced, e, r) <=> IsRow(f.rows, f.synced, e, r)
  BY <1>3, <1>4 DEF IsRow
<1> QED BY <1>2, <1>3, <1>5, <1>6 DEF s

\* What the synced rows replay to: the newest revision they have.
LEMMA DurableIs ==
    ASSUME NEW b, NEW u, Paired(b, u), NEW e \in Events
    PROVE  /\ Durable(b, u)[e] \in 0..MaxRev
           /\ Durable(b, u)[e] # 0 =>
                /\ HasRow(b.rows, b.synced, e, 0)
                /\ \/ IsRow(b.rows, b.synced, e, Durable(b, u)[e])
                   \/ IsRow(u.rows, u.synced, e, Durable(b, u)[e])
           /\ \A r \in Nat :
                /\ HasRow(b.rows, b.synced, e, 0)
                /\ HasRow(b.rows, b.synced, e, r) \/ HasRow(u.rows, u.synced, e, r)
                => r <= Durable(b, u)[e]
<1> DEFINE s == StableRows(b)
           t == StableRows(u)
           v == Durable(b, u)[e]
<1>1. /\ s \in Seq(Chunk) /\ Len(s) = b.synced /\ t \in Seq(Chunk) /\ Len(t) = u.synced
      /\ \A i \in 1..b.synced : s[i] = b.rows[i] /\ i \in 1..Len(b.rows)
      /\ \A i \in 1..u.synced : t[i] = u.rows[i] /\ i \in 1..Len(u.rows)
      /\ \A r : /\ HasRow(s, b.synced, e, r) <=> HasRow(b.rows, b.synced, e, r)
                /\ IsRow(s, b.synced, e, r) <=> IsRow(b.rows, b.synced, e, r)
                /\ HasRow(t, u.synced, e, r) <=> HasRow(u.rows, u.synced, e, r)
                /\ IsRow(t, u.synced, e, r) <=> IsRow(u.rows, u.synced, e, r)
  BY StablePart DEF Paired
<1>2. Durable(b, u) = Replay(s, t)
  BY DEF Durable
<1> HIDE DEF s, t
<1>3. v \in 0..MaxRev /\ (v # 0 => HasRow(s, b.synced, e, 0))
  BY <1>1, <1>2, ReplayType
<1>4. v # 0 => IsRow(s, b.synced, e, v) \/ IsRow(t, u.synced, e, v)
  BY <1>1, <1>2, ReplaySource
<1>5. Ordered(s) /\ Ordered(t)
  BY <1>1 DEF Paired, Ordered
<1>6. \A i \in 1..Len(s), j \in 1..Len(t) : s[i].id = t[j].id => s[i].rev <= t[j].rev
  BY <1>1 DEF Paired
<1>7. ASSUME NEW r \in Nat, HasRow(b.rows, b.synced, e, 0),
             HasRow(b.rows, b.synced, e, r) \/ HasRow(u.rows, u.synced, e, r)
      PROVE  r <= v
  BY <1>1, <1>2, <1>5, <1>6, <1>7, ReplayServes
<1> QED BY <1>1, <1>3, <1>4, <1>7

\* g counts every row that f counted, and has no other chunks than f.
Gains(f, g) ==
    /\ Kept(f, g)
    /\ \A i \in 1..Len(f.rows) : f.rows[i].part = "row" /\ i <= f.synced =>
         i \in 1..Len(g.rows) /\ i <= g.synced /\ g.rows[i].part = "row"

LEMMA GainsRows ==
    ASSUME NEW f \in JournalFile, NEW g \in JournalFile, Gains(f, g), NEW e, NEW r
    PROVE  /\ HasRow(f.rows, f.synced, e, r) => HasRow(g.rows, g.synced, e, r)
           /\ IsRow(g.rows, g.synced, e, r) => Mentions(f.rows, e, r)
           /\ Mentions(g.rows, e, r) => Mentions(f.rows, e, r)
<1>1. Len(f.rows) \in Nat /\ Len(g.rows) \in Nat
  BY DEF JournalFile
<1>2. \A i \in 1..Len(g.rows) :
        i \in 1..Len(f.rows) /\ g.rows[i].id = f.rows[i].id /\ g.rows[i].rev = f.rows[i].rev
  BY <1>1 DEF Gains, Kept
<1>3. HasRow(f.rows, f.synced, e, r) => HasRow(g.rows, g.synced, e, r)
  BY <1>2 DEF Gains, HasRow
<1>4. IsRow(g.rows, g.synced, e, r) => Mentions(f.rows, e, r)
  BY <1>2 DEF IsRow, Mentions
<1>5. Mentions(g.rows, e, r) => Mentions(f.rows, e, r)
  BY <1>2 DEF Mentions
<1> QED BY <1>3, <1>4, <1>5

\* As files gain, what they replay to stays or becomes a revision they
\* mentioned.
LEMMA DurableGrows ==
    ASSUME NEW b, NEW u, Paired(b, u), NEW c, NEW v, Paired(c, v),
           Gains(b, c), Gains(u, v), NEW e \in Events
    PROVE  \/ Durable(c, v)[e] = Durable(b, u)[e]
           \/ /\ Durable(c, v)[e] > Durable(b, u)[e]
              /\ Mentions(b.rows, e, Durable(c, v)[e]) \/ Mentions(u.rows, e, Durable(c, v)[e])
<1> DEFINE old == Durable(b, u)[e]
           new == Durable(c, v)[e]
<1>1. /\ b \in JournalFile /\ u \in JournalFile /\ c \in JournalFile /\ v \in JournalFile
      /\ old \in Nat /\ new \in Nat
  BY DurableIs, JournalAssumption DEF Paired
<1>2. old <= new
  <2>1. CASE old = 0
    BY <1>1, <2>1
  <2>2. CASE old # 0
    <3>1. /\ HasRow(b.rows, b.synced, e, 0)
          /\ HasRow(b.rows, b.synced, e, old) \/ HasRow(u.rows, u.synced, e, old)
      <4>1. IsRow(b.rows, b.synced, e, old) \/ IsRow(u.rows, u.synced, e, old)
        BY <2>2, DurableIs
      <4>2. IsRow(b.rows, b.synced, e, old) => HasRow(b.rows, b.synced, e, old)
        BY <1>1 DEF IsRow, HasRow
      <4>3. IsRow(u.rows, u.synced, e, old) => HasRow(u.rows, u.synced, e, old)
        BY <1>1 DEF IsRow, HasRow
      <4> QED BY <2>2, <4>1, <4>2, <4>3, DurableIs
    <3>2. /\ HasRow(c.rows, c.synced, e, 0)
          /\ HasRow(c.rows, c.synced, e, old) \/ HasRow(v.rows, v.synced, e, old)
      BY <1>1, <3>1, GainsRows
    <3> QED BY <1>1, <3>2, DurableIs
  <2> QED BY <2>1, <2>2
<1>3. new # 0 => Mentions(b.rows, e, new) \/ Mentions(u.rows, e, new)
  <2>1. new # 0 => IsRow(c.rows, c.synced, e, new) \/ IsRow(v.rows, v.synced, e, new)
    BY DurableIs
  <2> QED BY <1>1, <2>1, GainsRows
<1> HIDE DEF old, new
<1>4. new = old \/ (new > old /\ (Mentions(b.rows, e, new) \/ Mentions(u.rows, e, new)))
  BY <1>1, <1>2, <1>3
<1> QED BY <1>4 DEF old, new

-----------------------------------------------------------------------------
(* The abstract state. *)

\* A store that is not open serves nothing.
DownForgets == mode # "up" => memory = Absent

RefinementInv == JournalInv /\ DownForgets

LEMMA DownForgetsStep == RefinementInv /\ [Next]_vars => DownForgets'
<1> SUFFICES ASSUME RefinementInv, [Next]_vars PROVE DownForgets'
  OBVIOUS
<1>1. CASE UNCHANGED <<mode, memory>>
  BY <1>1 DEF RefinementInv, DownForgets, Absent
<1>2. CASE mode' = "up" \/ memory' = Absent
  BY <1>2 DEF DownForgets, Absent
<1>3. ASSUME NEW e \in Events, BeginAppend(e) PROVE UNCHANGED <<mode, memory>>
  BY <1>3 DEF BeginAppend
<1>4. ASSUME NEW todo, BeginUpdate(todo) PROVE mode' = "up"
  BY <1>4 DEF BeginUpdate
<1>5. WriteRow \/ SyncFails => UNCHANGED <<mode, memory>>
  BY DEF WriteRow, SyncFails
<1>6. ASSUME NEW rest, ShortWrite(rest) PROVE UNCHANGED <<mode, memory>>
  BY <1>6 DEF ShortWrite
<1>7. SyncAndReturn => mode' = "up"
  BY DEF SyncAndReturn, RefinementInv, JournalInv, OperationSound
<1>8. Kill \/ PowerLoss => memory' = Absent
  BY DEF Kill, PowerLoss, GoesDown
<1>9. OpenBase => mode # "up" /\ memory' = memory
  BY DEF OpenBase
<1>10. OpenUpdates => mode' = "up" \/ (mode # "up" /\ memory' = memory)
  BY DEF OpenUpdates
<1>11. mode # "up" /\ memory' = memory => DownForgets'
  BY DEF RefinementInv, DownForgets, Absent
<1>12. UNCHANGED vars => UNCHANGED <<mode, memory>>
  BY DEF vars
<1> QED BY <1>1, <1>2, <1>3, <1>4, <1>5, <1>6, <1>7, <1>8, <1>9, <1>10, <1>11, <1>12 DEF Next

LEMMA RefinementInvariant == Spec => []RefinementInv
<1>1. Init => DownForgets
  BY DEF Init, DownForgets
<1> QED BY <1>1, InitInv, InductiveStep, DownForgetsStep, PTL DEF Spec, RefinementInv

LEMMA PairedNow ==
    ASSUME JournalInv, Unharmed
    PROVE  Paired(base, updates)
BY DEF JournalInv, TypeInv, RevsGrow, NothingLost, Covered, Paired

LEMMA PairedNext ==
    ASSUME JournalInv', Unharmed'
    PROVE  Paired(base', updates')
BY DEF JournalInv, TypeInv, RevsGrow, NothingLost, Covered, Paired

\* Revisions that files b and u mention or operation o is about to write, newer
\* than what the synced rows replay to.
Open(b, u, o, e) ==
    {r \in Revs : /\ r > Durable(b, u)[e]
                  /\ \/ e \in o.ids /\ r = o.rev
                     \/ Mentions(b.rows, e, r)
                     \/ Mentions(u.rows, e, r)}

LEMMA AbstractNow ==
    ASSUME base \in JournalFile, updates \in JournalFile
    PROVE  Stable = Durable(base, updates) /\ \A e : Unsynced(e) = Open(base, updates, op, e)
<1>1. DOMAIN base.rows = 1..Len(base.rows) /\ DOMAIN updates.rows = 1..Len(updates.rows)
  BY DEF JournalFile
<1>2. Stable = Durable(base, updates)
  BY DEF Stable, Durable
<1> QED BY <1>1, <1>2 DEF Unsynced, Open, Mentions

LEMMA AbstractNext ==
    ASSUME base' \in JournalFile, updates' \in JournalFile
    PROVE  Stable' = Durable(base', updates') /\ \A e : Unsynced(e)' = Open(base', updates', op', e)
<1>1. DOMAIN base'.rows = 1..Len(base'.rows) /\ DOMAIN updates'.rows = 1..Len(updates'.rows)
  BY DEF JournalFile
<1>2. Stable' = Durable(base', updates')
  BY DEF Stable, Durable
<1> QED BY <1>1, <1>2 DEF Unsynced, Open, Mentions

\* Files that gain let revisions settle, and make none fresh that was not.
LEMMA Settling ==
    ASSUME NEW b, NEW u, Paired(b, u), NEW c, NEW v, Paired(c, v),
           Gains(b, c), Gains(u, v), NEW o, NEW e \in Events
    PROVE  /\ Durable(c, v)[e] \in Revs \cup {0}
           /\ \/ Durable(c, v)[e] = Durable(b, u)[e]
              \/ /\ Durable(c, v)[e] > Durable(b, u)[e]
                 /\ Durable(c, v)[e] \in Open(b, u, o, e)
           /\ Open(c, v, NoOp, e) \subseteq {r \in Open(b, u, o, e) : r > Durable(c, v)[e]}
<1> DEFINE old == Durable(b, u)[e]
           new == Durable(c, v)[e]
<1>1. old \in 0..MaxRev /\ new \in 0..MaxRev
  BY DurableIs
<1>2. \/ new = old
      \/ new > old /\ (Mentions(b.rows, e, new) \/ Mentions(u.rows, e, new))
  BY DurableGrows
<1> HIDE DEF old, new
<1>3. /\ new \in Revs \cup {0}
      /\ new > old => new \in Revs
      /\ new >= old
  BY <1>1, <1>2, JournalAssumption DEF Revs
<1>4. new = old \/ (new > old /\ new \in Open(b, u, o, e))
  BY <1>2, <1>3 DEF Open, old, new
<1>5. ASSUME NEW r \in Open(c, v, NoOp, e)
      PROVE  r \in Open(b, u, o, e) /\ r > new
  <2>1. r \in Revs /\ r > new /\ (Mentions(c.rows, e, r) \/ Mentions(v.rows, e, r))
    BY DEF Open, new, NoOp
  <2>2. Mentions(b.rows, e, r) \/ Mentions(u.rows, e, r)
    BY <2>1, GainsRows DEF Paired
  <2>3. r > old
    BY <1>1, <1>3, <2>1, JournalAssumption DEF Revs
  <2> QED BY <2>1, <2>2, <2>3 DEF Open, old
<1> QED BY <1>3, <1>4, <1>5 DEF old, new

-----------------------------------------------------------------------------
(* The steps. *)

HistoryStep == [History!Next]_(History!vars)

\* Nothing changes for the callers and nothing new can be lost.
LEMMA Stutters ==
    ASSUME JournalInv, JournalInv', UNCHANGED <<mode, memory, acked>>,
           Stable' = Stable, \A e \in Events : Unsynced(e)' = Unsynced(e)
    PROVE  HistoryStep
<1>1. [e \in Events |-> Unsynced(e)]' = [e \in Events |-> Unsynced(e)]
  OBVIOUS
<1>2. UNCHANGED History!vars
  BY <1>1 DEF History!vars
<1> QED BY <1>2 DEF HistoryStep

\* The revisions that files mention are known to the counter.
LEMMA Mentioned ==
    ASSUME JournalInv, NEW e \in Events, NEW r,
           Mentions(base.rows, e, r) \/ Mentions(updates.rows, e, r)
    PROVE  r <= lastRev
BY DEF JournalInv, RevsGrow, Passed, Mentions

\* An operation that begins is an attempt with a revision of its own.
LEMMA BeginsAttempt ==
    ASSUME JournalInv, JournalInv', Unharmed, mode = "up", op = NoOp, NEW S \in SUBSET Events,
           lastRev' = lastRev + 1, op'.ids = S, op'.rev = lastRev',
           UNCHANGED <<files, mode, acked>>,
           \A e \in Events : memory'[e] # memory[e] => e \in S /\ memory'[e] = lastRev'
    PROVE  HistoryStep
<1>1. /\ lastRev \in Nat /\ lastRev' \in Revs \cap Nat /\ lastRev' > lastRev
      /\ base \in JournalFile /\ updates \in JournalFile
      /\ base' = base /\ updates' = updates
      /\ memory' \in [Events -> Revs \cup {0}]
  BY JournalAssumption DEF JournalInv, TypeInv, Revs, files
<1>2. /\ Stable = Durable(base, updates) /\ Stable' = Durable(base, updates)
      /\ \A e : Unsynced(e) = Open(base, updates, NoOp, e)
      /\ \A e : Unsynced(e)' = Open(base, updates, op', e)
  BY <1>1, AbstractNow, AbstractNext
<1>3. ASSUME NEW e \in Events
      PROVE  lastRev' > Stable[e] /\ \A q \in Unsynced(e) : lastRev' > q
  <2>1. \A q : Mentions(base.rows, e, q) \/ Mentions(updates.rows, e, q) => q <= lastRev
    BY Mentioned
  <2>2. /\ Stable[e] \in 0..MaxRev
        /\ Stable[e] # 0 => IsRow(base.rows, base.synced, e, Stable[e])
                            \/ IsRow(updates.rows, updates.synced, e, Stable[e])
    BY <1>2, PairedNow, DurableIs
  <2>3. Stable[e] <= lastRev
    <3>1. Stable[e] # 0 => Mentions(base.rows, e, Stable[e]) \/ Mentions(updates.rows, e, Stable[e])
      BY <2>2 DEF IsRow, Mentions
    <3> QED BY <1>1, <2>1, <3>1
  <2>4. \A q \in Unsynced(e) : q \in Revs /\ q <= lastRev
    BY <1>2, <2>1 DEF Open, NoOp
  <2>5. \A q \in Revs : q \in Nat
    BY JournalAssumption DEF Revs
  <2>6. Stable[e] \in Nat
    BY <2>2, JournalAssumption
  <2>7. lastRev' > Stable[e]
    BY <1>1, <2>3, <2>6
  <2>8. \A q \in Unsynced(e) : lastRev' > q
    <3> TAKE q \in Unsynced(e)
    <3>1. q \in Nat /\ q <= lastRev
      BY <2>4, <2>5
    <3> QED BY <1>1, <3>1
  <2> QED BY <2>7, <2>8
<1>4. ASSUME NEW e \in Events
      PROVE  Unsynced(e)' = IF e \in S THEN Unsynced(e) \cup {lastRev'} ELSE Unsynced(e)
  BY <1>1, <1>2, <1>3 DEF Open, NoOp
<1>5. [e \in Events |-> Unsynced(e)]' =
        [e \in Events |-> IF e \in S THEN [d \in Events |-> Unsynced(d)][e] \cup {lastRev'}
                          ELSE [d \in Events |-> Unsynced(d)][e]]
  BY <1>4
<1>6. History!Attempt(S, lastRev')
  BY <1>1, <1>2, <1>3, <1>5 DEF History!Attempt
<1> QED BY <1>1, <1>6 DEF HistoryStep, History!Next

\* A chunk that is not synced changes nothing of what a file replays to.
LEMMA GrownSame ==
    ASSUME NEW f \in JournalFile, f.synced \in 0..Len(f.rows), NEW g, NEW c, Grown(f, g, c)
    PROVE  /\ StableRows(g) = StableRows(f)
           /\ \A e, r : Mentions(g.rows, e, r) <=> Mentions(f.rows, e, r) \/ (c.id = e /\ c.rev = r)
<1>1. /\ g \in JournalFile /\ g.synced = f.synced /\ g.synced \in 0..Len(g.rows)
      /\ Len(f.rows) \in Nat /\ Len(g.rows) = Len(f.rows) + 1
  BY DEF Grown, JournalFile
<1>2. /\ StableRows(f) \in Seq(Chunk) /\ Len(StableRows(f)) = f.synced
      /\ \A i \in 1..f.synced : StableRows(f)[i] = f.rows[i] /\ i \in 1..Len(f.rows)
  BY StablePart
<1>3. /\ StableRows(g) \in Seq(Chunk) /\ Len(StableRows(g)) = f.synced
      /\ \A i \in 1..f.synced : StableRows(g)[i] = g.rows[i]
  BY <1>1, StablePart
<1>4. StableRows(g) = StableRows(f)
  <2>1. \A i \in 1..Len(StableRows(g)) : StableRows(g)[i] = StableRows(f)[i]
    BY <1>2, <1>3 DEF Grown
  <2> QED BY <1>2, <1>3, <2>1, SeqEqual
<1>5. \A i : i \in 1..Len(g.rows) <=> i \in 1..Len(f.rows) \/ i = Len(f.rows) + 1
  BY <1>1
<1> QED BY <1>4, <1>5 DEF Grown, Mentions

\* The next chunk of an operation is one of its own.
LEMMA NextChunk ==
    ASSUME JournalInv, op.todo # <<>>
    PROVE  /\ Head(op.todo) \in Chunk /\ Head(op.todo).id \in op.ids
           /\ Head(op.todo).rev = op.rev
<1>1. op.todo \in Seq(Chunk) /\ Head(op.todo) = op.todo[1] /\ 1 \in 1..Len(op.todo)
  BY DEF JournalInv, TypeInv, Operation
<1>2. AppendUnderWay \/ UpdateUnderWay
  BY DEF JournalInv, OperationSound, NoOp
<1>3. CASE AppendUnderWay
  <2>1. PICK e \in Events : op.ids = {e} /\ op.todo = <<Row(e, op.rev)>>
    BY <1>3 DEF AppendUnderWay
  <2> QED BY <1>1, <2>1 DEF Row
<1>4. CASE UpdateUnderWay
  <2>1. op.todo[1].id \in op.ids /\ op.todo[1] = Row(op.todo[1].id, op.rev)
    BY <1>1, <1>4 DEF UpdateUnderWay
  <2>2. op.todo[1].rev = op.rev
    BY <2>1 DEF Row
  <2> QED BY <1>1, <2>1, <2>2
<1> QED BY <1>1, <1>2, <1>3, <1>4

LEMMA WriteRowMaps == ASSUME JournalInv, JournalInv', WriteRow PROVE HistoryStep
<1> DEFINE c == Head(op.todo)
<1>1. /\ AppendChunks(<<c>>) /\ op'.ids = op.ids /\ op'.rev = op.rev
      /\ UNCHANGED <<memory, mode, acked>>
      /\ c \in Chunk /\ c.id \in op.ids /\ c.rev = op.rev
  <2>1. op' = [op EXCEPT !.todo = Tail(op.todo)] /\ op \in Operation
    BY DEF WriteRow, JournalInv, TypeInv
  <2> QED BY <2>1, NextChunk DEF WriteRow, Operation
<1> HIDE DEF c
<1>2. /\ base \in JournalFile /\ base.synced \in 0..Len(base.rows) /\ base' \in JournalFile
      /\ updates \in JournalFile /\ updates.synced \in 0..Len(updates.rows)
      /\ updates' \in JournalFile
  BY DEF JournalInv, TypeInv
<1>3. \/ updates' = updates /\ Grown(base, base', c)
      \/ base' = base /\ Grown(updates, updates', c)
  BY <1>1, <1>2, FileGrows DEF AppendChunks
<1>4. /\ StableRows(base') = StableRows(base) /\ StableRows(updates') = StableRows(updates)
      /\ \A e, r : Mentions(base'.rows, e, r) \/ Mentions(updates'.rows, e, r) <=>
                   \/ Mentions(base.rows, e, r)
                   \/ Mentions(updates.rows, e, r)
                   \/ c.id = e /\ c.rev = r
  <2>1. CASE updates' = updates /\ Grown(base, base', c)
    <3>1. /\ StableRows(base') = StableRows(base)
          /\ \A e, r : Mentions(base'.rows, e, r) <=>
                       Mentions(base.rows, e, r) \/ (c.id = e /\ c.rev = r)
      <4>1. base \in JournalFile /\ base.synced \in 0..Len(base.rows) /\ Grown(base, base', c)
        BY <1>2, <2>1
      <4> QED BY ONLY <4>1, GrownSame
    <3> QED BY <2>1, <3>1
  <2>2. CASE base' = base /\ Grown(updates, updates', c)
    <3>1. /\ StableRows(updates') = StableRows(updates)
          /\ \A e, r : Mentions(updates'.rows, e, r) <=>
                       Mentions(updates.rows, e, r) \/ (c.id = e /\ c.rev = r)
      BY <1>2, <2>2, GrownSame
    <3> QED BY <2>2, <3>1
  <2> QED BY <1>3, <2>1, <2>2
<1>5. Durable(base', updates') = Durable(base, updates)
  BY <1>4 DEF Durable
<1>6. ASSUME NEW e \in Events
      PROVE  Open(base', updates', op', e) = Open(base, updates, op, e)
  BY <1>1, <1>4, <1>5 DEF Open
<1> QED BY <1>1, <1>2, <1>5, <1>6, AbstractNow, AbstractNext, Stutters

\* Once everything is written, the files mention what the operation is about.
LEMMA AllWritten ==
    ASSUME JournalInv, op # NoOp, op.todo = <<>>, NEW e \in op.ids
    PROVE  Mentions(base.rows, e, op.rev) \/ Mentions(updates.rows, e, op.rev)
<1>1. AppendUnderWay \/ UpdateUnderWay
  BY DEF JournalInv, OperationSound
<1>2. CASE AppendUnderWay
  <2>1. /\ Len(base.rows) \in 1..Len(base.rows) /\ base.rows[Len(base.rows)] = Row(e, op.rev)
    BY <1>2 DEF AppendUnderWay, JournalInv, TypeInv, JournalFile
  <2> QED BY <2>1 DEF Mentions, Row
<1>3. CASE UpdateUnderWay
  <2>1. PICK j \in 1..Len(updates.rows) : updates.rows[j] = Row(e, op.rev)
    BY <1>3 DEF UpdateUnderWay
  <2> QED BY <2>1 DEF Mentions, Row
<1> QED BY <1>1, <1>2, <1>3

LEMMA SyncFailsMaps == ASSUME JournalInv, JournalInv', SyncFails PROVE HistoryStep
<1>1. /\ op # NoOp /\ op.todo = <<>> /\ op' = NoOp
      /\ UNCHANGED <<base, updates, memory, mode, acked>>
  BY DEF SyncFails, files
<1>2. base \in JournalFile /\ updates \in JournalFile
  BY DEF JournalInv, TypeInv
<1>3. ASSUME NEW e \in Events
      PROVE  Open(base, updates, NoOp, e) = Open(base, updates, op, e)
  BY <1>1, AllWritten DEF Open, NoOp
<1> QED BY <1>1, <1>2, <1>3, AbstractNow, AbstractNext, Stutters

\* Files that gained, seen through the abstraction.
LEMMA FilesSettle ==
    ASSUME JournalInv, JournalInv', Unharmed, Unharmed', op' = NoOp,
           Gains(base, base'), Gains(updates, updates')
    PROVE  /\ History!Settles
           /\ \A e \in Events : Unsynced(e)' \subseteq {r \in Unsynced(e) : r > Stable'[e]}
<1>1. Paired(base, updates) /\ Paired(base', updates')
  BY PairedNow, PairedNext
<1>2. /\ Stable = Durable(base, updates) /\ Stable' = Durable(base', updates')
      /\ \A e : Unsynced(e) = Open(base, updates, op, e)
      /\ \A e : Unsynced(e)' = Open(base', updates', NoOp, e)
  BY <1>1, AbstractNow, AbstractNext DEF Paired
<1>3. \A e \in Events :
        /\ Stable'[e] \in Revs \cup {0}
        /\ Stable'[e] = Stable[e] \/ (Stable'[e] \in Unsynced(e) /\ Stable'[e] > Stable[e])
        /\ Unsynced(e)' \subseteq {r \in Unsynced(e) : r > Stable'[e]}
  <2> TAKE e \in Events
  <2> DEFINE new == Durable(base', updates')[e]
  <2>1. /\ new \in Revs \cup {0}
        /\ \/ new = Durable(base, updates)[e]
           \/ new > Durable(base, updates)[e] /\ new \in Open(base, updates, op, e)
        /\ Open(base', updates', NoOp, e) \subseteq {r \in Open(base, updates, op, e) : r > new}
    BY <1>1, Settling
  <2> HIDE DEF new
  <2> QED BY <1>2, <2>1 DEF new
<1>4. Stable' \in [Events -> Revs \cup {0}]
  <2>1. Stable' = [e \in Events |-> Stable'[e]]
    BY DEF Stable, Replay
  <2> QED BY <1>3, <2>1
<1>5. History!Settles
  BY <1>3, <1>4 DEF History!Settles, History!Follows
<1> QED BY <1>3, <1>5

\* What an operation wrote is what its events replay to once it is synced.
LEMMA AckedIsStable ==
    ASSUME JournalInv, JournalInv', Unharmed', SyncAndReturn, NEW e \in op.ids
    PROVE  e \in Events /\ Stable'[e] = op.rev
<1>1. /\ op \in Operation /\ op.rev = lastRev /\ op.rev # 0 /\ op.rev \in Nat /\ e \in Events
      /\ lastRev' = lastRev /\ acked'[e] = op.rev
      /\ base' \in JournalFile /\ updates' \in JournalFile
  BY JournalAssumption DEF SyncAndReturn, Acknowledge, JournalInv, TypeInv, OperationSound, Operation
<1>2. Paired(base', updates') /\ Stable' = Durable(base', updates')
  BY <1>1, PairedNext, AbstractNext
<1>3. Covered(base'.rows, base'.synced, updates'.rows, updates'.synced, acked', Served')
  BY DEF JournalInv, NothingLost
<1>4. op.rev <= Stable'[e]
  BY <1>1, <1>2, <1>3, DurableIs DEF Covered
<1>5. Stable'[e] \in Nat
  BY <1>1, <1>2, DurableIs, JournalAssumption
<1>6. Stable'[e] # 0 => IsRow(base'.rows, base'.synced, e, Stable'[e])
                        \/ IsRow(updates'.rows, updates'.synced, e, Stable'[e])
  BY <1>1, <1>2, DurableIs
<1>7. Passed(base'.rows, lastRev') /\ Passed(updates'.rows, lastRev')
  BY DEF JournalInv, RevsGrow
<1>8. Stable'[e] <= lastRev'
  BY <1>1, <1>5, <1>6, <1>7 DEF IsRow, Passed
<1> QED BY <1>1, <1>4, <1>5, <1>8

LEMMA SyncAndReturnMaps ==
    ASSUME JournalInv, JournalInv', Unharmed', SyncAndReturn
    PROVE  HistoryStep
<1>1. /\ mode = "up" /\ mode' = "up" /\ op # NoOp /\ op.todo = <<>> /\ op' = NoOp /\ Unharmed
      /\ acked' = [e \in Events |-> IF e \in op.ids THEN op.rev ELSE acked[e]]
      /\ memory' = [e \in Events |-> IF e \in op.ids THEN op.rev ELSE memory[e]]
  BY DEF SyncAndReturn, Acknowledge, JournalInv, OperationSound, Unharmed
<1>2. /\ base \in JournalFile /\ base.synced \in 0..Len(base.rows) /\ Len(base.rows) \in Nat
      /\ updates \in JournalFile /\ updates.synced \in 0..Len(updates.rows)
      /\ Len(updates.rows) \in Nat
      /\ acked \in [Events -> 0..MaxRev] /\ memory \in [Events -> 0..MaxRev]
      /\ acked' \in [Events -> 0..MaxRev] /\ memory' \in [Events -> 0..MaxRev]
  BY DEF JournalInv, TypeInv, JournalFile
<1>3. /\ base'.rows = base.rows /\ updates'.rows = updates.rows
      /\ base.synced <= base'.synced /\ updates.synced <= updates'.synced
  BY <1>2 DEF SyncAndReturn, JournalFile
<1>4. Gains(base, base') /\ Gains(updates, updates')
  <2>1. base'.synced \in Nat /\ updates'.synced \in Nat
    BY DEF JournalInv, TypeInv, JournalFile
  <2> QED BY <1>2, <1>3, <2>1 DEF Gains, Kept
<1>5. /\ History!Settles
      /\ \A e \in Events : Unsynced(e)' \subseteq {r \in Unsynced(e) : r > Stable'[e]}
  BY <1>1, <1>4, FilesSettle
<1>6. ASSUME NEW e \in Events
      PROVE  Unsynced(e)' = {r \in Unsynced(e) : r > Stable'[e]}
  <2>1. /\ Stable' = Durable(base', updates')
        /\ Unsynced(e) = Open(base, updates, op, e)
        /\ Unsynced(e)' = Open(base', updates', NoOp, e)
    BY <1>1, AbstractNow, AbstractNext DEF JournalInv, TypeInv
  <2>2. ASSUME NEW r \in Open(base, updates, op, e), r > Stable'[e]
        PROVE  r \in Open(base', updates', NoOp, e)
    BY <1>1, <1>3, <2>1, <2>2, AllWritten DEF Open, Mentions
  <2> QED BY <1>5, <2>1, <2>2
<1>7. [e \in Events |-> Unsynced(e)]' =
        [e \in Events |-> {r \in [d \in Events |-> Unsynced(d)][e] : r > Stable'[e]}]
  BY <1>6
<1>8. \A e \in Events : /\ acked'[e] = acked[e] \/ acked'[e] = Stable'[e]
                        /\ memory'[e] = memory[e] \/ memory'[e] = Stable'[e]
  BY <1>1, AckedIsStable
<1>9. 0..MaxRev = Revs \cup {0}
  BY JournalAssumption DEF Revs
<1>10. History!Confirm
  BY <1>1, <1>2, <1>5, <1>7, <1>8, <1>9 DEF History!Confirm
<1> QED BY <1>10 DEF HistoryStep, History!Next

\* A store that goes down, or that is still coming back, may lose what is not
\* stable.
LEMMA Crashes ==
    ASSUME JournalInv, JournalInv', Unharmed, Unharmed', op' = NoOp, mode' # "up",
           memory' = Absent, acked' = acked, Gains(base, base'), Gains(updates, updates')
    PROVE  HistoryStep
<1>1. /\ History!Settles
      /\ \A e \in Events : Unsynced(e)' \subseteq {r \in Unsynced(e) : r > Stable'[e]}
  BY FilesSettle
<1>2. History!Sheds
  <2>1. \A e \in Events : Unsynced(e)' \in SUBSET Revs
    BY DEF Unsynced
  <2> QED BY <1>1, <2>1 DEF History!Sheds
<1>3. History!Crash
  BY <1>1, <1>2 DEF History!Crash, Absent
<1> QED BY <1>3 DEF HistoryStep, History!Next

LEMMA RepairGains ==
    ASSUME NEW f \in JournalFile, f.synced \in 0..Len(f.rows)
    PROVE  Gains(f, Repair(f))
<1>1. Len(f.rows) \in Nat /\ Len(Repair(f).rows) \in Nat
  BY RepairKeeps DEF JournalFile
<1> QED BY <1>1, RepairKeeps DEF Gains

LEMMA SurvivorsGain ==
    ASSUME NEW f \in JournalFile, f.synced \in 0..Len(f.rows), NEW g \in Survivors(f)
    PROVE  Gains(f, g)
<1>1. /\ Len(f.rows) \in Nat /\ Len(g.rows) \in Nat /\ f.synced \in Nat
      /\ g.synced = Len(g.rows) /\ f.synced <= g.synced /\ Kept(f, g)
      /\ \A i \in 1..f.synced : g.rows[i] = f.rows[i]
  BY SurvivorsKeep DEF JournalFile
<1> QED BY <1>1 DEF Gains

LEMMA GainsItself == ASSUME NEW f \in JournalFile PROVE Gains(f, f)
BY DEF Gains, Kept, JournalFile

LEMMA PowerLossMaps ==
    ASSUME JournalInv, JournalInv', Unharmed', PowerLoss
    PROVE  HistoryStep
<1>1. /\ base' \in Survivors(base) /\ updates' \in Survivors(updates)
      /\ op' = NoOp /\ mode' = "down" /\ memory' = Absent /\ acked' = acked
      /\ faults' = [faults EXCEPT !.power = @ + 1] /\ faults \in Faults
  BY DEF PowerLoss, GoesDown, JournalInv, TypeInv
<1>2. Unharmed
  BY <1>1 DEF Unharmed, Faults
<1>3. Gains(base, base') /\ Gains(updates, updates')
  BY <1>1, SurvivorsGain DEF JournalInv, TypeInv
<1> QED BY <1>1, <1>2, <1>3, Crashes

LEMMA OpenBaseMaps ==
    ASSUME RefinementInv, JournalInv', Unharmed', OpenBase
    PROVE  HistoryStep
<1>1. /\ JournalInv /\ mode = "down" /\ base' = Repair(base) /\ mode' # "up" /\ updates' = updates
      /\ op' = op /\ op = NoOp /\ memory' = memory /\ memory = Absent /\ acked' = acked
      /\ Unharmed
  BY DEF OpenBase, RefinementInv, DownForgets, JournalInv, OperationSound, Unharmed
<1>2. Gains(base, base') /\ Gains(updates, updates')
  BY <1>1, RepairGains, GainsItself DEF JournalInv, TypeInv
<1> QED BY <1>1, <1>2, Crashes

LEMMA OpenUpdatesMaps ==
    ASSUME RefinementInv, JournalInv', Unharmed', OpenUpdates
    PROVE  HistoryStep
<1>1. /\ JournalInv /\ mode = "base" /\ updates' = Repair(updates) /\ base' = base
      /\ op' = NoOp /\ memory = Absent /\ acked' = acked /\ Unharmed
      /\ \/ mode' = "failed" /\ memory' = memory
         \/ mode' = "up" /\ memory' = Replay(base.rows, updates'.rows)
  BY DEF OpenUpdates, RefinementInv, DownForgets, JournalInv, OperationSound, Unharmed
<1>2. Gains(base, base') /\ Gains(updates, updates')
  BY <1>1, RepairGains, GainsItself DEF JournalInv, TypeInv
<1>3. CASE mode' = "failed"
  BY <1>1, <1>2, <1>3, Crashes
<1>4. CASE mode' = "up"
  <2>1. memory' = Replay(base.rows, updates'.rows)
    BY <1>1, <1>4
  <2>2. /\ History!Settles
        /\ \A e \in Events : Unsynced(e)' \subseteq {r \in Unsynced(e) : r > Stable'[e]}
    BY <1>1, <1>2, FilesSettle
  <2>3. History!Sheds
    <3>1. \A e \in Events : Unsynced(e)' \in SUBSET Revs
      BY DEF Unsynced
    <3> QED BY <2>2, <3>1 DEF History!Sheds
  \* The store reads all rows, not only the synced ones.
  <2> DEFINE B == [rows |-> base.rows, synced |-> Len(base.rows)]
             U == [rows |-> updates'.rows, synced |-> Len(updates'.rows)]
  <2>4. /\ base \in JournalFile /\ base.synced \in 0..Len(base.rows) /\ Len(base.rows) \in Nat
        /\ updates' \in JournalFile /\ updates'.synced \in 0..Len(updates'.rows)
        /\ Len(updates'.rows) \in Nat
        /\ base.rows \in Seq(Chunk) /\ updates'.rows \in Seq(Chunk)
    BY <1>1 DEF JournalInv, TypeInv, JournalFile
  <2>5. Paired(base, updates')
    BY <1>1, PairedNext
  <2>6. Paired(B, U) /\ Gains(base, B) /\ Gains(updates', U)
    <3>1. B \in JournalFile /\ U \in JournalFile
      BY <2>4 DEF JournalFile
    <3>2. Paired(B, U)
      BY <2>4, <2>5, <3>1 DEF Paired
    <3>3. Gains(base, B)
      BY <2>4 DEF Gains, Kept
    <3>4. Gains(updates', U)
      BY <2>4 DEF Gains, Kept
    <3> QED BY <3>2, <3>3, <3>4
  <2>7. Durable(B, U) = memory'
    <3>1. \A s \in Seq(Chunk) : SubSeq(s, 1, Len(s)) = s
      <4> TAKE s \in Seq(Chunk)
      <4>1. /\ Len(s) \in 0..Len(s)
            /\ SubSeq(s, 1, Len(s)) \in Seq(Chunk) /\ Len(SubSeq(s, 1, Len(s))) = Len(s)
            /\ \A i \in 1..Len(s) : SubSeq(s, 1, Len(s))[i] = s[i]
        BY Prefix
      <4> QED BY <4>1, SeqEqual
    <3> QED BY <2>1, <2>4, <3>1 DEF Durable, StableRows
  <2> HIDE DEF B, U
  <2>8. /\ Stable' = Durable(base, updates')
        /\ \A e : Unsynced(e)' = Open(base, updates', NoOp, e)
    BY <1>1, <2>4, AbstractNext
  <2>9. \A e \in Events :
          memory'[e] = Stable'[e] \/ (memory'[e] \in Unsynced(e) /\ memory'[e] > Stable'[e])
    <3> TAKE e \in Events
    <3>1. \/ Durable(B, U)[e] = Durable(base, updates')[e]
          \/ /\ Durable(B, U)[e] > Durable(base, updates')[e]
             /\ Durable(B, U)[e] \in Open(base, updates', NoOp, e)
      BY <2>5, <2>6, Settling
    <3> QED BY <2>2, <2>7, <2>8, <3>1
  <2>10. memory' \in [Events -> Revs \cup {0}]
    BY JournalAssumption DEF JournalInv, TypeInv, Revs
  <2>11. History!Restart
    BY <1>1, <1>4, <2>2, <2>3, <2>9, <2>10 DEF History!Restart, History!Follows
  <2> QED BY <2>11 DEF HistoryStep, History!Next
<1> QED BY <1>1, <1>3, <1>4

LEMMA BeginMaps ==
    ASSUME JournalInv, JournalInv', Unharmed'
    PROVE  /\ \A e \in Events : BeginAppend(e) => HistoryStep
           /\ \A todo \in Seq(Events) : BeginUpdate(todo) => HistoryStep
<1>1. ASSUME NEW e \in Events, BeginAppend(e) PROVE HistoryStep
  <2>1. /\ mode = "up" /\ op = NoOp /\ lastRev' = lastRev + 1 /\ op'.ids = {e} /\ op'.rev = lastRev'
        /\ UNCHANGED <<files, mode, acked, memory>> /\ Unharmed
    BY <1>1 DEF BeginAppend, Unharmed
  <2> QED BY <2>1, BeginsAttempt
<1>2. ASSUME NEW todo \in Seq(Events), BeginUpdate(todo) PROVE HistoryStep
  <2> DEFINE S == {todo[i] : i \in DOMAIN todo}
  <2>1. /\ mode = "up" /\ op = NoOp /\ lastRev' = lastRev + 1 /\ op'.ids = S /\ op'.rev = lastRev'
        /\ UNCHANGED <<files, mode, acked>> /\ Unharmed
        /\ memory' = [e \in Events |-> IF e \in S THEN lastRev' ELSE memory[e]]
    BY <1>2 DEF BeginUpdate, Unharmed
  <2>2. S \in SUBSET Events
    OBVIOUS
  <2> HIDE DEF S
  <2>3. \A e \in Events : memory'[e] # memory[e] => e \in S /\ memory'[e] = lastRev'
    BY <2>1
  <2> QED BY <2>1, <2>2, <2>3, BeginsAttempt
<1> QED BY <1>1, <1>2

LEMMA StepsMap ==
    RefinementInv /\ RefinementInv' /\ [Next]_vars => [Unharmed' => HistoryStep]_vars
<1> SUFFICES ASSUME RefinementInv, RefinementInv', Next, Unharmed' PROVE HistoryStep
  OBVIOUS
<1>1. JournalInv /\ JournalInv'
  BY DEF RefinementInv
<1>2. ASSUME NEW e \in Events, BeginUpdate(<<e>>) PROVE HistoryStep
  <2>1. <<e>> \in Seq(Events)
    OBVIOUS
  <2> QED BY <1>1, <1>2, <2>1, BeginMaps
<1>3. ASSUME NEW d \in Events, NEW e \in Events, BeginUpdate(<<d, e>>) PROVE HistoryStep
  <2>1. <<d, e>> \in Seq(Events)
    OBVIOUS
  <2> QED BY <1>1, <1>3, <2>1, BeginMaps
\* A write cut short and a kill are where the promise ends.
<1>4. ASSUME NEW rest, ShortWrite(rest) PROVE FALSE
  BY <1>1, <1>4, FaultCounted DEF ShortWrite, Unharmed, JournalInv, TypeInv
<1>5. ASSUME Kill PROVE FALSE
  BY <1>1, <1>5, FaultCounted DEF Kill, Unharmed, JournalInv, TypeInv
<1> QED BY <1>1, <1>2, <1>3, <1>4, <1>5, BeginMaps, WriteRowMaps, SyncAndReturnMaps,
        SyncFailsMaps, PowerLossMaps, OpenBaseMaps, OpenUpdatesMaps DEF Next

LEMMA InitMaps == Init => History!Init
<1> SUFFICES ASSUME Init PROVE History!Init
  OBVIOUS
<1>1. /\ base \in JournalFile /\ updates \in JournalFile /\ base.rows = <<>> /\ updates.rows = <<>>
      /\ op = NoOp /\ JournalInv /\ Unharmed
  BY InitInv DEF Init, JournalFile, Unharmed
<1>2. \A e, r : ~Mentions(base.rows, e, r) /\ ~Mentions(updates.rows, e, r)
  BY <1>1 DEF Mentions
<1>3. \A e \in Events : Stable[e] = 0
  <2> TAKE e \in Events
  <2>1. Stable[e] # 0 => HasRow(base.rows, base.synced, e, 0)
    BY <1>1, PairedNow, AbstractNow, DurableIs
  <2> QED BY <1>1, <2>1 DEF HasRow
<1>4. Stable = [e \in Events |-> 0]
  BY <1>3 DEF Stable, Replay
<1>5. \A e \in Events : Unsynced(e) = {}
  BY <1>1, <1>2, AbstractNow DEF Open, NoOp
<1> QED BY <1>4, <1>5 DEF Init, History!Init, Absent

\* For every number of events, operations and power failures the two files
\* implement the history that callers of the store rely on, step by step:
\* begun operations are attempts, a sync confirms what it made stable, a power
\* failure may lose what was not, and opening the store finds what is stable
\* (Append, the updates, repairTornEventTail, NewEventStore, loadUpdates).
THEOREM HistoryImplemented == Spec => HistoryKept
<1>1. Spec => History!Init
  BY InitMaps DEF Spec
<1>2. Spec => [][Unharmed' => [History!Next]_(History!vars)]_vars
  <2>1. RefinementInv /\ RefinementInv' /\ [Next]_vars
          => [Unharmed' => [History!Next]_(History!vars)]_vars
    BY StepsMap DEF HistoryStep
  <2> QED BY <2>1, RefinementInvariant, PTL DEF Spec
<1> QED BY <1>1, <1>2 DEF HistoryKept

-----------------------------------------------------------------------------
(* Captures between analysis, cleanup and restart *)

LEMMA AnalysisPart == MCSpec => D!Spec
<1>1. MCInit => D!Init
  BY DEF MCInit
<1>2. [MCNext]_allvars => [D!Next]_(D!vars)
  BY DEF MCNext, Journal, Analysis, allvars, dvars, D!vars
<1> QED BY <1>1, <1>2, PTL DEF MCSpec, D!Spec

\* For every set of captures, grouping, number of workers, requests, cleanups
\* and restarts: analysis moves or deletes IQ only after it succeeded, and a
\* restarted store agrees with the disk (finalizeDeferredEvidence, ReconcileMedia).
THEOREM MediaStaysKept == MCSpec => MediaKept
<1>1. D!DeferredAssumption
  BY RecoveryAssumption
<1>2. D!Spec => D!EvidenceKept
  BY <1>1, D!EvidenceIsKept
<1>3. D!Spec => D!RestartLinksMedia
  BY <1>1, D!RestartsLinkMedia
<1> QED BY <1>2, <1>3, AnalysisPart DEF MediaKept
==============================================================================
