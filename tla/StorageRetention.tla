-------------------------- MODULE StorageRetention --------------------------
(***************************************************************************)
(* Captured IQ on disk (capture_archive.go, recording_retention.go) and    *)
(* the cleanups that remove it (storage_policy.go, storage_status.go).     *)
(*                                                                         *)
(* Writers hold archiveMu and keep a cached sum of the bytes below IQ; an  *)
(* analysis moves or deletes a capture when it is done; a cleanup lists    *)
(* the files once, then removes them one by one in the order of the list.  *)
(* Cleanups do not take archiveMu, and two of them may overlap: the        *)
(* periodic one reads the flag storagePruning in one critical section and  *)
(* sets it in another.                                                     *)
(*                                                                         *)
(* One unit of time is more than ten minutes and one unit of Day a day; a  *)
(* cleanup takes less than ten minutes, so time stands still meanwhile.    *)
(* Writes that fail part way are left out.                                 *)
(***************************************************************************)
EXTENDS Naturals, Sequences, FiniteSets, SequencesExt, FiniteSetsExt

CONSTANTS
    Captures,    \* evidence of one channel each, numbered in the order of their names
    Originals,   \* archived receiver buffers, numbered likewise
    Size,        \* Size["iq"] and Size["json"]
    Policies,    \* storage policies an operator may save
    FirstPolicy, \* the policy at the start
    Manual,      \* overlapping requests of CleanStorageNow
    JournalCap,  \* rows the capture interval journal may keep
    Day,         \* units of time in 24 hours
    MaxTime,     \* bound: the clock
    MaxCleanups, \* bound: cleanups
    None

Periodic == "periodic"
Cleaners == {Periodic} \cup Manual
All == Captures \cup Originals
Kinds == {"iq", "json"}
Files == All \X Kinds
Classes == {"Archive", "Pending", "Quarantine", "Retained"}

\* validateStoragePolicy: a recovery period is at least one unit when it is on.
Normalized(p) == IF p.quarantine /\ p.hours = 0 THEN [p EXCEPT !.hours = Day] ELSE p
Valid(p) == p.days <= 4 * Day /\ p.hours <= 4 * Day /\ (p.quarantine => p.hours > 0)

PolicyRecords == [auto : BOOLEAN, quarantine : BOOLEAN, hours : Nat, days : Nat, cap : Nat]

ASSUME StorageAssumption ==
    /\ All \subseteq Nat /\ None \notin Nat /\ Captures \cap Originals = {} /\ Periodic \notin Manual
    /\ Size \in [Kinds -> Nat \ {0}]
    /\ Policies \subseteq PolicyRecords /\ FirstPolicy \in PolicyRecords /\ Valid(FirstPolicy)
    /\ {Day, MaxTime, MaxCleanups, JournalCap} \subseteq Nat /\ Day > 1

VARIABLES
    disk,      \* class and modification time of every file below IQ
    captured,  \* the date in the sidecar, which names the dated directory
    row,       \* where the event of a capture says its IQ is
    archiving, \* the writer that holds archiveMu
    cached,    \* archiveSizes: None until an original was archived
    analysis,  \* the end of each capture's analysis: finalizeIQEvidence
    cleaner,   \* each cleanup in progress
    flags,     \* storagePruning and storageRefreshing
    policy,    \* storagePolicy, in memory and in its file
    journal,   \* rows of capture-intervals.jsonl
    now,
    cleanups   \* cleanups begun

vars == <<disk, captured, row, archiving, cached, analysis, cleaner, flags, policy, journal, now, cleanups>>

Absent == [class |-> "none", mtime |-> 0]
Exists(f) == disk[f].class # "none"
At(f, class) == disk[f].class = class
Age(f) == now - disk[f].mtime

\* directoryBytes of a set of files.
Bytes(S) == LET number(kind) == Cardinality({f \in S : f[2] = kind})
            IN Size["iq"] * number("iq") + Size["json"] * number("json")
Used == Bytes({f \in Files : Exists(f)})
Footprint == Size["iq"] + Size["json"]

NoAnalysis == [pc |-> "idle", dest |-> "none"]
NoCleaner == [pc |-> "idle", full |-> FALSE, policy |-> FirstPolicy, seen |-> FALSE,
              list |-> <<>>, listed |-> {}, total |-> 0, error |-> FALSE]

Entries == [file : Files, class : Classes, mtime : Nat]

TypeOK ==
    /\ disk \in [Files -> [class : Classes \cup {"none"}, mtime : 0..MaxTime]]
    /\ captured \in [All -> 0..MaxTime \cup {None}]
    /\ row \in [All -> Classes \cup {"none"}]
    /\ archiving \in All \cup {None}
    /\ cached \in Nat \cup {None}
    /\ analysis \in [Captures -> [pc : {"idle", "rename", "sidecar", "store", "remove", "done"},
                                  dest : Classes \cup {"none"}]]
    /\ \A k \in Cleaners :
         /\ cleaner[k].pc \in {"idle", "decide", "quarantine", "expire", "list", "prune", "compact",
                               "reconcile", "finish", "status"}
         /\ cleaner[k].policy \in PolicyRecords /\ cleaner[k].listed \subseteq Entries
         /\ ToSet(cleaner[k].list) \subseteq cleaner[k].listed /\ cleaner[k].total \in Nat
         /\ {cleaner[k].full, cleaner[k].seen, cleaner[k].error} \subseteq BOOLEAN
         /\ cleaner[k].pc = "idle" => cleaner[k] = NoCleaner
    /\ flags \in [pruning : BOOLEAN, refreshing : BOOLEAN]
    /\ policy \in PolicyRecords
    /\ journal \in Nat /\ now \in 0..MaxTime /\ cleanups \in 0..MaxCleanups

\* The directory may have been measured before, while it was empty.
Init ==
    /\ disk = [f \in Files |-> Absent]
    /\ captured = [c \in All |-> None]
    /\ row = [c \in All |-> "none"]
    /\ archiving = None
    /\ cached \in {None, 0}
    /\ analysis = [c \in Captures |-> NoAnalysis]
    /\ cleaner = [k \in Cleaners |-> NoCleaner]
    /\ flags = [pruning |-> FALSE, refreshing |-> FALSE]
    /\ policy = FirstPolicy
    /\ journal = 0 /\ now = 0 /\ cleanups = 0

Cleaning == \E k \in Cleaners : cleaner[k].pc # "idle"

\* Ten minutes, or more, pass.
Tick ==
    /\ now < MaxTime /\ ~Cleaning /\ archiving = None
    /\ now' = now + 1
    /\ UNCHANGED <<disk, captured, row, archiving, cached, analysis, cleaner, flags, policy, journal, cleanups>>

-----------------------------------------------------------------------------
(* The writers, under archiveMu *)

Put(f, class) == disk' = [disk EXCEPT ![f] = [class |-> class, mtime |-> now]]

\* File names are never used again.
New(c) == captured[c] = None

\* writeCaptureInterval measures the directory once ...
Budget == IF cached = None THEN Used ELSE cached

\* ... and refuses an original that would exceed the cap; the capture stops.
WriteOriginal(o) ==
    /\ o \in Originals /\ New(o) /\ archiving = None
    /\ policy.cap = 0 \/ Budget + Footprint <= policy.cap
    /\ Put(<<o, "iq">>, "Archive")
    /\ captured' = [captured EXCEPT ![o] = now]
    /\ cached' = Budget + Footprint
    /\ archiving' = o
    /\ UNCHANGED <<row, analysis, cleaner, flags, policy, journal, now, cleanups>>

RefuseOriginal(o) ==
    /\ o \in Originals /\ New(o) /\ archiving = None
    /\ policy.cap # 0 /\ Budget + Footprint > policy.cap
    /\ cached' = Budget
    /\ UNCHANGED <<disk, captured, row, archiving, analysis, cleaner, flags, policy, journal, now, cleanups>>

\* The sidecar and the row of the interval journal; then the event.
WriteOriginalSidecar(o) ==
    /\ o \in Originals /\ archiving = o
    /\ Put(<<o, "json">>, "Archive")
    /\ row' = [row EXCEPT ![o] = "Archive"]
    /\ journal' = journal + 1
    /\ archiving' = None
    /\ UNCHANGED <<captured, cached, analysis, cleaner, flags, policy, now, cleanups>>

\* writeIQEvidence.
WriteEvidence(c) ==
    /\ c \in Captures /\ New(c) /\ archiving = None
    /\ Put(<<c, "iq">>, "Pending")
    /\ captured' = [captured EXCEPT ![c] = now]
    /\ archiving' = c
    /\ UNCHANGED <<row, cached, analysis, cleaner, flags, policy, journal, now, cleanups>>

\* Faulty variant: evidence is not charged to the archive's budget.
EvidenceUncharged(c) ==
    /\ c \in Captures /\ archiving = c
    /\ Put(<<c, "json">>, "Pending")
    /\ row' = [row EXCEPT ![c] = "Pending"]
    /\ archiving' = None
    /\ UNCHANGED <<captured, cached, analysis, cleaner, flags, policy, journal, now, cleanups>>

WriteEvidenceSidecar(c) ==
    /\ c \in Captures /\ archiving = c
    /\ Put(<<c, "json">>, "Pending")
    /\ cached' = IF cached = None THEN None ELSE cached + Footprint
    /\ row' = [row EXCEPT ![c] = "Pending"]
    /\ archiving' = None
    /\ UNCHANGED <<captured, analysis, cleaner, flags, policy, journal, now, cleanups>>

-----------------------------------------------------------------------------
(* finalizeIQEvidence, at the end of an analysis *)

Analysing(c, pc, dest) == analysis' = [analysis EXCEPT ![c] = [pc |-> pc, dest |-> dest]]

\* Low-value evidence of a job that deletes: the IQ file first.
DeleteEvidence(c) ==
    /\ analysis[c].pc = "idle" /\ row[c] = "Pending" /\ At(<<c, "json">>, "Pending")
    /\ disk' = [disk EXCEPT ![<<c, "iq">>] = Absent]
    /\ Analysing(c, "remove", "none")
    /\ UNCHANGED <<captured, row, archiving, cached, cleaner, flags, policy, journal, now, cleanups>>

RemoveSidecar(c) ==
    /\ analysis[c].pc = "remove"
    /\ disk' = [disk EXCEPT ![<<c, "json">>] = Absent]
    /\ Analysing(c, "store", "none")
    /\ UNCHANGED <<captured, row, archiving, cached, cleaner, flags, policy, journal, now, cleanups>>

\* The sidecar is rewritten in place before anything is moved.
RewriteSidecar(c, dest) ==
    /\ analysis[c].pc = "idle" /\ row[c] = "Pending" /\ At(<<c, "json">>, "Pending")
    /\ Put(<<c, "json">>, "Pending")
    /\ Analysing(c, "rename", dest)
    /\ UNCHANGED <<captured, row, archiving, cached, cleaner, flags, policy, journal, now, cleanups>>

\* A rename keeps the modification time; without a source it is an error.
RenameIQ(c) ==
    /\ analysis[c].pc = "rename"
    /\ IF At(<<c, "iq">>, "Pending")
       THEN /\ disk' = [disk EXCEPT ![<<c, "iq">>].class = analysis[c].dest]
            /\ Analysing(c, "sidecar", analysis[c].dest)
       ELSE Analysing(c, "done", "none") /\ UNCHANGED disk
    /\ UNCHANGED <<captured, row, archiving, cached, cleaner, flags, policy, journal, now, cleanups>>

\* The sidecar follows, or the IQ file goes back.  When the IQ file is already
\* gone its dated directory may be gone too.
RenameSidecar(c) ==
    LET iq == <<c, "iq">> json == <<c, "json">> dest == analysis[c].dest IN
      /\ analysis[c].pc = "sidecar"
      /\ \/ /\ At(json, "Pending")
            /\ disk' = [disk EXCEPT ![json].class = dest]
            /\ Analysing(c, "store", dest)
         \/ /\ ~At(json, "Pending") \/ ~Exists(iq)
            /\ disk' = [disk EXCEPT ![iq].class = IF @ = dest THEN "Pending" ELSE @]
            /\ Analysing(c, "done", "none")
      /\ UNCHANGED <<captured, row, archiving, cached, cleaner, flags, policy, journal, now, cleanups>>

\* UpdateIQPath.
StorePath(c) ==
    /\ analysis[c].pc = "store"
    /\ row' = [row EXCEPT ![c] = analysis[c].dest]
    /\ Analysing(c, "done", "none")
    /\ UNCHANGED <<disk, captured, archiving, cached, cleaner, flags, policy, journal, now, cleanups>>

AnalysisStep(c) ==
    \/ DeleteEvidence(c) \/ RemoveSidecar(c)
    \/ \E dest \in {"Retained", "Quarantine"} : RewriteSidecar(c, dest)
    \/ RenameIQ(c) \/ RenameSidecar(c) \/ StorePath(c)

-----------------------------------------------------------------------------
(* Cleanups *)

Goto(k, pc) == cleaner' = [cleaner EXCEPT ![k].pc = pc]
CleanerFrame == UNCHANGED <<captured, archiving, cached, analysis, policy, now>>

\* UpdateStoragePolicy saves the policy, then shows it.
UpdateStoragePolicy(p) ==
    /\ Valid(Normalized(p)) /\ policy' = Normalized(p) /\ policy' # policy
    /\ UNCHANGED <<disk, captured, row, archiving, cached, analysis, cleaner, flags, journal, now, cleanups>>

\* refreshStorageStatus: what it reads under the lock ...
RefreshStatus ==
    /\ ~flags.refreshing /\ cleaner[Periodic].pc = "idle" /\ cleanups < MaxCleanups
    /\ cleanups' = cleanups + 1
    /\ flags' = [flags EXCEPT !.refreshing = TRUE]
    /\ cleaner' = [cleaner EXCEPT ![Periodic] =
          [NoCleaner EXCEPT !.pc = "decide", !.policy = policy, !.full = policy.auto, !.seen = flags.pruning]]
    /\ UNCHANGED <<disk, row, journal>> /\ CleanerFrame

\* ... decides, in a goroutine, whether it cleans; the last cleanup must be 15
\* minutes ago.
Decide ==
    LET me == cleaner[Periodic] IN
      /\ me.pc = "decide"
      /\ \/ /\ (me.policy.auto \/ me.policy.quarantine) /\ ~me.seen
            /\ flags' = [flags EXCEPT !.pruning = TRUE]
            /\ Goto(Periodic, "quarantine")
         \/ Goto(Periodic, "status") /\ UNCHANGED flags
      /\ UNCHANGED <<disk, row, journal, cleanups>> /\ CleanerFrame

\* CleanStorageNow reads and sets the flag in one critical section.
CleanStorageNow(m) ==
    /\ ~flags.pruning /\ cleaner[m].pc = "idle" /\ cleanups < MaxCleanups
    /\ cleanups' = cleanups + 1
    /\ flags' = [flags EXCEPT !.pruning = TRUE]
    /\ cleaner' = [cleaner EXCEPT ![m] =
          [NoCleaner EXCEPT !.pc = "quarantine", !.policy = policy, !.full = TRUE]]
    /\ UNCHANGED <<disk, row, journal>> /\ CleanerFrame

\* pruneFilesOlderThan walks the directory by name: IQ before its sidecar.
Rejected(k) == {f \in Files : At(f, "Quarantine") /\ Age(f) >= Max({1, cleaner[k].policy.hours})}

RemoveRejected(k) ==
    /\ cleaner[k].pc = "quarantine" /\ cleaner[k].policy.quarantine
    /\ \E f \in Rejected(k) :
         /\ f[2] = "json" => <<f[1], "iq">> \notin Rejected(k)
         /\ disk' = [disk EXCEPT ![f] = Absent]
    /\ UNCHANGED <<row, cleaner, flags, journal, cleanups>> /\ CleanerFrame

\* A file that another cleanup removed first ends the walk with an error.
EndRejected(k) ==
    /\ cleaner[k].pc = "quarantine"
    /\ LET next == IF cleaner[k].full THEN "expire" ELSE "reconcile" IN
         \/ /\ cleaner[k].policy.quarantine => Rejected(k) = {}
            /\ Goto(k, next)
         \/ /\ \E other \in Cleaners \ {k} : cleaner[other].pc # "idle"
            /\ cleaner' = [cleaner EXCEPT ![k].pc = next, ![k].error = TRUE]
    /\ UNCHANGED <<disk, row, flags, journal, cleanups>> /\ CleanerFrame

\* pruneExpiredRecordings removes whole dated directories.
Expire(k) ==
    /\ cleaner[k].pc = "expire"
    /\ LET days == cleaner[k].policy.days
           expired(f) == /\ days > 0 /\ disk[f].class \in {"Retained", "Quarantine"}
                         /\ now - captured[f[1]] > days
       IN disk' = [f \in Files |-> IF expired(f) THEN Absent ELSE disk[f]]
    /\ Goto(k, "list")
    /\ UNCHANGED <<row, flags, journal, cleanups>> /\ CleanerFrame

Priority(class) ==
    CASE class = "Quarantine" -> 0 [] class = "Archive" -> 1 [] class = "Retained" -> 2 [] class = "Pending" -> 3

\* Faulty variant: oldest first, whatever the class.
BeforeByAge(a, b) ==
    \/ a.mtime < b.mtime
    \/ /\ a.mtime = b.mtime
       /\ \/ Priority(a.class) < Priority(b.class)
          \/ /\ a.class = b.class
             /\ a.file[1] < b.file[1] \/ (a.file[1] = b.file[1] /\ a.file[2] = "iq" /\ b.file[2] = "json")

\* The order of removal: priority, then age, then path.
Before(a, b) ==
    \/ Priority(a.class) < Priority(b.class)
    \/ /\ a.class = b.class
       /\ \/ a.mtime < b.mtime
          \/ /\ a.mtime = b.mtime
             /\ a.file[1] < b.file[1] \/ (a.file[1] = b.file[1] /\ a.file[2] = "iq" /\ b.file[2] = "json")

InOrder(S) ==
    {list \in [1..Cardinality(S) -> S] : \A i, j \in 1..Cardinality(S) : i < j => Before(list[i], list[j])}

\* pruneCaptureRootToCap lists the files.
List(k) ==
    /\ cleaner[k].pc = "list"
    /\ LET cap == cleaner[k].policy.cap
           listed == {[file |-> f, class |-> disk[f].class, mtime |-> disk[f].mtime] : f \in {g \in Files : Exists(g)}}
       IN IF cap = 0 \/ Used <= cap THEN Goto(k, "compact")
          ELSE \E list \in InOrder(listed) :
                 cleaner' = [cleaner EXCEPT ![k].pc = "prune", ![k].total = Used,
                                            ![k].listed = listed, ![k].list = list]
    /\ UNCHANGED <<disk, row, flags, journal, cleanups>> /\ CleanerFrame

Protected(entry) == now - entry.mtime < 1 \/ (entry.class = "Pending" /\ now - entry.mtime < Day)

\* Faulty variant: a file that is not there any more counts as removed.
RemoveListedLeniently(k) ==
    LET me == cleaner[k] entry == Head(me.list) IN
      /\ me.pc = "prune" /\ me.list # <<>> /\ me.total > me.policy.cap
      /\ IF Protected(entry)
         THEN cleaner' = [cleaner EXCEPT ![k].list = Tail(@)] /\ UNCHANGED disk
         ELSE /\ disk' = [disk EXCEPT ![entry.file] = IF @.class = entry.class THEN Absent ELSE @]
              /\ cleaner' = [cleaner EXCEPT ![k].list = Tail(@), ![k].total = @ - Size[entry.file[2]]]
      /\ UNCHANGED <<row, flags, journal, cleanups>> /\ CleanerFrame

\* ... and removes one after the other; a file that was moved or removed since
\* ends the cleanup with an error.
RemoveListed(k) ==
    LET me == cleaner[k] entry == Head(me.list) IN
      /\ me.pc = "prune" /\ me.list # <<>> /\ me.total > me.policy.cap
      /\ \/ /\ Protected(entry)
            /\ cleaner' = [cleaner EXCEPT ![k].list = Tail(@)] /\ UNCHANGED disk
         \/ /\ ~Protected(entry) /\ At(entry.file, entry.class)
            /\ disk' = [disk EXCEPT ![entry.file] = Absent]
            /\ cleaner' = [cleaner EXCEPT ![k].list = Tail(@), ![k].total = @ - Size[entry.file[2]]]
         \/ /\ ~Protected(entry) /\ ~At(entry.file, entry.class)
            /\ cleaner' = [cleaner EXCEPT ![k].pc = "compact", ![k].list = <<>>, ![k].error = TRUE]
            /\ UNCHANGED disk
      /\ UNCHANGED <<row, flags, journal, cleanups>> /\ CleanerFrame

EndPrune(k) ==
    /\ cleaner[k].pc = "prune" /\ (cleaner[k].list = <<>> \/ cleaner[k].total <= cleaner[k].policy.cap)
    /\ cleaner' = [cleaner EXCEPT ![k].pc = "compact", ![k].list = <<>>]
    /\ UNCHANGED <<disk, row, flags, journal, cleanups>> /\ CleanerFrame

\* compactCaptureIntervalJournal keeps the newest rows, under archiveMu.
Compact(k) ==
    /\ cleaner[k].pc = "compact" /\ archiving = None
    /\ journal' = Min({journal, JournalCap})
    /\ Goto(k, "reconcile")
    /\ UNCHANGED <<disk, row, flags, cleanups>> /\ CleanerFrame

\* ReconcileRemovedMedia clears paths that name no file.
Reconcile(k) ==
    /\ cleaner[k].pc = "reconcile"
    /\ row' = [c \in All |-> IF row[c] # "none" /\ ~At(<<c, "iq">>, row[c]) THEN "none" ELSE row[c]]
    /\ Goto(k, "finish")
    /\ UNCHANGED <<disk, flags, journal, cleanups>> /\ CleanerFrame

\* Faulty variant: a cleanup that met an error returns without its flag.
FinishOnSuccess(k) ==
    /\ cleaner[k].pc = "finish"
    /\ flags' = [flags EXCEPT !.pruning = cleaner[k].error]
    /\ cleaner' = [cleaner EXCEPT ![k] = IF k = Periodic THEN [NoCleaner EXCEPT !.pc = "status"] ELSE NoCleaner]
    /\ UNCHANGED <<disk, row, journal, cleanups>> /\ CleanerFrame

\* Faulty variant: the next cleanup starts from what this one left.
FinishUncleared(k) ==
    /\ cleaner[k].pc = "finish"
    /\ flags' = [flags EXCEPT !.pruning = FALSE]
    /\ Goto(k, IF k = Periodic THEN "status" ELSE "idle")
    /\ UNCHANGED <<disk, row, journal, cleanups>> /\ CleanerFrame

\* The result is stored and the flag cleared, whoever else is cleaning.
Finish(k) ==
    /\ cleaner[k].pc = "finish"
    /\ flags' = [flags EXCEPT !.pruning = FALSE]
    /\ cleaner' = [cleaner EXCEPT ![k] = IF k = Periodic THEN [NoCleaner EXCEPT !.pc = "status"] ELSE NoCleaner]
    /\ UNCHANGED <<disk, row, journal, cleanups>> /\ CleanerFrame

\* The periodic goroutine ends with new figures for the status.
EndStatus ==
    /\ cleaner[Periodic].pc = "status"
    /\ flags' = [flags EXCEPT !.refreshing = FALSE]
    /\ cleaner' = [cleaner EXCEPT ![Periodic] = NoCleaner]
    /\ UNCHANGED <<disk, row, journal, cleanups>> /\ CleanerFrame

CleanerStep(k) ==
    \/ RemoveRejected(k) \/ EndRejected(k) \/ Expire(k) \/ List(k) \/ RemoveListed(k) \/ EndPrune(k)
    \/ Compact(k) \/ Reconcile(k) \/ Finish(k)

-----------------------------------------------------------------------------
WriterStep(c) == WriteOriginalSidecar(c) \/ WriteEvidenceSidecar(c)

Next ==
    \/ Tick
    \/ \E c \in All : WriteOriginal(c) \/ RefuseOriginal(c) \/ WriteEvidence(c) \/ WriterStep(c)
    \/ \E c \in Captures : AnalysisStep(c)
    \/ \E p \in Policies : UpdateStoragePolicy(p)
    \/ RefreshStatus \/ Decide \/ EndStatus
    \/ \E m \in Manual : CleanStorageNow(m)
    \/ \E k \in Cleaners : CleanerStep(k)

Spec == Init /\ [][Next]_vars

-----------------------------------------------------------------------------
(* Properties *)

\* IQ without its sidecar cannot be analysed, moved or recovered.  Cleanups
\* and analyses take away one file at a time, each from what it saw earlier;
\* still, outside a write and a move an IQ file has its sidecar beside it.
IQKeepsSidecar ==
    \A c \in All :
      Exists(<<c, "iq">>) /\ archiving # c /\ (c \in Captures => analysis[c].pc # "sidecar")
        => At(<<c, "json">>, disk[<<c, "iq">>].class)

\* An original is written only where it fits below the cap, although the bytes
\* on disk are never measured again after the first original.
OriginalFits ==
    [][\A o \in Originals :
          ~Exists(<<o, "iq">>) /\ Exists(<<o, "iq">>)' => policy.cap = 0 \/ Used + Footprint <= policy.cap]_vars

\* A cleanup that reports no error has reached the cap for the files it listed,
\* wherever they are by now, or has left only protected ones.
CapReached ==
    \A k \in Cleaners :
      LET me == cleaner[k]
          left == {e \in me.listed : Exists(e.file)}
      IN me.pc \in {"compact", "reconcile", "finish"} /\ ~me.error
           => \/ Bytes({e.file : e \in left}) <= me.policy.cap
              \/ \A e \in left : Protected(e)

\* Retained evidence goes last: while a cleanup removes some of it, none of the
\* rejected or archived files it found unprotected is left where it found them.
RetainedLast ==
    [][\A k \in Cleaners :
         LET me == cleaner[k] IN
           /\ me.pc = "prune" /\ cleaner'[k] # me
           /\ \E e \in me.listed : e.class = "Retained" /\ At(e.file, "Retained") /\ ~Exists(e.file)'
           => \A e \in me.listed :
                e.class \in {"Quarantine", "Archive"} /\ ~Protected(e) => ~At(e.file, e.class)]_vars

\* Neither flag outlives the cleanup that set it, however cleanups overlap and
\* whatever errors they meet: a stuck one would refuse every later cleanup.
FlagsOwned ==
    /\ flags.pruning => \E k \in Cleaners : cleaner[k].pc \notin {"idle", "decide", "status"}
    /\ flags.refreshing <=> cleaner[Periodic].pc # "idle"

\* Evidence keeps its sidecar, a cleanup reaches its cap, and its flags go with
\* it.
FilesAccounted == IQKeepsSidecar /\ CapReached /\ FlagsOwned

\* Originals are written only where they fit, retained evidence goes last.
CleanupOrdered == OriginalFits /\ RetainedLast
=============================================================================
