------------------------------- MODULE RangeSync -------------------------------
(***************************************************************************)
(* Scan ranges from a shared sheet (range_sync.go): a configuration, a     *)
(* loop that syncs when it is woken or the interval is over, syncs asked   *)
(* for by users, and the cache a restart starts from.  Only the download   *)
(* excludes other syncs: what follows it may overlap with one of them.     *)
(***************************************************************************)
EXTENDS ProfileStore, FiniteSets

CONSTANTS
    Loop,        \* the goroutine of the manager
    Askers,      \* requests in progress
    Sheets,      \* sheet links
    Configs,     \* the configurations that are given: [enabled, url]
    Rows(_),     \* the profile IDs of a sheet
    NoSheet,     \* no sheet
    MaxAsked     \* bound: updates of the configuration and syncs asked for

\* A sheet without rows is an error of the download.
RangeSyncAssumption ==
    /\ MaxAsked \in Nat
    /\ NoSheet \notin Sheets
    /\ \A s \in Sheets : Rows(s) # {} /\ Rows(s) \subseteq SheetIds
    /\ \A c \in Configs : c \in [enabled : BOOLEAN, url : Sheets \cup {NoSheet}] /\ (c.enabled => c.url # NoSheet)

VARIABLES
    config,     \* [enabled, url]
    configFile, \* config.json
    cache,      \* cache.json: the sheet of its profiles
    syncing,    \* RangeSyncManager.syncing
    shown,      \* the status: [from: the sheet counted, error]
    wake,       \* RangeSyncManager.wake holds a token
    runs,       \* per goroutine: [pc, with: its configuration, alone]
    asked,      \* updates and syncs asked for so far
    unsettled,  \* syncs overlapped or failed to save, and none was alone since
    unsaved     \* writes of config.json crossed or failed, and none was alone since

syncvars == <<config, configFile, cache, syncing, shown, wake, runs, asked, unsettled, unsaved>>
rangevars == <<profilevars, syncvars>>

Syncers == {Loop} \cup Askers
Off == [enabled |-> FALSE, url |-> NoSheet]
Still == [pc |-> "idle", with |-> Off, wakes |-> FALSE, alone |-> TRUE]
Syncs == {p \in Syncers : runs[p].pc \in {"fetch", "replace", "cache", "report"}}
Writes == {p \in Syncers : runs[p].pc = "write"}

(* The sheet that the built-in sheet profiles are of. *)
Served ==
    LET synced == {id \in SheetIds : BuiltIn(id)}
    IN IF synced = {} THEN NoSheet ELSE profiles[CHOOSE id \in synced : TRUE].content

RangeSyncTypeOK ==
    /\ ProfilesTypeOK
    /\ {config, configFile} \subseteq Configs \cup {Off}
    /\ {cache, shown.from} \subseteq Sheets \cup {NoSheet}
    /\ \A p \in Syncs : runs[p].with.url # NoSheet

RangeSyncInit ==
    /\ ProfilesInit
    /\ config = Off /\ configFile = Off /\ cache = NoSheet
    /\ syncing = FALSE /\ shown = [from |-> NoSheet, error |-> FALSE]
    /\ wake = FALSE
    /\ runs = [p \in Syncers |-> Still]
    /\ asked = 0 /\ unsettled = FALSE /\ unsaved = FALSE

Ask == asked < MaxAsked /\ asked' = asked + 1
At(p, pc) == runs[p].pc = pc
To(p, pc) == runs' = [runs EXCEPT ![p].pc = pc]
Ends(p) == runs' = [runs EXCEPT ![p] = Still]

(* p goes on with c, in the company of others or alone. *)
Joins(p, next, others) ==
    runs' = [q \in Syncers |->
        CASE q = p -> [next EXCEPT !.alone = (others = {})]
          [] q \in others -> [runs[q] EXCEPT !.alone = FALSE]
          [] OTHER -> runs[q]]

-----------------------------------------------------------------------------
(* Update: the configuration is kept; then the one that is kept by then is  *)
(* read and written, and the loop is woken.                                 *)
Update(p, c) ==
    /\ At(p, "idle") /\ Ask
    /\ config' = c
    /\ shown' = IF c.enabled THEN shown ELSE [shown EXCEPT !.error = FALSE]
    /\ runs' = [runs EXCEPT ![p] = [Still EXCEPT !.pc = "persist", !.with = c, !.wakes = c.enabled]]
    /\ UNCHANGED <<profilevars, configFile, cache, syncing, wake, unsettled, unsaved>>

\* Faulty variant: an update writes the configuration it was given.
ReadConfigGiven(p) ==
    /\ At(p, "persist")
    /\ Joins(p, [runs[p] EXCEPT !.pc = "write"], Writes)
    /\ unsaved' = (unsaved \/ Writes # {})
    /\ UNCHANGED <<profilevars, config, configFile, cache, syncing, shown, wake, asked, unsettled>>

(* persistConfig reads the configuration. *)
ReadConfig(p) ==
    /\ At(p, "persist")
    /\ Joins(p, [runs[p] EXCEPT !.pc = "write", !.with = config], Writes)
    /\ unsaved' = (unsaved \/ Writes # {})
    /\ UNCHANGED <<profilevars, config, configFile, cache, syncing, shown, wake, asked, unsettled>>

(* persistConfig replaces config.json; one token at most wakes the loop. *)
WriteConfig(p) ==
    /\ At(p, "write") /\ Ends(p)
    /\ configFile' = runs[p].with
    /\ unsaved' = (unsaved /\ ~runs[p].alone)
    /\ wake' = (wake \/ runs[p].wakes)
    /\ UNCHANGED <<profilevars, config, cache, syncing, shown, asked, unsettled>>

WriteConfigFails(p) ==
    /\ At(p, "write") /\ Ends(p)
    /\ faults < MaxFaults /\ faults' = faults + 1
    /\ unsaved' = TRUE
    /\ UNCHANGED <<profiles, files, edits, config, configFile, cache, syncing, shown, wake, asked, unsettled>>

-----------------------------------------------------------------------------
\* Faulty variant: a sync that is going on is not noticed.
BeginAnyway(p) ==
    IF config.url = NoSheet
    THEN shown' = [shown EXCEPT !.error = TRUE] /\ UNCHANGED <<syncing, runs, unsettled>>
    ELSE /\ syncing' = TRUE
         /\ Joins(p, [Still EXCEPT !.pc = "fetch", !.with = config], Syncs)
         /\ unsettled' = (unsettled \/ Syncs # {})
         /\ UNCHANGED shown

(* sync: refused during a download of another, an error without a link. *)
Begin(p) ==
    IF syncing THEN UNCHANGED <<syncing, shown, runs, unsettled>>
    ELSE IF config.url = NoSheet
    THEN shown' = [shown EXCEPT !.error = TRUE] /\ UNCHANGED <<syncing, runs, unsettled>>
    ELSE /\ syncing' = TRUE
         /\ Joins(p, [Still EXCEPT !.pc = "fetch", !.with = config], Syncs)
         /\ unsettled' = (unsettled \/ Syncs # {})
         /\ UNCHANGED shown

SyncNow(p) ==
    /\ At(p, "idle") /\ Ask /\ Begin(p)
    /\ UNCHANGED <<profilevars, config, configFile, cache, wake, unsaved>>

(* loop: the token is used up, also when the sync is refused; it is not     *)
(* looked at whether syncs are still enabled.                               *)
Woken ==
    /\ At(Loop, "idle") /\ wake
    /\ wake' = FALSE /\ Begin(Loop)
    /\ UNCHANGED <<profilevars, config, configFile, cache, asked, unsaved>>

\* Faulty variant: a sync that failed is not tried again.
TickAfterSuccess ==
    /\ At(Loop, "idle") /\ config.enabled /\ ~syncing /\ ~shown.error
    /\ Begin(Loop)
    /\ UNCHANGED <<profilevars, config, configFile, cache, wake, asked, unsaved>>

(* The interval since the last attempt is over, which may be at any time. *)
Tick ==
    /\ At(Loop, "idle") /\ config.enabled /\ ~syncing
    /\ Begin(Loop)
    /\ UNCHANGED <<profilevars, config, configFile, cache, wake, asked, unsaved>>

-----------------------------------------------------------------------------
(* The download and what it contains: the next sync may begin. *)
Fetched(p) ==
    /\ At(p, "fetch") /\ To(p, "replace")
    /\ syncing' = FALSE
    /\ UNCHANGED <<profilevars, config, configFile, cache, shown, wake, asked, unsettled, unsaved>>

\* Faulty variant: a sheet that cannot be read leaves no profiles.
FetchFailsEmpty(p) ==
    /\ At(p, "fetch") /\ Ends(p)
    /\ faults < MaxFaults /\ faults' = faults + 1
    /\ syncing' = FALSE /\ shown' = [shown EXCEPT !.error = TRUE]
    /\ profiles' = Without(profiles, SheetIds)
    /\ UNCHANGED <<files, edits, config, configFile, cache, wake, asked, unsettled, unsaved>>

FetchFails(p) ==
    /\ At(p, "fetch") /\ Ends(p)
    /\ faults < MaxFaults /\ faults' = faults + 1
    /\ syncing' = FALSE /\ shown' = [shown EXCEPT !.error = TRUE]
    /\ UNCHANGED <<profiles, files, edits, config, configFile, cache, wake, asked, unsettled, unsaved>>

Replace(p) ==
    /\ At(p, "replace") /\ To(p, "cache")
    /\ profiles' = Replaced(profiles, Rows(runs[p].with.url), runs[p].with.url)
    /\ UNCHANGED <<files, edits, faults, config, configFile, cache, syncing, shown, wake, asked, unsettled, unsaved>>

WriteCache(p) ==
    /\ At(p, "cache") /\ To(p, "report")
    /\ cache' = runs[p].with.url
    /\ UNCHANGED <<profilevars, config, configFile, syncing, shown, wake, asked, unsettled, unsaved>>

(* setError also clears syncing, whichever sync has set it. *)
WriteCacheFails(p) ==
    /\ At(p, "cache") /\ Ends(p)
    /\ faults < MaxFaults /\ faults' = faults + 1
    /\ syncing' = FALSE /\ shown' = [shown EXCEPT !.error = TRUE]
    /\ unsettled' = TRUE
    /\ UNCHANGED <<profiles, files, edits, config, configFile, cache, wake, asked, unsaved>>

Report(p) ==
    /\ At(p, "report") /\ Ends(p)
    /\ shown' = [from |-> runs[p].with.url, error |-> FALSE]
    /\ unsettled' = (unsettled /\ ~runs[p].alone)
    /\ UNCHANGED <<profilevars, config, configFile, cache, syncing, wake, asked, unsaved>>

-----------------------------------------------------------------------------
(* The program is started again: NewProfileStore, loadConfig, loadCache. *)
RestartSync ==
    /\ faults < MaxFaults /\ faults' = faults + 1
    /\ profiles' = IF cache = NoSheet THEN Loaded(files) ELSE Replaced(Loaded(files), Rows(cache), cache)
    /\ config' = configFile
    /\ shown' = [from |-> cache, error |-> FALSE]
    /\ wake' = configFile.enabled /\ syncing' = FALSE
    /\ runs' = [p \in Syncers |-> Still]
    /\ unsettled' = FALSE /\ unsaved' = FALSE
    /\ UNCHANGED <<files, edits, configFile, cache, asked>>

EditSynced == UserEdits /\ UNCHANGED syncvars

Continue(p) ==
    \/ ReadConfig(p) \/ WriteConfig(p) \/ Fetched(p) \/ Replace(p) \/ WriteCache(p) \/ Report(p)

RangeSyncNext ==
    \/ \E p \in Askers : SyncNow(p) \/ \E c \in Configs : Update(p, c)
    \/ \E p \in Syncers : Continue(p) \/ WriteConfigFails(p) \/ FetchFails(p) \/ WriteCacheFails(p)
    \/ Woken \/ Tick \/ RestartSync \/ EditSynced

RangeSyncSpec == RangeSyncInit /\ [][RangeSyncNext]_rangevars

-----------------------------------------------------------------------------
(* At rest the profiles served are of one sheet, the one that is cached and *)
(* reported, whatever was changed during a sync, unless syncs overlapped or *)
(* one could not save its cache, and no other was alone since (sync).       *)
SyncAgrees ==
    Syncs = {} /\ ~unsettled => Served = cache /\ cache = shown.from

(* Downloads exclude each other, until a failed write of the cache clears   *)
(* the flag of another sync (sync, setError).                               *)
OneDownload == faults = 0 => Cardinality({p \in Syncers : At(p, "fetch")}) <= 1

(* What a restart would use is the configuration that is in force, when no  *)
(* update is in progress and none wrote at the same time as another         *)
(* (Update, persistConfig).                                                 *)
ConfigSaved ==
    (\A p \in Syncers : ~At(p, "persist")) /\ Writes = {} /\ ~unsaved => configFile = config
=============================================================================
