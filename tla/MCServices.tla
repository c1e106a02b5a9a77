------------------------------ MODULE MCServices ------------------------------
(* The services beside the receivers: range sync and local database, which  *)
(* change the profiles, the local model, the installer, the confirmed       *)
(* samples and the remote receivers.  Range sync and local database each    *)
(* run with the profile store, so a behaviour is of one of them.            *)
EXTENDS Naturals, FiniteSets

CONSTANTS
    FactoryIds, SheetIds, UserIds, LibraryIds, Factory, Loop, Askers, Sheets, NoSheet,
    Scanners, Folders, NoFolder, Analyses, Bench, Bands, Modulations, Confidences, Minimums,
    Requests, Packages, Speech, Codec, Signals, Editors, Remotes, Cases,
    MaxEdits, MaxFaults, MaxAsked, MaxScans, MaxModels, MaxConfigs, MaxBenchmarks,
    MaxJobs, MaxRestarts, MaxConfirmations, MaxLosses, MaxSaves, MaxUpsets

VARIABLES part,
    profiles, files, edits, faults,
    config, configFile, cache, syncing, shown, wake, runs, asked, unsettled, unsaved,
    folder, folderFile, scanning, report, scans, requests, missed, crossed,
    settings, settingsFile, editors, configs, calls, semaphore, benchmark, tally, benchmarks,
    present, codecFile, model, download, jobs, checked, found, restarts,
    samples, sampleFile, confirmations, confirmed, losses,
    remotes, remoteFile, devices, receiving, refreshes, saves, upsets, outdated, started

(* One sheet has both profiles, the other the first; so have the folders. *)
MCRows(sheet) == IF sheet = CHOOSE s \in Sheets : TRUE THEN SheetIds ELSE {CHOOSE id \in SheetIds : TRUE}
MCFilesIn(f) == IF f = CHOOSE o \in Folders : TRUE THEN LibraryIds ELSE {CHOOSE id \in LibraryIds : TRUE}
(* Each of the sheets, and one of them for syncs that are asked for. *)
MCConfigs ==
    [enabled : {TRUE}, url : Sheets] \cup [enabled : {FALSE}, url : {CHOOSE s \in Sheets : TRUE}]
(* The first case can be told from its measurements, the second cannot. *)
MCCaseOf(n) ==
    [band |-> CHOOSE b \in Bands : TRUE,
     measured |-> IF n = 1 THEN CHOOSE m \in Modulations : TRUE ELSE "UNKNOWN"]

R == INSTANCE RangeSync WITH Rows <- MCRows, Configs <- MCConfigs
D == INSTANCE LocalDatabase WITH FilesIn <- MCFilesIn
A == INSTANCE LocalModel WITH CaseOf <- MCCaseOf
I == INSTANCE Installer WITH part <- download
C == INSTANCE ConfirmedSamples
N == INSTANCE RemoteReceivers

ASSUME ServicesAssumption ==
    /\ R!ProfileStoreAssumption /\ R!RangeSyncAssumption /\ D!LocalDatabaseAssumption
    /\ A!LocalModelAssumption /\ I!InstallerAssumption /\ C!ConfirmedSamplesAssumption
    /\ N!RemoteReceiversAssumption

pvars == <<profiles, files, edits, faults>>
rvars == <<config, configFile, cache, syncing, shown, wake, runs, asked, unsettled, unsaved>>
dvars == <<folder, folderFile, scanning, report, scans, requests, missed, crossed>>
avars == <<settings, settingsFile, editors, configs, calls, semaphore, benchmark, tally, benchmarks>>
ivars == <<present, codecFile, model, download, jobs, checked, found, restarts>>
cvars == <<samples, sampleFile, confirmations, confirmed, losses>>
nvars == <<remotes, remoteFile, devices, receiving, refreshes, saves, upsets, outdated, started>>
allvars == <<part, pvars, rvars, dvars, avars, ivars, cvars, nvars>>

(* The parts that are not of the behaviour are in one of their initial      *)
(* states.                                                                  *)
MCInit ==
    /\ part \in {"sync", "database", "model", "installer", "samples", "remotes"}
    /\ R!RangeSyncInit /\ D!LocalDatabaseInit /\ C!SamplesInit /\ N!RemotesInit
    /\ A!LocalModelInit /\ (part # "model" => settings = CHOOSE s \in A!Settings : TRUE)
    /\ I!InstallerInit /\ (part # "installer" => present = {})

Sync(X) == part = "sync" /\ X /\ UNCHANGED <<part, dvars, avars, ivars, cvars, nvars>>
Scan(X) == part = "database" /\ X /\ UNCHANGED <<part, rvars, avars, ivars, cvars, nvars>>
Ask(X) == part = "model" /\ X /\ UNCHANGED <<part, pvars, rvars, dvars, ivars, cvars, nvars>>
Install(X) == part = "installer" /\ X /\ UNCHANGED <<part, pvars, rvars, dvars, avars, cvars, nvars>>
Confirm(X) == part = "samples" /\ X /\ UNCHANGED <<part, pvars, rvars, dvars, avars, ivars, nvars>>
Remote(X) == part = "remotes" /\ X /\ UNCHANGED <<part, pvars, rvars, dvars, avars, ivars, cvars>>

MCNext ==
    \/ Sync(R!RangeSyncNext) \/ Scan(D!LocalDatabaseNext) \/ Ask(A!LocalModelNext)
    \/ Install(I!InstallerNext) \/ Confirm(C!SamplesNext) \/ Remote(N!RemotesNext)

(* The goroutines run, intervals end, and every call of the runtime has a   *)
(* time limit.  Those that wait for the runtime are served in their order.  *)
Fairness ==
    /\ \A p \in R!Syncers : WF_allvars(Sync(R!Continue(p)))
    /\ WF_allvars(Sync(R!Woken \/ R!Tick))
    /\ WF_allvars(\E s \in Scanners : Scan(D!ContinueScan(s)))
    /\ WF_allvars(\E c \in A!Callers : Ask(A!EndOf(c)))
    /\ SF_allvars(Ask(A!Acquire(Bench))) /\ WF_allvars(Ask(A!BenchWork))
    /\ WF_allvars(Install(\E j \in DOMAIN jobs : I!JobStep(j)))

MCSpec == MCInit /\ [][MCNext]_allvars /\ Fairness

(* The type invariants of the modules. *)
ServicesTypeOK ==
    /\ R!RangeSyncTypeOK /\ D!LocalDatabaseTypeOK /\ A!LocalModelTypeOK
    /\ I!InstallerTypeOK /\ C!SamplesTypeOK /\ N!RemotesTypeOK

(* A restart serves the same profiles, none of the program's is replaced      *)
(* (ProfileStore), and profiles, cache, report and configuration are of one   *)
(* sheet, downloaded once at a time (RangeSync).                             *)
ProfilesAgree ==
    /\ R!ReloadAgrees /\ R!FactoryKept
    /\ R!SyncAgrees /\ R!OneDownload /\ R!ConfigSaved

(* One scan, one call and one installation at a time; what they reported is   *)
(* there: imported files (LocalDatabase), answers that name what was measured *)
(* (LocalModel), packages that are ready and found (Installer), confirmed     *)
(* samples (ConfirmedSamples), saved receivers (RemoteReceivers).             *)
ServicesTruthful ==
    /\ D!OneScan /\ D!ReportedImported /\ D!FolderSaved
    /\ A!OneCall /\ A!AnswerGrounded /\ A!ContradictionDoubted
    /\ I!OneInstallation /\ I!ReadyWorks /\ I!InstalledFound
    /\ C!ConfirmedKept /\ C!OneSamplePerEvent
    /\ N!RemotesListed

(* What is asked for and not there yet: the profiles of the sheet while     *)
(* syncs are enabled; the scan of the folder, unless it returned at once    *)
(* because another was in progress; a benchmark; an installation.           *)
Pending ==
    \/ config.enabled /\ R!Served # config.url
    \/ folder # NoFolder /\ report.folder # folder /\ ~missed
    \/ benchmark.running
    \/ I!Active # {}

(* It is there at last, whatever failed or was refused before (loop, sync,  *)
(* Scan, runBenchmark, run, runJMBECreator).                                *)
AskedForIsDone == Pending ~> ~Pending
=============================================================================
