----------------------------- MODULE LocalDatabase -----------------------------
(***************************************************************************)
(* A folder of channel files that becomes profiles (local_database.go,     *)
(* saveChannelBanks in channel_import.go).  Its scans run beside users'    *)
(* edits of the same profiles; a scan that is asked for during another     *)
(* returns at once, also when the folder was changed meanwhile.            *)
(***************************************************************************)
EXTENDS ProfileStore

CONSTANTS
    Scanners,    \* requests and goroutines that scan
    Folders,     \* folders that may be chosen
    FilesIn(_),  \* the IDs of the profiles of a folder's files
    NoFolder,    \* no folder
    MaxScans     \* bound: scans asked for and folders chosen

LocalDatabaseAssumption ==
    /\ MaxScans \in Nat /\ NoFolder \notin Folders
    /\ \A f \in Folders : FilesIn(f) \subseteq LibraryIds

VARIABLES
    folder,     \* LocalDatabaseStatus.Folder
    folderFile, \* local-database.json, written in place
    scanning,   \* LocalDatabaseStatus.Scanning
    report,     \* the last scan's status: [folder, imported, skipped]
    scans,      \* per goroutine: [pc, folder, left: IDs to import, imported, skipped]
    requests,   \* scans and folders so far
    missed,     \* a scan of a new folder returned at once, and none began since
    crossed     \* choices of a folder crossed or failed, and none was alone since

scanvars == <<folder, folderFile, scanning, report, scans, requests, missed, crossed>>
libraryvars == <<profilevars, scanvars>>

Waiting == [pc |-> "idle", folder |-> NoFolder, left |-> {}, imported |-> {}, skipped |-> {}]
Unscanned == [folder |-> NoFolder, imported |-> {}, skipped |-> {}]
Choosing == {s \in Scanners : scans[s].pc = "chosen"}

LocalDatabaseTypeOK ==
    /\ ProfilesTypeOK
    /\ {folder, folderFile, report.folder} \subseteq Folders \cup {NoFolder}
    /\ \A s \in Scanners : scans[s].pc = "import" =>
         scans[s].left \cup scans[s].imported \cup scans[s].skipped \subseteq FilesIn(scans[s].folder)

LocalDatabaseInit ==
    /\ ProfilesInit
    /\ folder = NoFolder /\ folderFile = NoFolder
    /\ scanning = FALSE /\ report = Unscanned
    /\ scans = [s \in Scanners |-> Waiting]
    /\ requests = 0 /\ missed = FALSE /\ crossed = FALSE

On(s, pc) == scans[s].pc = pc
Becomes(s, next) == scans' = [scans EXCEPT ![s] = next]

-----------------------------------------------------------------------------
\* Faulty variant: a file that cannot be written is not noticed.
WriteFolderUnchecked(s, f) ==
    /\ On(s, "idle") /\ requests < MaxScans /\ requests' = requests + 1
    /\ folderFile' \in {folderFile, f}
    /\ Becomes(s, [Waiting EXCEPT !.pc = "chosen", !.folder = f])
    /\ crossed' = (Choosing # {})
    /\ UNCHANGED <<profilevars, folder, scanning, report, missed>>

(* SetFolder writes the file, then keeps the folder and starts a scan. *)
WriteFolder(s, f) ==
    /\ On(s, "idle") /\ requests < MaxScans /\ requests' = requests + 1
    /\ folderFile' = f
    /\ Becomes(s, [Waiting EXCEPT !.pc = "chosen", !.folder = f])
    /\ crossed' = (Choosing # {})
    /\ UNCHANGED <<profilevars, folder, scanning, report, missed>>

KeepFolder(s) ==
    /\ On(s, "chosen")
    /\ folder' = scans[s].folder
    /\ Becomes(s, [Waiting EXCEPT !.pc = "scan"])
    /\ UNCHANGED <<profilevars, folderFile, scanning, report, requests, missed, crossed>>

AskScan(s) ==
    /\ On(s, "idle") /\ requests < MaxScans /\ requests' = requests + 1
    /\ Becomes(s, [Waiting EXCEPT !.pc = "scan"])
    /\ UNCHANGED <<profilevars, folder, folderFile, scanning, report, missed, crossed>>

\* Faulty variant: a scan in progress is not noticed.
BeginScanAnyway(s) ==
    /\ On(s, "scan")
    /\ scanning' = TRUE /\ missed' = FALSE
    /\ Becomes(s, [Waiting EXCEPT !.pc = "import", !.folder = folder,
                                  !.left = IF folder = NoFolder THEN {} ELSE FilesIn(folder)])
    /\ UNCHANGED <<profilevars, folder, folderFile, report, requests, crossed>>

(* Scan lists the files, unless another scan is in progress. *)
BeginScan(s) ==
    /\ On(s, "scan") /\ ~scanning
    /\ scanning' = TRUE /\ missed' = FALSE
    /\ Becomes(s, [Waiting EXCEPT !.pc = "import", !.folder = folder,
                                  !.left = IF folder = NoFolder THEN {} ELSE FilesIn(folder)])
    /\ UNCHANGED <<profilevars, folder, folderFile, report, requests, crossed>>

ScanRefused(s) ==
    /\ On(s, "scan") /\ scanning
    /\ Becomes(s, Waiting)
    /\ missed' = (missed \/ \E o \in Scanners : On(o, "import") /\ scans[o].folder # folder)
    /\ UNCHANGED <<profilevars, folder, folderFile, scanning, report, requests, crossed>>

\* Faulty variant: a file that could not be saved counts as imported.
ImportFileCounted(s, id) ==
    /\ On(s, "import") /\ id \in scans[s].left
    /\ Save(id, scans[s].folder)
    /\ Becomes(s, [scans[s] EXCEPT !.left = @ \ {id}, !.imported = @ \cup {id}])
    /\ UNCHANGED <<edits, folder, folderFile, scanning, report, requests, missed, crossed>>

(* importFile: a file's profile keeps its ID from scan to scan and from     *)
(* folder to folder.                                                        *)
ImportFile(s, id) ==
    /\ On(s, "import") /\ id \in scans[s].left
    /\ Save(id, scans[s].folder)
    /\ Becomes(s, IF faults' = faults
                  THEN [scans[s] EXCEPT !.left = @ \ {id}, !.imported = @ \cup {id}]
                  ELSE [scans[s] EXCEPT !.left = @ \ {id}, !.skipped = @ \cup {id}])
    /\ UNCHANGED <<edits, folder, folderFile, scanning, report, requests, missed, crossed>>

EndScan(s) ==
    /\ On(s, "import") /\ scans[s].left = {}
    /\ scanning' = FALSE
    /\ report' = [folder |-> scans[s].folder, imported |-> scans[s].imported, skipped |-> scans[s].skipped]
    /\ Becomes(s, Waiting)
    /\ UNCHANGED <<profilevars, folder, folderFile, requests, missed, crossed>>

(* The program is killed, in a write of local-database.json or not, and     *)
(* started again: the folder that was saved is scanned.                     *)
RestartDatabase(s) ==
    /\ faults < MaxFaults /\ faults' = faults + 1
    /\ folderFile' \in {folderFile} \cup (IF Choosing = {} THEN {} ELSE {NoFolder})
    /\ folder' = folderFile' /\ profiles' = Loaded(files)
    /\ scanning' = FALSE /\ report' = Unscanned /\ missed' = FALSE /\ crossed' = FALSE
    /\ scans' = [o \in Scanners |->
         IF o = s /\ folder' # NoFolder THEN [Waiting EXCEPT !.pc = "scan"] ELSE Waiting]
    /\ UNCHANGED <<files, edits, requests>>

EditLibrary == UserEdits /\ UNCHANGED scanvars

ContinueScan(s) ==
    \/ KeepFolder(s) \/ BeginScan(s) \/ ScanRefused(s) \/ EndScan(s)
    \/ \E id \in LibraryIds : ImportFile(s, id)

LocalDatabaseNext ==
    \/ \E s \in Scanners :
         \/ AskScan(s) \/ \E f \in Folders : WriteFolder(s, f)
         \/ ContinueScan(s) \/ RestartDatabase(s)
    \/ EditLibrary

LocalDatabaseSpec == LocalDatabaseInit /\ [][LocalDatabaseNext]_libraryvars

-----------------------------------------------------------------------------
(* Profiles are imported by one scan at a time, so profiles of two folders  *)
(* with the same ID do not alternate (Scan).                                *)
OneScan == \A s, o \in Scanners : On(s, "import") /\ On(o, "import") => s = o

(* Until another scan begins, the profiles a scan reported are there, from  *)
(* its folder or as a user changed them since, unless deleted (Scan,        *)
(* importFile).                                                             *)
ReportedImported ==
    ~scanning => \A id \in report.imported :
        Known(id) => profiles[id].content \in {report.folder} \cup 1..MaxEdits

(* The folder in use is the one that a restart uses, unless choices of      *)
(* folders crossed and none was made alone since (SetFolder).               *)
FolderSaved == Choosing = {} /\ ~crossed => folder = folderFile
=============================================================================
