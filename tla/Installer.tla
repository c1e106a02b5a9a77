------------------------------- MODULE Installer -------------------------------
(***************************************************************************)
(* The installation of optional components (installer.go): a package       *)
(* manager, with the download of the speech model for the transcription,   *)
(* or a creator that writes the P25 voice codec, in one job at a time,     *)
(* followed by a refresh of what the program has found.                    *)
(***************************************************************************)
EXTENDS Naturals, FiniteSets

CONSTANTS
    Requests,    \* requests in progress
    Packages,    \* components of the package manager
    Speech,      \* the component that also needs the speech model
    Codec,       \* the component that is created
    MaxJobs,     \* bound: installations
    MaxRestarts  \* bound: restarts

InstallerAssumption ==
    {MaxJobs, MaxRestarts} \subseteq Nat /\ Speech \in Packages /\ Codec \notin Packages

VARIABLES
    present,   \* packages whose tools are installed
    codecFile, \* the codec: "none", "part" or "whole"
    model,     \* the speech model: "none", "wrong" (not the pinned file) or "right"
    part,      \* the download that is not complete: "none", "short", "wrong" or "right"
    jobs,      \* all installations: [component, pc, state: what the status says]
    checked,   \* per request: the component found not ready, or none
    found,     \* components of the last refresh
    restarts   \* restarts so far

installvars == <<present, codecFile, model, part, jobs, checked, found, restarts>>

Components == Packages \cup {Codec}
Nothing == "nothing"
None == "none"

(* recipeReady, Transcriber.Status and findJMBELibrary: a file that exists  *)
(* is taken for the component.                                              *)
Ready(c) ==
    IF c = Codec THEN codecFile # None
    ELSE c \in present /\ (c = Speech => model # None)
Works(c) ==
    IF c = Codec THEN codecFile = "whole"
    ELSE c \in present /\ (c = Speech => model = "right")
Active == {j \in DOMAIN jobs : jobs[j].pc # "over"}

InstallerTypeOK ==
    /\ present \subseteq Packages /\ found \subseteq Components
    /\ Cardinality(DOMAIN jobs) <= MaxJobs
    /\ \A j \in DOMAIN jobs : jobs[j].pc \in {"tool", "model", "copy", "verify"} => jobs[j].state = "installing"

InstallerInit ==
    /\ present \in SUBSET Packages /\ model = None /\ part = None /\ codecFile = None
    /\ jobs = [j \in {} |-> Nothing]
    /\ checked = [r \in Requests |-> Nothing]
    /\ found = {c \in Components : Ready(c)}
    /\ restarts = 0

Job(j, pc, state) == jobs' = [jobs EXCEPT ![j].pc = pc, ![j].state = state]
At(j, pc) == j \in DOMAIN jobs /\ jobs[j].pc = pc

-----------------------------------------------------------------------------
(* Start looks whether the component is there before it looks for a job. *)
Check(r, c) ==
    /\ checked[r] = Nothing /\ ~Ready(c)
    /\ checked' = [checked EXCEPT ![r] = c]
    /\ UNCHANGED <<present, codecFile, model, part, jobs, found, restarts>>

Refuse(r) ==
    /\ checked[r] # Nothing /\ \E j \in DOMAIN jobs : jobs[j].state = "installing"
    /\ checked' = [checked EXCEPT ![r] = Nothing]
    /\ UNCHANGED <<present, codecFile, model, part, jobs, found, restarts>>

\* Faulty variant: only a job for the same component is looked for.
BeginJobBeside(r) ==
    /\ checked[r] # Nothing /\ Cardinality(DOMAIN jobs) < MaxJobs
    /\ \A j \in Active : jobs[j].component # checked[r]
    /\ jobs' = [j \in 1..Cardinality(DOMAIN jobs) + 1 |->
                 IF j \in DOMAIN jobs THEN jobs[j]
                 ELSE [component |-> checked[r], pc |-> "tool", state |-> "installing"]]
    /\ checked' = [checked EXCEPT ![r] = Nothing]
    /\ UNCHANGED <<present, codecFile, model, part, found, restarts>>

BeginJob(r) ==
    /\ checked[r] # Nothing /\ Cardinality(DOMAIN jobs) < MaxJobs
    /\ \A j \in DOMAIN jobs : jobs[j].state # "installing"
    /\ jobs' = [j \in 1..Cardinality(DOMAIN jobs) + 1 |->
                 IF j \in DOMAIN jobs THEN jobs[j]
                 ELSE [component |-> checked[r], pc |-> "tool", state |-> "installing"]]
    /\ checked' = [checked EXCEPT ![r] = Nothing]
    /\ UNCHANGED <<present, codecFile, model, part, found, restarts>>

(* The package manager or the creator ends. *)
ToolDone(j) ==
    /\ At(j, "tool")
    /\ LET c == jobs[j].component
       IN IF c = Codec THEN codecFile' = "whole" /\ UNCHANGED present
          ELSE present' = present \cup {c} /\ UNCHANGED codecFile
    /\ IF jobs[j].component = Speech /\ model = None THEN Job(j, "model", "installing")
       ELSE Job(j, "refresh", "ready")
    /\ UNCHANGED <<model, part, checked, found, restarts>>

(* A creator that fails may leave a part of the codec where it is looked    *)
(* for.                                                                     *)
ToolFails(j) ==
    /\ At(j, "tool")
    /\ codecFile' \in IF jobs[j].component = Codec THEN {codecFile, "part"} ELSE {codecFile}
    /\ Job(j, "over", "error")
    /\ UNCHANGED <<present, model, part, checked, found, restarts>>

-----------------------------------------------------------------------------
(* downloadWhisperModel: no connection, or an error status. *)
DownloadRefused(j) ==
    /\ At(j, "model")
    /\ Job(j, "over", "error")
    /\ UNCHANGED <<present, codecFile, model, part, checked, found, restarts>>

(* The download begins with an empty file, whatever an earlier one left. *)
Download(j) ==
    /\ At(j, "model")
    /\ part' = "short" /\ Job(j, "copy", "installing")
    /\ UNCHANGED <<present, codecFile, model, checked, found, restarts>>

Copied(j, what) ==
    /\ At(j, "copy") /\ what \in {"wrong", "right"}
    /\ part' = what /\ Job(j, "verify", "installing")
    /\ UNCHANGED <<present, codecFile, model, checked, found, restarts>>

(* The connection breaks, or less than the model arrives. *)
CopyFails(j) ==
    /\ At(j, "copy")
    /\ part' = None /\ Job(j, "over", "error")
    /\ UNCHANGED <<present, codecFile, model, checked, found, restarts>>

\* Faulty variant: the file is moved before its checksum is looked at.
VerifyAfter(j) ==
    /\ At(j, "verify")
    /\ model' = part /\ part' = None
    /\ IF part = "right" THEN Job(j, "refresh", "ready") ELSE Job(j, "over", "error")
    /\ UNCHANGED <<present, codecFile, checked, found, restarts>>

Verify(j) ==
    /\ At(j, "verify")
    /\ part' = None
    /\ IF part = "right" THEN model' = "right" /\ Job(j, "refresh", "ready")
       ELSE UNCHANGED model /\ Job(j, "over", "error")
    /\ UNCHANGED <<present, codecFile, checked, found, restarts>>

\* Faulty variant: what the program has found is not looked at again.
RefreshNever(j) ==
    /\ At(j, "refresh")
    /\ Job(j, "over", jobs[j].state)
    /\ UNCHANGED <<present, codecFile, model, part, checked, found, restarts>>

(* onRefresh, after the job is reported as ready: the next may begin. *)
RefreshFound(j) ==
    /\ At(j, "refresh")
    /\ found' = {c \in Components : Ready(c)}
    /\ Job(j, "over", jobs[j].state)
    /\ UNCHANGED <<present, codecFile, model, part, checked, restarts>>

(* The program ends and starts again; its tools end with it. *)
RestartInstaller ==
    /\ restarts < MaxRestarts /\ restarts' = restarts + 1
    /\ codecFile' \in IF \E j \in DOMAIN jobs : At(j, "tool") /\ jobs[j].component = Codec
                      THEN {codecFile, "part"} ELSE {codecFile}
    /\ jobs' = [j \in DOMAIN jobs |-> [jobs[j] EXCEPT !.pc = "over", !.state = "error"]]
    /\ checked' = [r \in Requests |-> Nothing]
    /\ found' = {c \in Components : IF c = Codec THEN codecFile' # None ELSE Ready(c)}
    /\ UNCHANGED <<present, model, part>>

JobStep(j) ==
    \/ ToolDone(j) \/ ToolFails(j) \/ DownloadRefused(j) \/ Download(j)
    \/ CopyFails(j) \/ Verify(j) \/ RefreshFound(j)
    \/ \E what \in {"wrong", "right"} : Copied(j, what)

InstallerNext ==
    \/ \E r \in Requests : Refuse(r) \/ BeginJob(r) \/ \E c \in Components : Check(r, c)
    \/ \E j \in DOMAIN jobs : JobStep(j)
    \/ RestartInstaller

InstallerSpec == InstallerInit /\ [][InstallerNext]_installvars

-----------------------------------------------------------------------------
(* Package managers and creators do not run beside each other, whatever     *)
(* components are asked for at once (Start).                                *)
OneInstallation == \A i, j \in Active : jobs[i].pc # "refresh" /\ jobs[j].pc # "refresh" => i = j

(* A component of the package manager that is reported or found ready works *)
(* (run, downloadWhisperModel): a model that is not the pinned one, or not  *)
(* complete, is never installed.                                            *)
ReadyWorks ==
    /\ \A c \in Packages : Ready(c) => Works(c)
    /\ \A j \in DOMAIN jobs : jobs[j].state = "ready" => Ready(jobs[j].component)

(* When nothing is installed, a component that was installed is found       *)
(* without a restart (onRefresh).                                           *)
InstalledFound ==
    Active = {} => \A j \in DOMAIN jobs : jobs[j].state = "ready" => jobs[j].component \in found
=============================================================================
