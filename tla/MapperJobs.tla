----------------------------- MODULE MapperJobs -----------------------------
(***************************************************************************)
(* A Mapper job's record (mapper.go), its file, and the loop that runs it  *)
(* (live_survey.go).  Requests save, delete, start and stop jobs; the loop *)
(* opens a numbered session for each phase, reports into the record under  *)
(* that number, and closes it.                                             *)
(*                                                                         *)
(* Which receiver a job gets is ReceiverOwnership's subject and left out.  *)
(***************************************************************************)
EXTENDS Naturals, FiniteSets

CONSTANTS
    Jobs,        \* job IDs
    Configs,     \* settings a client may save
    Scheduled,   \* settings that run a Discovery, then an Identify phase
    Repeating,   \* schedules that start over
    Callers,     \* concurrent HTTP requests
    None,        \* no job, no settings
    Blank,       \* the settings of a record stored for a deleted job
    MaxSessions, \* bound: Mapper sessions
    MaxSaves,    \* bound: accepted saves
    MaxFailures, \* bound: failed writes of the jobs file and captures that fail
    MaxRestarts  \* bound: restarts of the program

ASSUME MapperJobsAssumption ==
    /\ Repeating \subseteq Scheduled /\ Scheduled \subseteq Configs
    /\ {None, Blank} \cap Configs = {} /\ None # Blank /\ None \notin Jobs
    /\ {MaxSessions, MaxSaves, MaxFailures, MaxRestarts} \subseteq Nat

VARIABLES
    jobs,     \* MapperManager.jobs: settings (None when absent) and state
    sessions, \* MapperManager.jobSessions, 0 when absent
    handles,  \* Runtime.mapperJobs: "none", "running" or "stopping"
    loops,    \* the goroutine of each handle
    disk,     \* settings in mapper-jobs.json
    writer,   \* what persistJobs, holding persistMu, is about to write
    callers,  \* requests between two critical sections
    promised, \* settings the last successful save or delete left a job with
    used      \* sessions, saves, failures, restarts so far

vars == <<jobs, sessions, handles, loops, disk, writer, callers, promised, used>>

Absent == [config |-> None, state |-> "idle"]
Stored == Configs \cup {Blank, None}
NoLoop == [pc |-> "none", next |-> "none", config |-> None, phase |-> 1,
           session |-> 0, error |-> FALSE]
NoRequest == [pc |-> "idle", job |-> None, config |-> None]
Unlocked == [by |-> None, files |-> [j \in Jobs |-> None]]

TypeOK ==
    /\ jobs \in [Jobs -> [config : Stored, state : {"idle", "running", "stopping", "error"}]]
    /\ sessions \in [Jobs -> 0..MaxSessions]
    /\ handles \in [Jobs -> {"none", "running", "stopping"}]
    /\ \A j \in Jobs :
         /\ loops[j].pc \in {"none", "phase", "label", "capture", "finish", "report",
                             "remove", "lock", "write"}
         /\ loops[j].config \in Configs \cup {None}
         /\ loops[j].session \in 0..MaxSessions
    /\ disk \in [Jobs -> Stored]
    /\ writer.by # None => writer.by \in Jobs /\ loops[writer.by].pc = "write"
    /\ \A c \in Callers : callers[c].pc \in {"idle", "start", "delete"}

Init ==
    /\ jobs = [j \in Jobs |-> Absent]
    /\ sessions = [j \in Jobs |-> 0]
    /\ handles = [j \in Jobs |-> "none"]
    /\ loops = [j \in Jobs |-> NoLoop]
    /\ disk = [j \in Jobs |-> None]
    /\ writer = Unlocked
    /\ callers = [c \in Callers |-> NoRequest]
    /\ promised = [j \in Jobs |-> None]
    /\ used = [sessions |-> 0, saves |-> 0, failures |-> 0, restarts |-> 0]

-----------------------------------------------------------------------------
(* Helpers *)

Spend(what) == used' = [used EXCEPT ![what] = @ + 1]
Known(j) == jobs[j].config # None
Settings == [j \in Jobs |-> jobs[j].config]
InLoop(j, pc) == loops[j].pc = pc
Goes(j, pc) == loops' = [loops EXCEPT ![j].pc = pc]

\* Go on at pc after persistJobs.
PersistThen(j, pc) == loops' = [loops EXCEPT ![j].pc = "lock", ![j].next = pc]

\* A handler that stores m.jobs[id] again creates a blank record for a deleted job.
Touched(j) == IF Known(j) THEN jobs[j] ELSE [config |-> Blank, state |-> "idle"]

\* SetJobError.
SetJobError(j) == jobs' = IF Known(j) THEN [jobs EXCEPT ![j].state = "error"] ELSE jobs

\* Faulty variant: the record keeps its state.
EndJobSessionQuietly(j) ==
    /\ sessions' = [sessions EXCEPT ![j] = IF @ = loops[j].session THEN 0 ELSE @]
    /\ UNCHANGED jobs

\* EndJobSession, for the session of job j's loop.
EndJobSession(j) ==
    IF sessions[j] = loops[j].session
    THEN /\ jobs' = [jobs EXCEPT ![j] = [Touched(j) EXCEPT !.state = "idle"]]
         /\ sessions' = [sessions EXCEPT ![j] = 0]
    ELSE UNCHANGED <<jobs, sessions>>

-----------------------------------------------------------------------------
(* Requests *)

\* SaveJob writes the file before it changes the record, under both locks.
SaveJob(c, j, config) ==
    /\ callers[c] = NoRequest /\ writer.by = None /\ used.saves < MaxSaves
    /\ jobs[j].state # "running"
    /\ \/ /\ jobs' = [jobs EXCEPT ![j] = [config |-> config, state |-> "idle"]]
          /\ disk' = [Settings EXCEPT ![j] = config]
          /\ promised' = [promised EXCEPT ![j] = config]
          /\ Spend("saves")
       \/ /\ used.failures < MaxFailures
          /\ Spend("failures")
          /\ UNCHANGED <<jobs, disk, promised>>
    /\ UNCHANGED <<sessions, handles, loops, writer, callers>>

\* DeleteMapperJob asks the runtime first, then the manager.
RequestDelete(c, j) ==
    /\ callers[c] = NoRequest /\ Known(j) /\ handles[j] = "none"
    /\ callers' = [callers EXCEPT ![c] = [NoRequest EXCEPT !.pc = "delete", !.job = j]]
    /\ UNCHANGED <<jobs, sessions, handles, loops, disk, writer, promised, used>>

\* Faulty variant: the file is left to the next persistJobs.
DeleteInMemory(c) ==
    LET j == callers[c].job IN
    /\ callers[c].pc = "delete" /\ writer.by = None
    /\ callers' = [callers EXCEPT ![c] = NoRequest]
    /\ Known(j) /\ jobs[j].state \notin {"running", "stopping"}
    /\ jobs' = [jobs EXCEPT ![j] = Absent]
    /\ sessions' = [sessions EXCEPT ![j] = 0]
    /\ promised' = [promised EXCEPT ![j] = None]
    /\ UNCHANGED <<handles, loops, disk, writer, used>>

DeleteJob(c) ==
    LET j == callers[c].job IN
    /\ callers[c].pc = "delete" /\ writer.by = None
    /\ callers' = [callers EXCEPT ![c] = NoRequest]
    /\ \/ /\ Known(j) /\ jobs[j].state \notin {"running", "stopping"}
          /\ jobs' = [jobs EXCEPT ![j] = Absent]
          /\ sessions' = [sessions EXCEPT ![j] = 0]
          /\ disk' = [Settings EXCEPT ![j] = None]
          /\ promised' = [promised EXCEPT ![j] = None]
          /\ UNCHANGED used
       \/ /\ Known(j) /\ jobs[j].state \notin {"running", "stopping"}
          /\ used.failures < MaxFailures
          /\ Spend("failures")
          /\ UNCHANGED <<jobs, sessions, disk, promised>>
       \/ /\ ~Known(j) \/ jobs[j].state \in {"running", "stopping"}
          /\ UNCHANGED <<jobs, sessions, disk, promised, used>>
    /\ UNCHANGED <<handles, loops, writer>>

\* StartMapperJob copies the job, then registers a handle and starts the loop,
\* unless its receiver is not to be had.
RequestStart(c, j) ==
    /\ callers[c] = NoRequest /\ Known(j)
    /\ callers' = [callers EXCEPT ![c] = [pc |-> "start", job |-> j, config |-> jobs[j].config]]
    /\ UNCHANGED <<jobs, sessions, handles, loops, disk, writer, promised, used>>

StartMapperJob(c) ==
    LET j == callers[c].job IN
    /\ callers[c].pc = "start"
    /\ callers' = [callers EXCEPT ![c] = NoRequest]
    /\ \/ /\ handles[j] = "none" /\ callers[c].config # Blank
          /\ handles' = [handles EXCEPT ![j] = "running"]
          /\ loops' = [loops EXCEPT ![j] = [NoLoop EXCEPT !.pc = "phase", !.config = callers[c].config]]
       \/ UNCHANGED <<handles, loops>>
    /\ UNCHANGED <<jobs, sessions, disk, writer, promised, used>>

\* StopMapperJob, and StopAllMapperJobs for each job in turn.
StopMapperJob(j) ==
    /\ handles[j] = "running"
    /\ handles' = [handles EXCEPT ![j] = "stopping"]
    /\ jobs' = IF jobs[j].state = "running"
               THEN [jobs EXCEPT ![j].state = "stopping"] ELSE jobs
    /\ UNCHANGED <<sessions, loops, disk, writer, callers, promised, used>>

-----------------------------------------------------------------------------
(* mapperJobLoop *)

\* mapperJobPhase finds no target to listen to.
PhaseFails(j) ==
    /\ InLoop(j, "phase")
    /\ loops' = [loops EXCEPT ![j].pc = "finish", ![j].session = 0, ![j].error = TRUE]
    /\ UNCHANGED <<jobs, sessions, handles, disk, writer, callers, promised, used>>

\* BeginJobSession.
BeginJobSession(j) ==
    /\ InLoop(j, "phase") /\ used.sessions < MaxSessions
    /\ LET s == used.sessions + 1 IN
         /\ sessions' = [sessions EXCEPT ![j] = s]
         /\ loops' = [loops EXCEPT ![j].pc = "label", ![j].session = s]
    /\ jobs' = IF Known(j) THEN [jobs EXCEPT ![j].state = "running"] ELSE jobs
    /\ Spend("sessions")
    /\ UNCHANGED <<handles, disk, writer, callers, promised>>

\* SetJobPhase; the later progress reports store the record in the same way.
SetJobPhase(j) ==
    /\ InLoop(j, "label")
    /\ jobs' = IF sessions[j] = loops[j].session THEN [jobs EXCEPT ![j] = Touched(j)] ELSE jobs
    /\ Goes(j, "capture")
    /\ UNCHANGED <<sessions, handles, disk, writer, callers, promised, used>>

\* A phase of a schedule has lasted its time; nobody looks at the stop channel
\* before the next one begins.
PhaseEnds(j) ==
    /\ InLoop(j, "capture") /\ loops[j].config \in Scheduled
    /\ EndJobSession(j)
    /\ loops' = [loops EXCEPT ![j] =
          IF @.phase = 1 THEN [@ EXCEPT !.pc = "lock", !.next = "phase", !.phase = 2]
          ELSE IF @.config \in Repeating
               THEN [@ EXCEPT !.pc = "lock", !.next = "phase", !.phase = 1]
               ELSE [@ EXCEPT !.pc = "lock", !.next = "finish", !.session = 0]]
    /\ UNCHANGED <<handles, disk, writer, callers, promised, used>>

\* captureFailure records the error; the loop then ends as if it were stopped.
CaptureFails(j) ==
    /\ InLoop(j, "capture") /\ used.failures < MaxFailures
    /\ SetJobError(j)
    /\ loops' = [loops EXCEPT ![j] = [@ EXCEPT !.pc = "lock", !.next = "finish"]]
    /\ Spend("failures")
    /\ UNCHANGED <<sessions, handles, disk, writer, callers, promised>>

\* Faulty variant: the stop channel is not looked at while a schedule runs.
SeeStopUnscheduled(j) ==
    /\ InLoop(j, "capture") /\ handles[j] = "stopping" /\ loops[j].config \notin Scheduled
    /\ Goes(j, "finish")
    /\ UNCHANGED <<jobs, sessions, handles, disk, writer, callers, promised, used>>

SeeStop(j) ==
    /\ InLoop(j, "capture") /\ handles[j] = "stopping"
    /\ Goes(j, "finish")
    /\ UNCHANGED <<jobs, sessions, handles, disk, writer, callers, promised, used>>

-----------------------------------------------------------------------------
(* finishMapperJob *)

Finish(j) ==
    /\ InLoop(j, "finish")
    /\ IF loops[j].session = 0
       THEN Goes(j, "report") /\ UNCHANGED <<jobs, sessions>>
       ELSE PersistThen(j, "report") /\ EndJobSession(j)
    /\ UNCHANGED <<handles, disk, writer, callers, promised, used>>

ReportError(j) ==
    /\ InLoop(j, "report")
    /\ IF loops[j].error
       THEN SetJobError(j) /\ PersistThen(j, "remove")
       ELSE UNCHANGED jobs /\ Goes(j, "remove")
    /\ UNCHANGED <<sessions, handles, disk, writer, callers, promised, used>>

\* The handle goes.  The analysis that a run without an error may ask for next
\* is StartAfterJob of DeferredAnalysis.
RemoveHandle(j) ==
    /\ InLoop(j, "remove")
    /\ handles' = [handles EXCEPT ![j] = "none"]
    /\ loops' = [loops EXCEPT ![j] = NoLoop]
    /\ UNCHANGED <<jobs, sessions, disk, writer, callers, promised, used>>

-----------------------------------------------------------------------------
(* persistJobs *)

\* Faulty variant: the snapshot is taken without persistMu.
SnapshotUnlocked(j) ==
    /\ InLoop(j, "lock")
    /\ writer' = [by |-> None, files |-> Settings]
    /\ Goes(j, "write")
    /\ UNCHANGED <<jobs, sessions, handles, disk, callers, promised, used>>

Snapshot(j) ==
    /\ InLoop(j, "lock") /\ writer.by = None
    /\ writer' = [by |-> j, files |-> Settings]
    /\ Goes(j, "write")
    /\ UNCHANGED <<jobs, sessions, handles, disk, callers, promised, used>>

\* Faulty variant: a failed write keeps the lock.
WriteJobsLocked(j) ==
    /\ InLoop(j, "write")
    /\ \/ disk' = writer.files /\ writer' = Unlocked /\ UNCHANGED used
       \/ /\ used.failures < MaxFailures /\ Spend("failures")
          /\ UNCHANGED <<disk, writer>>
    /\ Goes(j, loops[j].next)
    /\ UNCHANGED <<jobs, sessions, handles, callers, promised>>

\* The file is replaced atomically or not at all.
WriteJobs(j) ==
    /\ InLoop(j, "write")
    /\ \/ disk' = writer.files /\ UNCHANGED used
       \/ used.failures < MaxFailures /\ Spend("failures") /\ UNCHANGED disk
    /\ writer' = Unlocked
    /\ Goes(j, loops[j].next)
    /\ UNCHANGED <<jobs, sessions, handles, callers, promised>>

-----------------------------------------------------------------------------
\* NewMapperManager reads the file back; every job is idle.
Restart ==
    /\ used.restarts < MaxRestarts
    /\ Spend("restarts")
    /\ jobs' = [j \in Jobs |-> [config |-> disk[j], state |-> "idle"]]
    /\ sessions' = [j \in Jobs |-> 0]
    /\ handles' = [j \in Jobs |-> "none"]
    /\ loops' = [j \in Jobs |-> NoLoop]
    /\ writer' = Unlocked
    /\ callers' = [c \in Callers |-> NoRequest]
    /\ UNCHANGED <<disk, promised>>

Finishing(j) == Finish(j) \/ ReportError(j) \/ RemoveHandle(j)
Persisting(j) == Snapshot(j) \/ WriteJobs(j)
Loop(j) ==
    \/ PhaseFails(j) \/ BeginJobSession(j) \/ SetJobPhase(j) \/ PhaseEnds(j)
    \/ CaptureFails(j) \/ SeeStop(j) \/ Finishing(j) \/ Persisting(j)

Request(c) ==
    \/ \E j \in Jobs, config \in Configs : SaveJob(c, j, config)
    \/ \E j \in Jobs : RequestDelete(c, j) \/ RequestStart(c, j)
    \/ DeleteJob(c) \/ StartMapperJob(c)

Next ==
    \/ \E c \in Callers : Request(c)
    \/ \E j \in Jobs : StopMapperJob(j) \/ Loop(j)
    \/ Restart

Spec == Init /\ [][Next]_vars

-----------------------------------------------------------------------------
(* Properties *)

\* The file holds the settings that the last successful save left a job with,
\* so that a restart brings them back: persistJobs never overwrites a newer
\* save with an older snapshot.
SavedSettingsKept == \A j \in Jobs : promised[j] # None => disk[j] = promised[j]

\* "Deleting a job removes its saved settings": whatever starts and saves
\* overlap with the delete, neither the record nor the file gets them back.  A
\* blank record may appear: a loop whose job was deleted between the two halves
\* of its start reports into it.
DeletedSettingsGone ==
    \A j \in Jobs : promised[j] = None => {jobs[j].config, disk[j]} \subseteq {None, Blank}

\* A job that no loop runs is not shown as running or stopping, and has no
\* session that could still report.
IdleWithoutLoop ==
    \A j \in Jobs : handles[j] = "none" =>
        jobs[j].state \in {"idle", "error"} /\ sessions[j] = 0

\* Saved settings stay, deleted ones are gone, and no job is shown as running
\* that nobody runs.
JobsAsSaved == SavedSettingsKept /\ DeletedSettingsGone /\ IdleWithoutLoop
=============================================================================
