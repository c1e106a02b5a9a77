----------------------------- MODULE MapperProofs -----------------------------
(***************************************************************************)
(* What Mapper promises for every number of jobs, settings, requests,      *)
(* sessions, frequencies, uploads and restarts: saved settings stay and    *)
(* deleted ones are gone, no job is shown as running that nobody runs, the *)
(* watermark covers delivered rows only, decoded frames are not displaced, *)
(* a saved clear sticks, rows nobody identified need consent, and a pass   *)
(* hears each of its targets once.                                         *)
(***************************************************************************)
EXTENDS MCMapper, FiniteSetTheorems, SequenceTheorems, NaturalsInduction,
        WellFoundedInduction, TLAPS

-----------------------------------------------------------------------------
(* The jobs *)

States == {"idle", "running", "stopping", "error"}
Pcs == {"none", "phase", "label", "capture", "finish", "report", "remove", "lock", "write"}
Nexts == {"none", "phase", "finish", "report", "remove"}
Record == [config : Stored, state : States]
Loops == [pc : Pcs, next : Nexts, config : Configs \cup {None}, phase : {1, 2},
          session : 0..MaxSessions, error : BOOLEAN]
Call == [pc : {"idle", "start", "delete"}, job : Jobs \cup {None}, config : Stored]
Counters == [sessions : 0..MaxSessions, saves : Nat, failures : Nat, restarts : Nat]

\* A request past its first half has a job, and a start settings of that job.
ShapedCall ==
    {r \in Call : /\ r.pc # "idle" => r.job \in Jobs
                  /\ r.pc = "start" => r.config # None}

\* A loop that waits to write, or writes, has somewhere to go on.
LoopState == {l \in Loops : l.pc \in {"lock", "write"} => l.next # "none"}

\* TypeOK alone is not inductive: it says nothing of where a loop goes on
\* after a write, of the snapshot, and of the requests.
JobsTypeInv ==
    /\ jobs \in [Jobs -> Record]
    /\ sessions \in [Jobs -> 0..MaxSessions]
    /\ handles \in [Jobs -> {"none", "running", "stopping"}]
    /\ loops \in [Jobs -> LoopState]
    /\ disk \in [Jobs -> Stored]
    /\ writer \in [by : Jobs \cup {None}, files : [Jobs -> Stored]]
    /\ callers \in [Callers -> ShapedCall]
    /\ promised \in [Jobs -> Configs \cup {None}]
    /\ used \in Counters

\* persistMu: whoever writes the file holds it.
WriterHoldsLock ==
    \A j \in Jobs : loops[j].pc = "write" <=> writer.by = j

\* Each handle has a loop, and each loop a handle.
LoopsHaveHandles ==
    \A j \in Jobs : handles[j] = "none" <=> loops[j].pc = "none"

\* A session that may report is the one of the loop, which has not yet passed
\* finishMapperJob; a job shown as running has one.  IdleWithoutLoop follows.
HoldsSession(l) ==
    \/ l.pc \in {"label", "capture", "finish"}
    \/ l.pc \in {"lock", "write"} /\ l.next = "finish"
SessionsOfLoops ==
    \A j \in Jobs :
      /\ sessions[j] # 0 => sessions[j] = loops[j].session /\ HoldsSession(loops[j])
      /\ jobs[j].state \in {"running", "stopping"} => sessions[j] # 0

\* Settings in the record, in the file and in a snapshot on its way there are
\* what the last successful save left.
AsPromised(j, settings) ==
    IF promised[j] = None THEN settings \in {None, Blank} ELSE settings = promised[j]
SettingsAgree ==
    \A j \in Jobs :
      /\ AsPromised(j, jobs[j].config)
      /\ AsPromised(j, disk[j])
      /\ writer.by # None => AsPromised(j, writer.files[j])

JobsInv == JobsTypeInv /\ WriterHoldsLock /\ LoopsHaveHandles /\ SessionsOfLoops /\ SettingsAgree

-----------------------------------------------------------------------------
LEMMA NoLoopType == NoLoop \in LoopState /\ NoLoop.pc = "none" /\ 0 \in 0..MaxSessions
<1>1. 0 \in 0..MaxSessions
  BY MapperJobsAssumption
<1> QED BY <1>1 DEF NoLoop, LoopState, Loops, Pcs, Nexts

LEMMA InvariantMeans == JobsInv => TypeOK /\ JobsAsSaved
<1> SUFFICES ASSUME JobsInv PROVE TypeOK /\ JobsAsSaved
  OBVIOUS
<1>1. TypeOK
  <2>1. \A j \in Jobs : /\ loops[j].pc \in Pcs
                        /\ loops[j].config \in Configs \cup {None}
                        /\ loops[j].session \in 0..MaxSessions
    BY DEF JobsInv, JobsTypeInv, LoopState, Loops
  <2>2. writer.by # None => writer.by \in Jobs /\ loops[writer.by].pc = "write"
    BY DEF JobsInv, JobsTypeInv, WriterHoldsLock
  <2>3. \A c \in Callers : callers[c].pc \in {"idle", "start", "delete"}
    BY DEF JobsInv, JobsTypeInv, ShapedCall, Call
  <2> QED BY <2>1, <2>2, <2>3 DEF JobsInv, JobsTypeInv, TypeOK, Record, States, Pcs
<1>2. IdleWithoutLoop
  <2> SUFFICES ASSUME NEW j \in Jobs, handles[j] = "none"
               PROVE  jobs[j].state \in {"idle", "error"} /\ sessions[j] = 0
    BY DEF IdleWithoutLoop
  <2>1. loops[j].pc = "none"
    BY DEF JobsInv, LoopsHaveHandles
  <2>2. sessions[j] = 0
    BY <2>1 DEF JobsInv, SessionsOfLoops, HoldsSession
  <2>3. jobs[j].state \in States
    BY DEF JobsInv, JobsTypeInv, Record
  <2> QED BY <2>2, <2>3 DEF JobsInv, SessionsOfLoops, States
<1>3. SavedSettingsKept /\ DeletedSettingsGone
  BY DEF JobsInv, SettingsAgree, AsPromised, SavedSettingsKept, DeletedSettingsGone
<1> QED BY <1>1, <1>2, <1>3 DEF JobsAsSaved

LEMMA JobsInitInv == Init => JobsInv
<1> SUFFICES ASSUME Init PROVE JobsInv
  OBVIOUS
<1> USE MapperJobsAssumption
<1>1. Absent \in Record /\ Absent.config = None /\ Absent.state = "idle"
  BY DEF Absent, Record, Stored, States
<1>2. NoLoop \in LoopState /\ NoLoop.pc = "none"
  BY NoLoopType
<1>3. NoRequest \in ShapedCall
  BY DEF NoRequest, ShapedCall, Call, Stored
<1>4. /\ Unlocked \in [by : Jobs \cup {None}, files : [Jobs -> Stored]]
      /\ Unlocked.by = None
  BY DEF Unlocked, Stored
<1>5. JobsTypeInv
  BY <1>1, <1>2, <1>3, <1>4 DEF Init, JobsTypeInv, Stored, Counters
<1>6. WriterHoldsLock /\ LoopsHaveHandles /\ SessionsOfLoops /\ SettingsAgree
  BY <1>1, <1>2, <1>4 DEF Init, WriterHoldsLock, LoopsHaveHandles, SessionsOfLoops,
     SettingsAgree, AsPromised
<1> QED BY <1>5, <1>6 DEF JobsInv

-----------------------------------------------------------------------------
(* Requests. *)

LEMMA SaveStep ==
    ASSUME JobsInv, NEW c \in Callers, NEW j \in Jobs, NEW settings \in Configs,
           SaveJob(c, j, settings)
    PROVE  JobsInv'
<1> USE MapperJobsAssumption
<1>1. /\ UNCHANGED <<sessions, handles, loops, writer, callers>>
      /\ writer.by = None /\ jobs[j].state # "running"
  BY DEF SaveJob
<1>2. CASE UNCHANGED <<jobs, disk, promised>> /\ Spend("failures")
  <2>1. used' \in Counters
    BY <1>2 DEF Spend, JobsInv, JobsTypeInv, Counters
  <2> QED BY <1>1, <1>2, <2>1 DEF JobsInv, JobsTypeInv, WriterHoldsLock, LoopsHaveHandles,
          SessionsOfLoops, SettingsAgree, AsPromised
<1>3. CASE /\ jobs' = [jobs EXCEPT ![j] = [config |-> settings, state |-> "idle"]]
           /\ disk' = [Settings EXCEPT ![j] = settings]
           /\ promised' = [promised EXCEPT ![j] = settings]
           /\ Spend("saves")
  <2>1. used' \in Counters
    BY <1>3 DEF Spend, JobsInv, JobsTypeInv, Counters
  <2>2. Settings \in [Jobs -> Stored] /\ \A k \in Jobs : Settings[k] = jobs[k].config
    BY DEF Settings, JobsInv, JobsTypeInv, Record
  <2>3. JobsTypeInv'
    BY <1>1, <1>3, <2>1, <2>2 DEF JobsInv, JobsTypeInv, Record, States, Stored
  <2>4. SessionsOfLoops'
    BY <1>1, <1>3 DEF JobsInv, JobsTypeInv, SessionsOfLoops
  <2>5. SettingsAgree'
    BY <1>1, <1>3, <2>2 DEF JobsInv, JobsTypeInv, SettingsAgree, AsPromised
  <2> QED BY <1>1, <2>3, <2>4, <2>5 DEF JobsInv, WriterHoldsLock, LoopsHaveHandles
<1> QED BY <1>2, <1>3 DEF SaveJob

LEMMA DeleteStep ==
    ASSUME JobsInv, NEW c \in Callers, DeleteJob(c)
    PROVE  JobsInv'
<1> USE MapperJobsAssumption
<1> DEFINE j == callers[c].job
<1>1. /\ UNCHANGED <<handles, loops, writer>> /\ writer.by = None /\ j \in Jobs
      /\ callers' = [callers EXCEPT ![c] = NoRequest]
  BY DEF DeleteJob, JobsInv, JobsTypeInv, ShapedCall
<1>2. callers' \in [Callers -> ShapedCall]
  BY <1>1 DEF NoRequest, ShapedCall, Call, Stored, JobsInv, JobsTypeInv
<1>3. CASE UNCHANGED <<jobs, sessions, disk, promised>>
  <2>1. used' \in Counters
    BY DEF DeleteJob, Spend, JobsInv, JobsTypeInv, Counters
  <2> QED BY <1>1, <1>2, <1>3, <2>1 DEF JobsInv, JobsTypeInv, WriterHoldsLock, LoopsHaveHandles,
          SessionsOfLoops, SettingsAgree, AsPromised
<1>4. CASE /\ jobs' = [jobs EXCEPT ![j] = Absent]
           /\ sessions' = [sessions EXCEPT ![j] = 0]
           /\ disk' = [Settings EXCEPT ![j] = None]
           /\ promised' = [promised EXCEPT ![j] = None]
           /\ UNCHANGED used
  <2>1. Absent \in Record /\ Absent.config = None /\ Absent.state = "idle"
    BY DEF Absent, Record, Stored, States
  <2>2. Settings \in [Jobs -> Stored] /\ \A k \in Jobs : Settings[k] = jobs[k].config
    BY DEF Settings, JobsInv, JobsTypeInv, Record
  <2>3. JobsTypeInv'
    BY <1>1, <1>2, <1>4, <2>1, <2>2 DEF JobsInv, JobsTypeInv, Stored
  <2>4. SessionsOfLoops'
    BY <1>1, <1>4, <2>1 DEF JobsInv, JobsTypeInv, SessionsOfLoops
  <2>5. SettingsAgree'
    BY <1>1, <1>4, <2>1, <2>2 DEF JobsInv, JobsTypeInv, SettingsAgree, AsPromised
  <2> QED BY <1>1, <2>3, <2>4, <2>5 DEF JobsInv, WriterHoldsLock, LoopsHaveHandles
<1> QED BY <1>3, <1>4 DEF DeleteJob

LEMMA RequestStep ==
    ASSUME JobsInv, NEW c \in Callers, Request(c)
    PROVE  JobsInv'
<1> USE MapperJobsAssumption
<1>1. ASSUME NEW j \in Jobs, RequestDelete(c, j) PROVE JobsInv'
  <2>1. [NoRequest EXCEPT !.pc = "delete", !.job = j] \in ShapedCall
    BY DEF NoRequest, ShapedCall, Call, Stored
  <2>2. callers' \in [Callers -> ShapedCall]
    BY <1>1, <2>1 DEF RequestDelete, JobsInv, JobsTypeInv
  <2> QED BY <1>1, <2>2 DEF RequestDelete, JobsInv, JobsTypeInv, WriterHoldsLock,
          LoopsHaveHandles, SessionsOfLoops, SettingsAgree, AsPromised
<1>2. ASSUME NEW j \in Jobs, RequestStart(c, j) PROVE JobsInv'
  <2>1. [pc |-> "start", job |-> j, config |-> jobs[j].config] \in ShapedCall
    BY <1>2 DEF RequestStart, Known, ShapedCall, Call, JobsInv, JobsTypeInv, Record
  <2>2. callers' \in [Callers -> ShapedCall]
    BY <1>2, <2>1 DEF RequestStart, JobsInv, JobsTypeInv
  <2> QED BY <1>2, <2>2 DEF RequestStart, JobsInv, JobsTypeInv, WriterHoldsLock,
          LoopsHaveHandles, SessionsOfLoops, SettingsAgree, AsPromised
<1>3. CASE StartMapperJob(c)
  <2> DEFINE j == callers[c].job
             new == [NoLoop EXCEPT !.pc = "phase", !.config = callers[c].config]
  <2>1. NoRequest \in ShapedCall
    BY DEF NoRequest, ShapedCall, Call, Stored
  <2>2. /\ callers' \in [Callers -> ShapedCall] /\ callers[c] \in ShapedCall
        /\ j \in Jobs /\ callers[c].config \in Configs \cup {Blank}
        /\ UNCHANGED <<jobs, sessions, disk, writer, promised, used>>
    BY <1>3, <2>1 DEF StartMapperJob, JobsInv, JobsTypeInv, ShapedCall, Call, Stored
  <2>3. CASE UNCHANGED <<handles, loops>>
    BY <2>2, <2>3 DEF JobsInv, JobsTypeInv, WriterHoldsLock, LoopsHaveHandles,
       SessionsOfLoops, SettingsAgree, AsPromised
  <2>4. CASE /\ handles[j] = "none" /\ callers[c].config # Blank
             /\ handles' = [handles EXCEPT ![j] = "running"]
             /\ loops' = [loops EXCEPT ![j] = new]
    <3>1. new \in LoopState /\ new.pc = "phase"
      <4>1. callers[c].config \in Configs
        BY <2>2, <2>4
      <4>2. new \in Loops
        BY <4>1, NoLoopType DEF LoopState, Loops, Pcs
      <4>3. new.pc = "phase"
        BY NoLoopType DEF LoopState, Loops
      <4> QED BY <4>2, <4>3 DEF LoopState
    <3>2. loops[j].pc = "none" /\ sessions[j] = 0
      BY <2>2, <2>4 DEF JobsInv, LoopsHaveHandles, SessionsOfLoops, HoldsSession
    <3>3. JobsTypeInv'
      BY <2>2, <2>4, <3>1 DEF JobsInv, JobsTypeInv
    <3>4. WriterHoldsLock' /\ LoopsHaveHandles'
      BY <2>2, <2>4, <3>1, <3>2 DEF JobsInv, JobsTypeInv, WriterHoldsLock, LoopsHaveHandles
    <3>5. SessionsOfLoops'
      BY <2>2, <2>4, <3>2 DEF JobsInv, JobsTypeInv, SessionsOfLoops
    <3>6. SettingsAgree'
      BY <2>2 DEF JobsInv, SettingsAgree, AsPromised
    <3> QED BY <3>3, <3>4, <3>5, <3>6 DEF JobsInv
  <2> QED BY <1>3, <2>3, <2>4 DEF StartMapperJob
<1> QED BY <1>1, <1>2, <1>3, SaveStep, DeleteStep DEF Request

LEMMA StopStep ==
    ASSUME JobsInv, NEW j \in Jobs, StopMapperJob(j)
    PROVE  JobsInv'
<1>1. UNCHANGED <<sessions, loops, disk, writer, callers, promised, used>>
  BY DEF StopMapperJob
<1>2. /\ handles' \in [Jobs -> {"none", "running", "stopping"}]
      /\ \A k \in Jobs : handles'[k] = "none" <=> handles[k] = "none"
  BY DEF StopMapperJob, JobsInv, JobsTypeInv
<1>3. /\ jobs' \in [Jobs -> Record]
      /\ \A k \in Jobs : /\ jobs'[k].config = jobs[k].config
                         /\ \/ jobs'[k].state = jobs[k].state
                            \/ jobs[k].state = "running" /\ jobs'[k].state = "stopping"
  <2>1. CASE jobs[j].state = "running"
    <3>1. jobs' = [jobs EXCEPT ![j].state = "stopping"] /\ jobs \in [Jobs -> Record]
      BY <2>1 DEF StopMapperJob, JobsInv, JobsTypeInv
    <3> QED BY <2>1, <3>1 DEF Record, States
  <2>2. CASE jobs[j].state # "running"
    BY <2>2 DEF StopMapperJob, JobsInv, JobsTypeInv
  <2> QED BY <2>1, <2>2
<1>4. JobsTypeInv'
  BY <1>1, <1>2, <1>3 DEF JobsInv, JobsTypeInv
<1>5. WriterHoldsLock' /\ LoopsHaveHandles'
  BY <1>1, <1>2 DEF JobsInv, WriterHoldsLock, LoopsHaveHandles
<1>6. SessionsOfLoops'
  BY <1>1, <1>3 DEF JobsInv, SessionsOfLoops, HoldsSession
<1>7. SettingsAgree'
  BY <1>1, <1>3 DEF JobsInv, SettingsAgree, AsPromised
<1> QED BY <1>4, <1>5, <1>6, <1>7 DEF JobsInv

-----------------------------------------------------------------------------
(* mapperJobLoop. *)

\* What a step of job j's loop that neither takes persistMu nor ends owes.
LEMMA LoopMoves ==
    ASSUME JobsInv, NEW j \in Jobs, NEW l \in LoopState,
           loops' = [loops EXCEPT ![j] = l],
           loops[j].pc \notin {"none", "write"}, l.pc \notin {"none", "write"},
           UNCHANGED <<handles, disk, writer, callers, promised>>,
           jobs' \in [Jobs -> Record], sessions' \in [Jobs -> 0..MaxSessions],
           used' \in Counters,
           \A k \in Jobs \ {j} : jobs'[k] = jobs[k] /\ sessions'[k] = sessions[k],
           AsPromised(j, jobs'[j].config),
           sessions'[j] # 0 => sessions'[j] = l.session /\ HoldsSession(l),
           jobs'[j].state \in {"running", "stopping"} => sessions'[j] # 0
    PROVE  JobsInv'
<1>1. loops'[j] = l /\ \A k \in Jobs \ {j} : loops'[k] = loops[k]
  BY DEF JobsInv, JobsTypeInv
<1>2. JobsTypeInv'
  BY DEF JobsInv, JobsTypeInv
<1>3. WriterHoldsLock' /\ LoopsHaveHandles'
  BY <1>1 DEF JobsInv, WriterHoldsLock, LoopsHaveHandles
<1>4. SessionsOfLoops'
  BY <1>1 DEF JobsInv, SessionsOfLoops, HoldsSession
<1>5. SettingsAgree'
  BY DEF JobsInv, SettingsAgree, AsPromised
<1> QED BY <1>2, <1>3, <1>4, <1>5 DEF JobsInv

\* EndJobSession leaves no session, whether it found its own or a delete was
\* there before it.
LEMMA SessionEnds ==
    ASSUME JobsInv, NEW j \in Jobs, EndJobSession(j)
    PROVE  /\ jobs' \in [Jobs -> Record] /\ sessions' \in [Jobs -> 0..MaxSessions]
           /\ \A k \in Jobs \ {j} : jobs'[k] = jobs[k] /\ sessions'[k] = sessions[k]
           /\ AsPromised(j, jobs'[j].config)
           /\ sessions'[j] = 0 /\ jobs'[j].state \notin {"running", "stopping"}
<1> USE MapperJobsAssumption
<1>1. /\ Touched(j) \in Record
      /\ AsPromised(j, Touched(j).config)
  BY DEF Touched, Known, Record, States, Stored, JobsInv, JobsTypeInv, SettingsAgree, AsPromised
<1>2. CASE sessions[j] = loops[j].session
  <2>1. [Touched(j) EXCEPT !.state = "idle"] \in Record
    BY <1>1 DEF Record, States
  <2>2. /\ [Touched(j) EXCEPT !.state = "idle"].state = "idle"
        /\ [Touched(j) EXCEPT !.state = "idle"].config = Touched(j).config
    BY <1>1 DEF Record
  <2>3. /\ jobs' = [jobs EXCEPT ![j] = [Touched(j) EXCEPT !.state = "idle"]]
        /\ sessions' = [sessions EXCEPT ![j] = 0]
    BY <1>2 DEF EndJobSession
  <2> HIDE DEF Touched
  <2> QED BY <1>1, <2>1, <2>2, <2>3 DEF JobsInv, JobsTypeInv
<1>3. CASE sessions[j] # loops[j].session
  <2>1. UNCHANGED <<jobs, sessions>> /\ sessions[j] = 0
    BY <1>3 DEF EndJobSession, JobsInv, SessionsOfLoops
  <2> QED BY <2>1 DEF JobsInv, JobsTypeInv, SessionsOfLoops, SettingsAgree
<1> QED BY <1>2, <1>3

\* SetJobError changes the state of a record that is there.
LEMMA ErrorSet ==
    ASSUME JobsInv, NEW j \in Jobs, SetJobError(j)
    PROVE  /\ jobs' \in [Jobs -> Record]
           /\ \A k \in Jobs \ {j} : jobs'[k] = jobs[k]
           /\ jobs'[j].config = jobs[j].config
           /\ jobs'[j].state \in {"error", jobs[j].state}
BY DEF SetJobError, JobsInv, JobsTypeInv, Record, States

LEMMA SpendType ==
    ASSUME JobsInv
    PROVE  /\ Spend("failures") => used' \in Counters
           /\ Spend("restarts") => used' \in Counters
           /\ used.sessions < MaxSessions /\ Spend("sessions") => used' \in Counters
BY MapperJobsAssumption DEF Spend, JobsInv, JobsTypeInv, Counters

LEMMA PhaseKept ==
    ASSUME JobsInv, NEW j \in Jobs,
           PhaseFails(j) \/ BeginJobSession(j) \/ SetJobPhase(j)
    PROVE  JobsInv'
<1> USE MapperJobsAssumption
<1>0. loops[j] \in LoopState /\ jobs[j] \in Record /\ AsPromised(j, jobs[j].config)
  BY DEF JobsInv, JobsTypeInv, SettingsAgree
<1>1. CASE PhaseFails(j)
  <2> DEFINE l == [loops[j] EXCEPT !.pc = "finish", !.session = 0, !.error = TRUE]
  <2>1. l \in LoopState /\ l.pc = "finish"
    <3>1. l \in Loops /\ l.pc = "finish"
      BY <1>0, NoLoopType DEF LoopState, Loops, Pcs
    <3> QED BY <3>1 DEF LoopState
  <2>2. loops' = [loops EXCEPT ![j] = l] /\ loops[j].pc = "phase"
    BY <1>1 DEF PhaseFails, InLoop, JobsInv, JobsTypeInv
  <2>3. sessions[j] = 0
    BY <2>2 DEF JobsInv, SessionsOfLoops, HoldsSession
  <2>4. UNCHANGED <<jobs, sessions, handles, disk, writer, callers, promised, used>>
    BY <1>1 DEF PhaseFails
  <2>5. /\ jobs' \in [Jobs -> Record] /\ sessions' \in [Jobs -> 0..MaxSessions]
        /\ used' \in Counters /\ jobs'[j].state \notin {"running", "stopping"}
    BY <2>3, <2>4 DEF JobsInv, JobsTypeInv, SessionsOfLoops
  <2> HIDE DEF l
  <2> QED BY <1>0, <2>1, <2>2, <2>3, <2>4, <2>5, LoopMoves
<1>2. CASE BeginJobSession(j)
  <2> DEFINE s == used.sessions + 1
             l == [loops[j] EXCEPT !.pc = "label", !.session = s]
  <2>1. s \in 1..MaxSessions /\ used' \in Counters
    BY <1>2, SpendType DEF BeginJobSession, JobsInv, JobsTypeInv, Counters
  <2>2. l \in LoopState /\ l.pc = "label" /\ l.session = s
    <3> HIDE DEF s
    <3>0. s \in 0..MaxSessions
      BY <2>1
    <3>1. l \in Loops /\ l.pc = "label" /\ l.session = s
      BY <1>0, <3>0 DEF LoopState, Loops, Pcs
    <3> QED BY <3>1 DEF LoopState
  <2>3. loops' = [loops EXCEPT ![j] = l] /\ loops[j].pc = "phase"
    BY <1>2 DEF BeginJobSession, InLoop, JobsInv, JobsTypeInv
  <2>4. sessions' \in [Jobs -> 0..MaxSessions] /\ sessions' = [sessions EXCEPT ![j] = s]
    BY <1>2, <2>1 DEF BeginJobSession, JobsInv, JobsTypeInv
  <2>5. /\ jobs' \in [Jobs -> Record] /\ \A k \in Jobs \ {j} : jobs'[k] = jobs[k]
        /\ jobs'[j].config = jobs[j].config
    BY <1>2 DEF BeginJobSession, JobsInv, JobsTypeInv, Record, States
  <2>6. sessions'[j] = s /\ \A k \in Jobs \ {j} : sessions'[k] = sessions[k]
    BY <2>4 DEF JobsInv, JobsTypeInv
  <2>7. UNCHANGED <<handles, disk, writer, callers, promised>>
    BY <1>2 DEF BeginJobSession
  <2>8. s # 0 /\ HoldsSession(l)
    BY <2>1, <2>2 DEF HoldsSession
  <2> HIDE DEF l, s
  <2> QED BY <1>0, <2>1, <2>2, <2>3, <2>4, <2>5, <2>6, <2>7, <2>8, LoopMoves
<1>3. CASE SetJobPhase(j)
  <2> DEFINE l == [loops[j] EXCEPT !.pc = "capture"]
  <2>1. l \in LoopState /\ l.pc = "capture" /\ l.session = loops[j].session /\ HoldsSession(l)
    BY <1>0 DEF LoopState, Loops, Pcs, HoldsSession
  <2>2. loops' = [loops EXCEPT ![j] = l] /\ loops[j].pc = "label"
    BY <1>3 DEF SetJobPhase, InLoop, Goes, JobsInv, JobsTypeInv
  <2>3. /\ Touched(j) \in Record /\ AsPromised(j, Touched(j).config)
        /\ Touched(j).state \in {"idle", jobs[j].state}
    BY DEF Touched, Known, Record, States, Stored, JobsInv, JobsTypeInv, SettingsAgree, AsPromised
  <2>4. /\ jobs' \in [Jobs -> Record] /\ \A k \in Jobs \ {j} : jobs'[k] = jobs[k]
        /\ jobs'[j] \in {jobs[j], Touched(j)}
    <3> HIDE DEF Touched
    <3> QED BY <1>3, <2>3 DEF SetJobPhase, JobsInv, JobsTypeInv
  <2>5. UNCHANGED <<sessions, handles, disk, writer, callers, promised, used>>
    BY <1>3 DEF SetJobPhase
  <2>6. sessions' \in [Jobs -> 0..MaxSessions] /\ used' \in Counters
    BY <2>5 DEF JobsInv, JobsTypeInv
  <2>7. /\ sessions[j] # 0 => sessions[j] = loops[j].session
        /\ jobs[j].state \in {"running", "stopping"} => sessions[j] # 0
    BY DEF JobsInv, SessionsOfLoops
  <2> HIDE DEF l, Touched
  <2> QED BY <1>0, <2>1, <2>2, <2>3, <2>4, <2>5, <2>6, <2>7, LoopMoves
<1> QED BY <1>1, <1>2, <1>3

LEMMA CaptureStep ==
    ASSUME JobsInv, NEW j \in Jobs, PhaseEnds(j) \/ CaptureFails(j) \/ SeeStop(j)
    PROVE  JobsInv'
<1>0. /\ loops[j] \in LoopState /\ jobs[j] \in Record /\ AsPromised(j, jobs[j].config)
      /\ sessions[j] # 0 => sessions[j] = loops[j].session
      /\ jobs[j].state \in {"running", "stopping"} => sessions[j] # 0
      /\ used \in Counters /\ sessions \in [Jobs -> 0..MaxSessions]
  BY DEF JobsInv, JobsTypeInv, SettingsAgree, SessionsOfLoops
<1>1. CASE PhaseEnds(j)
  <2>1. PICK l \in LoopState :
          l.pc = "lock" /\ loops' = [loops EXCEPT ![j] = l] /\ loops[j].pc = "capture"
    <3> DEFINE l == IF loops[j].phase = 1
                    THEN [loops[j] EXCEPT !.pc = "lock", !.next = "phase", !.phase = 2]
                    ELSE IF loops[j].config \in Repeating
                    THEN [loops[j] EXCEPT !.pc = "lock", !.next = "phase", !.phase = 1]
                    ELSE [loops[j] EXCEPT !.pc = "lock", !.next = "finish", !.session = 0]
    <3>1. l \in LoopState /\ l.pc = "lock"
      <4>1. l \in Loops
        BY <1>0, NoLoopType DEF LoopState, Loops, Pcs, Nexts
      <4>2. l.pc = "lock" /\ l.next \in {"phase", "finish"}
        BY <1>0 DEF LoopState, Loops
      <4> QED BY <4>1, <4>2 DEF LoopState
    <3>2. loops' = [loops EXCEPT ![j] = l] /\ loops[j].pc = "capture"
      BY <1>1 DEF PhaseEnds, InLoop
    <3> QED BY <3>1, <3>2
  <2>2. EndJobSession(j) /\ UNCHANGED <<handles, disk, writer, callers, promised, used>>
    BY <1>1 DEF PhaseEnds
  <2> QED BY <1>0, <2>1, <2>2, SessionEnds, LoopMoves
<1>2. CASE CaptureFails(j)
  <2> DEFINE l == [loops[j] EXCEPT !.pc = "lock", !.next = "finish"]
  <2>1. l \in LoopState /\ l.pc = "lock" /\ l.session = loops[j].session /\ HoldsSession(l)
    BY <1>0 DEF LoopState, Loops, Pcs, Nexts, HoldsSession
  <2>2. loops' = [loops EXCEPT ![j] = l] /\ loops[j].pc = "capture"
    BY <1>2 DEF CaptureFails, InLoop
  <2>3. /\ SetJobError(j) /\ UNCHANGED <<sessions, handles, disk, writer, callers, promised>>
        /\ used' \in Counters
    BY <1>2, SpendType DEF CaptureFails
  <2> HIDE DEF l
  <2> QED BY <1>0, <2>1, <2>2, <2>3, ErrorSet, LoopMoves
<1>3. CASE SeeStop(j)
  <2> DEFINE l == [loops[j] EXCEPT !.pc = "finish"]
  <2>1. l \in LoopState /\ l.pc = "finish" /\ l.session = loops[j].session /\ HoldsSession(l)
    BY <1>0 DEF LoopState, Loops, Pcs, HoldsSession
  <2>2. loops' = [loops EXCEPT ![j] = l] /\ loops[j].pc = "capture"
    BY <1>3 DEF SeeStop, InLoop, Goes, JobsInv, JobsTypeInv
  <2>3. UNCHANGED <<jobs, sessions, handles, disk, writer, callers, promised, used>>
    BY <1>3 DEF SeeStop
  <2>4. jobs' \in [Jobs -> Record]
    BY <2>3 DEF JobsInv, JobsTypeInv
  <2> HIDE DEF l
  <2> QED BY <1>0, <2>1, <2>2, <2>3, <2>4, LoopMoves
<1> QED BY <1>1, <1>2, <1>3

LEMMA FinishStep ==
    ASSUME JobsInv, NEW j \in Jobs, Finishing(j)
    PROVE  JobsInv'
<1>0. /\ loops[j] \in LoopState /\ jobs[j] \in Record /\ AsPromised(j, jobs[j].config)
      /\ used \in Counters /\ sessions \in [Jobs -> 0..MaxSessions]
      /\ jobs \in [Jobs -> Record]
  BY DEF JobsInv, JobsTypeInv, SettingsAgree
<1>1. ASSUME NEW pc \in {"report", "remove"}
      PROVE  /\ [loops[j] EXCEPT !.pc = pc] \in LoopState
             /\ [loops[j] EXCEPT !.pc = pc].pc = pc
             /\ [loops[j] EXCEPT !.pc = "lock", !.next = pc] \in LoopState
             /\ [loops[j] EXCEPT !.pc = "lock", !.next = pc].pc = "lock"
  BY <1>0 DEF LoopState, Loops, Pcs, Nexts
<1>2. ASSUME NEW pc \in {"report", "remove"}
      PROVE  /\ Goes(j, pc) => loops' = [loops EXCEPT ![j] = [loops[j] EXCEPT !.pc = pc]]
             /\ PersistThen(j, pc) =>
                  loops' = [loops EXCEPT ![j] = [loops[j] EXCEPT !.pc = "lock", !.next = pc]]
  BY DEF Goes, PersistThen, JobsInv, JobsTypeInv
<1>3. CASE Finish(j)
  <2>0. loops[j].pc = "finish" /\ UNCHANGED <<handles, disk, writer, callers, promised, used>>
    BY <1>3 DEF Finish, InLoop
  <2>1. CASE loops[j].session = 0
    <3>1. UNCHANGED <<jobs, sessions>> /\ Goes(j, "report")
      BY <1>3, <2>1 DEF Finish
    <3>2. sessions[j] = 0 /\ jobs[j].state \notin {"running", "stopping"}
      BY <2>1 DEF JobsInv, SessionsOfLoops
    <3>3. PICK l \in LoopState : l.pc = "report" /\ loops' = [loops EXCEPT ![j] = l]
      BY <1>1, <1>2, <3>1
    <3> QED BY <1>0, <2>0, <3>1, <3>2, <3>3, LoopMoves
  <2>2. CASE loops[j].session # 0
    <3>1. EndJobSession(j) /\ PersistThen(j, "report")
      BY <1>3, <2>2 DEF Finish
    <3>2. PICK l \in LoopState : l.pc = "lock" /\ loops' = [loops EXCEPT ![j] = l]
      BY <1>1, <1>2, <3>1
    <3> QED BY <1>0, <2>0, <3>1, <3>2, SessionEnds, LoopMoves
  <2> QED BY <2>1, <2>2
<1>4. CASE ReportError(j)
  <2>0. /\ loops[j].pc = "report"
        /\ UNCHANGED <<sessions, handles, disk, writer, callers, promised, used>>
    BY <1>4 DEF ReportError, InLoop
  <2>1. sessions[j] = 0 /\ jobs[j].state \notin {"running", "stopping"}
    BY <2>0 DEF JobsInv, SessionsOfLoops, HoldsSession
  <2>2. CASE loops[j].error
    <3>1. SetJobError(j) /\ PersistThen(j, "remove")
      BY <1>4, <2>2 DEF ReportError
    <3>2. PICK l \in LoopState : l.pc = "lock" /\ loops' = [loops EXCEPT ![j] = l]
      BY <1>1, <1>2, <3>1
    <3> QED BY <1>0, <2>0, <2>1, <3>1, <3>2, ErrorSet, LoopMoves
  <2>3. CASE ~loops[j].error
    <3>1. UNCHANGED jobs /\ Goes(j, "remove")
      BY <1>4, <2>3 DEF ReportError
    <3>2. PICK l \in LoopState : l.pc = "remove" /\ loops' = [loops EXCEPT ![j] = l]
      BY <1>1, <1>2, <3>1
    <3> QED BY <1>0, <2>0, <2>1, <3>1, <3>2, LoopMoves
  <2> QED BY <2>2, <2>3
<1>5. CASE RemoveHandle(j)
  <2>1. NoLoop \in LoopState /\ NoLoop.pc = "none"
    BY NoLoopType
  <2>2. /\ handles' \in [Jobs -> {"none", "running", "stopping"}]
        /\ loops' \in [Jobs -> LoopState]
        /\ handles'[j] = "none" /\ loops'[j].pc = "none" /\ loops[j].pc = "remove"
        /\ \A k \in Jobs \ {j} : handles'[k] = handles[k] /\ loops'[k] = loops[k]
        /\ UNCHANGED <<jobs, sessions, disk, writer, callers, promised, used>>
    BY <1>5, <2>1 DEF RemoveHandle, InLoop, JobsInv, JobsTypeInv
  <2>3. sessions[j] = 0
    BY <2>2 DEF JobsInv, SessionsOfLoops, HoldsSession
  <2> QED BY <2>2, <2>3 DEF JobsInv, JobsTypeInv, WriterHoldsLock, LoopsHaveHandles,
          SessionsOfLoops, HoldsSession, SettingsAgree, AsPromised
<1> QED BY <1>3, <1>4, <1>5 DEF Finishing

-----------------------------------------------------------------------------
(* persistJobs. *)

LEMMA PersistStep ==
    ASSUME JobsInv, NEW j \in Jobs, Persisting(j)
    PROVE  JobsInv'
<1> USE MapperJobsAssumption
<1>0. loops[j] \in LoopState
  BY DEF JobsInv, JobsTypeInv
<1>1. CASE Snapshot(j)
  <2> DEFINE l == [loops[j] EXCEPT !.pc = "write"]
  <2>1. /\ l \in LoopState /\ l.pc = "write" /\ l.next = loops[j].next
        /\ l.session = loops[j].session
    BY <1>0, <1>1 DEF Snapshot, InLoop, LoopState, Loops, Pcs
  <2>2. /\ loops' = [loops EXCEPT ![j] = l] /\ loops[j].pc = "lock" /\ writer.by = None
        /\ writer' = [by |-> j, files |-> Settings]
        /\ UNCHANGED <<jobs, sessions, handles, disk, callers, promised, used>>
    BY <1>1 DEF Snapshot, InLoop, Goes
  <2>3. Settings \in [Jobs -> Stored] /\ \A k \in Jobs : Settings[k] = jobs[k].config
    BY DEF Settings, JobsInv, JobsTypeInv, Record
  <2> HIDE DEF l
  <2>4. loops'[j] = l /\ \A k \in Jobs \ {j} : loops'[k] = loops[k]
    BY <2>2 DEF JobsInv, JobsTypeInv
  <2>5. JobsTypeInv'
    BY <2>1, <2>2, <2>3 DEF JobsInv, JobsTypeInv
  <2>6. WriterHoldsLock' /\ LoopsHaveHandles'
    BY <2>1, <2>2, <2>4 DEF JobsInv, WriterHoldsLock, LoopsHaveHandles
  <2>7. SessionsOfLoops'
    BY <2>1, <2>2, <2>4 DEF JobsInv, SessionsOfLoops, HoldsSession
  <2>8. SettingsAgree'
    BY <2>2, <2>3 DEF JobsInv, SettingsAgree, AsPromised
  <2> QED BY <2>5, <2>6, <2>7, <2>8 DEF JobsInv
<1>2. CASE WriteJobs(j)
  <2> DEFINE l == [loops[j] EXCEPT !.pc = loops[j].next]
  <2>0. loops[j].next # "write" /\ loops[j].next \in Pcs
    BY <1>0 DEF LoopState, Loops, Nexts, Pcs
  <2>1. /\ l \in LoopState /\ l.pc = loops[j].next /\ l.next = loops[j].next
        /\ l.session = loops[j].session
    BY <1>0, <2>0 DEF LoopState, Loops
  <2>2. /\ loops' = [loops EXCEPT ![j] = l] /\ loops[j].pc = "write"
        /\ writer' = Unlocked /\ disk' \in {disk, writer.files}
        /\ UNCHANGED <<jobs, sessions, handles, callers, promised>>
    BY <1>2 DEF WriteJobs, InLoop, Goes
  <2>3. used' \in Counters
    BY <1>2, SpendType DEF WriteJobs, JobsInv, JobsTypeInv
  <2>4. writer.by = j
    BY <2>2 DEF JobsInv, WriterHoldsLock
  <2>5. Unlocked \in [by : Jobs \cup {None}, files : [Jobs -> Stored]] /\ Unlocked.by = None
    BY DEF Unlocked, Stored
  <2> HIDE DEF l
  <2>6. loops'[j] = l /\ \A k \in Jobs \ {j} : loops'[k] = loops[k]
    BY <2>2 DEF JobsInv, JobsTypeInv
  <2>7. JobsTypeInv'
    BY <2>1, <2>2, <2>3, <2>5 DEF JobsInv, JobsTypeInv
  <2>8. WriterHoldsLock'
    BY <2>0, <2>1, <2>2, <2>4, <2>5, <2>6 DEF JobsInv, WriterHoldsLock
  <2>9. LoopsHaveHandles'
    <3>1. l.pc # "none" /\ loops[j].pc # "none"
      BY <1>0, <2>1, <2>2 DEF LoopState
    <3> QED BY <2>2, <2>6, <3>1 DEF JobsInv, LoopsHaveHandles
  <2>10. SessionsOfLoops'
    BY <2>1, <2>2, <2>6 DEF JobsInv, SessionsOfLoops, HoldsSession
  <2>11. SettingsAgree'
    BY <2>2, <2>4, <2>5 DEF JobsInv, SettingsAgree, AsPromised
  <2> QED BY <2>7, <2>8, <2>9, <2>10, <2>11 DEF JobsInv
<1> QED BY <1>1, <1>2 DEF Persisting

LEMMA RestartStep == JobsInv /\ Restart => JobsInv'
<1> SUFFICES ASSUME JobsInv, Restart PROVE JobsInv'
  OBVIOUS
<1> USE MapperJobsAssumption
<1>1. NoLoop \in LoopState /\ NoLoop.pc = "none"
  BY NoLoopType
<1>2. NoRequest \in ShapedCall
  BY DEF NoRequest, ShapedCall, Call, Stored
<1>3. Unlocked \in [by : Jobs \cup {None}, files : [Jobs -> Stored]] /\ Unlocked.by = None
  BY DEF Unlocked, Stored
<1>4. used' \in Counters /\ UNCHANGED <<disk, promised>>
  BY SpendType DEF Restart
<1>5. /\ jobs' \in [Jobs -> Record]
      /\ \A j \in Jobs : jobs'[j].config = disk[j] /\ jobs'[j].state = "idle"
  BY DEF Restart, JobsInv, JobsTypeInv, Record, States
<1>6. JobsTypeInv'
  BY <1>1, <1>2, <1>3, <1>4, <1>5 DEF Restart, JobsInv, JobsTypeInv
<1>7. WriterHoldsLock' /\ LoopsHaveHandles' /\ SessionsOfLoops'
  BY <1>1, <1>3, <1>5 DEF Restart, WriterHoldsLock, LoopsHaveHandles, SessionsOfLoops
<1>8. SettingsAgree'
  BY <1>3, <1>4, <1>5 DEF Restart, JobsInv, SettingsAgree, AsPromised
<1> QED BY <1>6, <1>7, <1>8 DEF JobsInv

-----------------------------------------------------------------------------
LEMMA JobsStepInv == JobsInv /\ [Next]_vars => JobsInv'
<1> SUFFICES ASSUME JobsInv, [Next]_vars PROVE JobsInv'
  OBVIOUS
<1>1. ASSUME NEW j \in Jobs, Loop(j) PROVE JobsInv'
  BY <1>1, PhaseKept, CaptureStep, FinishStep, PersistStep DEF Loop
<1>2. CASE UNCHANGED vars
  BY <1>2 DEF vars, JobsInv, JobsTypeInv, WriterHoldsLock, LoopsHaveHandles, SessionsOfLoops,
     SettingsAgree, AsPromised
<1> QED BY <1>1, <1>2, RequestStep, StopStep, RestartStep DEF Next

\* For any number of jobs, requests, sessions and restarts: a restart finds
\* the settings the last successful save left, none of a deleted job, and a job
\* without a loop is neither shown as running nor has a session that could
\* still report (SaveJob, DeleteJob, persistJobs, mapperJobLoop).
THEOREM JobsKept == Spec => []JobsAsSaved
BY JobsInitInv, JobsStepInv, InvariantMeans, PTL DEF Spec

\* Every variable of the job model keeps its type.
THEOREM JobsTyped == Spec => []TypeOK
BY JobsInitInv, JobsStepInv, InvariantMeans, PTL DEF Spec

-----------------------------------------------------------------------------
(* The frequencies, their file and the uploads *)

Times == 0..MaxTime
SettingsKnown == MapperConfigs \cup {R!Torn}
RawRecords ==
    [first : Times, seen : Times, status : {"none", "candidate", "confirmed"}, voice : BOOLEAN,
     verified : {"no", "frames", "reference"}, classified : BOOLEAN]

\* Whatever is known of a frequency, it was observed before.
Records ==
    {r \in RawRecords :
        /\ r.seen # 0 => r.first # 0 /\ r.first <= r.seen
        /\ r.status # "none" \/ r.verified # "no" => r.first # 0}

Rows == [sent : BOOLEAN, seen : Times, identified : BOOLEAN]
Uploads ==
    [pc : {"idle", "config", "rows", "post", "finish", "save"}, config : SettingsKnown,
     rows : [Keys -> Rows], failed : BOOLEAN]

RecordsTypeInv ==
    /\ records \in [Keys -> Records] /\ recordsFile \in [Keys -> Records]
    /\ watermark \in [Keys -> Times]
    /\ config \in SettingsKnown /\ configFile \in SettingsKnown
    /\ saving \in [by : {"none", LoopUploader, Clearer}, data : [Keys -> Records]]
    /\ uploads \in [Uploaders -> Uploads]
    /\ frames \subseteq Keys
    /\ sheet \in [Keys -> [seen : Times, unidentified : BOOLEAN]]
    /\ clearing \in [pc : {"idle", "lock", "write"}, at : Times]
    /\ ghost \in [owed : SUBSET Keys, cleared : Times, consent : BOOLEAN]
    /\ spent \in [time : Times, events : Nat]

-----------------------------------------------------------------------------
(* The inductive invariant. *)

\* No record is dated later than the last observation.
DatedBy(data, t) == \A k \in Keys : data[k].first <= t
Dated ==
    /\ DatedBy(records, spent.time) /\ DatedBy(recordsFile, spent.time)
    /\ DatedBy(saving.data, spent.time)
    /\ clearing.at <= spent.time /\ ghost.cleared <= spent.time

\* An upload that was confirmed has its rows in the sheet.
ConfirmedArrived ==
    \A u \in Uploaders : uploads[u].pc = "finish" /\ ~uploads[u].failed =>
        \A k \in Keys : uploads[u].rows[k] # R!NoRow => uploads[u].rows[k].seen <= sheet[k].seen

\* Settings that let unidentified rows through, and such rows under way, follow
\* consent.
ConsentGiven ==
    /\ ~config.verifiedOnly \/ ~configFile.verifiedOnly => ghost.consent
    /\ \A u \in Uploaders :
         /\ ~uploads[u].config.verifiedOnly => ghost.consent
         /\ \A k \in Keys : uploads[u].rows[k] # R!NoRow /\ ~uploads[u].rows[k].identified
              => ghost.consent

FramesConfirmed == \A k \in ghost.owed : R!Present(k) /\ records[k].status = "confirmed"

\* All records in data were first observed after t.
After(data, t) == \A k \in Keys : data[k].first # 0 => data[k].first > t

\* Records older than a saved clear are gone everywhere; those older than one in
\* progress are gone from memory, and from what the clear writes.
ClearsHold ==
    /\ After(records, ghost.cleared) /\ After(recordsFile, ghost.cleared)
    /\ After(saving.data, ghost.cleared)
    /\ clearing.pc # "idle" => After(records, clearing.at)
    /\ saving.by = Clearer => clearing.pc = "write" /\ After(saving.data, clearing.at)

RecordsInv ==
    /\ RecordsTypeInv /\ Dated
    /\ R!WatermarkDelivered /\ ConfirmedArrived
    /\ R!ConsentedRows /\ ConsentGiven
    /\ FramesConfirmed /\ ClearsHold

-----------------------------------------------------------------------------
(* Types. *)

LEMMA Assumed == R!MapperRecordsAssumption
BY MapperAssumption DEF MapperAssumption

LEMMA Defaults ==
    /\ MaxTime \in Nat /\ 0 \in Times
    /\ R!Absent \in Records /\ R!NoRow \in Rows /\ R!NoUpload \in Uploads
    /\ R!Unlocked \in [by : {"none", LoopUploader, Clearer}, data : [Keys -> Records]]
    /\ R!NoClear \in [pc : {"idle", "lock", "write"}, at : Times]
<1> USE DEF Times
<1>1. MaxTime \in Nat /\ 0 \in Times
  BY Assumed DEF R!MapperRecordsAssumption
<1>2. R!Absent \in Records
  BY <1>1 DEF R!Absent, Records, RawRecords
<1>3. R!NoRow \in Rows
  BY <1>1 DEF R!NoRow, Rows
<1>4. R!NoUpload \in Uploads
  BY <1>1, <1>3 DEF R!NoUpload, Uploads, SettingsKnown
<1> QED BY <1>1, <1>2, <1>3, <1>4 DEF R!Unlocked, R!NoClear

\* What evidence makes of a record that exists.
LEMMA RevisedTyped ==
    ASSUME NEW r \in Records, r.first # 0
    PROVE  /\ [r EXCEPT !.verified = "reference"] \in Records
           /\ [r EXCEPT !.status = "candidate"] \in Records
           /\ [r EXCEPT !.classified = TRUE] \in Records
           /\ \A voice \in BOOLEAN : R!Confirmed(r, voice) \in Records
           /\ R!Downgraded(r) \in Records
BY DEF Records, RawRecords, R!Confirmed, R!Downgraded

LEMMA ObservedTyped ==
    ASSUME NEW r \in Records, NEW now \in Times, r.first <= now, now # 0,
           NEW active \in BOOLEAN, NEW classified \in BOOLEAN
    PROVE  [r EXCEPT !.first = IF @ = 0 THEN now ELSE @,
                     !.seen = IF active THEN now ELSE @,
                     !.classified = @ \/ classified] \in Records
<1> DEFINE first == IF r.first = 0 THEN now ELSE r.first
           seen == IF active THEN now ELSE r.seen
           new == [r EXCEPT !.first = IF @ = 0 THEN now ELSE @,
                            !.seen = IF active THEN now ELSE @,
                            !.classified = @ \/ classified]
<1>1. r \in RawRecords /\ first \in Times /\ seen \in Times
  BY DEF Records, RawRecords
<1>2. /\ new.first = first /\ new.seen = seen /\ new.status = r.status
      /\ new.verified = r.verified /\ new \in RawRecords
  BY <1>1 DEF RawRecords
<1>3. first # 0 /\ (seen # 0 => first <= seen)
  BY Defaults DEF Records, RawRecords, Times
<1> HIDE DEF new, first, seen
<1>4. new \in Records
  BY <1>2, <1>3 DEF Records
<1> QED BY <1>4 DEF new

LEMMA RowTyped ==
    ASSUME NEW r \in Records
    PROVE  R!Row(r) \in Rows /\ R!Row(r) # R!NoRow
BY DEF R!Row, Records, RawRecords, Rows, R!NoRow, R!FullyIdentified

LEMMA SpentTyped ==
    ASSUME RecordsTypeInv
    PROVE  /\ R!Spend("time", MaxTime) =>
                /\ spent' \in [time : Times, events : Nat]
                /\ spent'.time = spent.time + 1 /\ spent'.time # 0
           /\ R!Spend("events", MaxEvents) =>
                spent' \in [time : Times, events : Nat] /\ spent'.time = spent.time
BY Defaults DEF RecordsTypeInv, R!Spend, Times

\* One frequency's record changes.
LEMMA RecordTyped ==
    ASSUME RecordsTypeInv, NEW k \in Keys, NEW r \in Records, records' = [records EXCEPT ![k] = r],
           spent' \in [time : Times, events : Nat],
           ghost' \in [owed : SUBSET Keys, cleared : Times, consent : BOOLEAN],
           UNCHANGED <<watermark, config, configFile, recordsFile, saving, uploads, frames, sheet,
                       clearing>>
    PROVE  RecordsTypeInv'
BY DEF RecordsTypeInv

LEMMA ReviseTyped ==
    ASSUME RecordsTypeInv, NEW k \in Keys, NEW r \in Records, R!Revise(k, r),
           ghost' \in [owed : SUBSET Keys, cleared : Times, consent : BOOLEAN]
    PROVE  RecordsTypeInv'
<1>1. /\ records' = [records EXCEPT ![k] = r] /\ R!Spend("events", MaxEvents)
      /\ UNCHANGED <<watermark, config, configFile, recordsFile, saving, uploads, frames, sheet,
                     clearing>>
  BY DEF R!Revise
<1>2. spent' \in [time : Times, events : Nat]
  BY <1>1, SpentTyped
<1> QED BY <1>1, <1>2, RecordTyped

\* One upload goes on.
LEMMA AdvanceTyped ==
    ASSUME RecordsTypeInv, NEW u \in Uploaders, NEW up \in Uploads, R!Advance(u, up),
           watermark' \in [Keys -> Times],
           sheet' \in [Keys -> [seen : Times, unidentified : BOOLEAN]],
           spent' \in [time : Times, events : Nat],
           UNCHANGED <<records, config, configFile, recordsFile, saving, frames, clearing, ghost>>
    PROVE  RecordsTypeInv'
BY DEF RecordsTypeInv, R!Advance

LEMMA DoneTyped == \A u : R!Done(u) \in Uploads
BY Defaults DEF R!Done, Uploads

LEMMA RecordStepsTyped ==
    ASSUME RecordsTypeInv, Dated, NEW k \in Keys
    PROVE  /\ \A active, classified \in BOOLEAN : R!Observe(k, active, classified) => RecordsTypeInv'
           /\ R!SetIdentificationEvidence(k) => RecordsTypeInv'
           /\ R!SetSignalIntelligence(k) => RecordsTypeInv'
           /\ R!UpdateDecoderMessages(k) => RecordsTypeInv'
           /\ R!SetDecoderEvidence(k) => RecordsTypeInv'
           /\ \A voice \in BOOLEAN : R!SetDecodedMessages(k, voice) => RecordsTypeInv'
<1>1. records[k] \in Records
  BY DEF RecordsTypeInv
<1>2. UNCHANGED ghost => ghost' \in [owed : SUBSET Keys, cleared : Times, consent : BOOLEAN]
  BY DEF RecordsTypeInv
<1>3. ASSUME NEW active \in BOOLEAN, NEW classified \in BOOLEAN, R!Observe(k, active, classified)
      PROVE  RecordsTypeInv'
  <2> DEFINE new == [records[k] EXCEPT !.first = IF @ = 0 THEN spent'.time ELSE @,
                                       !.seen = IF active THEN spent'.time ELSE @,
                                       !.classified = @ \/ classified]
  <2>1. /\ records' = [records EXCEPT ![k] = new] /\ R!Spend("time", MaxTime)
        /\ UNCHANGED <<watermark, config, configFile, recordsFile, saving, uploads, frames, sheet,
                       clearing, ghost>>
    BY <1>3 DEF R!Observe
  <2>2. /\ spent' \in [time : Times, events : Nat] /\ spent'.time \in Times
        /\ spent'.time = spent.time + 1 /\ spent'.time # 0 /\ spent.time \in Times
    BY <2>1, SpentTyped DEF RecordsTypeInv
  <2>3. records[k].first <= spent'.time
    BY <1>1, <2>2, Defaults DEF Dated, DatedBy, Times, Records, RawRecords
  <2>4. new \in Records
    BY <1>1, <2>2, <2>3, ObservedTyped
  <2> HIDE DEF new
  <2> QED BY <1>2, <2>1, <2>2, <2>4, RecordTyped
<1>4. CASE R!SetIdentificationEvidence(k)
  BY <1>1, <1>2, <1>4, RevisedTyped, ReviseTyped
     DEF R!SetIdentificationEvidence, R!Revise, R!Present
<1>5. CASE R!SetSignalIntelligence(k)
  BY <1>1, <1>2, <1>5, RevisedTyped, ReviseTyped DEF R!SetSignalIntelligence, R!Revise, R!Present
<1>6. CASE R!SetDecoderEvidence(k)
  BY <1>1, <1>2, <1>6, RevisedTyped, ReviseTyped DEF R!SetDecoderEvidence, R!Revise, R!Present
<1>7. ASSUME NEW voice \in BOOLEAN, R!SetDecodedMessages(k, voice) PROVE RecordsTypeInv'
  <2>1. R!Revise(k, R!Confirmed(records[k], voice)) /\ ghost' = [ghost EXCEPT !.owed = @ \cup {k}]
    BY <1>7 DEF R!SetDecodedMessages
  <2>2. ghost' \in [owed : SUBSET Keys, cleared : Times, consent : BOOLEAN]
    BY <2>1 DEF RecordsTypeInv
  <2>3. R!Confirmed(records[k], voice) \in Records
    BY <1>1, <2>1, RevisedTyped DEF R!Revise, R!Present
  <2> QED BY <2>1, <2>2, <2>3, ReviseTyped
<1>8. CASE R!UpdateDecoderMessages(k)
  BY <1>8, SpentTyped DEF R!UpdateDecoderMessages, RecordsTypeInv
<1> QED BY <1>3, <1>4, <1>5, <1>6, <1>7, <1>8

LEMMA UploadStepsTyped ==
    ASSUME RecordsTypeInv, NEW u \in Uploaders
    PROVE  /\ \A k \in Keys : R!UploadFrequency(u, k) => RecordsTypeInv'
           /\ R!UploadNow(u) => RecordsTypeInv'
           /\ R!ReadConfig(u) => RecordsTypeInv'
           /\ R!TakeRows(u) => RecordsTypeInv'
           /\ R!Post(u) => RecordsTypeInv'
           /\ R!PostFails(u) => RecordsTypeInv'
           /\ R!FinishUpload(u) => RecordsTypeInv'
<1>1. /\ watermark \in [Keys -> Times] /\ uploads[u] \in Uploads
      /\ sheet \in [Keys -> [seen : Times, unidentified : BOOLEAN]]
      /\ spent \in [time : Times, events : Nat] /\ config \in SettingsKnown
      /\ \A k \in Keys : records[k] \in Records
  BY DEF RecordsTypeInv
<1>2. \A pc \in {"idle", "config", "rows", "post", "finish", "save"} :
        [R!NoUpload EXCEPT !.pc = pc] \in Uploads
  BY Defaults DEF Uploads
<1>3. ASSUME NEW k \in Keys, R!UploadFrequency(u, k) PROVE RecordsTypeInv'
  <2> DEFINE up == [R!NoUpload EXCEPT !.pc = "post", !.rows[k] = R!Row(records[k])]
  <2>1. up \in Uploads
    BY <1>1, Defaults, RowTyped DEF Uploads
  <2>2. /\ R!Advance(u, up) /\ R!Spend("events", MaxEvents)
        /\ UNCHANGED <<records, watermark, config, configFile, recordsFile, saving, frames, sheet,
                       clearing, ghost>>
    BY <1>3 DEF R!UploadFrequency, R!UploadFrequencyUnchecked
  <2> HIDE DEF up
  <2> QED BY <1>1, <2>1, <2>2, AdvanceTyped, SpentTyped
<1>4. CASE R!UploadNow(u)
  BY <1>1, <1>2, <1>4, AdvanceTyped, SpentTyped DEF R!UploadNow
<1>5. CASE R!ReadConfig(u)
  <2>1. [R!NoUpload EXCEPT !.pc = "rows", !.config = config] \in Uploads
    BY <1>1, Defaults DEF Uploads
  <2> QED BY <1>1, <1>5, <2>1, DoneTyped, AdvanceTyped DEF R!ReadConfig
<1>6. CASE R!TakeRows(u)
  <2> DEFINE rows == R!NewRows(uploads[u].config)
  <2>1. rows \in [Keys -> Rows]
    BY <1>1, Defaults, RowTyped DEF R!NewRows
  <2>2. /\ R!Advance(u, IF rows = R!NoUpload.rows THEN R!Done(u)
                        ELSE [R!NoUpload EXCEPT !.pc = "post", !.rows = rows])
        /\ UNCHANGED <<records, watermark, config, configFile, recordsFile, saving, frames, sheet,
                       clearing, ghost, spent>>
    BY <1>6 DEF R!TakeRows
  <2> HIDE DEF rows
  <2>3. [R!NoUpload EXCEPT !.pc = "post", !.rows = rows] \in Uploads
    BY <2>1, Defaults DEF Uploads
  <2> QED BY <1>1, <2>2, <2>3, DoneTyped, AdvanceTyped
<1>7. ASSUME R!Arrive(uploads[u].rows)
      PROVE  sheet' \in [Keys -> [seen : Times, unidentified : BOOLEAN]]
  BY <1>1, <1>7 DEF R!Arrive, R!Later, Uploads, Rows
<1>8. CASE R!Post(u)
  <2>1. [uploads[u] EXCEPT !.pc = "finish"] \in Uploads
    BY <1>1 DEF Uploads
  <2> QED BY <1>1, <1>7, <1>8, <2>1, AdvanceTyped DEF R!Post
<1>9. CASE R!PostFails(u)
  <2>1. [uploads[u] EXCEPT !.pc = "finish", !.failed = TRUE] \in Uploads
    BY <1>1 DEF Uploads
  <2>2. sheet' \in [Keys -> [seen : Times, unidentified : BOOLEAN]]
    BY <1>1, <1>7, <1>9 DEF R!PostFails
  <2> QED BY <1>1, <1>9, <2>1, <2>2, AdvanceTyped, SpentTyped DEF R!PostFails
<1>10. CASE R!FinishUpload(u)
  <2>1. watermark' \in [Keys -> Times]
    BY <1>1, <1>10 DEF R!FinishUpload, R!Mark, Uploads, Rows
  <2> QED BY <1>1, <1>10, <2>1, DoneTyped, AdvanceTyped DEF R!FinishUpload
<1> QED BY <1>3, <1>4, <1>5, <1>6, <1>8, <1>9, <1>10

LEMMA FileStepsTyped ==
    ASSUME RecordsTypeInv
    PROVE  /\ R!Tick \/ R!LoopSnapshot \/ R!LoopWrite => RecordsTypeInv'
           /\ R!ClearRecords \/ R!ClearSnapshot \/ R!ClearWrite => RecordsTypeInv'
           /\ \A c \in MapperConfigs : R!Update(c) => RecordsTypeInv'
<1>1. LoopUploader \in Uploaders
  BY Assumed DEF R!MapperRecordsAssumption
<1>2. ASSUME NEW p \in {LoopUploader, Clearer}, R!TakeSnapshot(p, records)
      PROVE  saving' \in [by : {"none", LoopUploader, Clearer}, data : [Keys -> Records]]
  BY <1>2 DEF RecordsTypeInv, R!TakeSnapshot
<1>3. ASSUME NEW p \in {LoopUploader, Clearer}, R!Save(p) \/ R!SaveFails(p)
      PROVE  /\ saving' \in [by : {"none", LoopUploader, Clearer}, data : [Keys -> Records]]
             /\ recordsFile' \in [Keys -> Records]
  BY <1>3, Defaults DEF RecordsTypeInv, R!Save, R!SaveFails
<1>4. CASE R!Tick
  <2>1. \A pc \in {"config", "save"} : [R!NoUpload EXCEPT !.pc = pc] \in Uploads
    BY Defaults DEF Uploads
  <2>2. PICK pc \in {"config", "save"} : R!Advance(LoopUploader, [R!NoUpload EXCEPT !.pc = pc])
    BY <1>4 DEF R!Tick
  <2> QED BY <1>1, <1>4, <2>1, <2>2, AdvanceTyped DEF R!Tick, RecordsTypeInv
<1>5. CASE R!LoopSnapshot
  BY <1>2, <1>5 DEF R!LoopSnapshot, RecordsTypeInv
<1>6. CASE R!LoopWrite
  <2>1. spent' \in [time : Times, events : Nat]
    BY <1>6, SpentTyped DEF R!LoopWrite, RecordsTypeInv
  <2>2. uploads' \in [Uploaders -> Uploads]
    BY <1>1, <1>6, Defaults DEF R!LoopWrite, RecordsTypeInv
  <2> QED BY <1>3, <1>6, <2>1, <2>2 DEF R!LoopWrite, RecordsTypeInv
<1>7. CASE R!ClearRecords
  <2>1. spent' \in [time : Times, events : Nat]
    BY <1>7, SpentTyped DEF R!ClearRecords
  <2>2. /\ records' \in [Keys -> Records] /\ watermark' \in [Keys -> Times]
        /\ clearing' \in [pc : {"idle", "lock", "write"}, at : Times]
        /\ ghost' \in [owed : SUBSET Keys, cleared : Times, consent : BOOLEAN]
    BY <1>7, Defaults DEF R!ClearRecords, RecordsTypeInv
  <2> QED BY <1>7, <2>1, <2>2 DEF R!ClearRecords, RecordsTypeInv
<1>8. CASE R!ClearSnapshot
  <2>1. clearing' \in [pc : {"idle", "lock", "write"}, at : Times]
    BY <1>8 DEF R!ClearSnapshot, RecordsTypeInv
  <2> QED BY <1>2, <1>8, <2>1 DEF R!ClearSnapshot, RecordsTypeInv
<1>9. CASE R!ClearWrite
  <2>1. spent' \in [time : Times, events : Nat]
    BY <1>9, SpentTyped DEF R!ClearWrite, RecordsTypeInv
  <2>2. /\ clearing' \in [pc : {"idle", "lock", "write"}, at : Times]
        /\ ghost' \in [owed : SUBSET Keys, cleared : Times, consent : BOOLEAN]
    BY <1>9, Defaults DEF R!ClearWrite, RecordsTypeInv
  <2> QED BY <1>3, <1>9, <2>1, <2>2 DEF R!ClearWrite, RecordsTypeInv
<1>10. ASSUME NEW c \in MapperConfigs, R!Update(c) PROVE RecordsTypeInv'
  <2>1. spent' \in [time : Times, events : Nat]
    BY <1>10, SpentTyped DEF R!Update
  <2>2. /\ config' \in SettingsKnown /\ configFile' \in SettingsKnown
        /\ ghost' \in [owed : SUBSET Keys, cleared : Times, consent : BOOLEAN]
    <3>1. c.verifiedOnly \in BOOLEAN
      BY Assumed DEF R!MapperRecordsAssumption
    <3> QED BY <1>10, <3>1 DEF R!Update, RecordsTypeInv, SettingsKnown
  <2> QED BY <1>10, <2>1, <2>2 DEF R!Update, RecordsTypeInv
<1> QED BY <1>4, <1>5, <1>6, <1>7, <1>8, <1>9, <1>10

\* A record that is loaded keeps the date it was first observed.
LEMMA LoadedIs ==
    ASSUME RecordsTypeInv, NEW banners, banners \subseteq {k \in Keys : R!Suspect(recordsFile[k])}
    PROVE  /\ R!Loaded(banners) \in [Keys -> Records]
           /\ \A k \in Keys : R!Loaded(banners)[k].first = recordsFile[k].first
           /\ \A k \in frames : recordsFile[k].first # 0 =>
                R!Loaded(banners)[k].status = "confirmed"
<1> DEFINE base(k) == IF k \in banners THEN R!Downgraded(recordsFile[k]) ELSE recordsFile[k]
           new(k) == IF k \in frames /\ base(k).first # 0
                     THEN R!Confirmed(base(k), base(k).voice) ELSE base(k)
<1>1. R!Loaded(banners) = [k \in Keys |-> new(k)]
  BY DEF R!Loaded
<1>2. ASSUME NEW k \in Keys
      PROVE  base(k) \in Records /\ base(k).first = recordsFile[k].first
  <2>1. recordsFile[k] \in Records
    BY DEF RecordsTypeInv
  <2>2. k \in banners => recordsFile[k].first # 0
    BY <2>1 DEF R!Suspect, Records
  <2>3. R!Downgraded(recordsFile[k]).first = recordsFile[k].first
    BY <2>1 DEF R!Downgraded, Records, RawRecords
  <2> QED BY <2>1, <2>2, <2>3, RevisedTyped
<1> HIDE DEF base
<1>3. ASSUME NEW r \in Records PROVE r.voice \in BOOLEAN /\ \A voice \in BOOLEAN :
        R!Confirmed(r, voice).first = r.first /\ R!Confirmed(r, voice).status = "confirmed"
  BY <1>3 DEF R!Confirmed, Records, RawRecords
<1>4. ASSUME NEW k \in Keys
      PROVE  /\ new(k) \in Records /\ new(k).first = recordsFile[k].first
             /\ k \in frames /\ recordsFile[k].first # 0 => new(k).status = "confirmed"
  BY <1>2, <1>3, RevisedTyped
<1> HIDE DEF new
<1>5. frames \subseteq Keys
  BY DEF RecordsTypeInv
<1> QED BY <1>1, <1>4, <1>5

LEMMA RestartTyped == RecordsTypeInv /\ R!Restart => RecordsTypeInv'
<1> SUFFICES ASSUME RecordsTypeInv, R!Restart PROVE RecordsTypeInv'
  OBVIOUS
<1>1. spent' \in [time : Times, events : Nat]
  BY SpentTyped DEF R!Restart
<1>2. records' \in [Keys -> Records] /\ recordsFile' \in [Keys -> Records]
  BY LoadedIs DEF R!Restart
<1>3. /\ watermark' \in [Keys -> Times]
      /\ config' \in SettingsKnown /\ configFile' \in SettingsKnown
      /\ saving' \in [by : {"none", LoopUploader, Clearer}, data : [Keys -> Records]]
      /\ uploads' \in [Uploaders -> Uploads]
      /\ clearing' \in [pc : {"idle", "lock", "write"}, at : Times]
  BY Defaults DEF R!Restart, RecordsTypeInv
<1>4. ghost' \in [owed : SUBSET Keys, cleared : Times, consent : BOOLEAN]
  BY DEF R!Restart, RecordsTypeInv
<1> QED BY <1>1, <1>2, <1>3, <1>4 DEF R!Restart, RecordsTypeInv

\* The steps of MapperRecords, by what they are about.
RecordStep(k) ==
    \/ \E active, classified \in BOOLEAN : R!Observe(k, active, classified)
    \/ R!SetIdentificationEvidence(k) \/ R!SetSignalIntelligence(k) \/ R!UpdateDecoderMessages(k)
    \/ R!SetDecoderEvidence(k)
    \/ \E voice \in BOOLEAN : R!SetDecodedMessages(k, voice)

UploadStep(u) ==
    \/ \E k \in Keys : R!UploadFrequency(u, k)
    \/ R!UploadNow(u) \/ R!ReadConfig(u) \/ R!TakeRows(u) \/ R!Post(u) \/ R!PostFails(u)
    \/ R!FinishUpload(u)

FileStep ==
    \/ R!Tick \/ R!LoopSnapshot \/ R!LoopWrite
    \/ R!ClearRecords \/ R!ClearSnapshot \/ R!ClearWrite
    \/ \E c \in MapperConfigs : R!Update(c)

LEMMA Steps ==
    R!Next => \/ \E k \in Keys : RecordStep(k)
              \/ \E u \in Uploaders : UploadStep(u)
              \/ FileStep
              \/ R!Restart
BY DEF R!Next, RecordStep, UploadStep, FileStep

LEMMA TypesKept == RecordsTypeInv /\ Dated /\ [R!Next]_recordsvars => RecordsTypeInv'
<1> SUFFICES ASSUME RecordsTypeInv, Dated, [R!Next]_recordsvars PROVE RecordsTypeInv'
  OBVIOUS
<1>1. CASE \E k \in Keys : RecordStep(k)
  BY <1>1, RecordStepsTyped DEF RecordStep
<1>2. CASE \E u \in Uploaders : UploadStep(u)
  BY <1>2, UploadStepsTyped DEF UploadStep
<1>3. CASE FileStep
  <2>1. CASE R!Tick \/ R!LoopSnapshot \/ R!LoopWrite
    BY <2>1, FileStepsTyped
  <2>2. CASE R!ClearRecords \/ R!ClearSnapshot \/ R!ClearWrite
    BY <2>2, FileStepsTyped
  <2>3. ASSUME NEW c \in MapperConfigs, R!Update(c) PROVE RecordsTypeInv'
    BY <2>3, FileStepsTyped
  <2> QED BY <1>3, <2>1, <2>2, <2>3 DEF FileStep
<1>4. CASE R!Restart
  BY <1>4, RestartTyped
<1>5. CASE UNCHANGED recordsvars
  BY <1>5 DEF recordsvars, RecordsTypeInv
<1> QED BY <1>1, <1>2, <1>3, <1>4, <1>5, Steps

-----------------------------------------------------------------------------
(* What the steps of one frequency and of one upload leave alone. *)

LEMMA RevisedKeeps ==
    ASSUME NEW r \in Records
    PROVE  /\ [r EXCEPT !.verified = "reference"].first = r.first
           /\ [r EXCEPT !.verified = "reference"].status = r.status
           /\ [r EXCEPT !.status = "candidate"].first = r.first
           /\ [r EXCEPT !.classified = TRUE].first = r.first
           /\ [r EXCEPT !.classified = TRUE].status = r.status
           /\ \A voice \in BOOLEAN : /\ R!Confirmed(r, voice).first = r.first
                                    /\ R!Confirmed(r, voice).status = "confirmed"
BY DEF Records, RawRecords, R!Confirmed

LEMMA RecordStepIs ==
    ASSUME RecordsTypeInv, NEW k \in Keys, RecordStep(k)
    PROVE  /\ UNCHANGED <<watermark, config, configFile, recordsFile, saving, uploads, sheet,
                          clearing>>
           /\ \A j \in Keys \ {k} : records'[j] = records[j]
           /\ \/ records'[k].first = records[k].first
              \/ records'[k].first = spent.time + 1 /\ spent'.time = spent.time + 1
           /\ records[k].status = "confirmed" => records'[k].status = "confirmed"
           /\ spent'.time \in {spent.time, spent.time + 1}
           /\ ghost'.cleared = ghost.cleared /\ ghost'.consent = ghost.consent
           /\ ghost'.owed # ghost.owed =>
                /\ ghost'.owed = ghost.owed \cup {k}
                /\ records'[k].first # 0 /\ records'[k].status = "confirmed"
<1>1. /\ records \in [Keys -> Records] /\ records[k] \in Records
      /\ ghost \in [owed : SUBSET Keys, cleared : Times, consent : BOOLEAN]
      /\ spent.time \in Times
  BY DEF RecordsTypeInv
<1>2. ASSUME NEW active \in BOOLEAN, NEW classified \in BOOLEAN, R!Observe(k, active, classified)
      PROVE  /\ \A j \in Keys \ {k} : records'[j] = records[j]
             /\ \/ records'[k].first = records[k].first
                \/ records'[k].first = spent.time + 1 /\ spent'.time = spent.time + 1
             /\ records'[k].status = records[k].status
             /\ spent'.time = spent.time + 1
  <2> DEFINE new == [records[k] EXCEPT !.first = IF @ = 0 THEN spent'.time ELSE @,
                                       !.seen = IF active THEN spent'.time ELSE @,
                                       !.classified = @ \/ classified]
  <2>1. records' = [records EXCEPT ![k] = new] /\ R!Spend("time", MaxTime)
    BY <1>2 DEF R!Observe
  <2>2. spent'.time = spent.time + 1
    BY <2>1, SpentTyped
  <2>3. /\ new.first = IF records[k].first = 0 THEN spent'.time ELSE records[k].first
        /\ new.status = records[k].status
    BY <1>1 DEF Records, RawRecords
  <2> HIDE DEF new
  <2> QED BY <1>1, <2>1, <2>2, <2>3
<1>3. ASSUME NEW r \in Records, R!Revise(k, r)
      PROVE  /\ records' = [records EXCEPT ![k] = r] /\ records'[k] = r /\ records[k].first # 0
             /\ \A j \in Keys \ {k} : records'[j] = records[j]
             /\ spent'.time = spent.time
             /\ UNCHANGED <<watermark, config, configFile, recordsFile, saving, uploads, sheet,
                            clearing>>
  BY <1>1, <1>3, SpentTyped DEF R!Revise, R!Present
<1>4. CASE R!SetIdentificationEvidence(k)
  <2> DEFINE new == [records[k] EXCEPT !.verified = "reference"]
  <2>1. R!Revise(k, new) /\ UNCHANGED ghost
    BY <1>4 DEF R!SetIdentificationEvidence
  <2>2. new \in Records /\ new.first = records[k].first /\ new.status = records[k].status
    BY <1>1, <2>1, RevisedTyped, RevisedKeeps DEF R!Revise, R!Present
  <2> HIDE DEF new
  <2> QED BY <1>3, <2>1, <2>2
<1>5. CASE R!SetSignalIntelligence(k)
  <2> DEFINE new == [records[k] EXCEPT !.classified = TRUE]
  <2>1. R!Revise(k, new) /\ UNCHANGED ghost
    BY <1>5 DEF R!SetSignalIntelligence
  <2>2. new \in Records /\ new.first = records[k].first /\ new.status = records[k].status
    BY <1>1, <2>1, RevisedTyped, RevisedKeeps DEF R!Revise, R!Present
  <2> HIDE DEF new
  <2> QED BY <1>3, <2>1, <2>2
<1>6. CASE R!SetDecoderEvidence(k)
  <2>1. [records[k] EXCEPT !.status = "candidate"] \in Records
    BY <1>1, <1>6, RevisedTyped DEF R!SetDecoderEvidence, R!Revise, R!Present
  <2> QED BY <1>1, <1>3, <1>6, <2>1, RevisedKeeps DEF R!SetDecoderEvidence
<1>7. CASE \E voice \in BOOLEAN : R!SetDecodedMessages(k, voice)
  <2>1. PICK voice \in BOOLEAN : R!SetDecodedMessages(k, voice)
    BY <1>7
  <2>2. R!Revise(k, R!Confirmed(records[k], voice)) /\ ghost' = [ghost EXCEPT !.owed = @ \cup {k}]
    BY <2>1 DEF R!SetDecodedMessages
  <2>3. R!Confirmed(records[k], voice) \in Records
    BY <1>1, <2>2, RevisedTyped DEF R!Revise, R!Present
  <2>4. /\ ghost'.owed = ghost.owed \cup {k}
        /\ ghost'.cleared = ghost.cleared /\ ghost'.consent = ghost.consent
    BY <1>1, <2>2
  <2> QED BY <1>1, <1>3, <2>2, <2>3, <2>4, RevisedKeeps
<1>8. CASE R!UpdateDecoderMessages(k)
  BY <1>1, <1>8, SpentTyped DEF R!UpdateDecoderMessages
<1>9. CASE \E active, classified \in BOOLEAN : R!Observe(k, active, classified)
  BY <1>2, <1>9 DEF R!Observe
<1> QED BY <1>4, <1>5, <1>6, <1>7, <1>8, <1>9 DEF RecordStep

LEMMA UploadStepIs ==
    ASSUME RecordsTypeInv, NEW u \in Uploaders, UploadStep(u)
    PROVE  /\ UNCHANGED <<records, config, configFile, recordsFile, saving, frames, clearing,
                          ghost>>
           /\ spent'.time = spent.time
           /\ \A v \in Uploaders \ {u} : uploads'[v] = uploads[v]
<1>1. \A up : R!Advance(u, up) => \A v \in Uploaders \ {u} : uploads'[v] = uploads[v]
  BY DEF R!Advance, RecordsTypeInv
<1>2. CASE \E k \in Keys : R!UploadFrequency(u, k)
  BY <1>1, <1>2, SpentTyped DEF R!UploadFrequency, R!UploadFrequencyUnchecked
<1>3. CASE R!UploadNow(u)
  BY <1>1, <1>3, SpentTyped DEF R!UploadNow
<1>4. CASE R!ReadConfig(u)
  BY <1>1, <1>4 DEF R!ReadConfig
<1>5. CASE R!TakeRows(u)
  BY <1>1, <1>5 DEF R!TakeRows
<1>6. CASE R!Post(u)
  BY <1>1, <1>6 DEF R!Post
<1>7. CASE R!PostFails(u)
  BY <1>1, <1>7, SpentTyped DEF R!PostFails
<1>8. CASE R!FinishUpload(u)
  BY <1>1, <1>8 DEF R!FinishUpload
<1> QED BY <1>2, <1>3, <1>4, <1>5, <1>6, <1>7, <1>8 DEF UploadStep

-----------------------------------------------------------------------------
(* The conjuncts of the invariant. *)

LEMMA RecordsInitInv == R!Init => RecordsInv
<1> SUFFICES ASSUME R!Init PROVE RecordsInv
  OBVIOUS
<1>1. config \in MapperConfigs /\ config.verifiedOnly /\ configFile = config
  BY DEF R!Init
<1>2. RecordsTypeInv
  BY <1>1, Defaults DEF R!Init, RecordsTypeInv, SettingsKnown, Times
<1>3. Dated /\ R!WatermarkDelivered /\ R!ConsentedRows /\ FramesConfirmed /\ ClearsHold
  BY Defaults, Assumed
     DEF R!Init, Dated, DatedBy, R!WatermarkDelivered, R!ConsentedRows, FramesConfirmed,
         ClearsHold, After, R!Absent, R!Unlocked, R!NoClear, R!MapperRecordsAssumption, Times
<1>4. ConfirmedArrived /\ ConsentGiven
  BY <1>1 DEF R!Init, ConfirmedArrived, ConsentGiven, R!NoUpload, R!Torn
<1> QED BY <1>2, <1>3, <1>4 DEF RecordsInv

\* What is dated before a time is dated before every later one.
LEMMA LaterDated ==
    ASSUME RecordsTypeInv, RecordsTypeInv', NEW data \in [Keys -> Records], DatedBy(data, spent.time),
           spent'.time \in {spent.time, spent.time + 1}
    PROVE  DatedBy(data, spent'.time)
BY Defaults DEF DatedBy, RecordsTypeInv, Times, Records, RawRecords

LEMMA DatedKept == RecordsTypeInv /\ RecordsTypeInv' /\ Dated /\ ClearsHold /\ [R!Next]_recordsvars => Dated'
<1> SUFFICES ASSUME RecordsTypeInv, RecordsTypeInv', Dated, ClearsHold, [R!Next]_recordsvars PROVE Dated'
  OBVIOUS
<1>1. /\ records \in [Keys -> Records] /\ recordsFile \in [Keys -> Records]
      /\ saving.data \in [Keys -> Records] /\ records' \in [Keys -> Records]
      /\ spent.time \in Nat /\ spent'.time \in Nat /\ clearing.at \in Nat
      /\ ghost.cleared \in Nat
  BY Defaults DEF RecordsTypeInv, Times
<1>2. CASE \E k \in Keys : RecordStep(k)
  <2>1. PICK k \in Keys : RecordStep(k)
    BY <1>2
  <2>2. /\ UNCHANGED <<recordsFile, saving, clearing>>
        /\ \A j \in Keys \ {k} : records'[j] = records[j]
        /\ \/ records'[k].first = records[k].first
           \/ records'[k].first = spent.time + 1 /\ spent'.time = spent.time + 1
        /\ spent'.time \in {spent.time, spent.time + 1}
        /\ ghost'.cleared = ghost.cleared
    BY <2>1, RecordStepIs
  <2>3. /\ DatedBy(records, spent'.time) /\ DatedBy(recordsFile, spent'.time)
        /\ DatedBy(saving.data, spent'.time)
    BY <1>1, <2>2, LaterDated DEF Dated
  <2>4. DatedBy(records', spent'.time)
    BY <1>1, <2>2, <2>3 DEF DatedBy
  <2> QED BY <1>1, <2>2, <2>3, <2>4 DEF Dated
<1>3. CASE \E u \in Uploaders : UploadStep(u)
  BY <1>3, UploadStepIs DEF Dated
<1>4. CASE FileStep
  <2>1. spent'.time = spent.time
    BY <1>4, SpentTyped
       DEF FileStep, R!Tick, R!LoopSnapshot, R!LoopWrite, R!ClearRecords, R!ClearSnapshot,
           R!ClearWrite, R!Update
  <2>2. DatedBy(R!Unlocked.data, spent.time) /\ DatedBy([k \in Keys |-> R!Absent], spent.time)
    BY <1>1 DEF DatedBy, R!Unlocked, R!Absent
  <2>3. DatedBy(records', spent.time)
    BY <1>4, <2>2
       DEF Dated, FileStep, R!Tick, R!LoopSnapshot, R!LoopWrite, R!ClearRecords,
           R!ClearSnapshot, R!ClearWrite, R!Update
  <2>4. DatedBy(recordsFile', spent.time) /\ DatedBy(saving'.data, spent.time)
    BY <1>4, <2>2
       DEF Dated, FileStep, R!Tick, R!LoopSnapshot, R!LoopWrite, R!ClearRecords,
           R!ClearSnapshot, R!ClearWrite, R!Update, R!TakeSnapshot, R!Save, R!SaveFails
  <2>5. clearing'.at <= spent.time
    BY <1>1, <1>4
       DEF Dated, FileStep, R!Tick, R!LoopSnapshot, R!LoopWrite, R!ClearRecords,
           R!ClearSnapshot, R!ClearWrite, R!Update, R!NoClear, RecordsTypeInv
  <2>6. ghost'.cleared <= spent.time
    BY <1>4
       DEF Dated, FileStep, R!Tick, R!LoopSnapshot, R!LoopWrite, R!ClearRecords,
           R!ClearSnapshot, R!ClearWrite, R!Update, RecordsTypeInv
  <2> QED BY <2>1, <2>3, <2>4, <2>5, <2>6 DEF Dated
<1>5. CASE R!Restart
  <2>1. spent'.time = spent.time
    BY <1>5, SpentTyped DEF R!Restart
  <2>2. /\ \A k \in Keys : records'[k].first = recordsFile[k].first
        /\ recordsFile' = records'
    BY <1>5, LoadedIs DEF R!Restart
  <2>3. DatedBy(records', spent.time)
    BY <2>2 DEF Dated, DatedBy
  <2>4. saving' = R!Unlocked /\ clearing' = R!NoClear /\ ghost'.cleared = ghost.cleared
    BY <1>5 DEF R!Restart, RecordsTypeInv
  <2>5. DatedBy(R!Unlocked.data, spent.time) /\ R!NoClear.at <= spent.time
    BY <1>1 DEF DatedBy, R!Unlocked, R!Absent, R!NoClear
  <2> QED BY <2>1, <2>2, <2>3, <2>4, <2>5 DEF Dated
<1>6. CASE UNCHANGED recordsvars
  BY <1>6 DEF recordsvars, Dated
<1> QED BY <1>2, <1>3, <1>4, <1>5, <1>6, Steps

(* The watermark covers what the sheet holds. *)
LEMMA WatermarkKept ==
    RecordsTypeInv /\ R!WatermarkDelivered /\ ConfirmedArrived /\ [R!Next]_recordsvars
      => R!WatermarkDelivered' /\ ConfirmedArrived'
<1> SUFFICES ASSUME RecordsTypeInv, R!WatermarkDelivered, ConfirmedArrived, [R!Next]_recordsvars
             PROVE  R!WatermarkDelivered' /\ ConfirmedArrived'
  OBVIOUS
<1>1. /\ watermark \in [Keys -> Nat] /\ uploads \in [Uploaders -> Uploads]
      /\ \A k \in Keys : sheet[k].seen \in Nat
      /\ \A u \in Uploaders : \A k \in Keys : uploads[u].rows[k].seen \in Nat
  BY Defaults DEF RecordsTypeInv, Times, Uploads, Rows
<1>2. ASSUME UNCHANGED <<watermark, uploads, sheet>>
      PROVE  R!WatermarkDelivered' /\ ConfirmedArrived'
  BY <1>2 DEF R!WatermarkDelivered, ConfirmedArrived
\* An upload that is not confirmed with its next step.
<1>3. ASSUME NEW u \in Uploaders, NEW up, R!Advance(u, up), up.pc # "finish" \/ up.failed,
             \A k \in Keys : sheet'[k].seen >= sheet[k].seen /\ sheet'[k].seen \in Nat,
             \A k \in Keys : watermark'[k] <= sheet[k].seen /\ watermark'[k] \in Nat
      PROVE  R!WatermarkDelivered' /\ ConfirmedArrived'
  <2>1. R!WatermarkDelivered'
    BY <1>1, <1>3 DEF R!WatermarkDelivered
  <2>2. \A v \in Uploaders : uploads'[v] = IF v = u THEN up ELSE uploads[v]
    BY <1>1, <1>3 DEF R!Advance
  <2>3. ASSUME NEW v \in Uploaders, uploads'[v].pc = "finish", ~uploads'[v].failed,
               NEW k \in Keys, uploads'[v].rows[k] # R!NoRow
        PROVE  uploads'[v].rows[k].seen <= sheet'[k].seen
    <3>1. v # u /\ uploads'[v] = uploads[v]
      BY <1>3, <2>2, <2>3
    <3>2. uploads[v].rows[k].seen <= sheet[k].seen
      BY <2>3, <3>1 DEF ConfirmedArrived
    <3> QED BY <1>1, <1>3, <3>1, <3>2
  <2>4. ConfirmedArrived'
    BY <2>3 DEF ConfirmedArrived
  <2> QED BY <2>1, <2>4
<1>4. ASSUME NEW u \in Uploaders, UNCHANGED <<watermark, sheet>>
      PROVE  /\ \A k \in Keys : sheet'[k].seen >= sheet[k].seen /\ sheet'[k].seen \in Nat
             /\ \A k \in Keys : watermark'[k] <= sheet[k].seen /\ watermark'[k] \in Nat
  BY <1>1, <1>4 DEF R!WatermarkDelivered
\* Rows that arrive are in the sheet, and what was there stays.
<1>5. ASSUME NEW u \in Uploaders, R!Arrive(uploads[u].rows)
      PROVE  /\ \A k \in Keys : sheet'[k].seen >= sheet[k].seen /\ sheet'[k].seen \in Nat
             /\ \A k \in Keys : uploads[u].rows[k] # R!NoRow =>
                  uploads[u].rows[k].seen <= sheet'[k].seen
  <2>1. ASSUME NEW k \in Keys
        PROVE  sheet'[k].seen = IF uploads[u].rows[k] = R!NoRow THEN sheet[k].seen
                                ELSE R!Later(sheet[k].seen, uploads[u].rows[k].seen)
    BY <1>5 DEF R!Arrive
  <2>2. \A a, b \in Nat : R!Later(a, b) \in Nat /\ R!Later(a, b) >= a /\ R!Later(a, b) >= b
    BY DEF R!Later
  <2>3. ASSUME NEW k \in Keys
        PROVE  /\ sheet'[k].seen >= sheet[k].seen /\ sheet'[k].seen \in Nat
               /\ uploads[u].rows[k] # R!NoRow => uploads[u].rows[k].seen <= sheet'[k].seen
    <3>1. sheet[k].seen \in Nat /\ uploads[u].rows[k].seen \in Nat
      BY <1>1
    <3>2. CASE uploads[u].rows[k] = R!NoRow
      BY <2>1, <3>1, <3>2
    <3>3. CASE uploads[u].rows[k] # R!NoRow
      <4>1. sheet'[k].seen = R!Later(sheet[k].seen, uploads[u].rows[k].seen)
        BY <2>1, <3>3
      <4> QED BY <2>2, <3>1, <4>1
    <3> QED BY <3>2, <3>3
  <2> QED BY <2>3
<1>6. \A pc \in {"config", "save"} : [R!NoUpload EXCEPT !.pc = pc].pc # "finish"
  BY DEF R!NoUpload
<1>7. \A u : R!Done(u).pc # "finish"
  BY DEF R!Done, R!NoUpload
<1>8. CASE \E k \in Keys : RecordStep(k)
  BY <1>2, <1>8, RecordStepIs
<1>9. CASE \E u \in Uploaders : UploadStep(u)
  <2>1. PICK u \in Uploaders : UploadStep(u)
    BY <1>9
  <2>2. ASSUME NEW k \in Keys, R!UploadFrequency(u, k)
        PROVE  R!WatermarkDelivered' /\ ConfirmedArrived'
    <3> DEFINE up == [R!NoUpload EXCEPT !.pc = "post", !.rows[k] = R!Row(records[k])]
    <3>1. up.pc # "finish"
      BY DEF R!NoUpload
    <3>2. R!Advance(u, up) /\ UNCHANGED <<watermark, sheet>>
      BY <2>2 DEF R!UploadFrequency, R!UploadFrequencyUnchecked
    <3> HIDE DEF up
    <3> QED BY <1>3, <1>4, <3>1, <3>2
  <2>3. CASE R!UploadNow(u)
    BY <1>3, <1>4, <1>6, <2>3 DEF R!UploadNow
  <2>4. CASE R!ReadConfig(u)
    <3>1. [R!NoUpload EXCEPT !.pc = "rows", !.config = config].pc # "finish"
      BY DEF R!NoUpload
    <3> QED BY <1>3, <1>4, <1>7, <2>4, <3>1 DEF R!ReadConfig
  <2>5. CASE R!TakeRows(u)
    <3> DEFINE rows == R!NewRows(uploads[u].config)
    <3>1. [R!NoUpload EXCEPT !.pc = "post", !.rows = rows].pc # "finish"
      BY DEF R!NoUpload
    <3> QED BY <1>3, <1>4, <1>7, <2>5, <3>1 DEF R!TakeRows
  <2>6. CASE R!Post(u)
    <3>1. /\ uploads' = [uploads EXCEPT ![u] = [uploads[u] EXCEPT !.pc = "finish"]]
          /\ R!Arrive(uploads[u].rows) /\ UNCHANGED watermark
      BY <2>6 DEF R!Post, R!Advance
    <3>2. R!WatermarkDelivered'
      BY <1>1, <1>5, <3>1 DEF R!WatermarkDelivered
    <3>3. [uploads[u] EXCEPT !.pc = "finish"].rows = uploads[u].rows
      BY <1>1 DEF Uploads
    <3>4. \A v \in Uploaders : uploads'[v].rows = uploads[v].rows
      BY <1>1, <3>1, <3>3
    <3>5. ASSUME NEW v \in Uploaders, uploads'[v].pc = "finish", ~uploads'[v].failed,
                 NEW k \in Keys, uploads'[v].rows[k] # R!NoRow
          PROVE  uploads'[v].rows[k].seen <= sheet'[k].seen
      <4>1. CASE v = u
        BY <1>5, <3>1, <3>4, <3>5, <4>1
      <4>2. CASE v # u
        <5>1. uploads'[v] = uploads[v]
          BY <1>1, <3>1, <4>2
        <5>2. uploads[v].rows[k].seen <= sheet[k].seen
          BY <3>5, <5>1 DEF ConfirmedArrived
        <5> QED BY <1>1, <1>5, <3>1, <5>1, <5>2
      <4> QED BY <4>1, <4>2
    <3>6. ConfirmedArrived'
      BY <3>5 DEF ConfirmedArrived
    <3> QED BY <3>2, <3>6
  <2>7. CASE R!PostFails(u)
    <3> DEFINE up == [uploads[u] EXCEPT !.pc = "finish", !.failed = TRUE]
    <3>1. R!Advance(u, up) /\ (R!Arrive(uploads[u].rows) \/ UNCHANGED sheet) /\ UNCHANGED watermark
      BY <2>7 DEF R!PostFails
    <3>2. up.failed
      BY <1>1 DEF Uploads
    <3>3. \A k \in Keys : sheet'[k].seen >= sheet[k].seen /\ sheet'[k].seen \in Nat
      BY <1>1, <1>5, <3>1
    <3>4. \A k \in Keys : watermark'[k] <= sheet[k].seen /\ watermark'[k] \in Nat
      BY <1>1, <3>1 DEF R!WatermarkDelivered
    <3> HIDE DEF up
    <3> QED BY <1>3, <3>1, <3>2, <3>3, <3>4
  <2>8. CASE R!FinishUpload(u)
    <3>1. /\ uploads[u].pc = "finish" /\ R!Advance(u, R!Done(u)) /\ UNCHANGED sheet
          /\ IF uploads[u].failed THEN UNCHANGED watermark ELSE R!Mark(uploads[u].rows)
      BY <2>8 DEF R!FinishUpload
    <3>2. ASSUME NEW k \in Keys PROVE watermark'[k] <= sheet[k].seen /\ watermark'[k] \in Nat
      <4>1. CASE uploads[u].failed
        BY <1>1, <3>1, <4>1 DEF R!WatermarkDelivered
      <4>2. CASE ~uploads[u].failed
        <5>1. watermark'[k] = IF uploads[u].rows[k] = R!NoRow THEN watermark[k]
                              ELSE uploads[u].rows[k].seen
          BY <3>1, <4>2 DEF R!Mark
        <5>2. uploads[u].rows[k] # R!NoRow => uploads[u].rows[k].seen <= sheet[k].seen
          BY <3>1, <4>2 DEF ConfirmedArrived
        <5> QED BY <1>1, <5>1, <5>2 DEF R!WatermarkDelivered
      <4> QED BY <4>1, <4>2
    <3>3. \A k \in Keys : sheet'[k].seen >= sheet[k].seen /\ sheet'[k].seen \in Nat
      BY <1>1, <3>1
    <3> QED BY <1>3, <1>7, <3>1, <3>2, <3>3
  <2> QED BY <2>1, <2>2, <2>3, <2>4, <2>5, <2>6, <2>7, <2>8 DEF UploadStep
<1>10. CASE FileStep
  <2>1. LoopUploader \in Uploaders
    BY Assumed DEF R!MapperRecordsAssumption
  <2>2. CASE R!Tick
    BY <1>3, <1>4, <1>6, <2>1, <2>2 DEF R!Tick
  <2>3. CASE R!LoopWrite
    <3>1. R!NoUpload.pc # "finish"
      BY DEF R!NoUpload
    <3> QED BY <1>3, <1>4, <2>1, <2>3, <3>1 DEF R!LoopWrite, R!Advance
  <2>4. CASE R!ClearRecords
    <3>1. R!WatermarkDelivered'
      BY <1>1, <2>4 DEF R!ClearRecords, R!WatermarkDelivered
    <3>2. ConfirmedArrived'
      BY <2>4 DEF R!ClearRecords, ConfirmedArrived
    <3> QED BY <3>1, <3>2
  <2>5. CASE \/ R!LoopSnapshot \/ R!ClearSnapshot \/ R!ClearWrite
             \/ \E c \in MapperConfigs : R!Update(c)
    BY <1>2, <2>5 DEF R!LoopSnapshot, R!ClearSnapshot, R!ClearWrite, R!Update
  <2> QED BY <1>10, <2>2, <2>3, <2>4, <2>5 DEF FileStep
<1>11. CASE R!Restart
  <2>1. R!WatermarkDelivered'
    BY <1>1, <1>11 DEF R!Restart, R!WatermarkDelivered
  <2>2. ConfirmedArrived'
    BY <1>11 DEF R!Restart, ConfirmedArrived, R!NoUpload
  <2> QED BY <2>1, <2>2
<1>12. CASE UNCHANGED recordsvars
  BY <1>2, <1>12 DEF recordsvars
<1> QED BY <1>8, <1>9, <1>10, <1>11, <1>12, Steps

(* Rows nobody identified go out with consent only. *)
LEMMA ConsentKept ==
    RecordsTypeInv /\ R!ConsentedRows /\ ConsentGiven /\ [R!Next]_recordsvars
      => R!ConsentedRows' /\ ConsentGiven'
<1> SUFFICES ASSUME RecordsTypeInv, R!ConsentedRows, ConsentGiven, [R!Next]_recordsvars
             PROVE  R!ConsentedRows' /\ ConsentGiven'
  OBVIOUS
<1>1. /\ uploads \in [Uploaders -> Uploads]
      /\ \A k \in Keys : records[k] \in Records
      /\ ghost \in [owed : SUBSET Keys, cleared : Times, consent : BOOLEAN]
  BY DEF RecordsTypeInv
<1>2. ASSUME UNCHANGED <<config, configFile, uploads, sheet>>, ghost'.consent = ghost.consent
      PROVE  R!ConsentedRows' /\ ConsentGiven'
  BY <1>2 DEF R!ConsentedRows, ConsentGiven
<1> DEFINE Sound(up) ==
             /\ ~up.config.verifiedOnly => ghost.consent
             /\ \A k \in Keys : up.rows[k] # R!NoRow /\ ~up.rows[k].identified => ghost.consent
<1>3. \A v \in Uploaders : Sound(uploads[v])
  BY DEF ConsentGiven
\* One upload goes on with settings and rows that are sound.
<1>4. ASSUME NEW u \in Uploaders, NEW up, R!Advance(u, up), Sound(up),
             UNCHANGED <<config, configFile, ghost>>
      PROVE  ConsentGiven'
  <2>1. \A v \in Uploaders : uploads'[v] = IF v = u THEN up ELSE uploads[v]
    BY <1>1, <1>4 DEF R!Advance
  <2>2. \A v \in Uploaders : Sound(uploads'[v])
    BY <1>3, <1>4, <2>1
  <2>3. ~config'.verifiedOnly \/ ~configFile'.verifiedOnly => ghost'.consent
    BY <1>4 DEF ConsentGiven
  <2> QED BY <1>4, <2>2, <2>3 DEF ConsentGiven
<1>5. UNCHANGED <<sheet, ghost>> => R!ConsentedRows'
  BY DEF R!ConsentedRows
<1>6. Sound(R!NoUpload) /\ \A pc : Sound([R!NoUpload EXCEPT !.pc = pc])
  BY DEF R!NoUpload, R!Torn
<1>7. \A u : Sound(R!Done(u))
  BY <1>6 DEF R!Done
<1>8. ASSUME NEW u \in Uploaders, R!Arrive(uploads[u].rows), UNCHANGED ghost
      PROVE  R!ConsentedRows'
  <2>1. ASSUME NEW k \in Keys, sheet'[k].unidentified PROVE ghost.consent
    <3>1. CASE uploads[u].rows[k] = R!NoRow
      BY <1>8, <2>1, <3>1 DEF R!Arrive, R!ConsentedRows
    <3>2. CASE uploads[u].rows[k] # R!NoRow
      <4>1. sheet[k].unidentified \/ ~uploads[u].rows[k].identified
        BY <1>8, <2>1, <3>2 DEF R!Arrive
      <4> QED BY <1>3, <3>2, <4>1 DEF R!ConsentedRows
    <3> QED BY <3>1, <3>2
  <2> QED BY <1>8, <2>1 DEF R!ConsentedRows
<1>9. ASSUME NEW r \in Records PROVE R!Row(r).identified = R!FullyIdentified(r)
  BY DEF R!Row
<1>10. ASSUME NEW u \in Uploaders, NEW pc, NEW failed
       PROVE  /\ Sound([uploads[u] EXCEPT !.pc = pc])
              /\ Sound([uploads[u] EXCEPT !.pc = pc, !.failed = failed])
  <2>1. /\ [uploads[u] EXCEPT !.pc = pc].rows = uploads[u].rows
        /\ [uploads[u] EXCEPT !.pc = pc].config = uploads[u].config
        /\ [uploads[u] EXCEPT !.pc = pc, !.failed = failed].rows = uploads[u].rows
        /\ [uploads[u] EXCEPT !.pc = pc, !.failed = failed].config = uploads[u].config
    BY <1>1 DEF Uploads
  <2> QED BY <1>3, <2>1
<1>11. CASE \E k \in Keys : RecordStep(k)
  BY <1>2, <1>11, RecordStepIs
<1>12. CASE \E u \in Uploaders : UploadStep(u)
  <2>1. PICK u \in Uploaders : UploadStep(u)
    BY <1>12
  <2>2. UNCHANGED <<config, configFile, ghost>>
    BY <2>1, UploadStepIs
  <2>3. ASSUME NEW k \in Keys, R!UploadFrequency(u, k) PROVE R!ConsentedRows' /\ ConsentGiven'
    <3> DEFINE up == [R!NoUpload EXCEPT !.pc = "post", !.rows[k] = R!Row(records[k])]
    <3>1. /\ R!Advance(u, up) /\ UNCHANGED sheet
          /\ config.verifiedOnly => R!FullyIdentified(records[k])
      BY <2>3 DEF R!UploadFrequency, R!UploadFrequencyUnchecked, R!Allowed
    <3>2. /\ up.config = R!Torn
          /\ \A j \in Keys : up.rows[j] = IF j = k THEN R!Row(records[k]) ELSE R!NoRow
      BY DEF R!NoUpload
    <3>3. ~R!FullyIdentified(records[k]) => ghost.consent
      BY <3>1 DEF ConsentGiven
    <3>4. Sound(up)
      BY <1>1, <1>9, <3>2, <3>3 DEF R!Torn
    <3> HIDE DEF up, Sound
    <3> QED BY <1>4, <1>5, <2>2, <3>1, <3>4
  <2>4. CASE R!UploadNow(u)
    BY <1>4, <1>5, <1>6, <2>2, <2>4 DEF R!UploadNow
  <2>5. CASE R!ReadConfig(u)
    <3> DEFINE up == [R!NoUpload EXCEPT !.pc = "rows", !.config = config]
    <3>1. R!Advance(u, IF config.hook THEN up ELSE R!Done(u)) /\ UNCHANGED sheet
      BY <2>5 DEF R!ReadConfig
    <3>2. Sound(up)
      BY DEF R!NoUpload, ConsentGiven
    <3> HIDE DEF up, Sound
    <3> QED BY <1>4, <1>5, <1>7, <2>2, <3>1, <3>2
  <2>6. CASE R!TakeRows(u)
    <3> DEFINE rows == R!NewRows(uploads[u].config)
               up == [R!NoUpload EXCEPT !.pc = "post", !.rows = rows]
    <3>1. R!Advance(u, IF rows = R!NoUpload.rows THEN R!Done(u) ELSE up) /\ UNCHANGED sheet
      BY <2>6 DEF R!TakeRows
    <3>2. ASSUME NEW k \in Keys, rows[k] # R!NoRow, ~rows[k].identified PROVE ghost.consent
      <4>1. rows[k] = R!Row(records[k]) /\ R!Allowed(uploads[u].config, records[k])
        BY <3>2 DEF R!NewRows
      <4>2. ~uploads[u].config.verifiedOnly
        BY <1>1, <1>9, <3>2, <4>1 DEF R!Allowed
      <4> QED BY <1>3, <4>2
    <3>3. up.config = R!Torn /\ up.rows = rows
      BY DEF R!NoUpload
    <3>4. Sound(up)
      BY <3>2, <3>3 DEF R!Torn
    <3> HIDE DEF up, Sound, rows
    <3> QED BY <1>4, <1>5, <1>7, <2>2, <3>1, <3>4
  <2>7. CASE R!Post(u)
    <3> DEFINE up == [uploads[u] EXCEPT !.pc = "finish"]
    <3>1. R!Advance(u, up) /\ R!Arrive(uploads[u].rows)
      BY <2>7 DEF R!Post
    <3>2. Sound(up)
      BY <1>10
    <3> HIDE DEF up, Sound
    <3> QED BY <1>4, <1>8, <2>2, <3>1, <3>2
  <2>8. CASE R!PostFails(u)
    <3> DEFINE up == [uploads[u] EXCEPT !.pc = "finish", !.failed = TRUE]
    <3>1. R!Advance(u, up) /\ (R!Arrive(uploads[u].rows) \/ UNCHANGED sheet)
      BY <2>8 DEF R!PostFails
    <3>2. Sound(up)
      BY <1>10
    <3> HIDE DEF up, Sound
    <3> QED BY <1>4, <1>5, <1>8, <2>2, <3>1, <3>2
  <2>9. CASE R!FinishUpload(u)
    BY <1>4, <1>5, <1>7, <2>2, <2>9 DEF R!FinishUpload
  <2> QED BY <2>1, <2>3, <2>4, <2>5, <2>6, <2>7, <2>8, <2>9 DEF UploadStep
<1>13. CASE FileStep
  <2>1. LoopUploader \in Uploaders
    BY Assumed DEF R!MapperRecordsAssumption
  <2>2. CASE R!Tick
    BY <1>4, <1>5, <1>6, <2>1, <2>2 DEF R!Tick
  <2>3. CASE R!LoopWrite
    BY <1>4, <1>5, <1>6, <2>1, <2>3 DEF R!LoopWrite, R!Advance
  <2>4. CASE R!ClearRecords
    <3>1. ghost'.consent = ghost.consent
      BY <1>1, <2>4 DEF R!ClearRecords
    <3> QED BY <1>2, <2>4, <3>1 DEF R!ClearRecords
  <2>5. CASE R!LoopSnapshot \/ R!ClearSnapshot
    BY <1>2, <2>5 DEF R!LoopSnapshot, R!ClearSnapshot
  <2>6. CASE R!ClearWrite
    <3>1. ghost'.consent = ghost.consent
      BY <1>1, <2>6 DEF R!ClearWrite
    <3> QED BY <1>2, <2>6, <3>1 DEF R!ClearWrite
  <2>7. ASSUME NEW c \in MapperConfigs, R!Update(c) PROVE R!ConsentedRows' /\ ConsentGiven'
    <3>1. /\ config' = c /\ configFile' \in {c, R!Torn} /\ UNCHANGED <<sheet, uploads>>
          /\ ghost'.consent = (ghost.consent \/ ~c.verifiedOnly)
      BY <1>1, <2>7 DEF R!Update
    <3>2. ~config'.verifiedOnly \/ ~configFile'.verifiedOnly => ghost'.consent
      <4>1. R!Torn.verifiedOnly
        BY DEF R!Torn
      <4>2. ASSUME ~config'.verifiedOnly \/ ~configFile'.verifiedOnly
            PROVE  ~c.verifiedOnly
        <5>1. CASE configFile' = c
          BY <3>1, <4>2, <5>1
        <5>2. CASE configFile' = R!Torn
          BY <3>1, <4>1, <4>2, <5>2
        <5> QED BY <3>1, <5>1, <5>2
      <4>3. ~c.verifiedOnly => ghost'.consent
        BY <3>1, Zenon
      <4> QED BY <4>2, <4>3
    <3>3. ghost.consent => ghost'.consent
      BY <3>1
    <3> QED BY <3>1, <3>2, <3>3 DEF R!ConsentedRows, ConsentGiven
  <2> QED BY <1>13, <2>2, <2>3, <2>4, <2>5, <2>6, <2>7 DEF FileStep
<1>14. CASE R!Restart
  <2>1. /\ config' = configFile /\ UNCHANGED <<configFile, sheet>>
        /\ uploads' = [u \in Uploaders |-> R!NoUpload] /\ ghost'.consent = ghost.consent
    BY <1>1, <1>14 DEF R!Restart
  <2>2. R!ConsentedRows'
    BY <2>1 DEF R!ConsentedRows
  <2>3. ConsentGiven'
    BY <1>6, <2>1 DEF ConsentGiven
  <2> QED BY <2>2, <2>3
<1>15. CASE UNCHANGED recordsvars
  BY <1>2, <1>15 DEF recordsvars
<1> QED BY <1>11, <1>12, <1>13, <1>14, <1>15, Steps

(* Decoded frames keep the frequency they confirmed. *)
LEMMA FramesStay ==
    RecordsTypeInv /\ FramesConfirmed /\ [R!Next]_recordsvars => FramesConfirmed'
<1> SUFFICES ASSUME RecordsTypeInv, FramesConfirmed, [R!Next]_recordsvars PROVE FramesConfirmed'
  OBVIOUS
<1>1. ghost \in [owed : SUBSET Keys, cleared : Times, consent : BOOLEAN] /\ frames \subseteq Keys
  BY DEF RecordsTypeInv
<1>2. ASSUME UNCHANGED records, ghost'.owed = ghost.owed PROVE FramesConfirmed'
  BY <1>2 DEF FramesConfirmed, R!Present
<1>3. CASE \E k \in Keys : RecordStep(k)
  <2>1. PICK k \in Keys : RecordStep(k)
    BY <1>3
  <2>2. ASSUME NEW j \in ghost'.owed
        PROVE  records'[j].first # 0 /\ records'[j].status = "confirmed"
    <3>1. CASE j = k
      <4>1. CASE ghost'.owed # ghost.owed
        BY <2>1, <3>1, <4>1, RecordStepIs
      <4>2. CASE ghost'.owed = ghost.owed
        <5>1. records[k].first # 0 /\ records[k].status = "confirmed"
          BY <2>2, <3>1, <4>2 DEF FramesConfirmed, R!Present
        <5>2. spent.time + 1 # 0
          BY Defaults DEF RecordsTypeInv, Times
        <5> QED BY <2>1, <3>1, <5>1, <5>2, RecordStepIs
      <4> QED BY <4>1, <4>2
    <3>2. CASE j # k
      <4>1. j \in ghost.owed
        BY <2>1, <2>2, <3>2, RecordStepIs
      <4>2. j \in Keys /\ records[j].first # 0 /\ records[j].status = "confirmed"
        BY <1>1, <4>1 DEF FramesConfirmed, R!Present
      <4> QED BY <2>1, <3>2, <4>2, RecordStepIs
    <3> QED BY <3>1, <3>2
  <2> QED BY <2>2 DEF FramesConfirmed, R!Present
<1>4. CASE \E u \in Uploaders : UploadStep(u)
  BY <1>2, <1>4, UploadStepIs
<1>5. CASE FileStep
  <2>1. CASE R!ClearRecords
    <3>1. ghost'.owed = {}
      BY <1>1, <2>1 DEF R!ClearRecords
    <3> QED BY <3>1 DEF FramesConfirmed
  <2>2. CASE R!ClearWrite
    <3>1. ghost'.owed = ghost.owed
      BY <1>1, <2>2 DEF R!ClearWrite
    <3> QED BY <1>2, <2>2, <3>1 DEF R!ClearWrite
  <2>3. ASSUME NEW c \in MapperConfigs, R!Update(c) PROVE FramesConfirmed'
    <3>1. ghost'.owed = ghost.owed
      BY <1>1, <2>3 DEF R!Update
    <3> QED BY <1>2, <2>3, <3>1 DEF R!Update
  <2>4. CASE R!Tick \/ R!LoopSnapshot \/ R!LoopWrite \/ R!ClearSnapshot
    BY <1>2, <2>4 DEF R!Tick, R!LoopSnapshot, R!LoopWrite, R!ClearSnapshot
  <2> QED BY <1>5, <2>1, <2>2, <2>3, <2>4 DEF FileStep
<1>6. CASE R!Restart
  <2>1. ghost'.owed = {k \in frames : recordsFile[k].first # 0}
    BY <1>1, <1>6 DEF R!Restart
  <2>2. ASSUME NEW k \in ghost'.owed
        PROVE  records'[k].first # 0 /\ records'[k].status = "confirmed"
    <3>1. k \in frames /\ k \in Keys /\ recordsFile[k].first # 0
      BY <1>1, <2>1
    <3> QED BY <1>6, <3>1, LoadedIs DEF R!Restart
  <2> QED BY <2>2 DEF FramesConfirmed, R!Present
<1>7. CASE UNCHANGED recordsvars
  BY <1>2, <1>7 DEF recordsvars
<1> QED BY <1>3, <1>4, <1>5, <1>6, <1>7, Steps

(* What a saved clear removed stays away. *)
LEMMA ClearsKept ==
    RecordsTypeInv /\ Dated /\ ClearsHold /\ [R!Next]_recordsvars => ClearsHold'
<1> SUFFICES ASSUME RecordsTypeInv, Dated, ClearsHold, [R!Next]_recordsvars PROVE ClearsHold'
  OBVIOUS
<1>1. /\ spent.time \in Nat /\ clearing.at \in Nat /\ ghost.cleared \in Nat
      /\ clearing.pc \in {"idle", "lock", "write"}
      /\ ghost \in [owed : SUBSET Keys, cleared : Times, consent : BOOLEAN]
  BY Defaults DEF RecordsTypeInv, Times
<1>2. LoopUploader # Clearer /\ Clearer # "none"
  BY Assumed DEF R!MapperRecordsAssumption
<1>3. R!Unlocked.by = "none" /\ R!NoClear.pc = "idle" /\ \A t : After(R!Unlocked.data, t)
  BY DEF R!Unlocked, R!NoClear, After, R!Absent
<1>4. ASSUME UNCHANGED <<records, recordsFile, saving, clearing>>, ghost'.cleared = ghost.cleared
      PROVE  ClearsHold'
  BY <1>4 DEF ClearsHold
<1>5. CASE \E k \in Keys : RecordStep(k)
  <2>1. PICK k \in Keys : RecordStep(k)
    BY <1>5
  <2>2. /\ UNCHANGED <<recordsFile, saving, clearing>> /\ ghost'.cleared = ghost.cleared
        /\ \A j \in Keys \ {k} : records'[j] = records[j]
        /\ records'[k].first = records[k].first \/ records'[k].first = spent.time + 1
    BY <2>1, RecordStepIs
  <2>3. ASSUME NEW t \in Nat, t <= spent.time, After(records, t) PROVE After(records', t)
    BY <1>1, <2>2, <2>3 DEF After
  <2>4. /\ After(records', ghost.cleared)
        /\ clearing.pc # "idle" => After(records', clearing.at)
    BY <1>1, <2>3 DEF ClearsHold, Dated
  <2> QED BY <2>2, <2>4 DEF ClearsHold
<1>6. CASE \E u \in Uploaders : UploadStep(u)
  BY <1>4, <1>6, UploadStepIs
<1>7. CASE FileStep
  <2>1. CASE R!Tick
    BY <1>4, <2>1 DEF R!Tick
  <2>2. CASE R!LoopSnapshot
    <3>1. /\ saving'.by = LoopUploader /\ saving'.data = records
          /\ UNCHANGED <<records, recordsFile, clearing, ghost>>
      BY <2>2 DEF R!LoopSnapshot, R!TakeSnapshot
    <3> QED BY <1>2, <3>1 DEF ClearsHold
  <2>3. CASE R!LoopWrite
    <3>1. /\ saving' = R!Unlocked /\ recordsFile' \in {recordsFile, saving.data}
          /\ UNCHANGED <<records, clearing, ghost>>
      BY <2>3 DEF R!LoopWrite, R!Save, R!SaveFails
    <3> QED BY <1>2, <1>3, <3>1 DEF ClearsHold
  <2>4. CASE R!ClearRecords
    <3>1. /\ records' = [k \in Keys |-> R!Absent] /\ clearing.pc = "idle"
          /\ UNCHANGED <<recordsFile, saving>> /\ ghost'.cleared = ghost.cleared
      BY <1>1, <2>4 DEF R!ClearRecords
    <3>2. \A t : After(records', t)
      BY <3>1 DEF After, R!Absent
    <3> QED BY <3>1, <3>2 DEF ClearsHold
  <2>5. CASE R!ClearSnapshot
    <3>1. /\ clearing.pc = "lock" /\ clearing'.pc = "write" /\ clearing'.at = clearing.at
          /\ saving'.data = records /\ UNCHANGED <<records, recordsFile, ghost>>
      BY <2>5 DEF R!ClearSnapshot, R!TakeSnapshot, RecordsTypeInv
    <3> QED BY <3>1 DEF ClearsHold
  <2>6. CASE R!ClearWrite
    <3>1. /\ clearing.pc = "write" /\ saving.by = Clearer /\ saving' = R!Unlocked
          /\ clearing' = R!NoClear /\ UNCHANGED records
          /\ \/ recordsFile' = saving.data /\ ghost'.cleared = clearing.at
             \/ recordsFile' = recordsFile /\ ghost'.cleared = ghost.cleared
      BY <1>1, <2>6 DEF R!ClearWrite, R!Save, R!SaveFails
    <3>2. After(records, clearing.at) /\ After(saving.data, clearing.at)
      BY <3>1 DEF ClearsHold
    <3> QED BY <1>2, <1>3, <3>1, <3>2 DEF ClearsHold
  <2>7. ASSUME NEW c \in MapperConfigs, R!Update(c) PROVE ClearsHold'
    <3>1. ghost'.cleared = ghost.cleared
      BY <1>1, <2>7 DEF R!Update
    <3> QED BY <1>4, <2>7, <3>1 DEF R!Update
  <2> QED BY <1>7, <2>1, <2>2, <2>3, <2>4, <2>5, <2>6, <2>7 DEF FileStep
<1>8. CASE R!Restart
  <2>1. /\ \A k \in Keys : records'[k].first = recordsFile[k].first
        /\ recordsFile' = records' /\ saving' = R!Unlocked /\ clearing' = R!NoClear
    BY <1>8, LoadedIs DEF R!Restart
  <2>2. ghost'.cleared = ghost.cleared
    BY <1>1, <1>8 DEF R!Restart
  <2>3. After(records', ghost.cleared)
    BY <2>1 DEF ClearsHold, After
  <2> QED BY <1>2, <1>3, <2>1, <2>2, <2>3 DEF ClearsHold
<1>9. CASE UNCHANGED recordsvars
  BY <1>4, <1>9 DEF recordsvars
<1> QED BY <1>5, <1>6, <1>7, <1>8, <1>9, Steps

-----------------------------------------------------------------------------
LEMMA RecordsStepInv == RecordsInv /\ [R!Next]_recordsvars => RecordsInv'
<1> SUFFICES ASSUME RecordsInv, [R!Next]_recordsvars PROVE RecordsInv'
  OBVIOUS
<1>1. RecordsTypeInv'
  BY TypesKept DEF RecordsInv
<1>2. Dated' /\ R!WatermarkDelivered' /\ ConfirmedArrived'
  BY <1>1, DatedKept, WatermarkKept DEF RecordsInv
<1>3. R!ConsentedRows' /\ ConsentGiven' /\ FramesConfirmed' /\ ClearsHold'
  BY ConsentKept, FramesStay, ClearsKept DEF RecordsInv
<1> QED BY <1>1, <1>2, <1>3 DEF RecordsInv

LEMMA RecordsPartInv == MCSpec => []RecordsInv
<1>1. MCInit => RecordsInv
  BY RecordsInitInv DEF MCInit
<1>2. [MCNext]_allvars => [R!Next]_recordsvars
  BY DEF MCNext, JobsStep, RecordsStep, PassStep, allvars
<1>3. RecordsInv /\ [MCNext]_allvars => RecordsInv'
  BY <1>2, RecordsStepInv
<1> QED BY <1>1, <1>3, PTL DEF MCSpec

(* Whatever overlaps, fails or restarts: the watermark never passes what the *)
(* sheet holds, decoded frames keep their frequency confirmed, what a saved  *)
(* clear removed stays away, and rows nobody identified reach the sheet with *)
(* consent only (finishUpload, reconcileMapperDecoderFrames, ClearRecords,   *)
(* upload).                                                                  *)
THEOREM RecordsStayKept == MCSpec => []RecordsKept
<1>1. RecordsInv => RecordsKept
  <2> SUFFICES ASSUME RecordsInv PROVE RecordsKept
    OBVIOUS
  <2>1. R!FramesKept
    BY DEF RecordsInv, FramesConfirmed, R!FramesKept
  <2>2. R!ClearSticks
    BY DEF RecordsInv, ClearsHold, After, R!ClearSticks, R!Present
  <2> QED BY <2>1, <2>2 DEF RecordsInv, RecordsKept
<1> QED BY <1>1, RecordsPartInv, PTL

(* The records, their file, the uploads and the sheet keep their shape: what *)
(* is known of a frequency was observed before, and no later than seen       *)
(* (MapperRecord).                                                           *)
THEOREM RecordsTyped == MCSpec => []R!TypeOK
<1>1. RecordsInv => R!TypeOK
  <2> SUFFICES ASSUME RecordsTypeInv PROVE R!TypeOK
    BY DEF RecordsInv
  <2>1. ASSUME NEW k \in Keys
        PROVE  /\ records[k].first \in 0..MaxTime /\ records[k].seen \in 0..MaxTime
               /\ records[k].status \in {"none", "candidate", "confirmed"}
               /\ records[k].verified \in {"no", "frames", "reference"}
               /\ records[k].seen # 0 => R!Present(k) /\ records[k].first <= records[k].seen
               /\ records[k].status # "none" => R!Present(k)
    BY DEF RecordsTypeInv, Records, RawRecords, R!Present, Times
  <2>2. \A u \in Uploaders : uploads[u].pc \in {"idle", "config", "rows", "post", "finish", "save"}
    BY DEF RecordsTypeInv, Uploads
  <2>3. /\ watermark \in [Keys -> 0..MaxTime] /\ frames \subseteq Keys
        /\ {config, configFile} \subseteq MapperConfigs \cup {R!Torn}
        /\ saving.by \in {"none", LoopUploader, Clearer}
    BY DEF RecordsTypeInv, Times, SettingsKnown
  <2> QED BY <2>1, <2>2, <2>3 DEF R!TypeOK
<1> QED BY <1>1, RecordsPartInv, PTL

-----------------------------------------------------------------------------
(* The captures of a pass.  FlattenSeq is a recursive function: what it      *)
(* computes is proved from the least index at which it would go wrong.      *)

\* The least of the indices at which something goes wrong.
LEMMA FirstOf ==
    ASSUME NEW bad \in SUBSET Nat, bad # {}
    PROVE  \E n \in bad : \A m \in Nat : m < n => m \notin bad
<1>1. PICK n \in bad : \A m \in bad : <<m, n>> \notin OpToRel(<, Nat)
  BY NatLessThanWellFounded, WFMin
<1>2. \A m \in bad : ~ (m < n)
  BY <1>1 DEF OpToRel
<1> QED BY <1>2

LEMMA Extremes ==
    ASSUME NEW S \in SUBSET Int, IsFiniteSet(S), S # {}
    PROVE  /\ B!Max(S) \in S /\ \A y \in S : y <= B!Max(S)
           /\ B!Min(S) \in S /\ \A y \in S : B!Min(S) <= y
<1> DEFINE Most(T) == \E x \in T : \A y \in T : x >= y
           Least(T) == \E x \in T : \A y \in T : x <= y
           bad == {T \in SUBSET S : T # {} /\ ~ (Most(T) /\ Least(T))}
<1>1. ASSUME bad # {} PROVE FALSE
  <2>1. FiniteSubsetsOf(S) = SUBSET S
    BY FS_FiniteSubsetsOfFinite
  <2>2. IsWellFoundedOn(StrictSubsetOrdering(S), SUBSET S)
    BY <2>1, FS_StrictSubsetOrderingWellFounded
  <2>3. PICK T \in bad : \A U \in bad : <<U, T>> \notin StrictSubsetOrdering(S)
    <3>1. bad \subseteq SUBSET S
      OBVIOUS
    <3> HIDE DEF bad
    <3> QED BY <1>1, <2>2, <3>1, WFMin
  <2>4. PICK x \in T : x \in Int
    BY <2>3
  <2> DEFINE U == T \ {x}
  <2>5. <<U, T>> \in StrictSubsetOrdering(S)
    BY <2>3, <2>4 DEF StrictSubsetOrdering
  <2>6. U = {} \/ (Most(U) /\ Least(U))
    BY <2>3, <2>5
  <2>7. \A y \in T : y \in Int /\ (y = x \/ y \in U)
    BY <2>3
  <2> HIDE DEF U
  <2>8. Most(T)
    <3>1. U \subseteq T
      BY DEF U
    <3>2. CASE U = {}
      BY <2>4, <2>7, <3>2
    <3>3. CASE Most(U)
      BY <2>4, <2>7, <3>1, <3>3
    <3> QED BY <2>6, <3>2, <3>3
  <2>9. Least(T)
    <3>1. U \subseteq T
      BY DEF U
    <3>2. CASE U = {}
      BY <2>4, <2>7, <3>2
    <3>3. CASE Least(U)
      BY <2>4, <2>7, <3>1, <3>3
    <3> QED BY <2>6, <3>2, <3>3
  <2> QED BY <2>3, <2>8, <2>9
<1>2. Most(S) /\ Least(S)
  BY <1>1
<1> QED BY <1>2 DEF B!Max, B!Min

\* FlattenSeq adds one sequence after the other: the function it is defined by
\* exists, and is unique.
Joined(x, y) == x \o y
Then(f, s, i) == Joined(f[i - 1], s[i])
Adds(s, n, f) == f = [i \in 1..n |-> IF i = 1 THEN s[i] ELSE Then(f, s, i)]

LEMMA AddsMeans ==
    ASSUME NEW s, NEW n \in Nat, NEW f, Adds(s, n, f)
    PROVE  /\ DOMAIN f = 1..n /\ (n > 0 => f[1] = s[1])
           /\ \A i \in 1..n : i > 1 => f[i] = Then(f, s, i)
<1> DEFINE e(g) == [i \in 1..n |-> IF i = 1 THEN s[i] ELSE Then(g, s, i)]
<1>1. f = e(f)
  BY DEF Adds
<1>2. DOMAIN e(f) = 1..n /\ \A i \in 1..n : e(f)[i] = IF i = 1 THEN s[i] ELSE Then(f, s, i)
  OBVIOUS
<1> HIDE DEF e
<1> QED BY <1>1, <1>2

LEMMA AddsFrom ==
    ASSUME NEW s, NEW n \in Nat, NEW f, f = [i \in 1..n |-> f[i]], n > 0 => f[1] = s[1],
           \A i \in 1..n : i > 1 => f[i] = Then(f, s, i)
    PROVE  Adds(s, n, f)
<1>1. \A i \in 1..n : f[i] = IF i = 1 THEN s[i] ELSE Then(f, s, i)
  OBVIOUS
<1> DEFINE e == [i \in 1..n |-> IF i = 1 THEN s[i] ELSE Then(f, s, i)]
<1>2. \A i \in 1..n : e[i] = f[i]
  BY <1>1
<1>3. e = [i \in 1..n |-> e[i]]
  OBVIOUS
<1>4. e = [i \in 1..n |-> f[i]]
  <2> HIDE DEF e
  <2> QED BY <1>2, <1>3
<1> QED BY <1>4 DEF Adds

LEMMA AddsExists ==
    ASSUME NEW s, NEW n \in Nat
    PROVE  \E f : Adds(s, n, f)
<1> DEFINE bad == {m \in Nat : ~ \E f : Adds(s, m, f)}
<1>1. ASSUME bad # {} PROVE FALSE
  <2>1. PICK m \in bad : \A k \in Nat : k < m => k \notin bad
    <3> HIDE DEF bad
    <3>1. bad \in SUBSET Nat
      BY DEF bad
    <3> QED BY <1>1, <3>1, FirstOf
  <2>2. m \in Nat /\ ~ \E f : Adds(s, m, f)
    BY <2>1
  <2>3. CASE m = 0
    <3>1. Adds(s, 0, [i \in 1..0 |-> i])
      <4>1. 1..0 = {}
        OBVIOUS
      <4> QED BY <4>1 DEF Adds
    <3> QED BY <2>2, <2>3, <3>1
  <2>4. CASE m # 0
    <3>1. m - 1 \in Nat /\ m - 1 < m
      BY <2>2, <2>4
    <3>2. PICK g : Adds(s, m - 1, g)
      BY <2>1, <3>1
    <3>3. /\ m - 1 > 0 => g[1] = s[1]
          /\ \A i \in 1..(m - 1) : i > 1 => g[i] = Then(g, s, i)
      BY <3>1, <3>2, AddsMeans
    <3> DEFINE f == [i \in 1..m |-> IF i < m THEN g[i]
                                    ELSE IF m = 1 THEN s[1] ELSE Then(g, s, m)]
    <3>4. f = [i \in 1..m |-> f[i]]
      OBVIOUS
    <3>5. \A i \in 1..m : f[i] = IF i < m THEN g[i]
                                 ELSE IF m = 1 THEN s[1] ELSE Then(g, s, m)
      OBVIOUS
    <3> HIDE DEF f
    <3>6. f[1] = s[1]
      <4>1. CASE m = 1
        BY <4>1, <3>5
      <4>2. CASE m # 1
        BY <4>2, <2>2, <2>4, <3>3, <3>5
      <4> QED BY <4>1, <4>2
    <3>7. ASSUME NEW i \in 1..m, i > 1 PROVE f[i] = Then(f, s, i)
      <4>1. i - 1 \in 1..m /\ i - 1 < m
        BY <2>2, <3>7
      <4>2. f[i - 1] = g[i - 1]
        BY <3>5, <4>1
      <4>3. Then(f, s, i) = Then(g, s, i)
        BY <4>2 DEF Then
      <4>4. CASE i < m
        <5>1. i \in 1..(m - 1)
          BY <2>2, <4>4
        <5> QED BY <4>3, <4>4, <3>3, <3>5, <3>7, <5>1
      <4>5. CASE i = m
        <5>1. f[i] = Then(g, s, i)
          BY <4>5, <3>5, <3>7
        <5> QED BY <4>3, <5>1
      <4> QED BY <4>4, <4>5, <2>2
    <3>8. Adds(s, m, f)
      BY <2>2, <3>4, <3>6, <3>7, AddsFrom
    <3> QED BY <2>2, <3>8
  <2> QED BY <2>3, <2>4
<1> QED BY <1>1

\* Solutions agree where their sequences do.
LEMMA AddsUnique ==
    ASSUME NEW s, NEW t, NEW n \in Nat, NEW m \in Nat, n <= m, NEW f, NEW g,
           Adds(s, n, f), Adds(t, m, g), \A i \in 1..n : s[i] = t[i]
    PROVE  \A i \in 1..n : f[i] = g[i]
<1> DEFINE bad == {i \in 1..n : f[i] # g[i]}
<1>1. ASSUME bad # {} PROVE FALSE
  <2>1. PICK i \in bad : \A k \in Nat : k < i => k \notin bad
    <3> HIDE DEF bad
    <3>1. bad \in SUBSET Nat
      BY DEF bad
    <3> QED BY <1>1, <3>1, FirstOf
  <2>2. i \in 1..n /\ i \in 1..m /\ f[i] # g[i] /\ \A k \in 1..n : k < i => f[k] = g[k]
    BY <2>1
  <2>3. CASE i = 1
    <3>1. f[1] = s[1] /\ g[1] = t[1]
      BY <2>2, <2>3, AddsMeans
    <3> QED BY <2>2, <2>3, <3>1
  <2>4. CASE i # 1
    <3>1. f[i] = Then(f, s, i) /\ g[i] = Then(g, t, i)
      <4>1. f[i] = Then(f, s, i)
        BY <2>2, <2>4, AddsMeans
      <4>2. g[i] = Then(g, t, i)
        BY <2>2, <2>4, AddsMeans
      <4> QED BY <4>1, <4>2
    <3>2. i - 1 \in 1..n /\ i - 1 < i
      BY <2>2, <2>4
    <3>3. f[i - 1] = g[i - 1] /\ s[i] = t[i]
      BY <2>2, <3>2
    <3> QED BY <2>2, <3>1, <3>3 DEF Then
  <2> QED BY <2>3, <2>4
<1> QED BY <1>1

LEMMA FlattenIs ==
    ASSUME NEW T, NEW s \in Seq(T), s # <<>>
    PROVE  \E f : Adds(s, Len(s), f) /\ B!FlattenSeq(s) = f[Len(s)]
<1> DEFINE f == CHOOSE g : Adds(s, Len(s), g)
<1>1. Len(s) \in Nat /\ Len(s) # 0
  OBVIOUS
<1>2. Adds(s, Len(s), f)
  BY <1>1, AddsExists
<1>3. f = CHOOSE g : g = [i \in 1..Len(s) |-> IF i = 1 THEN s[i] ELSE g[i - 1] \o s[i]]
  BY DEF Adds, Then, Joined
<1>4. B!FlattenSeq(s) = f[Len(s)]
  <2> HIDE DEF f
  <2> QED BY <1>1, <1>3 DEF B!FlattenSeq
<1> QED BY <1>2, <1>4

LEMMA FlattenEmpty == B!FlattenSeq(<<>>) = <<>>
BY DEF B!FlattenSeq

LEMMA AddsNext ==
    ASSUME NEW s, NEW t, NEW n \in Nat, n > 0, NEW f, NEW g,
           Adds(s, n, f), Adds(t, n + 1, g), \A i \in 1..n : s[i] = t[i]
    PROVE  g[n + 1] = Joined(f[n], t[n + 1])
<1>1. n + 1 \in Nat /\ n <= n + 1
  OBVIOUS
<1>2. \A i \in 1..n : f[i] = g[i]
  BY <1>1, AddsUnique
<1>3. n \in 1..n /\ n + 1 \in 1..(n + 1) /\ n + 1 > 1 /\ (n + 1) - 1 = n
  OBVIOUS
<1>4. g[n + 1] = Then(g, t, n + 1)
  BY <1>1, <1>3, AddsMeans
<1> QED BY <1>2, <1>3, <1>4 DEF Then

LEMMA FlattenAppend ==
    ASSUME NEW T, NEW s \in Seq(Seq(T)), NEW x \in Seq(T), B!FlattenSeq(s) \in Seq(T)
    PROVE  B!FlattenSeq(Append(s, x)) = B!FlattenSeq(s) \o x
<1> DEFINE t == Append(s, x)
<1>1. /\ t \in Seq(Seq(T)) /\ t # <<>> /\ Len(t) = Len(s) + 1 /\ Len(s) \in Nat
      /\ t[Len(s) + 1] = x /\ \A i \in 1..Len(s) : s[i] = t[i]
  BY AppendProperties
<1> HIDE DEF t
<1>2. PICK g : Adds(t, Len(t), g) /\ B!FlattenSeq(t) = g[Len(t)]
  BY <1>1, FlattenIs
<1>3. CASE s = <<>>
  <2>1. Len(t) = 1 /\ t[1] = x
    BY <1>1, <1>3
  <2>2. g[1] = t[1]
    BY <1>2, <2>1, AddsMeans
  <2>3. <<>> \o x = x
    BY ConcatEmptySeq
  <2>4. B!FlattenSeq(t) = x /\ B!FlattenSeq(s) = <<>>
    BY <1>2, <1>3, <2>1, <2>2, FlattenEmpty
  <2> QED BY <2>3, <2>4 DEF t
<1>4. CASE s # <<>>
  <2>1. PICK f : Adds(s, Len(s), f) /\ B!FlattenSeq(s) = f[Len(s)]
    BY <1>4, FlattenIs
  <2>2. Len(s) > 0
    BY <1>1, <1>4
  <2>3. Adds(t, Len(s) + 1, g)
    BY <1>1, <1>2
  <2>4. g[Len(s) + 1] = Joined(f[Len(s)], t[Len(s) + 1])
    <3>1. Len(s) \in Nat /\ Adds(s, Len(s), f) /\ \A i \in 1..Len(s) : s[i] = t[i]
      BY <1>1, <2>1
    <3> QED BY <3>1, <2>2, <2>3, AddsNext
  <2>5. B!FlattenSeq(t) = B!FlattenSeq(s) \o x
    BY <1>1, <1>2, <2>1, <2>4 DEF Joined
  <2> QED BY <2>5 DEF t
<1> QED BY <1>3, <1>4

-----------------------------------------------------------------------------
LEMMA SameSets == \A S : B!IsFiniteSet(S) <=> IsFiniteSet(S)
BY DEF B!IsFiniteSet, IsFiniteSet

LEMMA SameSizes == \A S : B!Cardinality(S) = Cardinality(S)
BY DEF B!Cardinality, Cardinality

LEMMA BatchesAssumed ==
    /\ Places \subseteq Nat /\ IsFiniteSet(Places) /\ Widths \subseteq Nat \ {0}
    /\ Limits \subseteq Nat \ {0} /\ Automatic \in Nat \ {0} /\ UserRates \subseteq Nat
    /\ 1 \in Limits /\ 0 \in UserRates
BY MapperAssumption, SameSets DEF B!BatchesAssumption

LEMMA TargetParts ==
    ASSUME NEW t \in B!Targets
    PROVE  t.at \in Nat /\ t.width \in Nat /\ t.width > 0
<1>1. t.at \in Places /\ t.width \in Widths
  BY DEF B!Targets
<1>2. t.at \in Nat /\ t.width \in Nat \ {0}
  BY <1>1, BatchesAssumed, Zenon
<1> QED BY <1>2

LEMMA GroupFinite ==
    ASSUME NEW G \in Seq(B!Targets), NEW S, NEW f \in [1..Len(G) -> S], S = {f[i] : i \in 1..Len(G)}
    PROVE  IsFiniteSet(S)
<1>1. IsFiniteSet(1..Len(G))
  <2>1. Len(G) \in Int /\ 1 \in Int
    OBVIOUS
  <2> QED BY <2>1, FS_Interval
<1>2. f \in Surjection(1..Len(G), S)
  BY DEF Surjection
<1> QED BY <1>1, <1>2, FS_Surjection

\* Lowest and Highest are the ends of what is measured for a group.
LEMMA WindowOf ==
    ASSUME NEW G \in Seq(B!Targets), G # <<>>
    PROVE  /\ B!Lowest(G) \in Int /\ B!Highest(G) \in Int
           /\ \A t \in B!ToSet(G) : /\ t \in B!Targets
                                    /\ B!Lowest(G) <= t.at - 2 * t.width
                                    /\ t.at + 2 * t.width <= B!Highest(G)
<1> DEFINE n == Len(G)
           lows == {t.at - 2 * t.width : t \in B!ToSet(G)}
           highs == {t.at + 2 * t.width : t \in B!ToSet(G)}
           low == [i \in 1..n |-> G[i].at - 2 * G[i].width]
           high == [i \in 1..n |-> G[i].at + 2 * G[i].width]
<1>1. n \in Nat /\ n > 0 /\ DOMAIN G = 1..n /\ \A i \in 1..n : G[i] \in B!Targets
  OBVIOUS
<1>2. \A t \in B!ToSet(G) : t \in B!Targets
  BY <1>1 DEF B!ToSet
<1>3. lows \in SUBSET Int /\ highs \in SUBSET Int
  BY <1>2, TargetParts
<1>4. lows = {low[i] : i \in 1..n} /\ highs = {high[i] : i \in 1..n}
  <2>1. B!ToSet(G) = {G[i] : i \in 1..n}
    BY <1>1 DEF B!ToSet
  <2> HIDE DEF n
  <2> QED BY <2>1
<1>5. lows # {} /\ highs # {}
  <2> HIDE DEF lows, highs, low, high
  <2> QED BY <1>1, <1>4
<1>6. IsFiniteSet(lows) /\ IsFiniteSet(highs)
  <2>1. low \in [1..n -> lows] /\ high \in [1..n -> highs]
    BY <1>4
  <2> HIDE DEF lows, highs, low, high
  <2> QED BY <1>4, <2>1, GroupFinite
<1>7. B!Lowest(G) = B!Min(lows) /\ B!Highest(G) = B!Max(highs)
  BY DEF B!Lowest, B!Highest
<1>8. /\ \A t \in B!ToSet(G) : t.at - 2 * t.width \in lows /\ t.at + 2 * t.width \in highs
  OBVIOUS
<1> HIDE DEF lows, highs
<1>9. B!Min(lows) \in lows /\ \A y \in lows : B!Min(lows) <= y
  BY <1>3, <1>5, <1>6, Extremes
<1>10. B!Max(highs) \in highs /\ \A y \in highs : y <= B!Max(highs)
  BY <1>3, <1>5, <1>6, Extremes
<1>11. B!Lowest(G) \in Int /\ B!Highest(G) \in Int
  BY <1>3, <1>7, <1>9, <1>10
<1> QED BY <1>2, <1>7, <1>8, <1>9, <1>10, <1>11

-----------------------------------------------------------------------------
Passes == [targets : Seq(B!Targets), rate : UserRates, limit : Limits]
Capture == [targets : Seq(B!Targets), center : Int]
Captured == [i \in DOMAIN batches |-> batches[i].targets]

\* CaptureCovers for one capture.
CoversAt(b, rate) ==
    IF Len(b.targets) > 1
    THEN \A t \in B!ToSet(b.targets) :
            B!Distance(b.center, 100 * t.at) + 200 * t.width <= 42 * rate
    ELSE LET t == b.targets[1] IN
         100 * t.width < 84 * rate => B!Distance(b.center, 100 * t.at) + 50 * t.width <= 42 * rate
Covers(b) == CoversAt(b, B!Rate)

BatchesInv ==
    /\ pass \in Passes /\ left \in Seq(B!Targets) /\ batches \in Seq(Capture)
    /\ B!FlattenSeq(Captured) \in Seq(B!Targets)
    /\ pass.targets = B!FlattenSeq(Captured) \o left
    /\ \A i \in DOMAIN batches : Len(batches[i].targets) \in 1..pass.limit /\ Covers(batches[i])

LEMMA BatchesMean == BatchesInv => B!BatchesTypeOK /\ PassHeard
<1> SUFFICES ASSUME BatchesInv PROVE B!BatchesTypeOK /\ PassHeard
  OBVIOUS
<1>1. \A i \in DOMAIN batches : batches[i].targets \in Seq(B!Targets)
  <2>1. batches \in Seq(Capture)
    BY DEF BatchesInv
  <2>2. \A i \in DOMAIN batches : batches[i] \in Capture
    BY <2>1
  <2>3. \A b \in Capture : b.targets \in Seq(B!Targets)
    BY DEF Capture
  <2> QED BY <2>2, <2>3
<1>2. B!BatchesTypeOK
  BY <1>1 DEF BatchesInv, B!BatchesTypeOK, Passes
<1>3. B!EachTargetOnce
  BY DEF BatchesInv, B!EachTargetOnce, Captured
<1>4. B!CaptureCovers
  BY DEF BatchesInv, B!CaptureCovers, Covers, CoversAt
<1> QED BY <1>2, <1>3, <1>4 DEF PassHeard

LEMMA RateIs == ASSUME BatchesInv PROVE B!Rate \in Nat /\ B!Rate > 0
<1>1. pass.rate \in UserRates
  BY DEF BatchesInv, Passes
<1>2. pass.rate \in Nat /\ Automatic \in Nat \ {0}
  BY <1>1, BatchesAssumed, Zenon
<1> QED BY <1>2 DEF B!Rate

\* What Centers returns is far enough from the ends of the group.
LEMMA CenterOfMany ==
    ASSUME BatchesInv, NEW G \in Seq(B!Targets), Len(G) > 1, B!Fits(G), NEW c \in B!Centers(G)
    PROVE  c \in Int /\ 100 * B!Highest(G) - 42 * B!Rate <= c /\ c <= 100 * B!Lowest(G) + 42 * B!Rate
<1> DEFINE L == B!Lowest(G)
           H == B!Highest(G)
           R1 == B!Rate
           lower == 100 * H - 42 * R1
           upper == 100 * L + 42 * R1
           middle == 50 * (L + H)
           Clamp(x) == B!Larger(lower, B!Min({upper, x}))
           guard(t) == B!Larger(400, 250 * t.width)
           cs == {lower, upper, middle, Clamp(middle - 12 * R1), Clamp(middle + 12 * R1)}
                 \cup UNION {{Clamp(100 * t.at - guard(t)), Clamp(100 * t.at + guard(t))} : t \in B!ToSet(G)}
<1>1. c \in cs
  <2>1. B!Centers(G) = B!CentersOf(G)
    <3>1. Len(G) # 1
      <4> DEFINE n == Len(G)
      <4>1. n \in Nat /\ n > 1
        BY LenProperties
      <4>2. n # 1
        <5> HIDE DEF n
        <5> QED BY ONLY <4>1
      <4> QED BY <4>2
    <3> QED BY <3>1, Zenon DEF B!Centers
  <2>2. B!CentersOf(G) \subseteq cs
    BY Zenon DEF B!CentersOf
  <2>3. c \in B!CentersOf(G)
    BY <2>1, Zenon
  <2> HIDE DEF cs
  <2> QED BY <2>2, <2>3
<1>2. L \in Int /\ H \in Int /\ R1 \in Nat /\ \A t \in B!ToSet(G) : t \in B!Targets
  BY WindowOf, RateIs
<1>3. 100 * (H - L) <= 84 * R1
  BY DEF B!Fits
<1> HIDE DEF L, H, R1
<1>4. lower \in Int /\ upper \in Int /\ middle \in Int /\ lower <= upper /\ lower <= middle /\ middle <= upper
  BY <1>2, <1>3
<1> HIDE DEF lower, upper, middle
<1>5. ASSUME NEW x \in Int PROVE Clamp(x) \in Int /\ lower <= Clamp(x) /\ Clamp(x) <= upper
  <2>1. B!Min({upper, x}) \in {upper, x} /\ B!Min({upper, x}) <= upper
    <3>1. {upper, x} \in SUBSET Int /\ {upper, x} # {} /\ upper \in {upper, x}
      BY <1>4
    <3>2. IsFiniteSet({upper, x})
      <4>1. IsFiniteSet({upper}) /\ IsFiniteSet({x})
        BY FS_Singleton
      <4>2. {upper, x} = {upper} \cup {x}
        OBVIOUS
      <4> QED BY <4>1, <4>2, FS_Union
    <3> QED BY <3>1, <3>2, Extremes
  <2> QED BY <1>4, <2>1 DEF B!Larger
<1>6. middle - 12 * R1 \in Int /\ middle + 12 * R1 \in Int
  BY <1>2, <1>4
<1>7. \A t \in B!ToSet(G) : 100 * t.at - guard(t) \in Int /\ 100 * t.at + guard(t) \in Int
  BY <1>2, TargetParts DEF B!Larger
<1> HIDE DEF Clamp, guard
<1>8. \A d \in cs : d \in Int /\ lower <= d /\ d <= upper
  <2> DEFINE Inside(d) == d \in Int /\ lower <= d /\ d <= upper
  <2>1. \A x \in Int : Inside(Clamp(x))
    BY <1>5
  <2>2. Inside(lower) /\ Inside(upper) /\ Inside(middle)
    BY <1>4
  <2>3. Inside(Clamp(middle - 12 * R1)) /\ Inside(Clamp(middle + 12 * R1))
    BY <1>6, <2>1
  <2>4. \A t \in B!ToSet(G) : Inside(Clamp(100 * t.at - guard(t))) /\ Inside(Clamp(100 * t.at + guard(t)))
    BY <1>7, <2>1
  <2> HIDE DEF Inside
  <2>5. \A d \in cs : Inside(d)
    <3> SUFFICES ASSUME NEW d \in cs PROVE Inside(d)
      OBVIOUS
    <3>1. \/ d \in {lower, upper, middle, Clamp(middle - 12 * R1), Clamp(middle + 12 * R1)}
          \/ \E t \in B!ToSet(G) : d \in {Clamp(100 * t.at - guard(t)), Clamp(100 * t.at + guard(t))}
      OBVIOUS
    <3> QED BY <2>2, <2>3, <2>4, <3>1
  <2> QED BY <2>5 DEF Inside
<1> HIDE DEF cs
<1>9. c \in Int /\ lower <= c /\ c <= upper
  BY <1>1, <1>8
<1> QED BY <1>9 DEF lower, upper, L, H, R1

LEMMA CoversMany ==
    ASSUME BatchesInv, NEW G \in Seq(B!Targets), Len(G) > 1, B!Fits(G), NEW c \in B!Centers(G)
    PROVE  c \in Int /\ Covers([targets |-> G, center |-> c])
<1> DEFINE L == B!Lowest(G)
           H == B!Highest(G)
           R1 == B!Rate
<1>1. c \in Int /\ 100 * H - 42 * R1 <= c /\ c <= 100 * L + 42 * R1
  BY CenterOfMany
<1>2. L \in Int /\ H \in Int /\ R1 \in Nat
  BY WindowOf, RateIs
<1>3. \A t \in B!ToSet(G) : /\ t.at \in Nat /\ t.width \in Nat
                            /\ L <= t.at - 2 * t.width /\ t.at + 2 * t.width <= H
  <2>1. \A t \in B!ToSet(G) : /\ t \in B!Targets /\ L <= t.at - 2 * t.width /\ t.at + 2 * t.width <= H
    BY WindowOf
  <2> QED BY <2>1, TargetParts
<1> HIDE DEF L, H, R1
<1>4. \A t \in B!ToSet(G) : B!Distance(c, 100 * t.at) + 200 * t.width <= 42 * R1
  <2> SUFFICES ASSUME NEW a \in Nat, NEW w \in Nat, L <= a - 2 * w, a + 2 * w <= H
               PROVE  B!Distance(c, 100 * a) + 200 * w <= 42 * R1
    BY <1>3
  <2> QED BY <1>1, <1>2 DEF B!Distance
<1> QED BY <1>1, <1>4 DEF Covers, CoversAt, R1

LEMMA CoversOne ==
    ASSUME BatchesInv, NEW G \in Seq(B!Targets), 1 = Len(G), NEW c \in B!Centers(G)
    PROVE  c \in Int /\ Covers([targets |-> G, center |-> c])
<1> DEFINE t == G[1]
           R1 == B!Rate
<1>1. t \in B!Targets
  <2>1. 1 \in 1..Len(G)
    OBVIOUS
  <2> QED BY <2>1, ElementOfSeq
<1>2. t.at \in Nat /\ t.width \in Nat /\ R1 \in Nat
  BY <1>1, TargetParts, RateIs
<1>3. c = 100 * t.at + B!Offset(t)
  BY DEF B!Centers
<1>4. \E x \in Nat : B!Offset(t) = IF 42 * R1 - 50 * t.width > 0 /\ x > 42 * R1 - 50 * t.width
                                   THEN 42 * R1 - 50 * t.width ELSE x
  <2> DEFINE x == B!Larger((25 * R1) \div 2, B!Larger(400, 250 * t.width))
  <2>1. (25 * R1) \div 2 \in Nat
    BY <1>2
  <2>2. x \in Nat
    BY <1>2, <2>1 DEF B!Larger
  <2>3. B!Offset(t) = IF 42 * R1 - 50 * t.width > 0 /\ x > 42 * R1 - 50 * t.width
                      THEN 42 * R1 - 50 * t.width ELSE x
    BY Zenon DEF B!Offset
  <2> QED BY <2>2, <2>3
<1> HIDE DEF t, R1
<1>5. B!Offset(t) \in Nat
  BY <1>2, <1>4
<1>6. c \in Int /\ B!Distance(c, 100 * t.at) = B!Offset(t)
  BY <1>2, <1>3, <1>5 DEF B!Distance
<1>7. 100 * t.width < 84 * R1 => B!Offset(t) + 50 * t.width <= 42 * R1
  BY <1>2, <1>4
<1> DEFINE b == [targets |-> G, center |-> c]
<1>8. b.targets = G /\ b.center = c /\ ~ (Len(G) > 1)
  <2>1. ~ (1 > 1)
    OBVIOUS
  <2> QED BY <2>1, Zenon
<1> HIDE DEF b
<1>9. Covers(b)
  BY <1>6, <1>7, <1>8 DEF Covers, CoversAt, t, R1
<1> QED BY <1>6, <1>9 DEF b

\* What is taken fits, and is within the limit.
LEMMA TakenFits ==
    ASSUME BatchesInv, left # <<>>
    PROVE  /\ B!Taken \in 1..Len(left) /\ B!Taken \in 1..pass.limit
           /\ B!Taken # 1 => B!Fits(SubSeq(left, 1, B!Taken))
<1> DEFINE Longer(n) == n <= pass.limit /\ \A m \in 2..n : B!Fits(SubSeq(left, 1, m))
           choices == {n \in 1..Len(left) : n = 1 \/ Longer(n)}
<1>1. Len(left) \in Nat /\ Len(left) > 0 /\ pass.limit \in Nat /\ pass.limit > 0
  <2>1. left \in Seq(B!Targets) /\ pass.limit \in Limits
    BY DEF BatchesInv, Passes
  <2>2. pass.limit \in Nat \ {0}
    BY <2>1, BatchesAssumed, Zenon
  <2> QED BY <2>1, <2>2
<1>2. B!Taken = B!Max(choices)
  BY DEF B!Taken
<1>3. choices \in SUBSET Int /\ choices # {} /\ choices \in SUBSET (1..Len(left))
  <2> HIDE DEF Longer
  <2>1. 1 \in choices
    BY <1>1
  <2> QED BY <1>1, <2>1
<1>4. IsFiniteSet(choices)
  <2>1. IsFiniteSet(1..Len(left))
    BY <1>1, FS_Interval
  <2> HIDE DEF choices
  <2> QED BY <1>3, <2>1, FS_Subset
<1>5. B!Taken \in choices
  <2> HIDE DEF choices
  <2> QED BY <1>2, <1>3, <1>4, Extremes
<1> HIDE DEF Longer
<1>6. B!Taken \in 1..Len(left) /\ (B!Taken = 1 \/ Longer(B!Taken))
  BY <1>5
<1>7. ASSUME B!Taken # 1 PROVE B!Taken <= pass.limit /\ B!Fits(SubSeq(left, 1, B!Taken))
  <2>1. B!Taken \in 2..B!Taken
    BY <1>1, <1>6, <1>7
  <2> QED BY <1>6, <1>7, <2>1 DEF Longer
<1> QED BY <1>1, <1>6, <1>7

LEMMA TakenCovers ==
    ASSUME BatchesInv, left # <<>>, NEW c \in B!Centers(SubSeq(left, 1, B!Taken))
    PROVE  /\ SubSeq(left, 1, B!Taken) \in Seq(B!Targets)
           /\ Len(SubSeq(left, 1, B!Taken)) = B!Taken
           /\ c \in Int /\ Covers([targets |-> SubSeq(left, 1, B!Taken), center |-> c])
<1> DEFINE G == SubSeq(left, 1, B!Taken)
           n == B!Taken
<1>1. n \in Nat /\ n > 0 /\ n \in 1..Len(left) /\ left \in Seq(B!Targets)
  BY TakenFits DEF BatchesInv
<1>2. G \in Seq(B!Targets) /\ Len(G) = n
  <2>1. 1 \in Int /\ n \in Int /\ \A i \in 1..n : left[i] \in B!Targets
    BY <1>1
  <2> HIDE DEF n
  <2>2. SubSeq(left, 1, n) \in Seq(B!Targets)
        /\ Len(SubSeq(left, 1, n)) = IF 1 <= n THEN n - 1 + 1 ELSE 0
    BY <2>1, SubSeqProperties
  <2>3. 1 <= n /\ n - 1 + 1 = n
    BY <1>1
  <2> QED BY <2>2, <2>3 DEF n
<1>3. n # 1 => B!Fits(G)
  BY TakenFits
<1> HIDE DEF G, n
<1>4. c \in B!Centers(G)
  BY DEF G
<1>5. CASE n = 1
  BY <1>2, <1>4, <1>5, CoversOne DEF G, n
<1>6. CASE n # 1
  <2>1. n > 1
    BY <1>1, <1>6
  <2>2. Len(G) > 1
    BY <1>2, <2>1
  <2> QED BY <1>2, <1>3, <1>4, <1>6, <2>2, CoversMany DEF G, n
<1> QED BY <1>5, <1>6

LEMMA TakeStep ==
    ASSUME BatchesInv, NEW n \in 1..Len(left), NEW c \in Int, B!TakeCapture(n, c),
           n \in 1..pass.limit, SubSeq(left, 1, n) \in Seq(B!Targets), Len(SubSeq(left, 1, n)) = n,
           Covers([targets |-> SubSeq(left, 1, n), center |-> c])
    PROVE  BatchesInv'
<1> DEFINE G == SubSeq(left, 1, n)
           b == [targets |-> G, center |-> c]
           F == B!FlattenSeq(Captured)
           k == Len(batches)
<1>1. /\ pass \in Passes /\ left \in Seq(B!Targets) /\ batches \in Seq(Capture)
      /\ F \in Seq(B!Targets) /\ pass.targets = F \o left
      /\ \A i \in DOMAIN batches : Len(batches[i].targets) \in 1..pass.limit /\ Covers(batches[i])
  BY DEF BatchesInv
<1>2. pass' = pass /\ batches' = Append(batches, b) /\ left' = SubSeq(left, n + 1, Len(left))
  BY DEF B!TakeCapture
<1>3. B!Rate' = B!Rate
  BY <1>2 DEF B!Rate
<1>4. left' \in Seq(B!Targets) /\ left = G \o left'
  <2> DEFINE m == Len(left)
  <2>1. m \in Nat /\ 1 \in 1..(m + 1) /\ n \in (1 - 1)..m /\ m \in n..m
    BY <1>1
  <2>2. SubSeq(left, 1, n) \o SubSeq(left, n + 1, m) = SubSeq(left, 1, m)
    BY <1>1, <2>1, ConcatAdjacentSubSeq
  <2>3. SubSeq(left, 1, m) = left
    BY <1>1, SubSeqFull
  <2>4. n + 1 \in Int /\ m \in Int /\ \A i \in (n + 1)..m : left[i] \in B!Targets
    BY <1>1
  <2>5. SubSeq(left, n + 1, m) \in Seq(B!Targets)
    <3> HIDE DEF m
    <3> QED BY <2>4, SubSeqProperties
  <2> QED BY <1>2, <2>2, <2>3, <2>5
<1>5. b \in Capture /\ b.targets = G /\ Covers(b)
  BY DEF Capture
<1> HIDE DEF b, G, F
<1>6. /\ batches' \in Seq(Capture) /\ k \in Nat /\ DOMAIN batches = 1..k /\ DOMAIN batches' = 1..(k + 1)
      /\ (\A i \in 1..k : batches'[i] = batches[i]) /\ batches'[k + 1] = b
  BY <1>1, <1>2, <1>5, AppendProperties
<1> HIDE DEF k
<1>7. Captured \in Seq(Seq(B!Targets)) /\ Captured' = Append(Captured, G)
  <2>1. \A x \in Capture : x.targets \in Seq(B!Targets)
    BY DEF Capture
  <2>2. \A i \in 1..k : batches[i].targets \in Seq(B!Targets)
    <3>1. \A i \in 1..k : batches[i] \in Capture
      BY <1>1, <1>6
    <3> QED BY <2>1, <3>1
  <2>3. Captured = [i \in 1..k |-> batches[i].targets]
    BY <1>6 DEF Captured
  <2>4. Captured \in Seq(Seq(B!Targets)) /\ Len(Captured) = k
    BY <1>6, <2>2, <2>3
  <2>5. Captured' = [i \in 1..(k + 1) |-> batches'[i].targets]
    BY <1>6 DEF Captured
  <2>6. G \in Seq(B!Targets)
    BY DEF G
  <2>7. \A i \in 1..(k + 1) : Captured'[i] = IF i = k + 1 THEN G ELSE Captured[i]
    <3> TAKE i \in 1..(k + 1)
    <3>1. Captured'[i] = batches'[i].targets
      BY <2>5
    <3>2. CASE i = k + 1
      BY <1>5, <1>6, <3>1, <3>2
    <3>3. CASE i # k + 1
      <4>1. i \in 1..k
        BY <1>6, <3>3
      <4> QED BY <1>6, <2>3, <3>1, <3>3, <4>1
    <3> QED BY <3>2, <3>3
  <2>8. Captured' \in Seq(Seq(B!Targets)) /\ Len(Captured') = k + 1
    <3>1. \A i \in 1..(k + 1) : Captured'[i] \in Seq(B!Targets)
      <4>1. \A i \in 1..k : Captured[i] \in Seq(B!Targets)
        BY <2>2, <2>3
      <4> QED BY <1>6, <2>6, <2>7, <4>1
    <3>2. k + 1 \in Nat
      BY <1>6
    <3> QED BY <2>5, <3>1, <3>2
  <2> DEFINE t == Append(Captured, G)
  <2>9. t \in Seq(Seq(B!Targets)) /\ Len(t) = k + 1 /\ \A i \in 1..(k + 1) : t[i] = IF i = k + 1 THEN G ELSE Captured[i]
    BY <1>6, <2>4, <2>6, AppendProperties
  <2> HIDE DEF t
  <2>10. Captured' = t
    BY <2>7, <2>8, <2>9, SeqEqual
  <2> QED BY <2>4, <2>10 DEF t
<1>8. B!FlattenSeq(Captured)' = F \o G /\ F \o G \in Seq(B!Targets)
  <2>1. G \in Seq(B!Targets)
    BY DEF G
  <2>2. B!FlattenSeq(Append(Captured, G)) = F \o G
    BY <1>1, <1>7, <2>1, FlattenAppend DEF F
  <2>3. B!FlattenSeq(Captured)' = B!FlattenSeq(Append(Captured, G))
    BY <1>7
  <2> QED BY <1>1, <2>1, <2>2, <2>3
<1>9. pass.targets = (F \o G) \o left'
  <2>1. G \in Seq(B!Targets)
    BY DEF G
  <2>2. (F \o G) \o left' = F \o (G \o left')
    BY <1>1, <1>4, <2>1, ConcatAssociative, SMTT(30)
  <2> QED BY <1>1, <1>4, <2>2
<1>10. ASSUME NEW i \in DOMAIN batches'
       PROVE  Len(batches'[i].targets) \in 1..pass'.limit /\ Covers(batches[i])'
  <2>1. CoversAt(batches'[i], B!Rate) /\ Len(batches'[i].targets) \in 1..pass.limit
    <3>1. CASE i = k + 1
      <4>1. Len(G) \in 1..pass.limit
        BY DEF G
      <4> QED BY <1>5, <1>6, <3>1, <4>1 DEF Covers
    <3>2. CASE i # k + 1
      <4>1. i \in 1..k
        BY <1>6, <3>2
      <4> QED BY <1>1, <1>6, <4>1 DEF Covers
    <3> QED BY <3>1, <3>2
  <2>2. Covers(batches[i])' <=> CoversAt(batches'[i], B!Rate')
    BY DEF Covers, CoversAt, B!ToSet, B!Distance
  <2> QED BY <1>2, <1>3, <2>1, <2>2
<1> QED BY <1>1, <1>2, <1>4, <1>6, <1>8, <1>9, <1>10 DEF BatchesInv

LEMMA BatchesStep == BatchesInv /\ B!BatchesNext => BatchesInv'
<1> SUFFICES ASSUME BatchesInv, B!BatchesNext PROVE BatchesInv'
  OBVIOUS
<1>1. PICK c \in B!Centers(SubSeq(left, 1, B!Taken)) : left # <<>> /\ B!TakeCapture(B!Taken, c)
  BY DEF B!BatchesNext, B!NextBatch
<1>2. B!Taken \in 1..Len(left) /\ B!Taken \in 1..pass.limit
  BY <1>1, TakenFits
<1>3. /\ SubSeq(left, 1, B!Taken) \in Seq(B!Targets) /\ Len(SubSeq(left, 1, B!Taken)) = B!Taken
      /\ c \in Int /\ Covers([targets |-> SubSeq(left, 1, B!Taken), center |-> c])
  BY <1>1, TakenCovers
<1> QED BY <1>1, <1>2, <1>3, TakeStep

LEMMA BatchesUnchanged == BatchesInv /\ UNCHANGED bvars => BatchesInv'
<1> SUFFICES ASSUME BatchesInv, UNCHANGED bvars PROVE BatchesInv'
  OBVIOUS
<1>1. pass' = pass /\ left' = left /\ batches' = batches
  BY DEF bvars
<1>2. Captured' = Captured
  BY <1>1 DEF Captured
<1>3. B!Rate' = B!Rate
  BY <1>1 DEF B!Rate
<1>4. \A i \in DOMAIN batches : Covers(batches[i])' <=> Covers(batches[i])
  BY <1>1, <1>3 DEF Covers, CoversAt, B!ToSet, B!Distance
<1> QED BY <1>1, <1>2, <1>4 DEF BatchesInv

LEMMA BatchesStart == MCInit => BatchesInv
<1> SUFFICES ASSUME MCInit PROVE BatchesInv
  OBVIOUS
<1>1. pass \in Passes /\ left \in Seq(B!Targets) /\ left = pass.targets /\ batches = <<>>
  <2>1. CASE part = "pass"
    <3>1. B!BatchesInit
      BY <2>1 DEF MCInit
    <3>2. PICK chosen \in SUBSET Places, rate \in UserRates, limit \in Limits :
            \E width \in [chosen -> Widths], place \in [1..B!Cardinality(chosen) -> chosen] :
               pass = [targets |-> [i \in DOMAIN place |-> [at |-> place[i], width |-> width[place[i]]]],
                       rate |-> rate, limit |-> limit]
      BY <3>1 DEF B!BatchesInit
    <3>3. PICK width \in [chosen -> Widths], place \in [1..B!Cardinality(chosen) -> chosen] :
               pass = [targets |-> [i \in DOMAIN place |-> [at |-> place[i], width |-> width[place[i]]]],
                       rate |-> rate, limit |-> limit]
      BY <3>2
    <3> DEFINE n == B!Cardinality(chosen)
               ts == [i \in DOMAIN place |-> [at |-> place[i], width |-> width[place[i]]]]
    <3>4. n \in Nat
      <4>1. IsFiniteSet(chosen)
        BY BatchesAssumed, FS_Subset
      <4>2. B!Cardinality(chosen) = Cardinality(chosen)
        BY SameSizes
      <4> QED BY <4>1, <4>2, FS_CardinalityType
    <3> HIDE DEF n
    <3>5. \A i \in 1..n : [at |-> place[i], width |-> width[place[i]]] \in B!Targets
      BY DEF B!Targets, n
    <3>6. ts \in Seq(B!Targets)
      <4>1. DOMAIN place = 1..n
        BY DEF n
      <4> QED BY <3>4, <3>5, <4>1
    <3>7. left = pass.targets /\ batches = <<>>
      BY <3>1 DEF B!BatchesInit
    <3> HIDE DEF ts
    <3>8. pass = [targets |-> ts, rate |-> rate, limit |-> limit]
      BY <3>3 DEF ts
    <3> QED BY <3>6, <3>7, <3>8 DEF Passes
  <2>2. CASE part # "pass"
    <3>1. pass = FixedPass /\ left = <<>> /\ batches = <<>>
      BY <2>2 DEF MCInit
    <3> QED BY <3>1, BatchesAssumed DEF FixedPass, Passes
  <2> QED BY <2>1, <2>2
<1>2. Captured = <<>>
  BY <1>1 DEF Captured
<1>3. B!FlattenSeq(Captured) = <<>> /\ <<>> \o left = left
  BY <1>1, <1>2, FlattenEmpty, ConcatEmptySeq
<1> QED BY <1>1, <1>3 DEF BatchesInv

-----------------------------------------------------------------------------
(* The three together *)

LEMMA JobsPartInv == MCSpec => []JobsInv
<1>1. MCInit => JobsInv
  BY JobsInitInv DEF MCInit
<1>2. [MCNext]_allvars => [Next]_vars
  BY DEF MCNext, JobsStep, RecordsStep, PassStep, allvars
<1>3. JobsInv /\ [MCNext]_allvars => JobsInv'
  BY <1>2, JobsStepInv
<1> QED BY <1>1, <1>3, PTL DEF MCSpec

LEMMA PassPartInv == MCSpec => []BatchesInv
<1>1. BatchesInv /\ [MCNext]_allvars => BatchesInv'
  BY BatchesStep, BatchesUnchanged DEF MCNext, JobsStep, RecordsStep, PassStep, allvars
<1> QED BY <1>1, BatchesStart, PTL DEF MCSpec

(* Whatever targets, bandwidths, rate and channel limit a pass has, it       *)
(* listens to each target exactly once, in order of frequency, and whatever  *)
(* it captures together is heard with its noise (mapperJobTargetBatches,     *)
(* mapperTargetsFitSampleWindow, mapperBatchCaptureSpec).                    *)
THEOREM PassIsHeard == MCSpec => []PassHeard
BY PassPartInv, BatchesMean, PTL

(* The jobs, the records and the captures of a pass keep their types.       *)
THEOREM MapperTyped == MCSpec => []MapperTypeOK
<1>1. TypeOK /\ R!TypeOK /\ B!BatchesTypeOK => MapperTypeOK
  BY DEF MapperTypeOK
<1> QED BY <1>1, JobsPartInv, InvariantMeans, RecordsTyped, PassPartInv, BatchesMean, PTL
==============================================================================
