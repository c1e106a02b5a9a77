-------------------------- MODULE InstrumentsProofs --------------------------
(***************************************************************************)
(* What the instruments keep for every number of callers, receivers, jobs, *)
(* sweeps, viewers and edits: MCInstruments' InstrumentsKept.  One section *)
(* per instrument; they share no variable.                                 *)
(***************************************************************************)
EXTENDS MCInstruments, SequenceTheorems, TLAPS

(* One place of a sequence of records changed, all others as before. *)
LEMMA OnePlace ==
    ASSUME NEW Elems, NEW s \in Seq(Elems), NEW t, NEW i \in DOMAIN s, NEW e \in Elems,
           t = [s EXCEPT ![i] = e]
    PROVE  /\ t \in Seq(Elems) /\ Len(t) = Len(s) /\ DOMAIN t = DOMAIN s
           /\ t[i] = e /\ \A j \in DOMAIN s : j # i => t[j] = s[j]
<1>1. DOMAIN s = 1..Len(s)
  BY LenProperties
<1>2. t \in Seq(Elems) /\ Len(t) = Len(s)
  BY <1>1, ExceptSeq
<1> QED BY <1>1, <1>2, LenProperties

(* A sequence with one more record. *)
LEMMA OneMore ==
    ASSUME NEW Elems, NEW s \in Seq(Elems), NEW t, NEW e \in Elems, t = Append(s, e)
    PROVE  /\ t \in Seq(Elems) /\ Len(t) = Len(s) + 1 /\ DOMAIN t = DOMAIN s \cup {Len(t)}
           /\ DOMAIN s = 1..Len(s) /\ Len(s) \in Nat /\ Len(t) \notin DOMAIN s
           /\ t[Len(t)] = e /\ \A j \in DOMAIN s : t[j] = s[j]
<1>1. DOMAIN s = 1..Len(s) /\ Len(s) \in Nat
  BY LenProperties
<1>2. t \in Seq(Elems) /\ Len(t) = Len(s) + 1
  BY AppendProperties
<1>3. DOMAIN t = 1..Len(t)
  BY <1>2, LenProperties
<1>4. t[Len(t)] = e /\ \A j \in DOMAIN s : t[j] = s[j]
  BY <1>1, <1>2, AppendProperties
<1> QED BY <1>1, <1>2, <1>3, <1>4

-----------------------------------------------------------------------------
(* Transmit jobs. *)

Job == [dry : BOOLEAN, cancelled : BOOLEAN,
        phase : {"starting", "on air", "ended", "failed", "done"}]
JobReport == [state : {"idle", "running", "stopped", "error", "complete"}, job : Nat]
JobRequest == [pc : {"idle", "preparing", "stopping"}, dry : BOOLEAN, job : Nat, seen : Nat]

\* Whoever prepares holds the generation lock, and no job is installed then.
TransmitterInv ==
    /\ generation \in Callers \cup {Nobody}
    /\ cancel \in Nat /\ cancel <= Len(jobs)
    /\ reported \in JobReport /\ reported.job <= Len(jobs)
    /\ reported.job = 0 <=> reported.state = "idle"
    /\ jobs \in Seq(Job)
    /\ requests \in [Callers -> JobRequest]
    /\ \A c \in Callers : requests[c].pc = "preparing" <=> generation = c
    /\ \A c \in Callers : requests[c].pc = "stopping" =>
         requests[c].job \in DOMAIN jobs /\ requests[c].job <= requests[c].seen
    /\ T!JobCancellable /\ T!ReportTruthful

LEMMA TransmitterInit == T!Init => TransmitterInv
BY EmptySeq, InstrumentsAssumption
   DEF T!Init, TransmitterInv, JobReport, JobRequest, T!Quiet, T!JobCancellable, T!ReportTruthful,
       T!TransmitterAssumption

LEMMA JobTyped == ASSUME TransmitterInv, NEW j \in DOMAIN jobs PROVE jobs[j] \in Job
BY LenProperties, ElementOfSeq DEF TransmitterInv

(* A step of a job changes its phase only. *)
LEMMA JobMoves ==
    ASSUME TransmitterInv, NEW j \in DOMAIN jobs, T!Unfinished(j),
           NEW phase \in {"on air", "ended", "failed"}, T!Becomes(j, phase)
    PROVE  TransmitterInv'
<1> DEFINE moved == [jobs[j] EXCEPT !.phase = phase]
<1>1. moved \in Job
  BY JobTyped DEF Job
<1>2. jobs' = [jobs EXCEPT ![j] = moved]
  BY DEF T!Becomes
<1>3. /\ jobs' \in Seq(Job) /\ Len(jobs') = Len(jobs) /\ DOMAIN jobs' = DOMAIN jobs
      /\ \A k \in DOMAIN jobs : k # j => jobs'[k] = jobs[k]
  <2>1. jobs \in Seq(Job)
    BY DEF TransmitterInv
  <2> HIDE DEF moved
  <2> QED BY <1>1, <1>2, <2>1, OnePlace, Zenon
<1> QED BY <1>3 DEF T!Becomes, TransmitterInv, T!JobCancellable, T!ReportTruthful, T!Unfinished

(* The end of a job is the end of the one installed. *)
LEMMA JobFinishes ==
    ASSUME TransmitterInv, NEW j \in DOMAIN jobs, T!Finish(j)
    PROVE  TransmitterInv'
<1> DEFINE over == [jobs[j] EXCEPT !.phase = "done"]
<1>1. over \in Job /\ over.phase = "done"
  BY JobTyped DEF Job
<1>2. jobs' = [jobs EXCEPT ![j] = over]
  BY DEF T!Finish
<1>3. /\ jobs' \in Seq(Job) /\ Len(jobs') = Len(jobs) /\ DOMAIN jobs' = DOMAIN jobs
      /\ jobs'[j].phase = "done" /\ \A k \in DOMAIN jobs : k # j => jobs'[k] = jobs[k]
  <2> HIDE DEF over
  <2> QED BY <1>1, <1>2, OnePlace DEF TransmitterInv
<1>4. j \in Nat /\ j # 0 /\ j <= Len(jobs) /\ cancel = j
  BY LenProperties DEF TransmitterInv, T!JobCancellable, T!Unfinished, T!Finish
<1>5. \A k \in DOMAIN jobs' : jobs'[k].phase = "done"
  BY <1>3, <1>4 DEF TransmitterInv, T!JobCancellable, T!Unfinished
<1>6. reported' \in JobReport /\ reported'.job = j /\ reported'.state \notin {"idle", "running"}
  BY <1>4 DEF T!Finish, JobReport
<1> QED BY <1>3, <1>4, <1>5, <1>6
       DEF T!Finish, TransmitterInv, T!JobCancellable, T!ReportTruthful, T!Unfinished

(* The caller who prepared installs its job where there is none. *)
LEMMA JobInstalled ==
    ASSUME TransmitterInv, NEW c \in Callers, T!Install(c)
    PROVE  TransmitterInv'
<1> DEFINE new == [dry |-> requests[c].dry, cancelled |-> FALSE, phase |-> "starting"]
<1>1. new \in Job
  BY DEF TransmitterInv, JobRequest, Job
<1>2. jobs' = Append(jobs, new)
  BY DEF T!Install
<1>3. /\ jobs' \in Seq(Job) /\ Len(jobs') = Len(jobs) + 1 /\ DOMAIN jobs' = DOMAIN jobs \cup {Len(jobs')}
      /\ Len(jobs) \in Nat /\ \A j \in DOMAIN jobs : jobs'[j] = jobs[j]
  <2> HIDE DEF new
  <2> QED BY <1>1, <1>2, OneMore DEF TransmitterInv
<1>4. generation = c /\ cancel = 0 /\ generation' = Nobody /\ Nobody \notin Callers
  BY InstrumentsAssumption
     DEF T!Install, TransmitterInv, T!JobCancellable, T!TransmitterAssumption
<1>5. \A j \in DOMAIN jobs : ~T!Unfinished(j)
  BY <1>3, <1>4, LenProperties DEF TransmitterInv, T!JobCancellable
<1>6. \A j \in DOMAIN jobs' : jobs'[j].phase # "done" => j = cancel'
  BY <1>3, <1>5 DEF T!Install, T!Unfinished
<1>7. /\ requests' \in [Callers -> JobRequest] /\ requests'[c].pc = "idle"
      /\ \A d \in Callers : d # c => requests'[d] = requests[d]
  BY DEF T!Install, TransmitterInv, JobRequest, T!Quiet
<1>8. \A d \in Callers : requests'[d].pc # "preparing"
  BY <1>4, <1>7 DEF TransmitterInv
<1> QED BY <1>3, <1>4, <1>6, <1>7, <1>8
       DEF T!Install, TransmitterInv, JobReport, T!JobCancellable, T!ReportTruthful, T!Unfinished

(* A request takes or gives up the lock, or stops a job. *)
LEMMA JobRequested ==
    ASSUME TransmitterInv, NEW c \in Callers,
           \/ \E dry \in BOOLEAN : T!Prepare(c, dry)
           \/ T!GivesUp(c) \/ T!StopTransmit(c)
    PROVE  TransmitterInv'
<1>1. /\ UNCHANGED <<cancel, reported, jobs>> /\ Nobody \notin Callers
      /\ jobs \in Seq(Job) /\ Len(jobs) \in Nat /\ DOMAIN jobs = 1..Len(jobs)
  BY InstrumentsAssumption, LenProperties
     DEF T!Prepare, T!GivesUp, T!StopTransmit, TransmitterInv, T!TransmitterAssumption
<1>2. PICK q \in JobRequest :
        /\ requests' = [requests EXCEPT ![c] = q]
        /\ \/ q.pc = "preparing" /\ cancel = 0 /\ generation = Nobody /\ generation' = c
           \/ q.pc = "idle" /\ generation = c /\ generation' = Nobody
           \/ /\ q.pc = "stopping" /\ q.job = cancel /\ q.seen = Len(jobs) /\ cancel # 0
              /\ requests[c].pc = "idle" /\ generation' = generation
  <2>1. ASSUME NEW dry \in BOOLEAN, T!Prepare(c, dry)
        PROVE  [T!Quiet EXCEPT !.pc = "preparing", !.dry = dry] \in JobRequest
    BY DEF T!Quiet, JobRequest
  <2>2. T!Quiet \in JobRequest
    BY DEF T!Quiet, JobRequest
  <2>3. [T!Quiet EXCEPT !.pc = "stopping", !.job = cancel, !.seen = Len(jobs)] \in JobRequest
    BY <1>1 DEF T!Quiet, JobRequest, TransmitterInv
  <2>4. ASSUME T!GivesUp(c) PROVE generation = c
    BY <2>4 DEF T!GivesUp, TransmitterInv
  <2> QED BY <2>1, <2>2, <2>3, <2>4 DEF T!Prepare, T!GivesUp, T!StopTransmit, T!Quiet
<1>3. /\ requests' \in [Callers -> JobRequest] /\ requests'[c] = q
      /\ \A d \in Callers : d # c => requests'[d] = requests[d]
  BY <1>2 DEF TransmitterInv
<1>4. \A d \in Callers : requests[d].pc = "preparing" <=> generation = d
  BY DEF TransmitterInv
<1>5. /\ \A d \in Callers : requests'[d].pc = "preparing" <=> generation' = d
      /\ generation' \in Callers \cup {Nobody}
      /\ generation' # Nobody => cancel = 0
  <2>1. generation' \in Callers \cup {Nobody}
    BY <1>2 DEF TransmitterInv
  <2>2. generation' # Nobody => cancel = 0
    BY <1>2 DEF TransmitterInv, T!JobCancellable
  <2>3. ASSUME NEW d \in Callers PROVE requests'[d].pc = "preparing" <=> generation' = d
    BY <1>1, <1>2, <1>3, <1>4, <2>3
  <2> QED BY <2>1, <2>2, <2>3
<1>6. q.pc = "stopping" => q.job \in DOMAIN jobs /\ q.job <= q.seen
  BY <1>1, <1>2 DEF TransmitterInv
<1> QED BY <1>1, <1>3, <1>5, <1>6
       DEF TransmitterInv, T!JobCancellable, T!ReportTruthful, T!Unfinished

(* A stop marks the job it found, however late. *)
LEMMA JobCancelled ==
    ASSUME TransmitterInv, NEW c \in Callers, T!Cancels(c)
    PROVE  TransmitterInv'
<1> DEFINE j == requests[c].job
           marked == [jobs[j] EXCEPT !.cancelled = TRUE]
<1>1. j \in DOMAIN jobs /\ jobs \in Seq(Job)
  BY DEF T!Cancels, TransmitterInv
<1>2. marked \in Job /\ marked.phase = jobs[j].phase
  BY <1>1, JobTyped DEF Job
<1>3. jobs' = [jobs EXCEPT ![j] = marked]
  BY DEF T!Cancels
<1>4. /\ jobs' \in Seq(Job) /\ Len(jobs') = Len(jobs) /\ DOMAIN jobs' = DOMAIN jobs
      /\ \A k \in DOMAIN jobs : jobs'[k].phase = jobs[k].phase
  <2> HIDE DEF j, marked
  <2> QED BY <1>1, <1>2, <1>3, OnePlace
<1>5. /\ requests' \in [Callers -> JobRequest] /\ requests'[c].pc = "idle"
      /\ \A d \in Callers : d # c => requests'[d] = requests[d]
  BY DEF T!Cancels, TransmitterInv, JobRequest, T!Quiet
<1>6. requests[c].pc = "stopping" /\ UNCHANGED <<generation, cancel, reported>>
  BY DEF T!Cancels
<1> QED BY <1>4, <1>5, <1>6
       DEF TransmitterInv, T!JobCancellable, T!ReportTruthful, T!Unfinished

LEMMA TransmitterStep == ASSUME TransmitterInv, [T!Next]_tvars PROVE TransmitterInv'
<1>1. ASSUME NEW j \in DOMAIN jobs, T!ToolStarts(j) \/ T!ToolExits(j) \/ T!Killed(j)
      PROVE  TransmitterInv'
  <2>1. T!Unfinished(j) /\ \E phase \in {"on air", "ended", "failed"} : T!Becomes(j, phase)
    BY <1>1 DEF T!ToolStarts, T!ToolExits, T!Killed, T!Unfinished
  <2> QED BY <2>1, JobMoves
<1>2. CASE UNCHANGED tvars
  BY <1>2 DEF tvars, TransmitterInv, T!JobCancellable, T!ReportTruthful, T!Unfinished
<1> QED BY <1>1, <1>2, JobFinishes, JobInstalled, JobRequested, JobCancelled DEF T!Next

(* A stop marks only the job that was installed when it was asked for. *)
LEMMA OnlyThatJob == ASSUME TransmitterInv, [T!Next]_tvars PROVE [T!LaterJobSpared]_tvars
<1> SUFFICES ASSUME T!Next, NEW j \in DOMAIN jobs, jobs'[j].cancelled, ~jobs[j].cancelled
             PROVE  \E c \in Callers : requests[c].pc = "stopping" /\ j <= requests[c].seen
  BY DEF T!LaterJobSpared
<1>1. ASSUME NEW k \in DOMAIN jobs,
             T!ToolStarts(k) \/ T!ToolExits(k) \/ T!Killed(k) \/ T!Finish(k)
      PROVE  FALSE
  <2>1. PICK phase : jobs' = [jobs EXCEPT ![k].phase = phase]
    BY <1>1 DEF T!ToolStarts, T!ToolExits, T!Killed, T!Finish, T!Becomes
  <2>2. jobs'[j].cancelled = jobs[j].cancelled
    BY <2>1, JobTyped DEF Job
  <2> QED BY <2>2
<1>2. ASSUME NEW c \in Callers, T!Install(c) PROVE FALSE
  <2>1. PICK new \in Job : jobs' = Append(jobs, new)
    BY <1>2 DEF T!Install, TransmitterInv, JobRequest, Job
  <2>2. jobs'[j] = jobs[j]
    BY <2>1, OneMore DEF TransmitterInv
  <2> QED BY <2>2
<1>3. ASSUME NEW c \in Callers, T!Cancels(c)
      PROVE  requests[c].pc = "stopping" /\ j <= requests[c].seen
  <2>1. j = requests[c].job
    BY <1>3 DEF T!Cancels
  <2> QED BY <1>3, <2>1 DEF T!Cancels, TransmitterInv
<1>4. jobs' # jobs
  OBVIOUS
<1> QED BY <1>1, <1>2, <1>3, <1>4 DEF T!Next, T!Prepare, T!GivesUp, T!StopTransmit

-----------------------------------------------------------------------------
(* The spectrum analyzer. *)

SweepRecord ==
    [running : BOOLEAN, closed : Nat, slices : 0..MaxSlices, before : 0..MaxSlices,
     phase : {"begin", "passing", "pausing", "ended"},
     receivers : [Swept -> {"done", "look", "capture"}], took : BOOLEAN, cleared : BOOLEAN]

\* The channel of a sweep is closed once, with Running; workers belong to a
\* pass, and a pass that took nothing counts what it began with.
SweepState ==
    {w \in SweepRecord :
        /\ w.closed = IF w.running THEN 0 ELSE 1
        /\ w.phase # "passing" => \A r \in Swept : w.receivers[r] = "done"
        /\ w.phase = "passing" => w.took \/ w.cleared \/ w.slices = w.before}

\* Only a start goes on to install a sweep.
Analyst ==
    {a \in [pc : {"idle", "stop", "install", "clear"}, starts : BOOLEAN, sweep : Nat] :
        /\ a.starts => a.pc \in {"stop", "install"}
        /\ a.pc = "install" => a.starts}

\* A start that meets no other holds the installed sweep until it is closed.
StartsAlone ==
    /\ \A c, d \in Callers : analysts[c].starts /\ analysts[d].starts => c = d
    /\ \A c \in Callers : analysts[c].starts =>
         \/ analysts[c].pc = "stop" /\ analysts[c].sweep = installed
         \/ analysts[c].pc = "install" /\ (installed = 0 \/ S!Closed(installed))

AnalyzerInv ==
    /\ installed \in Nat /\ installed <= Len(sweeps)
    /\ sweeps \in Seq(SweepState)
    /\ analysts \in [Callers -> Analyst]
    /\ \A c \in Callers : /\ analysts[c].sweep <= Len(sweeps)
                          /\ analysts[c].pc = "clear" => analysts[c].sweep # 0
    /\ overlapped \/ StartsAlone
    /\ S!OverlapOnlyOrphans

LEMMA SliceBound == MaxSlices \in Nat
<1>1. S!SpectrumAnalyzerAssumption
  BY InstrumentsAssumption
<1>2. {MaxSweeps, MaxSlices} \subseteq Nat
  BY <1>1 DEF S!SpectrumAnalyzerAssumption
<1> QED BY <1>2

LEMMA AnalyzerInit == S!Init => AnalyzerInv
BY EmptySeq DEF S!Init, S!Away, AnalyzerInv, Analyst, StartsAlone, S!OverlapOnlyOrphans

LEMMA SweepTyped ==
    ASSUME AnalyzerInv
    PROVE  /\ \A s \in DOMAIN sweeps : sweeps[s] \in SweepState
           /\ Len(sweeps) \in Nat /\ DOMAIN sweeps = 1..Len(sweeps)
BY LenProperties, ElementOfSeq DEF AnalyzerInv

\* A sweep goes on, or is closed, and never comes back.
Changes(s, next) ==
    /\ next \in SweepState /\ sweeps' = [sweeps EXCEPT ![s] = next]
    /\ next.closed >= sweeps[s].closed
    /\ next.phase # "ended" => sweeps[s].phase # "ended"

LEMMA SweepChanges ==
    ASSUME AnalyzerInv, NEW s \in DOMAIN sweeps, NEW next, Changes(s, next)
    PROVE  /\ sweeps' \in Seq(SweepState) /\ Len(sweeps') = Len(sweeps)
           /\ DOMAIN sweeps' = DOMAIN sweeps /\ sweeps'[s] = next
           /\ \A k \in DOMAIN sweeps : sweeps'[k].closed >= sweeps[k].closed
           /\ \A k \in DOMAIN sweeps : sweeps'[k].phase # "ended" => sweeps[k].phase # "ended"
           /\ \A k \in DOMAIN sweeps : sweeps[k].closed \in Nat /\ sweeps'[k].closed \in Nat
<1>1. sweeps \in Seq(SweepState)
  BY DEF AnalyzerInv
<1>2. /\ sweeps' \in Seq(SweepState) /\ Len(sweeps') = Len(sweeps)
      /\ DOMAIN sweeps' = DOMAIN sweeps /\ sweeps'[s] = next
      /\ \A k \in DOMAIN sweeps : k # s => sweeps'[k] = sweeps[k]
  BY <1>1, OnePlace DEF Changes
<1>3. \A k \in DOMAIN sweeps : sweeps[k].closed \in Nat /\ sweeps'[k].closed \in Nat
  BY <1>2, SweepTyped DEF Changes, SweepState, SweepRecord
<1> QED BY <1>2, <1>3 DEF Changes

(* Steps of the loop. *)
SweepTurns(s) ==
    /\ UNCHANGED <<installed, analysts, overlapped>>
    /\ \E next : Changes(s, next) /\ next.closed = sweeps[s].closed

LEMMA SweepTurn ==
    ASSUME AnalyzerInv, NEW s \in DOMAIN sweeps, NEW next \in SweepState, S!Sweep(s, next),
           next.closed = sweeps[s].closed, next.phase # "ended" => sweeps[s].phase # "ended"
    PROVE  SweepTurns(s)
<1>1. next.closed >= sweeps[s].closed
  BY DEF SweepState, SweepRecord
<1>2. Changes(s, next)
  BY <1>1 DEF Changes, S!Sweep
<1> QED BY <1>2 DEF SweepTurns, S!Sweep

LEMMA SweepGoesOn ==
    ASSUME AnalyzerInv, NEW s \in DOMAIN sweeps, S!Loop(s)
    PROVE  SweepTurns(s)
<1>1. sweeps[s] \in SweepState /\ sweeps[s] \in SweepRecord
  BY SweepTyped DEF SweepState
<1>2. CASE S!Begin(s)
  <2> DEFINE next == [sweeps[s] EXCEPT !.before = sweeps[s].slices, !.phase = "passing",
                                       !.receivers = [r \in Swept |-> "look"]]
  <2>1. next \in SweepRecord /\ next.closed = sweeps[s].closed /\ next.phase = "passing"
        /\ next.running = sweeps[s].running /\ next.slices = next.before
    BY <1>1 DEF SweepRecord
  <2>2. S!Sweep(s, next) /\ sweeps[s].phase = "begin"
    BY <1>2 DEF S!Begin
  <2> HIDE DEF next
  <2>3. next \in SweepState
    BY <1>1, <2>1 DEF SweepState
  <2> QED BY <2>1, <2>2, <2>3, SweepTurn
<1>3. CASE S!EndPass(s) \/ S!Pause(s)
  <2>1. PICK phase \in {"begin", "pausing", "ended"} :
          \/ S!Sweep(s, [sweeps[s] EXCEPT !.phase = phase])
          \/ S!Sweep(s, [S!PassOver(s) EXCEPT !.phase = phase])
    BY <1>3 DEF S!EndPass, S!Pause
  <2>2. sweeps[s].phase # "ended" /\ \A r \in Swept : sweeps[s].receivers[r] = "done"
    BY <1>1, <1>3 DEF S!EndPass, S!Pause, SweepState
  <2>3. ASSUME NEW next \in SweepRecord, S!Sweep(s, next), next.closed = sweeps[s].closed,
               next.running = sweeps[s].running, next.receivers = sweeps[s].receivers,
               next.phase = phase
        PROVE  SweepTurns(s)
    <3>1. next \in SweepState
      BY <1>1, <2>2, <2>3 DEF SweepState
    <3> QED BY <2>2, <2>3, <3>1, SweepTurn
  <2>4. ASSUME NEW next, next = [sweeps[s] EXCEPT !.phase = phase]
        PROVE  /\ next \in SweepRecord /\ next.closed = sweeps[s].closed
               /\ next.running = sweeps[s].running /\ next.receivers = sweeps[s].receivers
               /\ next.phase = phase
    BY <1>1, <2>4 DEF SweepRecord
  <2>5. ASSUME NEW next, next = [S!PassOver(s) EXCEPT !.phase = phase]
        PROVE  /\ next \in SweepRecord /\ next.closed = sweeps[s].closed
               /\ next.running = sweeps[s].running /\ next.receivers = sweeps[s].receivers
               /\ next.phase = phase
    <3>1. 0 \in 0..MaxSlices
      BY SliceBound
    <3>2. S!PassOver(s) = [sweeps[s] EXCEPT !.before = 0, !.took = FALSE, !.cleared = FALSE]
      BY DEF S!PassOver
    <3> QED BY <1>1, <2>5, <3>1, <3>2 DEF SweepRecord
  <2> QED BY <2>1, <2>3, <2>4, <2>5
<1>4. ASSUME NEW r \in Swept, S!Look(s, r) \/ S!Capture(s, r)
      PROVE  SweepTurns(s)
  <2>1. ASSUME NEW next \in SweepRecord, S!Sweep(s, next), next.closed = sweeps[s].closed,
               next.running = sweeps[s].running, next.phase = sweeps[s].phase,
               next.took \/ next.cleared \/ next.slices = next.before
        PROVE  SweepTurns(s)
    <3>1. sweeps[s].phase = "passing"
      BY <1>4 DEF S!Look, S!Capture
    <3>2. next \in SweepState
      BY <1>1, <2>1, <3>1 DEF SweepState
    <3> QED BY <2>1, <3>1, <3>2, SweepTurn
  <2>2. ASSUME NEW step \in {"look", "capture", "done"}, NEW next,
               next = [sweeps[s] EXCEPT !.receivers[r] = step]
        PROVE  /\ next \in SweepRecord /\ next.closed = sweeps[s].closed
               /\ next.running = sweeps[s].running /\ next.phase = sweeps[s].phase
               /\ next.took \/ next.cleared \/ next.slices = next.before
    <3>1. sweeps[s].phase = "passing"
      BY <1>4 DEF S!Look, S!Capture
    <3> QED BY <1>1, <2>2, <3>1 DEF SweepRecord, SweepState
  <2>3. ASSUME sweeps[s].slices < MaxSlices, NEW next,
               next = [sweeps[s] EXCEPT !.receivers[r] = "look", !.took = TRUE, !.slices = @ + 1]
        PROVE  /\ next \in SweepRecord /\ next.closed = sweeps[s].closed
               /\ next.running = sweeps[s].running /\ next.phase = sweeps[s].phase
               /\ next.took
    <3>1. sweeps[s].slices \in 0..MaxSlices /\ sweeps[s].slices + 1 \in 0..MaxSlices
      BY <1>1, <2>3, SliceBound DEF SweepRecord
    <3> QED BY <1>1, <2>3, <3>1 DEF SweepRecord
  <2> QED BY <1>4, <2>1, <2>2, <2>3 DEF S!Look, S!Capture
<1> QED BY <1>2, <1>3, <1>4 DEF S!Loop

(* Sweeps that go on leave what holds of all of them. *)
SweepsGoOn ==
    /\ sweeps' \in Seq(SweepState) /\ Len(sweeps') = Len(sweeps) /\ DOMAIN sweeps' = DOMAIN sweeps
    /\ \A k \in DOMAIN sweeps : S!Closed(k) => S!Closed(k)'
    /\ \A k \in DOMAIN sweeps : sweeps'[k].phase # "ended" => sweeps[k].phase # "ended"

LEMMA ChangeGoesOn ==
    ASSUME AnalyzerInv, NEW s \in DOMAIN sweeps, NEW next, Changes(s, next)
    PROVE  SweepsGoOn
BY SweepChanges DEF SweepsGoOn, S!Closed

LEMMA OrphansKept ==
    ASSUME AnalyzerInv, SweepsGoOn, installed' = installed, overlapped => overlapped'
    PROVE  S!OverlapOnlyOrphans'
BY DEF AnalyzerInv, SweepsGoOn, S!OverlapOnlyOrphans

LEMMA AnalystIs ==
    ASSUME AnalyzerInv, NEW c \in Callers, NEW a \in Analyst, S!Step(c, a)
    PROVE  /\ analysts' \in [Callers -> Analyst] /\ analysts'[c] = a
           /\ \A d \in Callers : d # c => analysts'[d] = analysts[d]
           /\ analysts[c] \in Analyst
BY DEF AnalyzerInv, S!Step

LEMMA LoopKeeps ==
    ASSUME AnalyzerInv, NEW s \in DOMAIN sweeps, S!Loop(s)
    PROVE  AnalyzerInv'
<1>1. SweepsGoOn /\ UNCHANGED <<installed, analysts, overlapped>>
  BY SweepGoesOn, ChangeGoesOn DEF SweepTurns
<1>2. S!OverlapOnlyOrphans'
  BY <1>1, OrphansKept
<1>3. StartsAlone => StartsAlone'
  BY <1>1, SweepTyped DEF StartsAlone, AnalyzerInv, SweepsGoOn
<1> QED BY <1>1, <1>2, <1>3 DEF AnalyzerInv, SweepsGoOn

LEMMA RequestKeeps ==
    ASSUME AnalyzerInv, NEW c \in Callers,
           (\E starts \in BOOLEAN : S!Request(c, starts)) \/ S!FindToClear(c)
    PROVE  AnalyzerInv'
<1>1. /\ UNCHANGED <<installed, sweeps>> /\ installed \in Nat /\ analysts[c].pc = "idle"
      /\ analysts[c] \in Analyst
  BY DEF S!Request, S!FindToClear, AnalyzerInv
<1>0. overlapped => overlapped'
  BY DEF S!Request, S!FindToClear
<1>2. PICK a \in Analyst :
        /\ S!Step(c, a) /\ a.sweep = installed /\ a.pc \in {"stop", "clear"}
        /\ a.pc = "clear" => installed # 0 /\ ~a.starts /\ overlapped' = overlapped
        /\ a.pc = "stop" =>
             overlapped' = (overlapped \/ (a.starts /\ \E d \in Callers : analysts[d].starts))
  <2>1. ASSUME NEW starts \in BOOLEAN
        PROVE  [pc |-> "stop", starts |-> starts, sweep |-> installed] \in Analyst
    BY <1>1 DEF Analyst
  <2>2. [S!Away EXCEPT !.pc = "clear", !.sweep = installed] \in Analyst
    BY <1>1 DEF Analyst, S!Away
  <2> QED BY <2>1, <2>2 DEF S!Request, S!FindToClear, S!Away
<1>3. /\ analysts' \in [Callers -> Analyst] /\ analysts'[c] = a
      /\ \A d \in Callers : d # c => analysts'[d] = analysts[d]
  BY <1>2, AnalystIs
<1>4. S!OverlapOnlyOrphans'
  BY <1>0, <1>1 DEF AnalyzerInv, S!OverlapOnlyOrphans, S!Closed
<1>5. overlapped' \/ StartsAlone'
  <2> SUFFICES ASSUME ~overlapped' PROVE StartsAlone'
    OBVIOUS
  <2>1. StartsAlone /\ (a.starts => \A d \in Callers : ~analysts[d].starts)
    BY <1>0, <1>1, <1>2 DEF AnalyzerInv
  <2>2. a.starts => a.pc = "stop"
    BY <1>2
  <2>3. \A d \in Callers : analysts'[d].starts =>
          \/ analysts'[d].pc = "stop" /\ analysts'[d].sweep = installed'
          \/ analysts'[d].pc = "install" /\ (installed' = 0 \/ S!Closed(installed)')
    BY <1>1, <1>2, <1>3, <2>1, <2>2 DEF StartsAlone, S!Closed
  <2> QED BY <1>3, <2>1, <2>3 DEF StartsAlone
<1> QED BY <1>1, <1>2, <1>3, <1>4, <1>5 DEF AnalyzerInv

LEMMA ClearKeeps ==
    ASSUME AnalyzerInv, NEW c \in Callers, S!Clear(c)
    PROVE  AnalyzerInv'
<1> DEFINE s == analysts[c].sweep
           next == [sweeps[s] EXCEPT !.slices = 0, !.cleared = @ \/ sweeps[s].phase = "passing"]
<1>1. s \in DOMAIN sweeps /\ analysts[c] \in Analyst
  BY SweepTyped DEF S!Clear, AnalyzerInv, Analyst
<1>2. sweeps[s] \in SweepState /\ sweeps[s] \in SweepRecord
  BY <1>1, SweepTyped DEF SweepState
<1>3. 0 \in 0..MaxSlices
  BY SliceBound
<1>4. /\ next \in SweepRecord /\ next.closed = sweeps[s].closed /\ next.phase = sweeps[s].phase
      /\ next.running = sweeps[s].running /\ next.receivers = sweeps[s].receivers
      /\ next.phase = "passing" => next.cleared
  BY <1>2, <1>3 DEF SweepRecord
<1>5. sweeps' = [sweeps EXCEPT ![s] = next]
  BY DEF S!Clear
<1>6. S!Away \in Analyst /\ S!Step(c, S!Away) /\ UNCHANGED <<installed, overlapped>>
  BY DEF S!Clear, Analyst, S!Away
<1> HIDE DEF s, next
<1>7. Changes(s, next)
  BY <1>2, <1>4, <1>5 DEF Changes, SweepState, SweepRecord
<1>8. SweepsGoOn
  BY <1>1, <1>7, ChangeGoesOn
<1>9. /\ analysts' \in [Callers -> Analyst] /\ analysts'[c] = S!Away
      /\ \A d \in Callers : d # c => analysts'[d] = analysts[d]
  BY <1>6, AnalystIs
<1>10. S!OverlapOnlyOrphans'
  BY <1>6, <1>8, OrphansKept
<1>11. StartsAlone => StartsAlone'
  BY <1>6, <1>8, <1>9, SweepTyped DEF StartsAlone, AnalyzerInv, SweepsGoOn, S!Away
<1>12. \A d \in Callers : /\ analysts'[d].sweep <= Len(sweeps')
                          /\ analysts'[d].pc = "clear" => analysts'[d].sweep # 0
  BY <1>8, <1>9, SweepTyped DEF AnalyzerInv, SweepsGoOn, S!Away
<1> QED BY <1>6, <1>8, <1>9, <1>10, <1>11, <1>12 DEF AnalyzerInv, SweepsGoOn

LEMMA CloseKeeps ==
    ASSUME AnalyzerInv, NEW c \in Callers, S!Close(c)
    PROVE  AnalyzerInv'
<1> DEFINE s == analysts[c].sweep
           next == [sweeps[s] EXCEPT !.closed = @ + 1, !.running = FALSE]
<1>1. /\ UNCHANGED <<installed, overlapped>> /\ analysts[c].pc = "stop" /\ analysts[c] \in Analyst
      /\ Len(sweeps) \in Nat /\ DOMAIN sweeps = 1..Len(sweeps)
  BY SweepTyped DEF S!Close, AnalyzerInv
<1>2. PICK a \in Analyst :
        /\ S!Step(c, a) /\ a.sweep <= Len(sweeps) /\ a.pc \in {"idle", "install"}
        /\ a.starts = analysts[c].starts
        /\ a.starts => a.pc = "install"
  <2>1. CASE analysts[c].starts
    <3>1. [analysts[c] EXCEPT !.pc = "install"] \in Analyst
      BY <1>1, <2>1 DEF Analyst
    <3> QED BY <1>1, <2>1, <3>1 DEF S!Close, AnalyzerInv, Analyst
  <2>2. CASE ~analysts[c].starts
    <3>1. S!Away \in Analyst
      BY DEF Analyst, S!Away
    <3>2. S!Away.pc = "idle" /\ S!Away.starts = FALSE /\ S!Away.sweep = 0
      BY DEF S!Away
    <3>3. S!Step(c, S!Away)
      BY <2>2 DEF S!Close
    <3>4. analysts[c].starts = FALSE /\ 0 <= Len(sweeps)
      BY <1>1, <2>2 DEF Analyst
    <3> QED BY <3>1, <3>2, <3>3, <3>4
  <2> QED BY <2>1, <2>2
<1>3. /\ analysts' \in [Callers -> Analyst] /\ analysts'[c] = a
      /\ \A d \in Callers : d # c => analysts'[d] = analysts[d]
  BY <1>2, AnalystIs
<1>4. SweepsGoOn /\ (s # 0 => sweeps'[s].closed > 0)
  <2>1. CASE s = 0 \/ ~sweeps[s].running
    <3>1. sweeps' = sweeps
      BY <2>1 DEF S!Close
    <3>2. s # 0 => sweeps[s] \in SweepState /\ sweeps'[s] = sweeps[s]
      BY <1>1, <3>1, SweepTyped DEF AnalyzerInv, Analyst
    <3>3. s # 0 => sweeps'[s].closed > 0
      BY <2>1, <3>2 DEF SweepState
    <3> QED BY <3>1, <3>3 DEF SweepsGoOn, AnalyzerInv, S!Closed
  <2>2. CASE s # 0 /\ sweeps[s].running
    <3>1. s \in DOMAIN sweeps /\ sweeps' = [sweeps EXCEPT ![s] = next]
      <4>1. s \in Nat /\ s <= Len(sweeps)
        BY <1>1 DEF AnalyzerInv, Analyst
      <4>3. sweeps' = [sweeps EXCEPT ![s] = next]
        BY <2>2 DEF S!Close
      <4> QED BY <1>1, <2>2, <4>1, <4>3
    <3>2. sweeps[s] \in SweepState /\ sweeps[s] \in SweepRecord
      BY <3>1, SweepTyped DEF SweepState
    <3>3. /\ next \in SweepState /\ next.closed = 1 /\ sweeps[s].closed = 0
          /\ next.phase = sweeps[s].phase
      <4>1. sweeps[s].closed = 0
        BY <2>2, <3>2 DEF SweepState
      <4>2. /\ next \in SweepRecord /\ next.closed = 1 /\ next.running = FALSE
            /\ next.phase = sweeps[s].phase /\ next.receivers = sweeps[s].receivers
            /\ next.took = sweeps[s].took /\ next.cleared = sweeps[s].cleared
            /\ next.slices = sweeps[s].slices /\ next.before = sweeps[s].before
        <5>1. next = [sweeps[s] EXCEPT !.closed = 1, !.running = FALSE]
          BY <4>1
        <5>2. ASSUME NEW w \in SweepRecord, NEW n, n = [w EXCEPT !.closed = 1, !.running = FALSE]
              PROVE  /\ n \in SweepRecord /\ n.closed = 1 /\ n.running = FALSE
                     /\ n.phase = w.phase /\ n.receivers = w.receivers
                     /\ n.took = w.took /\ n.cleared = w.cleared
                     /\ n.slices = w.slices /\ n.before = w.before
          BY <5>2 DEF SweepRecord
        <5> HIDE DEF next
        <5> QED BY <3>2, <5>1, <5>2
      <4> QED BY <3>2, <4>1, <4>2 DEF SweepState
    <3> HIDE DEF s, next
    <3>4. Changes(s, next)
      BY <3>1, <3>3 DEF Changes
    <3>5. sweeps'[s].closed > 0
      BY <3>1, <3>3, <3>4, SweepChanges
    <3> QED BY <3>1, <3>4, <3>5, ChangeGoesOn
  <2> QED BY <2>1, <2>2
<1>5. S!OverlapOnlyOrphans'
  BY <1>1, <1>4, OrphansKept
<1>6. StartsAlone => StartsAlone'
  <2> SUFFICES ASSUME StartsAlone PROVE StartsAlone'
    OBVIOUS
  <2>1. analysts[c].starts => s = installed
    BY <1>1 DEF StartsAlone
  <2>2. installed # 0 => installed \in DOMAIN sweeps
    BY <1>1 DEF AnalyzerInv
  <2>3. \A d \in Callers : analysts'[d].starts = analysts[d].starts
    BY <1>2, <1>3
  <2>4. ASSUME NEW d \in Callers, analysts'[d].starts
        PROVE  \/ analysts'[d].pc = "stop" /\ analysts'[d].sweep = installed'
               \/ analysts'[d].pc = "install" /\ (installed' = 0 \/ S!Closed(installed)')
    <3>1. CASE d = c
      <4>1. a.pc = "install" /\ s = installed
        BY <1>2, <1>3, <2>1, <2>4, <3>1
      <4> QED BY <1>1, <1>3, <1>4, <3>1, <4>1 DEF S!Closed
    <3>2. CASE d # c
      BY <1>1, <1>3, <1>4, <2>2, <2>4, <3>2 DEF StartsAlone, SweepsGoOn
    <3> QED BY <3>1, <3>2
  <2> QED BY <2>3, <2>4 DEF StartsAlone
<1>7. \A d \in Callers : /\ analysts'[d].sweep <= Len(sweeps')
                         /\ analysts'[d].pc = "clear" => analysts'[d].sweep # 0
  BY <1>2, <1>3, <1>4 DEF AnalyzerInv, SweepsGoOn
<1> QED BY <1>1, <1>3, <1>4, <1>5, <1>6, <1>7 DEF AnalyzerInv, SweepsGoOn

LEMMA InstallKeeps ==
    ASSUME AnalyzerInv, NEW c \in Callers, S!Install(c)
    PROVE  AnalyzerInv'
<1> DEFINE new == S!NewSweep
<1>1. new \in SweepState
  BY SliceBound DEF S!NewSweep, SweepState, SweepRecord
<1>2. /\ sweeps' = Append(sweeps, new) /\ installed' = Len(sweeps') /\ overlapped' = overlapped
      /\ analysts[c].pc = "install" /\ S!Step(c, S!Away) /\ sweeps \in Seq(SweepState)
  BY DEF S!Install, AnalyzerInv
<1> HIDE DEF new
<1>3. /\ sweeps' \in Seq(SweepState) /\ Len(sweeps') = Len(sweeps) + 1 /\ Len(sweeps) \in Nat
      /\ DOMAIN sweeps' = DOMAIN sweeps \cup {installed'} /\ DOMAIN sweeps = 1..Len(sweeps)
      /\ \A k \in DOMAIN sweeps : sweeps'[k] = sweeps[k]
  BY <1>1, <1>2, OneMore
<1>4. S!Away \in Analyst
  BY DEF S!Away, Analyst
<1>5. /\ analysts' \in [Callers -> Analyst] /\ analysts'[c] = S!Away /\ analysts[c] \in Analyst
      /\ \A d \in Callers : d # c => analysts'[d] = analysts[d]
  BY <1>2, <1>4, AnalystIs
<1>6. StartsAlone => StartsAlone'
  <2> SUFFICES ASSUME StartsAlone PROVE \A d \in Callers : ~analysts'[d].starts
    BY DEF StartsAlone
  <2>1. analysts[c].starts
    BY <1>2, <1>5 DEF Analyst
  <2> QED BY <1>5, <2>1 DEF StartsAlone, S!Away
<1>7. S!OverlapOnlyOrphans'
  <2> SUFFICES ASSUME ~overlapped, NEW k \in DOMAIN sweeps,
                      sweeps[k].phase # "ended", ~S!Closed(k)
               PROVE  FALSE
    BY <1>2, <1>3 DEF S!OverlapOnlyOrphans, S!Closed
  <2>1. k = installed /\ StartsAlone /\ k # 0
    BY <1>3 DEF AnalyzerInv, S!OverlapOnlyOrphans
  <2> QED BY <1>2, <1>5, <2>1 DEF StartsAlone, Analyst
<1>8. \A d \in Callers : /\ analysts'[d].sweep <= Len(sweeps')
                         /\ analysts'[d].pc = "clear" => analysts'[d].sweep # 0
  <2>1. S!Away.sweep = 0 /\ S!Away.pc = "idle"
    BY DEF S!Away
  <2>2. \A d \in Callers : /\ analysts[d].sweep \in Nat /\ analysts[d].sweep <= Len(sweeps)
                           /\ analysts[d].pc = "clear" => analysts[d].sweep # 0
    BY DEF AnalyzerInv, Analyst
  <2> QED BY <1>3, <1>5, <2>1, <2>2
<1> QED BY <1>2, <1>3, <1>5, <1>6, <1>7, <1>8 DEF AnalyzerInv

LEMMA AnalyzerStep == ASSUME AnalyzerInv, [S!Next]_svars PROVE AnalyzerInv'
<1>1. CASE UNCHANGED svars
  BY <1>1 DEF svars, AnalyzerInv, StartsAlone, S!OverlapOnlyOrphans, S!Closed
<1>2. CASE S!Next
  <2>1. S!SpectrumAnalyzerAssumption
    BY InstrumentsAssumption
  <2>2. Clearers \subseteq Callers
    BY <2>1 DEF S!SpectrumAnalyzerAssumption
  <2> QED BY <1>2, <2>2, LoopKeeps, RequestKeeps, ClearKeeps, CloseKeeps, InstallKeeps DEF S!Next
<1> QED BY <1>1, <1>2

LEMMA AnalyzerMeans == ASSUME AnalyzerInv PROVE S!TypeOK /\ S!ClosedOnce /\ S!OverlapOnlyOrphans
<1>1. S!ClosedOnce
  BY SweepTyped DEF S!ClosedOnce, SweepState, SweepRecord
<1>2. S!TypeOK
  BY SweepTyped DEF S!TypeOK, AnalyzerInv, SweepState, SweepRecord, Analyst
<1> QED BY <1>1, <1>2 DEF AnalyzerInv

(* A sweep takes a step of its loop, or keeps its pass. *)
LEMMA SweepKeepsPass ==
    ASSUME AnalyzerInv, S!Next, NEW s \in DOMAIN sweeps
    PROVE  \/ S!Loop(s)
           \/ sweeps'[s].phase = sweeps[s].phase /\ sweeps'[s].receivers = sweeps[s].receivers
<1>1. sweeps[s] \in SweepRecord
  BY SweepTyped DEF SweepState
<1>2. ASSUME NEW k \in DOMAIN sweeps, k # s, S!Loop(k)
      PROVE  sweeps'[s] = sweeps[s]
  <2>1. \E next : sweeps' = [sweeps EXCEPT ![k] = next]
    BY <1>2 DEF S!Loop, S!Begin, S!EndPass, S!Pause, S!Look, S!Capture, S!Sweep
  <2> QED BY <1>2, <2>1
<1>3. ASSUME NEW c \in Callers, S!Close(c)
      PROVE  sweeps'[s].phase = sweeps[s].phase /\ sweeps'[s].receivers = sweeps[s].receivers
  BY <1>1, <1>3 DEF S!Close, SweepRecord
<1>4. ASSUME NEW c \in Callers, S!Clear(c)
      PROVE  sweeps'[s].phase = sweeps[s].phase /\ sweeps'[s].receivers = sweeps[s].receivers
  BY <1>1, <1>4 DEF S!Clear, SweepRecord
<1>5. ASSUME NEW c \in Callers, S!Install(c) PROVE sweeps'[s] = sweeps[s]
  <2>1. S!NewSweep \in SweepState
    BY SliceBound DEF S!NewSweep, SweepState, SweepRecord
  <2>2. sweeps' = Append(sweeps, S!NewSweep) /\ sweeps \in Seq(SweepState)
    BY <1>5 DEF S!Install, AnalyzerInv
  <2> QED BY <2>1, <2>2, OneMore
<1> QED BY <1>2, <1>3, <1>4, <1>5 DEF S!Next, S!Request, S!FindToClear

(* A pass that took nothing is followed by a pause. *)
LEMMA PassThenPause == ASSUME AnalyzerInv, [S!Next]_svars PROVE [S!NoTightLoop]_svars
<1> SUFFICES ASSUME S!Next, NEW s \in DOMAIN sweeps,
                    sweeps[s].phase = "passing", sweeps'[s].phase = "begin"
             PROVE  sweeps[s].took \/ sweeps[s].cleared
  BY DEF S!NoTightLoop
<1>1. S!Loop(s)
  BY SweepKeepsPass
<1>2. sweeps[s] \in SweepState /\ sweeps[s] \in SweepRecord
  BY SweepTyped DEF SweepState
<1>3. ~S!Begin(s) /\ ~S!Pause(s)
  BY DEF S!Begin, S!Pause
<1>4. ASSUME NEW r \in Swept, S!Look(s, r) \/ S!Capture(s, r) PROVE FALSE
  <2>1. sweeps'[s].phase = "passing"
    BY <1>2, <1>4 DEF S!Look, S!Capture, S!Sweep, SweepRecord
  <2> QED BY <2>1
<1>5. S!EndPass(s)
  BY <1>1, <1>3, <1>4 DEF S!Loop
<1>6. sweeps[s].slices # sweeps[s].before
  BY <1>2, <1>5 DEF S!EndPass, S!PassOver, S!Sweep, SweepRecord
<1> QED BY <1>2, <1>6 DEF SweepState

(* A sweep that is stopped begins no capture. *)
LEMMA StopStopsCaptures == ASSUME AnalyzerInv, [S!Next]_svars PROVE [S!NoCaptureAfterStop]_svars
<1> SUFFICES ASSUME S!Next, NEW s \in DOMAIN sweeps, NEW r \in Swept,
                    S!Closed(s), sweeps[s].receivers[r] # "capture"
             PROVE  sweeps'[s].receivers[r] # "capture"
  BY DEF S!NoCaptureAfterStop
<1>1. sweeps[s] \in SweepRecord
  BY SweepTyped DEF SweepState
<1>2. CASE S!Begin(s)
  BY <1>1, <1>2 DEF S!Begin, S!Sweep, SweepRecord
<1>3. CASE S!EndPass(s) \/ S!Pause(s)
  <2>1. sweeps'[s].receivers = sweeps[s].receivers
    BY <1>1, <1>3 DEF S!EndPass, S!Pause, S!PassOver, S!Sweep, SweepRecord
  <2> QED BY <2>1
<1>4. ASSUME NEW q \in Swept, S!Look(s, q) \/ S!Capture(s, q)
      PROVE  sweeps'[s].receivers[r] # "capture"
  <2>1. sweeps'[s].receivers \in {[sweeps[s].receivers EXCEPT ![q] = step] : step \in {"look", "done"}}
    BY <1>1, <1>4 DEF S!Look, S!Capture, S!Sweep, SweepRecord
  <2> QED BY <1>1, <2>1 DEF SweepRecord
<1> QED BY <1>2, <1>3, <1>4, SweepKeepsPass DEF S!Loop

-----------------------------------------------------------------------------
(* The FPV video receiver. *)

\* The waiter of a viewer goes when the viewer has ended.
Viewer ==
    {w \in [alive : BOOLEAN, signalled : BOOLEAN, closed : BOOLEAN,
            waiter : {"none", "waiting", "gone"}] :
        w.waiter = "gone" => ~w.alive}

Pilot ==
    {p \in [pc : {"idle", "signal", "spawn", "install"}, starts : BOOLEAN, viewer : Nat] :
        /\ p.pc \in {"idle", "spawn"} => p.viewer = 0
        /\ p.pc = "idle" => ~p.starts
        /\ p.pc \in {"spawn", "install"} => p.starts
        /\ p.pc = "install" => p.viewer # 0}

\* A start that meets no other finds the command it took away still gone.
FliesAlone ==
    /\ \A c, d \in Callers : pilots[c].starts /\ pilots[d].starts => c = d
    /\ \A c \in Callers : pilots[c].starts => command = 0

FPVInv ==
    /\ command \in Nat /\ command <= Len(viewers)
    /\ stopped \in Nat /\ stopped <= Len(viewers)
    /\ video \in [running : BOOLEAN, of : Nat, failed : BOOLEAN] /\ video.of <= Len(viewers)
    /\ viewers \in Seq(Viewer)
    /\ pilots \in [Callers -> Pilot]
    /\ \A c \in Callers : pilots[c].viewer <= Len(viewers)
    /\ crossed \/ FliesAlone
    /\ F!ReportOfInstalled /\ F!CrossingOnlyStrays

LEMMA FPVInit == F!Init => FPVInv
BY EmptySeq DEF F!Init, F!Landed, FPVInv, Pilot, FliesAlone, F!ReportOfInstalled, F!CrossingOnlyStrays

LEMMA ViewerTyped ==
    ASSUME FPVInv
    PROVE  /\ \A v \in DOMAIN viewers : viewers[v] \in Viewer
           /\ Len(viewers) \in Nat /\ DOMAIN viewers = 1..Len(viewers)
BY LenProperties, ElementOfSeq DEF FPVInv

LEMMA PilotIs ==
    ASSUME FPVInv, NEW c \in Callers, NEW q \in Pilot, F!Step(c, q)
    PROVE  /\ pilots' \in [Callers -> Pilot] /\ pilots'[c] = q
           /\ \A d \in Callers : d # c => pilots'[d] = pilots[d]
           /\ pilots[c] \in Pilot
BY DEF FPVInv, F!Step

(* No viewer comes back to life or is spared the end it was sent. *)
ViewersGoOn ==
    /\ viewers' \in Seq(Viewer) /\ Len(viewers') = Len(viewers) /\ DOMAIN viewers' = DOMAIN viewers
    /\ \A k \in DOMAIN viewers : viewers'[k].alive => viewers[k].alive
    /\ \A k \in DOMAIN viewers : viewers[k].signalled => viewers'[k].signalled

LEMMA ViewerChanges ==
    ASSUME FPVInv, NEW v \in DOMAIN viewers, NEW next \in Viewer,
           viewers' = [viewers EXCEPT ![v] = next],
           next.alive => viewers[v].alive, viewers[v].signalled => next.signalled
    PROVE  ViewersGoOn /\ viewers'[v] = next
<1>1. viewers \in Seq(Viewer)
  BY DEF FPVInv
<1>2. /\ viewers' \in Seq(Viewer) /\ Len(viewers') = Len(viewers)
      /\ DOMAIN viewers' = DOMAIN viewers /\ viewers'[v] = next
      /\ \A k \in DOMAIN viewers : k # v => viewers'[k] = viewers[k]
  BY <1>1, OnePlace
<1> QED BY <1>2 DEF ViewersGoOn

LEMMA TakeKeeps ==
    ASSUME FPVInv, NEW c \in Callers, NEW starts \in BOOLEAN, F!TakeCommand(c, starts)
    PROVE  FPVInv'
<1> DEFINE q == [pc |-> "signal", starts |-> starts, viewer |-> command]
           given == [viewers[stopped] EXCEPT !.closed = TRUE]
<1>1. q \in Pilot /\ F!Step(c, q) /\ q.viewer = command /\ q.starts = starts
  BY DEF F!TakeCommand, FPVInv, Pilot
<1>2. /\ pilots[c].pc = "idle" /\ command' = 0 /\ stopped' = 0
      /\ video' = [video EXCEPT !.running = FALSE]
      /\ crossed' = (crossed \/ (starts /\ \E d \in Callers : pilots[d].starts))
  BY DEF F!TakeCommand
<1>3. ViewersGoOn
  <2>1. CASE stopped = 0
    BY <2>1 DEF F!TakeCommand, ViewersGoOn, FPVInv
  <2>2. CASE stopped # 0
    <3>1. stopped \in DOMAIN viewers /\ viewers' = [viewers EXCEPT ![stopped] = given]
      BY <2>2, ViewerTyped DEF F!TakeCommand, FPVInv
    <3>2. /\ given \in Viewer /\ given.alive = viewers[stopped].alive
          /\ given.signalled = viewers[stopped].signalled
      BY <3>1, ViewerTyped DEF Viewer
    <3> HIDE DEF given
    <3> QED BY <3>1, <3>2, ViewerChanges
  <2> QED BY <2>1, <2>2
<1> HIDE DEF q
<1>4. /\ pilots' \in [Callers -> Pilot] /\ pilots'[c] = q
      /\ \A d \in Callers : d # c => pilots'[d] = pilots[d]
      /\ pilots[c].viewer = 0
  BY <1>1, <1>2, PilotIs DEF Pilot
<1>5. crossed' \/ FliesAlone'
  <2> SUFFICES ASSUME ~crossed' PROVE FliesAlone'
    OBVIOUS
  <2>1. FliesAlone /\ (starts => \A d \in Callers : ~pilots[d].starts)
    BY <1>2 DEF FPVInv
  <2> QED BY <1>1, <1>2, <1>4, <2>1 DEF FliesAlone
<1>6. F!CrossingOnlyStrays'
  <2> SUFFICES ASSUME NEW v \in DOMAIN viewers, viewers[v].alive, ~viewers[v].signalled
               PROVE  v = 0 \/ crossed' \/ \E d \in Callers : pilots'[d].viewer = v
    BY <1>2, <1>3 DEF ViewersGoOn, F!CrossingOnlyStrays
  <2>1. v = command \/ crossed \/ \E d \in Callers : pilots[d].viewer = v
    BY DEF FPVInv, F!CrossingOnlyStrays
  <2> QED BY <1>1, <1>2, <1>4, <2>1
<1>7. /\ video' \in [running : BOOLEAN, of : Nat, failed : BOOLEAN]
      /\ video'.of = video.of /\ video'.running = FALSE
  BY <1>2 DEF FPVInv
<1>8. \A d \in Callers : pilots'[d].viewer <= Len(viewers')
  BY <1>1, <1>3, <1>4 DEF FPVInv, ViewersGoOn
<1>9. Len(viewers) \in Nat
  BY ViewerTyped
<1> QED BY <1>2, <1>3, <1>4, <1>5, <1>6, <1>7, <1>8, <1>9
       DEF FPVInv, ViewersGoOn, F!ReportOfInstalled

LEMMA SignalKeeps ==
    ASSUME FPVInv, NEW c \in Callers, F!Signal(c)
    PROVE  FPVInv'
<1> DEFINE v == pilots[c].viewer
           sent == [viewers[v] EXCEPT !.signalled = TRUE]
<1>1. /\ pilots[c].pc = "signal" /\ UNCHANGED <<command, stopped, video, crossed>>
      /\ v \in Nat /\ v <= Len(viewers) /\ Len(viewers) \in Nat
      /\ DOMAIN viewers = 1..Len(viewers)
  BY ViewerTyped DEF F!Signal, FPVInv, Pilot
<1>2. PICK q \in Pilot : F!Step(c, q) /\ q.viewer = 0 /\ q.starts = pilots[c].starts
  <2>1. ASSUME NEW p \in Pilot, p.pc = "signal", p.starts, NEW n,
               n = [p EXCEPT !.pc = "spawn", !.viewer = 0]
        PROVE  n \in Pilot /\ n.viewer = 0 /\ n.starts = p.starts
    BY <2>1 DEF Pilot
  <2>2. pilots[c] \in Pilot
    BY DEF FPVInv
  <2>3. CASE pilots[c].starts
    <3>1. F!Step(c, [pilots[c] EXCEPT !.pc = "spawn", !.viewer = 0])
      BY <2>3 DEF F!Signal
    <3> QED BY <1>1, <2>1, <2>2, <2>3, <3>1
  <2>4. CASE ~pilots[c].starts
    <3>1. F!Step(c, F!Landed)
      BY <2>4 DEF F!Signal
    <3>2. F!Landed \in Pilot /\ F!Landed.viewer = 0 /\ F!Landed.starts = FALSE
      BY DEF F!Landed, Pilot
    <3>3. pilots[c].starts = FALSE
      BY <2>2, <2>4 DEF Pilot
    <3> QED BY <3>1, <3>2, <3>3
  <2> QED BY <2>3, <2>4
<1>3. ViewersGoOn /\ (v # 0 => viewers'[v].signalled)
  <2>1. CASE v = 0
    BY <2>1 DEF F!Signal, ViewersGoOn, FPVInv
  <2>2. CASE v # 0
    <3>1. v \in DOMAIN viewers /\ viewers' = [viewers EXCEPT ![v] = sent]
      BY <1>1, <2>2 DEF F!Signal
    <3>2. /\ sent \in Viewer /\ sent.alive = viewers[v].alive /\ sent.signalled
      BY <3>1, ViewerTyped DEF Viewer
    <3> HIDE DEF v, sent
    <3> QED BY <3>1, <3>2, ViewerChanges
  <2> QED BY <2>1, <2>2
<1>4. /\ pilots' \in [Callers -> Pilot] /\ pilots'[c] = q
      /\ \A d \in Callers : d # c => pilots'[d] = pilots[d]
  BY <1>2, PilotIs
<1>5. FliesAlone => FliesAlone'
  <2>1. \A d \in Callers : pilots'[d].starts = pilots[d].starts
    BY <1>2, <1>4
  <2> QED BY <1>1, <2>1 DEF FliesAlone
<1>6. F!CrossingOnlyStrays'
  <2> SUFFICES ASSUME NEW k \in DOMAIN viewers, viewers[k].alive, ~viewers[k].signalled, k # v
               PROVE  k = command \/ crossed \/ \E d \in Callers : pilots'[d].viewer = k
    BY <1>1, <1>3 DEF ViewersGoOn, F!CrossingOnlyStrays
  <2>1. k = command \/ crossed \/ \E d \in Callers : pilots[d].viewer = k
    BY DEF FPVInv, F!CrossingOnlyStrays
  <2> QED BY <1>4, <2>1
<1>7. \A d \in Callers : pilots'[d].viewer <= Len(viewers')
  BY <1>1, <1>2, <1>3, <1>4 DEF FPVInv, ViewersGoOn
<1>8. F!ReportOfInstalled'
  BY <1>1, <1>3 DEF FPVInv, F!ReportOfInstalled, ViewersGoOn
<1> QED BY <1>1, <1>3, <1>4, <1>5, <1>6, <1>7, <1>8 DEF FPVInv, ViewersGoOn

LEMMA SpawnKeeps ==
    ASSUME FPVInv, NEW c \in Callers, F!Spawn(c)
    PROVE  FPVInv'
<1> DEFINE new == [alive |-> TRUE, signalled |-> FALSE, closed |-> FALSE, waiter |-> "none"]
<1>1. /\ pilots[c].pc = "spawn" /\ pilots[c] \in Pilot /\ UNCHANGED <<command, stopped, video, crossed>>
      /\ pilots[c].viewer = 0 /\ pilots[c].starts = TRUE /\ new \in Viewer
      /\ Len(viewers) \in Nat /\ DOMAIN viewers = 1..Len(viewers)
  BY ViewerTyped DEF F!Spawn, FPVInv, Pilot, Viewer
<1>2. CASE F!Step(c, F!Landed) /\ UNCHANGED viewers
  <2>1. F!Landed \in Pilot /\ F!Landed.viewer = 0 /\ F!Landed.starts = FALSE
    BY DEF F!Landed, Pilot
  <2>2. /\ pilots' \in [Callers -> Pilot] /\ pilots'[c] = F!Landed
        /\ \A d \in Callers : d # c => pilots'[d] = pilots[d]
    BY <1>2, <2>1, PilotIs
  <2>3. FliesAlone => FliesAlone'
    BY <1>1, <2>1, <2>2 DEF FliesAlone
  <2>4. F!CrossingOnlyStrays'
    <3> SUFFICES ASSUME NEW k \in DOMAIN viewers, viewers[k].alive, ~viewers[k].signalled
                 PROVE  k = command \/ crossed \/ \E d \in Callers : pilots'[d].viewer = k
      BY <1>1, <1>2 DEF F!CrossingOnlyStrays
    <3>1. k = command \/ crossed \/ \E d \in Callers : pilots[d].viewer = k
      BY DEF FPVInv, F!CrossingOnlyStrays
    <3> QED BY <1>1, <2>2, <3>1
  <2>5. \A d \in Callers : pilots'[d].viewer <= Len(viewers')
    BY <1>1, <1>2, <2>1, <2>2 DEF FPVInv
  <2>6. F!ReportOfInstalled'
    BY <1>1, <1>2 DEF FPVInv, F!ReportOfInstalled
  <2> QED BY <1>1, <1>2, <2>2, <2>3, <2>4, <2>5, <2>6 DEF FPVInv
<1>3. CASE /\ viewers' = Append(viewers, new)
           /\ F!Step(c, [pilots[c] EXCEPT !.pc = "install", !.viewer = Len(viewers')])
  <2>1. viewers \in Seq(Viewer)
    BY DEF FPVInv
  <2> HIDE DEF new
  <2>2. /\ viewers' \in Seq(Viewer) /\ Len(viewers') = Len(viewers) + 1
        /\ DOMAIN viewers' = DOMAIN viewers \cup {Len(viewers')}
        /\ \A k \in DOMAIN viewers : viewers'[k] = viewers[k]
    BY <1>1, <1>3, <2>1, OneMore
  <2>3. PICK q \in Pilot : F!Step(c, q) /\ q.viewer = Len(viewers') /\ q.starts
    <3>1. ASSUME NEW u \in Pilot, u.starts, NEW m \in Nat, m # 0,
                 NEW n, n = [u EXCEPT !.pc = "install", !.viewer = m]
          PROVE  n \in Pilot /\ n.viewer = m /\ n.starts
      BY <3>1 DEF Pilot
    <3>2. Len(viewers') \in Nat /\ Len(viewers') # 0
      BY <1>1, <2>2
    <3> DEFINE q == [pilots[c] EXCEPT !.pc = "install", !.viewer = Len(viewers')]
    <3>3. F!Step(c, q)
      BY <1>3
    <3>4. q \in Pilot /\ q.viewer = Len(viewers') /\ q.starts
      BY <1>1, <3>1, <3>2
    <3> HIDE DEF q
    <3> QED BY <3>3, <3>4
  <2>4. /\ pilots' \in [Callers -> Pilot] /\ pilots'[c] = q
        /\ \A d \in Callers : d # c => pilots'[d] = pilots[d]
    BY <2>3, PilotIs
  <2>5. FliesAlone => FliesAlone'
    <3>1. \A d \in Callers : pilots'[d].starts => pilots[d].starts
      BY <1>1, <2>4
    <3> QED BY <1>1, <3>1 DEF FliesAlone
  <2>6. F!CrossingOnlyStrays'
    <3> SUFFICES ASSUME NEW k \in DOMAIN viewers, viewers[k].alive, ~viewers[k].signalled
                 PROVE  k = command \/ crossed \/ \E d \in Callers : pilots'[d].viewer = k
      BY <1>1, <2>2, <2>3, <2>4 DEF F!CrossingOnlyStrays
    <3>1. k = command \/ crossed \/ \E d \in Callers : pilots[d].viewer = k
      BY DEF FPVInv, F!CrossingOnlyStrays
    <3> QED BY <1>1, <2>4, <3>1
  <2>7. \A d \in Callers : pilots'[d].viewer <= Len(viewers')
    <3>1. \A d \in Callers : pilots[d].viewer \in Nat /\ pilots[d].viewer <= Len(viewers)
      BY DEF FPVInv, Pilot
    <3> QED BY <1>1, <2>2, <2>3, <2>4, <3>1
  <2>8. F!ReportOfInstalled'
    BY <1>1, <2>2 DEF FPVInv, F!ReportOfInstalled
  <2> QED BY <1>1, <2>2, <2>4, <2>5, <2>6, <2>7, <2>8 DEF FPVInv
<1> QED BY <1>2, <1>3 DEF F!Spawn

LEMMA FlownKeeps ==
    ASSUME FPVInv, NEW c \in Callers, F!Install(c)
    PROVE  FPVInv'
<1> DEFINE v == pilots[c].viewer
           watched == [viewers[v] EXCEPT !.waiter = "waiting"]
<1>1. /\ pilots[c].pc = "install" /\ pilots[c].starts /\ command' = v /\ stopped' = v
      /\ video' = [running |-> TRUE, of |-> v, failed |-> FALSE] /\ crossed' = crossed
      /\ F!Step(c, F!Landed)
      /\ v \in Nat /\ v # 0 /\ v <= Len(viewers) /\ Len(viewers) \in Nat
      /\ DOMAIN viewers = 1..Len(viewers)
  BY ViewerTyped DEF F!Install, FPVInv, Pilot
<1>2. v \in DOMAIN viewers /\ viewers' = [viewers EXCEPT ![v] = watched]
  BY <1>1 DEF F!Install
<1>3. /\ watched \in Viewer /\ watched.alive = viewers[v].alive
      /\ watched.signalled = viewers[v].signalled
  BY <1>2, ViewerTyped DEF Viewer
<1>4. F!Landed \in Pilot /\ F!Landed.viewer = 0 /\ F!Landed.starts = FALSE
  BY DEF F!Landed, Pilot
<1> HIDE DEF v, watched
<1>5. ViewersGoOn
  BY <1>2, <1>3, ViewerChanges
<1>6. /\ pilots' \in [Callers -> Pilot] /\ pilots'[c] = F!Landed
      /\ \A d \in Callers : d # c => pilots'[d] = pilots[d]
  BY <1>1, <1>4, PilotIs
<1>7. FliesAlone => FliesAlone'
  BY <1>1, <1>4, <1>6 DEF FliesAlone
<1>8. F!CrossingOnlyStrays'
  <2> SUFFICES ASSUME ~crossed, NEW k \in DOMAIN viewers, viewers[k].alive, ~viewers[k].signalled
               PROVE  k = v \/ \E d \in Callers : pilots'[d].viewer = k
    BY <1>1, <1>5 DEF ViewersGoOn, F!CrossingOnlyStrays
  <2>1. command = 0
    BY <1>1 DEF FPVInv, FliesAlone
  <2>2. k = command \/ \E d \in Callers : pilots[d].viewer = k
    BY DEF FPVInv, F!CrossingOnlyStrays
  <2> QED BY <1>1, <1>6, <2>1, <2>2 DEF v
<1>9. \A d \in Callers : pilots'[d].viewer <= Len(viewers')
  BY <1>1, <1>4, <1>5, <1>6 DEF FPVInv, ViewersGoOn
<1> QED BY <1>1, <1>5, <1>6, <1>7, <1>8, <1>9
       DEF FPVInv, ViewersGoOn, F!ReportOfInstalled

(* A viewer ends, and is waited for. *)
LEMMA EndKeeps ==
    ASSUME FPVInv, NEW v \in DOMAIN viewers, F!Exits(v) \/ F!Killed(v) \/ F!Reap(v)
    PROVE  FPVInv'
<1>1. /\ UNCHANGED <<command, stopped, pilots, crossed>> /\ viewers[v] \in Viewer
      /\ Len(viewers) \in Nat /\ DOMAIN viewers = 1..Len(viewers)
  BY ViewerTyped DEF F!Exits, F!Killed, F!Reap, F!Dies
<1>2. PICK next \in Viewer : /\ viewers' = [viewers EXCEPT ![v] = next]
                             /\ next.alive = FALSE
                             /\ next.signalled = viewers[v].signalled
  <2>1. CASE F!Exits(v) \/ F!Killed(v)
    <3>1. viewers' = [viewers EXCEPT ![v].alive = FALSE]
      BY <2>1 DEF F!Exits, F!Killed, F!Dies
    <3>2. ASSUME NEW n, n = [viewers[v] EXCEPT !.alive = FALSE]
          PROVE  n \in Viewer /\ n.alive = FALSE /\ n.signalled = viewers[v].signalled
      BY <1>1, <3>2 DEF Viewer
    <3> QED BY <3>1, <3>2
  <2>2. CASE F!Reap(v)
    <3>1. viewers' = [viewers EXCEPT ![v].waiter = "gone"] /\ viewers[v].alive = FALSE
      BY <1>1, <2>2 DEF F!Reap, Viewer
    <3>2. ASSUME NEW n, n = [viewers[v] EXCEPT !.waiter = "gone"]
          PROVE  n \in Viewer /\ n.alive = FALSE /\ n.signalled = viewers[v].signalled
      BY <1>1, <3>1, <3>2 DEF Viewer
    <3> QED BY <3>1, <3>2
  <2> QED BY <2>1, <2>2
<1>3. ViewersGoOn /\ viewers'[v] = next
  BY <1>2, ViewerChanges
<1>4. /\ video' \in [running : BOOLEAN, of : Nat, failed : BOOLEAN] /\ video'.of = video.of
      /\ video'.running = (video.running /\ ~(F!Reap(v) /\ command = v))
  <2>1. CASE F!Exits(v) \/ F!Killed(v)
    <3>1. viewers[v].alive = TRUE /\ video' = video
      BY <1>1, <2>1 DEF F!Exits, F!Killed, F!Dies, Viewer
    <3>2. ~F!Reap(v)
      BY <3>1 DEF F!Reap
    <3> QED BY <3>1, <3>2 DEF FPVInv
  <2>2. CASE F!Reap(v) /\ command = v
    <3>1. video' = [video EXCEPT !.running = FALSE, !.failed = @ \/ ~viewers[v].closed]
      BY <2>2 DEF F!Reap
    <3> QED BY <1>1, <2>2, <3>1 DEF FPVInv, Viewer
  <2>3. CASE F!Reap(v) /\ command # v
    BY <2>3 DEF F!Reap, FPVInv
  <2> QED BY <2>1, <2>2, <2>3
<1>5. F!ReportOfInstalled'
  <2>1. command # 0 => command \in DOMAIN viewers
    BY <1>1 DEF FPVInv
  <2>2. command = v => ~viewers'[command].alive
    BY <1>2, <1>3
  <2> QED BY <1>1, <1>3, <1>4, <2>1, <2>2 DEF FPVInv, F!ReportOfInstalled, ViewersGoOn
<1>6. F!CrossingOnlyStrays'
  BY <1>1, <1>3 DEF FPVInv, F!CrossingOnlyStrays, ViewersGoOn
<1> QED BY <1>1, <1>3, <1>4, <1>5, <1>6 DEF FPVInv, ViewersGoOn, FliesAlone

LEMMA FPVStep == ASSUME FPVInv, [F!Next]_fvars PROVE FPVInv'
<1>1. CASE UNCHANGED fvars
  BY <1>1 DEF fvars, FPVInv, FliesAlone, F!ReportOfInstalled, F!CrossingOnlyStrays
<1> QED BY <1>1, TakeKeeps, SignalKeeps, SpawnKeeps, FlownKeeps, EndKeeps DEF F!Next

LEMMA FPVMeans == ASSUME FPVInv PROVE F!TypeOK
<1>1. \A c \in Callers : pilots[c].viewer \in Nat
  BY DEF FPVInv, Pilot
<1> QED BY <1>1, ViewerTyped DEF F!TypeOK, FPVInv, Viewer

(* A viewer has one holder, and is sent a signal only after it was given up. *)
Unsent ==
    /\ command # 0 => ~viewers[command].signalled /\ video.of = command
    /\ \A c \in Callers : pilots[c].viewer # 0 =>
         /\ pilots[c].viewer # command
         /\ pilots[c].pc = "install" => ~viewers[pilots[c].viewer].signalled
    /\ \A c, d \in Callers : pilots[c].viewer # 0 /\ pilots[c].viewer = pilots[d].viewer => c = d

LEMMA UnsentInit == F!Init => Unsent
BY DEF F!Init, F!Landed, Unsent

(* Where no viewer is sent a signal, the holders alone may disturb it. *)
LEMMA UnsentKept ==
    ASSUME FPVInv, Unsent, \A k \in DOMAIN viewers : viewers'[k].signalled = viewers[k].signalled,
           UNCHANGED <<command, pilots>>, video'.of = video.of
    PROVE  Unsent'
<1>1. /\ command # 0 => command \in DOMAIN viewers
      /\ \A c \in Callers : pilots[c].viewer # 0 => pilots[c].viewer \in DOMAIN viewers
  BY ViewerTyped DEF FPVInv, Pilot
<1> QED BY <1>1 DEF Unsent

LEMMA UnsentStep == ASSUME FPVInv, Unsent, [F!Next]_fvars PROVE Unsent'
<1>1. /\ command # 0 => command \in DOMAIN viewers
      /\ \A c \in Callers : pilots[c].viewer # 0 => pilots[c].viewer \in DOMAIN viewers
      /\ \A k \in DOMAIN viewers : viewers[k] \in Viewer
      /\ DOMAIN viewers = 1..Len(viewers) /\ Len(viewers) \in Nat
  BY ViewerTyped DEF FPVInv, Pilot
<1>2. ASSUME NEW c \in Callers, NEW starts \in BOOLEAN, F!TakeCommand(c, starts)
      PROVE  Unsent'
  <2>1. command' = 0 /\ pilots[c].pc = "idle"
        /\ pilots' = [pilots EXCEPT ![c] = [pc |-> "signal", starts |-> starts, viewer |-> command]]
    BY <1>2 DEF F!TakeCommand, F!Step
  <2>2. /\ pilots'[c].viewer = command /\ pilots'[c].pc = "signal"
        /\ \A d \in Callers : d # c => pilots'[d] = pilots[d]
    BY <2>1 DEF FPVInv
  <2>3. \A k \in DOMAIN viewers : viewers'[k].signalled = viewers[k].signalled
    BY <1>1, <1>2 DEF F!TakeCommand, Viewer
  <2> QED BY <1>1, <2>1, <2>2, <2>3 DEF Unsent
<1>3. ASSUME NEW c \in Callers, F!Signal(c)
      PROVE  Unsent'
  <2>1. /\ UNCHANGED <<command, video>>
        /\ \A k \in DOMAIN viewers : k # pilots[c].viewer => viewers'[k] = viewers[k]
    BY <1>3 DEF F!Signal
  <2>2. pilots'[c].viewer = 0 /\ \A d \in Callers : d # c => pilots'[d] = pilots[d]
    <3>1. pilots[c] \in Pilot
      BY DEF FPVInv
    <3>2. pilots' = [pilots EXCEPT ![c] =
            IF pilots[c].starts THEN [pilots[c] EXCEPT !.pc = "spawn", !.viewer = 0] ELSE F!Landed]
      BY <1>3 DEF F!Signal, F!Step
    <3>3. [pilots[c] EXCEPT !.pc = "spawn", !.viewer = 0].viewer = 0 /\ F!Landed.viewer = 0
      BY <3>1 DEF Pilot, F!Landed
    <3> QED BY <3>2, <3>3 DEF FPVInv
  <2> QED BY <1>1, <2>1, <2>2 DEF Unsent
<1>4. ASSUME NEW c \in Callers, F!Spawn(c)
      PROVE  Unsent'
  <2>1. UNCHANGED <<command, video>>
    BY <1>4 DEF F!Spawn
  <2>2. CASE F!Step(c, F!Landed) /\ UNCHANGED viewers
    <3>1. pilots'[c].viewer = 0 /\ \A d \in Callers : d # c => pilots'[d] = pilots[d]
      BY <2>2 DEF F!Step, F!Landed, FPVInv
    <3> QED BY <2>1, <2>2, <3>1 DEF Unsent
  <2>3. CASE /\ viewers' = Append(viewers, [alive |-> TRUE, signalled |-> FALSE, closed |-> FALSE,
                                            waiter |-> "none"])
             /\ F!Step(c, [pilots[c] EXCEPT !.pc = "install", !.viewer = Len(viewers')])
    <3> DEFINE new == [alive |-> TRUE, signalled |-> FALSE, closed |-> FALSE, waiter |-> "none"]
    <3>1. new \in Viewer /\ new.signalled = FALSE /\ viewers \in Seq(Viewer)
      BY DEF Viewer, FPVInv
    <3>2. viewers' = Append(viewers, new)
      BY <2>3
    <3> HIDE DEF new
    <3>3. /\ Len(viewers') = Len(viewers) + 1 /\ Len(viewers') \notin DOMAIN viewers
          /\ ~viewers'[Len(viewers')].signalled
          /\ \A k \in DOMAIN viewers : viewers'[k] = viewers[k]
      BY <3>1, <3>2, OneMore
    <3>4. pilots'[c].viewer = Len(viewers') /\ \A d \in Callers : d # c => pilots'[d] = pilots[d]
      <4>1. pilots[c] \in Pilot
        BY DEF FPVInv
      <4>2. ASSUME NEW m PROVE [pilots[c] EXCEPT !.pc = "install", !.viewer = m].viewer = m
        BY <4>1 DEF Pilot
      <4> QED BY <2>3, <4>2 DEF F!Step, FPVInv
    <3> QED BY <1>1, <2>1, <3>3, <3>4 DEF Unsent
  <2> QED BY <1>4, <2>2, <2>3 DEF F!Spawn
<1>5. ASSUME NEW c \in Callers, F!Install(c)
      PROVE  Unsent'
  <2>1. /\ command' = pilots[c].viewer /\ video'.of = command' /\ pilots[c].pc = "install"
        /\ command' # 0
    BY <1>5 DEF F!Install, FPVInv, Pilot
  <2>2. \A k \in DOMAIN viewers : viewers'[k].signalled = viewers[k].signalled
    BY <1>1, <1>5 DEF F!Install, Viewer
  <2>3. pilots'[c].viewer = 0 /\ \A d \in Callers : d # c => pilots'[d] = pilots[d]
    BY <1>5 DEF F!Install, F!Step, F!Landed, FPVInv
  <2> QED BY <1>1, <2>1, <2>2, <2>3 DEF Unsent
<1>6. ASSUME NEW v \in DOMAIN viewers, F!Exits(v) \/ F!Killed(v) \/ F!Reap(v)
      PROVE  Unsent'
  <2>1. \A k \in DOMAIN viewers : viewers'[k].signalled = viewers[k].signalled
    BY <1>1, <1>6 DEF F!Exits, F!Killed, F!Dies, F!Reap, Viewer
  <2>2. UNCHANGED <<command, pilots>> /\ video'.of = video.of
    BY <1>6 DEF F!Exits, F!Killed, F!Dies, F!Reap, FPVInv
  <2> QED BY <2>1, <2>2, UnsentKept
<1>7. CASE UNCHANGED fvars
  BY <1>7 DEF fvars, Unsent
<1> QED BY <1>2, <1>3, <1>4, <1>5, <1>6, <1>7 DEF F!Next

(* An error is reported of the viewer that is installed, and no signal sent it. *)
LEMMA ErrorsAreFailures == ASSUME FPVInv, Unsent, [F!Next]_fvars PROVE [F!NoErrorOfStop]_fvars
<1> SUFFICES ASSUME F!Next, video'.failed, ~video.failed
             PROVE  ~viewers[video.of].signalled /\ command = video.of
  BY DEF F!NoErrorOfStop
<1>1. PICK v \in DOMAIN viewers : F!Reap(v)
  <2>1. ASSUME NEW c \in Callers, NEW starts \in BOOLEAN, F!TakeCommand(c, starts) PROVE FALSE
    BY <2>1 DEF F!TakeCommand, FPVInv
  <2>2. ASSUME NEW c \in Callers, F!Install(c) PROVE FALSE
    BY <2>2 DEF F!Install
  <2>3. video' # video
    OBVIOUS
  <2> QED BY <2>1, <2>2, <2>3 DEF F!Next, F!Signal, F!Spawn, F!Exits, F!Killed, F!Dies
<1>2. command = v /\ v # 0
  BY <1>1, ViewerTyped DEF F!Reap
<1> QED BY <1>2 DEF Unsent

-----------------------------------------------------------------------------
(* The receiver test. *)

Outcomes == UNION {[devices -> L!Result] : devices \in SUBSET Receivers}
Explained(e) == e.points = Points \/ e.error # "none"

\* A receiver without a worker, in a run, has its results.
LabInv ==
    /\ status \in [run : 0..MaxRuns, running : BOOLEAN, results : Outcomes]
    /\ file \in [run : 0..MaxRuns, results : Outcomes]
    /\ workers \in [Receivers -> 0..MaxRuns]
    /\ halt \in 0..MaxRuns /\ halted \subseteq 1..MaxRuns
    /\ halt # 0 => status.running /\ halt = status.run
    /\ \A r \in Receivers : workers[r] # 0 => r \in L!Tested
    /\ status.running => \A r \in L!Tested : workers[r] = 0 => Explained(status.results[r])
    /\ L!RunsApart /\ L!ResultsExplained /\ L!ShownIsSaved

LEMMA RunBound == MaxRuns \in Nat /\ Points \in Nat
<1>1. L!CharacterizationAssumption
  BY InstrumentsAssumption
<1>2. {Points, MaxRuns, MaxFaults} \subseteq Nat
  BY <1>1 DEF L!CharacterizationAssumption
<1> QED BY <1>2

LEMMA NoOutcome == << >> \in Outcomes /\ DOMAIN << >> = {}
<1>1. << >> \in [{} -> L!Result] /\ DOMAIN << >> = {}
  OBVIOUS
<1> QED BY <1>1 DEF Outcomes

LEMMA OutcomeIs ==
    ASSUME NEW f \in Outcomes
    PROVE  f \in [DOMAIN f -> L!Result] /\ DOMAIN f \subseteq Receivers
BY DEF Outcomes

LEMMA OutcomeChanges ==
    ASSUME NEW f \in Outcomes, NEW r \in DOMAIN f, NEW e \in L!Result, NEW g, g = [f EXCEPT ![r] = e]
    PROVE  /\ g \in Outcomes /\ DOMAIN g = DOMAIN f /\ g[r] = e
           /\ \A q \in DOMAIN f : q # r => g[q] = f[q]
<1>1. f \in [DOMAIN f -> L!Result] /\ DOMAIN f \subseteq Receivers
  BY OutcomeIs
<1>2. g \in [DOMAIN f -> L!Result]
  BY <1>1
<1> QED BY <1>1, <1>2 DEF Outcomes

LEMMA LabInit == L!Init => LabInv
<1> SUFFICES ASSUME L!Init PROVE LabInv
  OBVIOUS
<1>1. /\ status.run = 0 /\ status.running = FALSE /\ status.results = << >>
      /\ file.results = << >>
      /\ status \in [run : 0..MaxRuns, running : BOOLEAN, results : Outcomes]
      /\ file \in [run : 0..MaxRuns, results : Outcomes]
  BY RunBound, NoOutcome DEF L!Init, L!Idle, L!Empty
<1>2. L!Tested = {}
  BY <1>1, NoOutcome DEF L!Tested
<1>3. workers \in [Receivers -> 0..MaxRuns] /\ halt = 0 /\ halted = {} /\ 0 \in 0..MaxRuns
      /\ \A r \in Receivers : workers[r] = 0
  BY RunBound DEF L!Init
<1> QED BY <1>1, <1>2, <1>3 DEF LabInv, L!RunsApart, L!ResultsExplained, L!ShownIsSaved

(* A worker that enters a result goes on, or leaves its receiver explained. *)
LEMMA WorkerEnters ==
    ASSUME LabInv, NEW r \in Receivers, workers[r] # 0, NEW e \in L!Result,
           status' = L!WithResult(r, e), UNCHANGED <<halt, halted, file, doubtful>>,
           \/ workers' = workers
           \/ workers' = [workers EXCEPT ![r] = 0] /\ Explained(e)
    PROVE  LabInv'
<1>1. /\ r \in DOMAIN status.results /\ status.results \in Outcomes /\ status.running
      /\ 0 \in 0..MaxRuns
  BY RunBound DEF LabInv, L!Tested, L!RunsApart
<1> DEFINE g == [status.results EXCEPT ![r] = e]
<1>2. /\ status' \in [run : 0..MaxRuns, running : BOOLEAN, results : {g}]
      /\ status'.results = g /\ status'.run = status.run /\ status'.running = status.running
  BY DEF LabInv, L!WithResult
<1> HIDE DEF g
<1>3. /\ g \in Outcomes /\ DOMAIN g = DOMAIN status.results /\ g[r] = e
      /\ \A q \in DOMAIN status.results : q # r => g[q] = status.results[q]
  BY <1>1, OutcomeChanges DEF g
<1>4. /\ status' \in [run : 0..MaxRuns, running : BOOLEAN, results : Outcomes]
      /\ L!Tested' = L!Tested
  BY <1>2, <1>3 DEF L!Tested
<1>5. /\ workers' \in [Receivers -> 0..MaxRuns]
      /\ \A q \in Receivers : workers'[q] # 0 => workers'[q] = workers[q]
      /\ \A q \in Receivers : q # r => workers'[q] = workers[q]
  BY <1>1 DEF LabInv
<1>6. workers'[r] = 0 => Explained(e)
  BY DEF LabInv
<1>7. \A q \in L!Tested' : workers'[q] = 0 => Explained(status'.results[q])
  <2>1. L!Tested \subseteq Receivers
    BY <1>1, OutcomeIs DEF L!Tested
  <2>2. \A q \in L!Tested : workers[q] = 0 => Explained(status.results[q])
    BY <1>1 DEF LabInv
  <2>3. ASSUME NEW q \in L!Tested, workers'[q] = 0 PROVE Explained(status'.results[q])
    <3>1. CASE q = r
      BY <1>2, <1>3, <1>6, <2>3, <3>1
    <3>2. CASE q # r
      BY <1>2, <1>3, <1>5, <2>1, <2>2, <2>3, <3>2 DEF L!Tested
    <3> QED BY <3>1, <3>2
  <2> QED BY <1>4, <2>3
<1> QED BY <1>1, <1>2, <1>4, <1>5, <1>7
        DEF LabInv, L!RunsApart, L!ResultsExplained, L!ShownIsSaved, Explained

LEMMA WorkKeeps ==
    ASSUME LabInv, NEW r \in Receivers, L!StopsWorker(r) \/ L!Measure(r) \/ L!MeasureFails(r)
    PROVE  LabInv'
<1>1. workers[r] # 0 /\ status.results[r].points < Points /\ status.results[r] \in L!Result
  <2>1. workers[r] # 0
    BY RunBound DEF L!StopsWorker, L!Measure, L!MeasureFails, LabInv
  <2>2. r \in DOMAIN status.results /\ status.results \in Outcomes
    BY <2>1 DEF LabInv, L!Tested
  <2> QED BY <2>1, <2>2, OutcomeIs DEF L!StopsWorker, L!Measure, L!MeasureFails
<1>2. ASSUME NEW u \in L!Result, u.points < Points, NEW error \in {"stopped", "failed"}
      PROVE  /\ [u EXCEPT !.error = error] \in L!Result
             /\ Explained([u EXCEPT !.error = error])
             /\ [u EXCEPT !.points = @ + 1] \in L!Result
  BY <1>2, RunBound DEF L!Result, Explained
<1>3. CASE L!Measure(r)
  BY <1>1, <1>2, <1>3, WorkerEnters DEF L!Measure
<1>4. CASE L!StopsWorker(r)
  BY <1>1, <1>2, <1>4, WorkerEnters DEF L!StopsWorker
<1>5. CASE L!MeasureFails(r)
  BY <1>1, <1>2, <1>5, WorkerEnters DEF L!MeasureFails
<1> QED BY <1>3, <1>4, <1>5

(* What is written is what is shown, unless the write fails. *)
LEMMA Persisted ==
    ASSUME LabInv, L!Persist(status)
    PROVE  /\ file' \in [run : 0..MaxRuns, results : Outcomes]
           /\ doubtful => doubtful'
           /\ ~doubtful' => file'.results = status.results
<1>1. L!Empty \in [run : 0..MaxRuns, results : Outcomes]
  BY RunBound, NoOutcome DEF L!Empty
<1> QED BY <1>1 DEF L!Persist, LabInv

LEMMA CompletesKeeps ==
    ASSUME LabInv, NEW r \in Receivers, L!Completes(r)
    PROVE  LabInv'
<1>1. /\ workers[r] # 0 /\ status.results[r].points = Points /\ status.running
      /\ UNCHANGED <<status, halt, halted>> /\ workers' = [workers EXCEPT ![r] = 0]
      /\ 0 \in 0..MaxRuns
  BY RunBound DEF L!Completes, LabInv, L!RunsApart
<1>2. file' \in [run : 0..MaxRuns, results : Outcomes]
  BY Persisted DEF L!Completes
<1>3. workers' \in [Receivers -> 0..MaxRuns]
  BY <1>1 DEF LabInv
<1>4. \A q \in L!Tested : workers'[q] = 0 => Explained(status.results[q])
  <2>1. L!Tested \subseteq Receivers
    BY OutcomeIs DEF L!Tested, LabInv
  <2> QED BY <1>1, <2>1 DEF LabInv, Explained
<1>5. L!Tested' = L!Tested
  BY <1>1 DEF L!Tested
<1> QED BY <1>1, <1>2, <1>3, <1>4, <1>5
        DEF LabInv, L!RunsApart, L!ResultsExplained, L!ShownIsSaved

LEMMA FinishKeeps ==
    ASSUME LabInv, L!Finish
    PROVE  LabInv'
<1>1. /\ status.running /\ \A r \in Receivers : workers[r] = 0
      /\ halt' = 0 /\ UNCHANGED <<halted, workers>> /\ 0 \in 0..MaxRuns
      /\ status' = [status EXCEPT !.running = FALSE]
  BY RunBound DEF L!Finish
<1>2. /\ status' \in [run : 0..MaxRuns, running : BOOLEAN, results : Outcomes]
      /\ status'.results = status.results /\ status'.running = FALSE
  BY <1>1 DEF LabInv
<1>3. /\ file' \in [run : 0..MaxRuns, results : Outcomes]
      /\ ~doubtful' => file'.results = status.results
  BY Persisted DEF L!Finish
<1>4. \A q \in L!Tested : Explained(status.results[q])
  <2>1. L!Tested \subseteq Receivers
    BY OutcomeIs DEF L!Tested, LabInv
  <2> QED BY <1>1, <2>1 DEF LabInv
<1>5. L!Tested' = L!Tested
  BY <1>2 DEF L!Tested
<1> QED BY <1>1, <1>2, <1>3, <1>4, <1>5
        DEF LabInv, L!RunsApart, L!ResultsExplained, L!ShownIsSaved, Explained

LEMMA StartKeeps ==
    ASSUME LabInv, NEW devices \in SUBSET Receivers, L!Start(devices)
    PROVE  LabInv'
<1> DEFINE fresh == [r \in devices |-> [points |-> 0, error |-> "none"]]
<1>1. status.run \in 0..MaxRuns /\ status.run + 1 \in 1..MaxRuns
  BY RunBound DEF L!Start, LabInv
<1>2. fresh \in [devices -> L!Result]
  BY RunBound DEF L!Result
<1>3. fresh \in Outcomes /\ DOMAIN fresh = devices
  BY <1>2 DEF Outcomes
<1>4. status' = [run |-> status.run + 1, running |-> TRUE, results |-> fresh]
  BY DEF L!Start
<1> HIDE DEF fresh
<1>5. /\ status' \in [run : 0..MaxRuns, running : BOOLEAN, results : Outcomes]
      /\ status'.running /\ status'.run = status.run + 1 /\ L!Tested' = devices
  BY <1>1, <1>3, <1>4 DEF L!Tested
<1>6. \A r \in Receivers : workers[r] = 0
  BY DEF L!Start, LabInv, L!RunsApart
<1>7. /\ halt' = status'.run /\ UNCHANGED <<halted, file>>
      /\ workers' = [r \in Receivers |-> IF r \in devices THEN status'.run ELSE workers[r]]
  BY DEF L!Start
<1>8. /\ workers' \in [Receivers -> 0..MaxRuns]
      /\ \A r \in Receivers : workers'[r] = IF r \in devices THEN status'.run ELSE 0
  <2>1. \A r \in Receivers : workers'[r] = IF r \in devices THEN status'.run ELSE 0
    BY <1>6, <1>7
  <2>2. status'.run \in 0..MaxRuns /\ 0 \in 0..MaxRuns
    BY <1>1, <1>5, RunBound
  <2>3. \A r \in Receivers : (IF r \in devices THEN status'.run ELSE workers[r]) \in 0..MaxRuns
    BY <1>6, <2>2
  <2> QED BY <1>7, <2>1, <2>3
<1>9. \A r \in devices : workers'[r] # 0
  BY <1>1, <1>5, <1>8
<1> QED BY <1>1, <1>5, <1>7, <1>8, <1>9
        DEF LabInv, L!RunsApart, L!ResultsExplained, L!ShownIsSaved

LEMMA StopKeeps ==
    ASSUME LabInv, L!Stop
    PROVE  LabInv'
<1>1. halt \in 1..MaxRuns /\ halt' = 0 /\ 0 \in 0..MaxRuns /\ halted' = halted \cup {halt}
  BY RunBound DEF L!Stop, LabInv
<1>2. UNCHANGED <<status, workers, file, doubtful>>
  BY DEF L!Stop
<1> QED BY <1>1, <1>2
        DEF LabInv, L!RunsApart, L!ResultsExplained, L!ShownIsSaved, L!Tested, Explained

LEMMA ClearedKeeps ==
    ASSUME LabInv, L!Clear
    PROVE  LabInv'
<1>1. /\ status' = [run |-> status.run, running |-> FALSE, results |-> << >>]
      /\ ~status.running /\ UNCHANGED <<halt, halted, workers>>
  BY DEF L!Clear, L!Idle
<1>2. /\ status' \in [run : 0..MaxRuns, running : BOOLEAN, results : Outcomes]
      /\ status'.running = FALSE /\ status'.results = << >> /\ L!Tested' = {}
  BY <1>1, NoOutcome DEF LabInv, L!Tested
<1>3. /\ file' \in [run : 0..MaxRuns, results : Outcomes]
      /\ ~doubtful' => file'.results = << >>
  BY NoOutcome DEF L!Clear, LabInv
<1>4. halt = 0 /\ \A r \in Receivers : workers[r] = 0
  BY <1>1 DEF LabInv, L!RunsApart
<1> QED BY <1>1, <1>2, <1>3, <1>4
        DEF LabInv, L!RunsApart, L!ResultsExplained, L!ShownIsSaved

LEMMA RestartKeeps ==
    ASSUME LabInv, L!Restart
    PROVE  LabInv'
<1>1. /\ file' \in {file, L!Empty} /\ (~status.running => file' = file)
      /\ status' = [run |-> status.run, running |-> FALSE, results |-> file'.results]
      /\ doubtful' = (doubtful \/ status.running)
      /\ halt' = 0 /\ halted' = {} /\ workers' = [r \in Receivers |-> 0]
  BY DEF L!Restart
<1>2. file' \in [run : 0..MaxRuns, results : Outcomes]
  BY <1>1, RunBound, NoOutcome DEF L!Empty, LabInv
<1>3. /\ status' \in [run : 0..MaxRuns, running : BOOLEAN, results : Outcomes]
      /\ status'.running = FALSE /\ status'.results = file'.results
  BY <1>1, <1>2 DEF LabInv
<1>4. /\ workers' \in [Receivers -> 0..MaxRuns] /\ 0 \in 0..MaxRuns
      /\ \A r \in Receivers : workers'[r] = 0
  BY <1>1, RunBound
<1>5. ~doubtful' => status'.results = status.results
  BY <1>1, <1>3 DEF LabInv, L!ShownIsSaved
<1>6. L!ResultsExplained'
  BY <1>1, <1>5 DEF LabInv, L!ResultsExplained, L!Tested
<1> QED BY <1>1, <1>2, <1>3, <1>4, <1>6 DEF LabInv, L!RunsApart, L!ShownIsSaved

LEMMA LabStep == ASSUME LabInv, [L!Next]_lvars PROVE LabInv'
<1>1. CASE UNCHANGED lvars
  BY <1>1 DEF lvars, LabInv, L!RunsApart, L!ResultsExplained, L!ShownIsSaved, L!Tested, Explained
<1> QED BY <1>1, StartKeeps, StopKeeps, ClearedKeeps, RestartKeeps, FinishKeeps, WorkKeeps,
           CompletesKeeps DEF L!Next

LEMMA LabMeans == ASSUME LabInv PROVE L!TypeOK
<1>1. \A r \in L!Tested : r \in Receivers /\ status.results[r] \in L!Result
  BY OutcomeIs DEF LabInv, L!Tested
<1> QED BY <1>1 DEF L!TypeOK, LabInv

-----------------------------------------------------------------------------
(* The calibrations. *)

Editor == [pc : {"idle", "save", "attach"}, receiver : Receivers \cup {0}, edit : Nat]

\* The store is ahead of the file and of what is attached, never behind them.
CalInv ==
    /\ edits \in 0..MaxEdits
    /\ items \in [Receivers -> 0..edits] /\ disk \in [Receivers -> 0..edits]
    /\ attached \in [Receivers -> 0..edits] /\ acked \in [Receivers -> 0..edits]
    /\ editors \in [Callers -> Editor]
    /\ \A r \in Receivers : items[r] >= disk[r] /\ disk[r] >= acked[r]
    /\ \A c \in Callers :
         /\ editors[c].pc = "save" => editors[c].receiver \in Receivers
         /\ editors[c].pc = "attach" /\ editors[c].edit # 0 =>
              editors[c].receiver \in Receivers /\ disk[editors[c].receiver] >= editors[c].edit
    /\ attached = items \/ behind \/ \E c \in Callers : editors[c].pc = "attach"

LEMMA EditBound == MaxEdits \in Nat
<1>1. K!CalibrationsAssumption
  BY InstrumentsAssumption
<1>2. {MaxEdits, MaxFaults} \subseteq Nat
  BY <1>1 DEF K!CalibrationsAssumption
<1> QED BY <1>2

LEMMA CalInit == K!Init => CalInv
BY EditBound DEF K!Init, K!Gone, CalInv, Editor

LEMMA EditorIs ==
    ASSUME CalInv, NEW c \in Callers, NEW e \in Editor, K!Step(c, e)
    PROVE  /\ editors' \in [Callers -> Editor] /\ editors'[c] = e
           /\ \A d \in Callers : d # c => editors'[d] = editors[d]
           /\ editors[c] \in Editor
BY DEF CalInv, K!Step

LEMMA MeasuringKeeps ==
    ASSUME CalInv, NEW c \in Callers, K!MeasureFails(c) \/ \E r \in Receivers : K!Measure(c, r)
    PROVE  CalInv'
<1>1. UNCHANGED <<items, disk, attached, edits, acked, losses, behind>> /\ editors[c].pc # "attach"
  BY DEF K!MeasureFails, K!Measure
<1>2. PICK e \in Editor : /\ K!Step(c, e) /\ e.pc # "attach"
                          /\ e.pc = "save" => e.receiver \in Receivers
  <2>1. K!Gone \in Editor /\ K!Gone.pc = "idle"
    BY DEF K!Gone, Editor
  <2>2. ASSUME NEW r \in Receivers, NEW e, e = [K!Gone EXCEPT !.pc = "save", !.receiver = r]
        PROVE  e \in Editor /\ e.pc = "save" /\ e.receiver = r
    BY <2>2 DEF K!Gone, Editor
  <2>3. CASE K!MeasureFails(c)
    BY <2>1, <2>3 DEF K!MeasureFails
  <2>4. ASSUME NEW r \in Receivers, K!Measure(c, r)
        PROVE  \E e \in Editor : K!Step(c, e) /\ e.pc = "save" /\ e.receiver = r
    <3>1. K!Step(c, [K!Gone EXCEPT !.pc = "save", !.receiver = r])
      BY <2>4 DEF K!Measure
    <3> QED BY <2>2, <3>1
  <2> QED BY <2>3, <2>4
<1>3. /\ editors' \in [Callers -> Editor] /\ editors'[c] = e
      /\ \A d \in Callers : d # c => editors'[d] = editors[d]
  BY <1>2, EditorIs
<1> QED BY <1>1, <1>2, <1>3 DEF CalInv

LEMMA EditKeeps ==
    ASSUME CalInv, NEW c \in Callers, NEW r \in Receivers, K!Edit(c, r), editors[c].pc # "attach"
    PROVE  CalInv'
<1>1. /\ edits \in Nat /\ edits' = edits + 1 /\ edits' \in 0..MaxEdits
      /\ items' = [items EXCEPT ![r] = edits'] /\ UNCHANGED <<attached, acked>>
  BY EditBound DEF K!Edit, CalInv
<1>2. \A f \in [Receivers -> 0..edits] : f \in [Receivers -> 0..edits']
  <2>1. 0..edits \subseteq 0..edits'
    BY <1>1
  <2> QED BY <2>1
<1>3. /\ items' \in [Receivers -> 0..edits'] /\ items'[r] = edits'
      /\ \A q \in Receivers : items'[q] >= items[q]
  BY <1>1, <1>2 DEF CalInv
<1>4. /\ attached' \in [Receivers -> 0..edits'] /\ acked' \in [Receivers -> 0..edits']
      /\ disk \in [Receivers -> 0..edits']
  BY <1>1, <1>2 DEF CalInv
<1>5. CASE /\ disk' = items' /\ behind' = behind
           /\ K!Step(c, [pc |-> "attach", receiver |-> r, edit |-> edits'])
  <2> DEFINE e == [pc |-> "attach", receiver |-> r, edit |-> edits']
  <2>1. e \in Editor
    BY <1>1 DEF Editor
  <2>2. /\ editors' \in [Callers -> Editor] /\ editors'[c] = e
        /\ \A d \in Callers : d # c => editors'[d] = editors[d]
    BY <1>5, <2>1, EditorIs
  <2>3. \A q \in Receivers : disk'[q] >= disk[q] /\ disk'[q] \in Nat /\ disk[q] \in Nat
    BY <1>3, <1>5 DEF CalInv
  <2>4. \A q \in Receivers : items'[q] >= disk'[q] /\ disk'[q] >= acked'[q]
    BY <1>1, <1>3, <1>5, <2>3 DEF CalInv
  <2>5. ASSUME NEW d \in Callers
        PROVE  /\ editors'[d].pc = "save" => editors'[d].receiver \in Receivers
               /\ editors'[d].pc = "attach" /\ editors'[d].edit # 0 =>
                    editors'[d].receiver \in Receivers /\ disk'[editors'[d].receiver] >= editors'[d].edit
    <3>1. CASE d = c
      BY <1>1, <1>3, <1>5, <2>2, <3>1
    <3>2. CASE d # c
      <4>1. editors'[d] = editors[d] /\ editors[d].edit \in Nat
        BY <2>2, <3>2 DEF CalInv, Editor
      <4> QED BY <2>3, <4>1 DEF CalInv
    <3> QED BY <3>1, <3>2
  <2> QED BY <1>1, <1>3, <1>4, <1>5, <2>2, <2>4, <2>5 DEF CalInv
<1>6. CASE disk' = disk /\ behind' = TRUE /\ K!Step(c, K!Gone)
  <2>1. K!Gone \in Editor /\ K!Gone.pc = "idle"
    BY DEF K!Gone, Editor
  <2>2. /\ editors' \in [Callers -> Editor] /\ editors'[c] = K!Gone
        /\ \A d \in Callers : d # c => editors'[d] = editors[d]
    BY <1>6, <2>1, EditorIs
  <2>3. \A q \in Receivers : items'[q] >= disk'[q] /\ disk'[q] >= acked'[q]
    BY <1>1, <1>3, <1>6 DEF CalInv
  <2> QED BY <1>1, <1>3, <1>4, <1>6, <2>1, <2>2, <2>3 DEF CalInv
<1> QED BY <1>5, <1>6 DEF K!Edit

LEMMA AttachKeeps ==
    ASSUME CalInv, NEW c \in Callers, K!Attach(c)
    PROVE  CalInv'
<1>1. /\ editors[c].pc = "attach" /\ attached' = items /\ behind' = FALSE
      /\ UNCHANGED <<items, disk, edits, losses>> /\ K!Step(c, K!Gone)
      /\ K!Gone \in Editor /\ K!Gone.pc = "idle"
  BY DEF K!Attach, K!Gone, Editor
<1>2. /\ editors' \in [Callers -> Editor] /\ editors'[c] = K!Gone /\ editors[c] \in Editor
      /\ \A d \in Callers : d # c => editors'[d] = editors[d]
  BY <1>1, EditorIs
<1>3. /\ acked' \in [Receivers -> 0..edits]
      /\ \A r \in Receivers : disk[r] >= acked'[r]
  <2>1. CASE acked' = acked
    BY <2>1 DEF CalInv
  <2>2. CASE /\ editors[c].edit # 0
             /\ acked' = [acked EXCEPT ![editors[c].receiver] = editors[c].edit]
    <3>1. editors[c].receiver \in Receivers /\ disk[editors[c].receiver] >= editors[c].edit
      BY <1>1, <2>2 DEF CalInv
    <3>2. edits \in Nat /\ disk[editors[c].receiver] \in 0..edits /\ editors[c].edit \in Nat
      BY <1>2, <3>1, EditBound DEF CalInv, Editor
    <3>3. editors[c].edit \in 0..edits
      BY <3>1, <3>2
    <3> QED BY <2>2, <3>1, <3>3 DEF CalInv
  <2> QED BY <2>1, <2>2 DEF K!Attach
<1>4. \A d \in Callers :
        /\ editors'[d].pc = "save" => editors'[d].receiver \in Receivers
        /\ editors'[d].pc = "attach" /\ editors'[d].edit # 0 =>
             editors'[d].receiver \in Receivers /\ disk[editors'[d].receiver] >= editors'[d].edit
  BY <1>1, <1>2 DEF CalInv
<1> QED BY <1>1, <1>2, <1>3, <1>4 DEF CalInv

LEMMA RefreshKeeps ==
    ASSUME CalInv, NEW c \in Callers, K!Refresh(c)
    PROVE  CalInv'
<1>1. /\ attached' = [r \in Receivers |-> 0]
      /\ UNCHANGED <<items, disk, edits, acked, losses, behind>>
      /\ edits \in Nat
  BY EditBound DEF K!Refresh, CalInv
<1>2. PICK e \in Editor : K!Step(c, e) /\ e.pc = "attach" /\ e.edit = 0
  <2>1. K!Step(c, [K!Gone EXCEPT !.pc = "attach"])
    BY DEF K!Refresh
  <2>2. ASSUME NEW e, e = [K!Gone EXCEPT !.pc = "attach"]
        PROVE  e \in Editor /\ e.pc = "attach" /\ e.edit = 0
    BY <2>2 DEF K!Gone, Editor
  <2> QED BY <2>1, <2>2
<1>3. /\ editors' \in [Callers -> Editor] /\ editors'[c] = e
      /\ \A d \in Callers : d # c => editors'[d] = editors[d]
  BY <1>2, EditorIs
<1>4. attached' \in [Receivers -> 0..edits]
  BY <1>1
<1> QED BY <1>1, <1>2, <1>3, <1>4 DEF CalInv

LEMMA ReadAgainKeeps ==
    ASSUME CalInv, K!Restart
    PROVE  CalInv'
<1>1. /\ items' = disk /\ attached' = disk /\ editors' = [c \in Callers |-> K!Gone]
      /\ UNCHANGED <<disk, edits, acked>> /\ K!Gone \in Editor /\ K!Gone.pc = "idle"
      /\ \A r \in Receivers : disk[r] \in 0..edits
  BY DEF K!Restart, K!Gone, Editor, CalInv
<1>2. /\ editors' \in [Callers -> Editor]
      /\ \A c \in Callers : editors'[c].pc = "idle"
  BY <1>1
<1>3. \A r \in Receivers : disk[r] >= disk[r]
  BY <1>1, EditBound DEF CalInv
<1> QED BY <1>1, <1>2, <1>3 DEF CalInv

LEMMA CalStep == ASSUME CalInv, [K!Next]_kvars PROVE CalInv'
<1>1. CASE UNCHANGED kvars
  BY <1>1 DEF kvars, CalInv
<1>2. ASSUME NEW c \in Callers, K!SaveMeasured(c) \/ \E r \in Receivers : K!SaveOrDelete(c, r)
      PROVE  CalInv'
  <2>1. editors[c].pc # "attach" /\ \E r \in Receivers : K!Edit(c, r)
    BY <1>2 DEF K!SaveMeasured, K!SaveOrDelete, CalInv
  <2> QED BY <2>1, EditKeeps
<1> QED BY <1>1, <1>2, MeasuringKeeps, AttachKeeps, RefreshKeeps, ReadAgainKeeps DEF K!Next

LEMMA CalMeans == ASSUME CalInv PROVE K!TypeOK /\ K!AttachedAgree /\ K!AckedOnDisk
<1>1. edits \in Nat /\ \A r \in Receivers : items[r] \in Nat /\ disk[r] \in Nat
  BY EditBound DEF CalInv
<1>2. \A c \in Callers : editors[c].edit \in Nat
  BY DEF CalInv, Editor
<1>3. \A r \in Receivers : {items[r], disk[r], attached[r], acked[r]} \subseteq 0..edits
  BY DEF CalInv
<1>4. K!TypeOK
  BY <1>1, <1>2, <1>3 DEF K!TypeOK, CalInv
<1>5. K!AttachedAgree /\ K!AckedOnDisk
  BY DEF K!AttachedAgree, K!AckedOnDisk, CalInv
<1> QED BY <1>4, <1>5

-----------------------------------------------------------------------------
(* All of them. *)

IInv == TransmitterInv /\ AnalyzerInv /\ FPVInv /\ Unsent /\ LabInv /\ CalInv

LEMMA IInvInit == MCInit => IInv
BY TransmitterInit, AnalyzerInit, FPVInit, UnsentInit, LabInit, CalInit DEF MCInit, IInv

LEMMA OneMoves ==
    ASSUME [MCNext]_allvars
    PROVE  /\ [T!Next]_tvars /\ [S!Next]_svars /\ [F!Next]_fvars
           /\ [L!Next]_lvars /\ [K!Next]_kvars
BY DEF MCNext, allvars, Transmits, Sweeps, Views, Tests, Calibrates

LEMMA IInvStep == ASSUME IInv, [MCNext]_allvars PROVE IInv'
BY OneMoves, TransmitterStep, AnalyzerStep, FPVStep, UnsentStep, LabStep, CalStep DEF IInv

LEMMA Inductive == MCSpec => []IInv
BY IInvInit, IInvStep, PTL DEF MCSpec

(* The state of the instruments stays what their code makes of it.          *)
THEOREM InstrumentsTyped == MCSpec => []InstrumentsTypeOK
<1>1. ASSUME TransmitterInv PROVE T!TypeOK
  <2>1. Len(jobs) \in Nat
    BY <1>1, LenProperties DEF TransmitterInv
  <2>2. cancel \in 0..Len(jobs) /\ reported.job \in 0..Len(jobs)
    BY <1>1, <2>1 DEF TransmitterInv, JobReport
  <2>3. \A j \in DOMAIN jobs : jobs[j].phase \in {"starting", "on air", "ended", "failed", "done"}
    BY <1>1, JobTyped DEF Job
  <2>4. reported.state \in {"idle", "running", "stopped", "error", "complete"}
    BY <1>1 DEF TransmitterInv, JobReport
  <2>5. /\ generation \in Callers \cup {Nobody}
        /\ reported.job = 0 <=> reported.state = "idle"
        /\ \A c \in Callers : requests[c].pc = "preparing" <=> generation = c
    BY <1>1 DEF TransmitterInv
  <2> QED BY <2>2, <2>3, <2>4, <2>5 DEF T!TypeOK
<1>2. IInv => InstrumentsTypeOK
  BY <1>1, AnalyzerMeans, FPVMeans, LabMeans, CalMeans DEF IInv, InstrumentsTypeOK
<1> QED BY <1>2, Inductive, PTL

(* What each instrument keeps, however many callers, receivers, jobs,       *)
(* sweeps, viewers, runs and edits there are.                               *)
THEOREM InstrumentsStayKept == MCSpec => []InstrumentsKept
<1>1. IInv => InstrumentsKept
  BY AnalyzerMeans, CalMeans DEF IInv, TransmitterInv, FPVInv, LabInv, InstrumentsKept
<1> QED BY <1>1, Inductive, PTL

(* A slow stop spares later jobs; a pass that captured nothing pauses; no   *)
(* capture begins after the stop; an error is never that of a viewer the    *)
(* operator ended: the steps among what StopsObeyed states.                 *)
THEOREM InstrumentsStep ==
    MCSpec => /\ [][T!LaterJobSpared]_tvars /\ [][S!NoTightLoop]_svars
              /\ [][S!NoCaptureAfterStop]_svars /\ [][F!NoErrorOfStop]_fvars
<1>1. IInv /\ [MCNext]_allvars =>
        /\ [T!LaterJobSpared]_tvars /\ [S!NoTightLoop]_svars
        /\ [S!NoCaptureAfterStop]_svars /\ [F!NoErrorOfStop]_fvars
  BY OneMoves, OnlyThatJob, PassThenPause, StopStopsCaptures, ErrorsAreFailures DEF IInv
<1> QED BY <1>1, Inductive, PTL DEF MCSpec
=============================================================================
