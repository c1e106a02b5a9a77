------------------------------ MODULE Transmitter ------------------------------
(***************************************************************************)
(* Transmit jobs (transmit.go).  A caller prepares a waveform alone,       *)
(* behind the generation lock, and only then installs the job, whose tool  *)
(* runs under a context that StopTransmit cancels.                         *)
(***************************************************************************)
EXTENDS Naturals, Sequences

CONSTANTS
    Callers, \* requests in progress
    Nobody,  \* no caller
    MaxJobs  \* bound: jobs ever installed

TransmitterAssumption == Nobody \notin Callers /\ MaxJobs \in Nat

VARIABLES
    generation, \* the caller that holds transmitState.generation
    cancel,     \* transmitState.cancel: the job it cancels, 0 for none
    reported,   \* transmitState.status: its state and its job
    jobs,       \* jobs installed: [dry, cancelled, phase]
    requests    \* per caller: what it does, the job it stops, jobs it saw

txvars == <<generation, cancel, reported, jobs, requests>>

Quiet == [pc |-> "idle", dry |-> FALSE, job |-> 0, seen |-> 0]
Unfinished(j) == jobs[j].phase # "done"

TypeOK ==
    /\ generation \in Callers \cup {Nobody}
    /\ cancel \in 0..Len(jobs)
    /\ reported.state \in {"idle", "running", "stopped", "error", "complete"}
    /\ reported.job \in 0..Len(jobs) /\ (reported.job = 0 <=> reported.state = "idle")
    /\ \A j \in DOMAIN jobs :
         jobs[j].phase \in {"starting", "on air", "ended", "failed", "done"}
    /\ \A c \in Callers : requests[c].pc = "preparing" <=> generation = c

Init ==
    /\ generation = Nobody
    /\ cancel = 0
    /\ reported = [state |-> "idle", job |-> 0]
    /\ jobs = << >>
    /\ requests = [c \in Callers |-> Quiet]

-----------------------------------------------------------------------------
\* Faulty variant: only the state that is reported keeps a second job out.
PrepareUnchecked(c, dry) ==
    /\ requests[c].pc = "idle" /\ generation = Nobody /\ Len(jobs) < MaxJobs
    /\ generation' = c
    /\ requests' = [requests EXCEPT ![c] = [Quiet EXCEPT !.pc = "preparing", !.dry = dry]]
    /\ UNCHANGED <<cancel, reported, jobs>>

(* TryLock fails when another caller prepares; a job in progress refuses.   *)
(* A session or mapper job on the receiver refuses too: GivesUp.            *)
Prepare(c, dry) ==
    /\ requests[c].pc = "idle" /\ generation = Nobody /\ Len(jobs) < MaxJobs
    /\ cancel = 0
    /\ generation' = c
    /\ requests' = [requests EXCEPT ![c] = [Quiet EXCEPT !.pc = "preparing", !.dry = dry]]
    /\ UNCHANGED <<cancel, reported, jobs>>

\* Faulty variant: an early return keeps the lock.
GivesUpLocked(c) ==
    /\ requests[c].pc = "preparing"
    /\ requests' = [requests EXCEPT ![c] = Quiet]
    /\ UNCHANGED <<generation, cancel, reported, jobs>>

(* The request is invalid, its receiver is in use, or no waveform results. *)
GivesUp(c) ==
    /\ requests[c].pc = "preparing"
    /\ generation' = Nobody
    /\ requests' = [requests EXCEPT ![c] = Quiet]
    /\ UNCHANGED <<cancel, reported, jobs>>

(* The waveform is on disk; the job starts. *)
Install(c) ==
    /\ requests[c].pc = "preparing"
    /\ jobs' = Append(jobs, [dry |-> requests[c].dry, cancelled |-> FALSE, phase |-> "starting"])
    /\ cancel' = Len(jobs')
    /\ reported' = [state |-> "running", job |-> Len(jobs')]
    /\ generation' = Nobody
    /\ requests' = [requests EXCEPT ![c] = Quiet]

Becomes(j, phase) ==
    /\ jobs' = [jobs EXCEPT ![j].phase = phase]
    /\ UNCHANGED <<generation, cancel, reported, requests>>

(* A tool is not started under a cancelled context, or is not installed. *)
ToolStarts(j) ==
    /\ jobs[j].phase = "starting"
    /\ \/ jobs[j].dry /\ Becomes(j, "ended")
       \/ ~jobs[j].dry /\ ~jobs[j].cancelled /\ Becomes(j, "on air")
       \/ ~jobs[j].dry /\ Becomes(j, "failed")

(* The waveform was sent, the tool failed, or the context killed it. *)
ToolExits(j) ==
    /\ jobs[j].phase = "on air"
    /\ \E phase \in {"ended", "failed"} : Becomes(j, phase)

\* Faulty variant: the context is only looked at before the tool starts.
KilledBeforeStart(j) ==
    jobs[j].phase = "starting" /\ ~jobs[j].dry /\ jobs[j].cancelled /\ Becomes(j, "failed")

Killed(j) == jobs[j].phase = "on air" /\ jobs[j].cancelled /\ Becomes(j, "failed")

\* Faulty variant: the state is reported, and the job stays installed.
FinishReported(j) ==
    /\ jobs[j].phase \in {"ended", "failed"}
    /\ jobs' = [jobs EXCEPT ![j].phase = "done"]
    /\ reported' = [state |-> IF jobs[j].cancelled THEN "stopped"
                              ELSE IF jobs[j].phase = "failed" THEN "error" ELSE "complete",
                    job |-> j]
    /\ UNCHANGED <<generation, cancel, requests>>

Finish(j) ==
    /\ jobs[j].phase \in {"ended", "failed"}
    /\ jobs' = [jobs EXCEPT ![j].phase = "done"]
    /\ cancel' = 0
    /\ reported' = [state |-> IF jobs[j].cancelled THEN "stopped"
                              ELSE IF jobs[j].phase = "failed" THEN "error" ELSE "complete",
                    job |-> j]
    /\ UNCHANGED <<generation, requests>>

-----------------------------------------------------------------------------
(* StopTransmit reads the function under the lock and calls it after. *)
StopTransmit(c) ==
    /\ requests[c].pc = "idle" /\ cancel # 0
    /\ requests' = [requests EXCEPT ![c] =
                     [Quiet EXCEPT !.pc = "stopping", !.job = cancel, !.seen = Len(jobs)]]
    /\ UNCHANGED <<generation, cancel, reported, jobs>>

\* Faulty variant: the function is read when it is called.
CancelsInstalled(c) ==
    /\ requests[c].pc = "stopping"
    /\ jobs' = IF cancel = 0 THEN jobs ELSE [jobs EXCEPT ![cancel].cancelled = TRUE]
    /\ requests' = [requests EXCEPT ![c] = Quiet]
    /\ UNCHANGED <<generation, cancel, reported>>

Cancels(c) ==
    /\ requests[c].pc = "stopping"
    /\ jobs' = [jobs EXCEPT ![requests[c].job].cancelled = TRUE]
    /\ requests' = [requests EXCEPT ![c] = Quiet]
    /\ UNCHANGED <<generation, cancel, reported>>

Next ==
    \/ \E c \in Callers : \/ \E dry \in BOOLEAN : Prepare(c, dry)
                          \/ GivesUp(c) \/ Install(c) \/ StopTransmit(c) \/ Cancels(c)
    \/ \E j \in DOMAIN jobs : ToolStarts(j) \/ ToolExits(j) \/ Killed(j) \/ Finish(j)

Spec == Init /\ [][Next]_txvars

-----------------------------------------------------------------------------
(* A job that is not over is the one a stop reaches: no job runs on without *)
(* anybody able to end it, and no two tools transmit (Transmit's two checks *)
(* of cancel, the second of which therefore never refuses).                 *)
JobCancellable ==
    /\ \A j \in DOMAIN jobs : Unfinished(j) => cancel = j
    /\ generation # Nobody => cancel = 0

(* "running" is reported exactly while there is a job to stop, and names it *)
(* (runTransmit's last step).                                               *)
ReportTruthful ==
    /\ reported.state = "running" <=> cancel # 0
    /\ cancel # 0 => reported.job = cancel

(* A stop that is slow to cancel never ends a job started after it was      *)
(* asked for (StopTransmit).                                                *)
LaterJobSpared ==
    \A j \in DOMAIN jobs :
        jobs'[j].cancelled /\ ~jobs[j].cancelled =>
            \E c \in Callers : requests[c].pc = "stopping" /\ j <= requests[c].seen
=============================================================================
