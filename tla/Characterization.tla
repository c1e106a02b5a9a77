---------------------------- MODULE Characterization ----------------------------
(***************************************************************************)
(* The receiver test (characterization.go): one run at a time, a worker    *)
(* per receiver that measures its points until the run is stopped, and the *)
(* results in memory and in a file that is written in place.               *)
(***************************************************************************)
EXTENDS Naturals

CONSTANTS
    Receivers, \* receivers that may be tested
    Points,    \* points per receiver
    MaxRuns,   \* bound: runs
    MaxFaults  \* bound: writes and removals that fail, and crashes

CharacterizationAssumption == {Points, MaxRuns, MaxFaults} \subseteq Nat /\ Points > 0

VARIABLES
    status,  \* CharacterizationManager.status: [running, run, results]
    halt,    \* the run whose stop channel is installed, 0 for nil
    halted,  \* runs whose stop channel is closed
    workers, \* runDevice of each receiver: the run it works for, 0 for none
    file,    \* receiver-characterization.json: a run and its results
    faults,  \* faults so far
    doubtful \* a write or removal failed, or results come from a crash

labvars == <<status, halt, halted, workers, file, faults, doubtful>>

Result == [points : 0..Points, error : {"none", "stopped", "failed"}]
Empty == [run |-> 0, results |-> << >>]
Idle == [run |-> 0, running |-> FALSE, results |-> << >>]
Tested == DOMAIN status.results

TypeOK ==
    /\ status.running \in BOOLEAN /\ status.run \in 0..MaxRuns
    /\ \A r \in Tested : r \in Receivers /\ status.results[r] \in Result
    /\ halt \in 0..MaxRuns /\ halted \subseteq 1..MaxRuns
    /\ workers \in [Receivers -> 0..MaxRuns]
    /\ file.run \in 0..MaxRuns
    /\ halt # 0 => status.running

Init ==
    /\ status = Idle
    /\ halt = 0 /\ halted = {}
    /\ workers = [r \in Receivers |-> 0]
    /\ file = Empty
    /\ faults = 0 /\ doubtful = FALSE

(* persistLocked: a write that fails may leave the file without content. *)
Persist(new) ==
    \/ file' = [run |-> new.run, results |-> new.results] /\ UNCHANGED <<faults, doubtful>>
    \/ /\ faults < MaxFaults /\ faults' = faults + 1
       /\ doubtful' = TRUE
       /\ file' \in {file, Empty}

-----------------------------------------------------------------------------
Start(devices) ==
    /\ ~status.running /\ status.run < MaxRuns
    /\ status' = [run |-> status.run + 1, running |-> TRUE,
                  results |-> [r \in devices |-> [points |-> 0, error |-> "none"]]]
    /\ halt' = status'.run
    /\ workers' = [r \in Receivers |-> IF r \in devices THEN status'.run ELSE workers[r]]
    /\ doubtful' = FALSE
    /\ UNCHANGED <<halted, file, faults>>

\* Faulty variant: the run counts as over at once.
StopAtOnce ==
    /\ status.running /\ halt # 0
    /\ halted' = halted \cup {halt}
    /\ halt' = 0
    /\ status' = [status EXCEPT !.running = FALSE]
    /\ UNCHANGED <<workers, file, faults, doubtful>>

Stop ==
    /\ status.running /\ halt # 0
    /\ halted' = halted \cup {halt}
    /\ halt' = 0
    /\ UNCHANGED <<status, workers, file, faults, doubtful>>

(* The file is gone, or could not be removed; then it is read at the next start. *)
Clear ==
    /\ ~status.running /\ status.run # 0
    /\ status' = [Idle EXCEPT !.run = status.run]
    /\ \/ file' = [run |-> status.run, results |-> << >>] /\ doubtful' = FALSE /\ UNCHANGED faults
       \/ faults < MaxFaults /\ faults' = faults + 1 /\ doubtful' = TRUE /\ UNCHANGED file
    /\ UNCHANGED <<halt, halted, workers>>

WithResult(r, new) == [status EXCEPT !.results[r] = new]

\* Faulty variant: a worker that stops leaves no word.
StopsSilently(r) ==
    /\ workers[r] \in halted
    /\ workers' = [workers EXCEPT ![r] = 0]
    /\ UNCHANGED <<status, halt, halted, file, faults, doubtful>>

(* Before each point the worker looks at its stop channel. *)
StopsWorker(r) ==
    /\ workers[r] \in halted /\ status.results[r].points < Points
    /\ status' = WithResult(r, [status.results[r] EXCEPT !.error = "stopped"])
    /\ workers' = [workers EXCEPT ![r] = 0]
    /\ UNCHANGED <<halt, halted, file, faults, doubtful>>

(* A point is measured, also one that was begun before the stop. *)
Measure(r) ==
    /\ workers[r] # 0 /\ status.results[r].points < Points
    /\ status' = WithResult(r, [status.results[r] EXCEPT !.points = @ + 1])
    /\ UNCHANGED <<halt, halted, workers, file, faults, doubtful>>

(* The receiver fails, is interrupted, or its range is empty. *)
MeasureFails(r) ==
    /\ workers[r] # 0 /\ status.results[r].points < Points
    /\ status' = WithResult(r, [status.results[r] EXCEPT !.error = "failed"])
    /\ workers' = [workers EXCEPT ![r] = 0]
    /\ UNCHANGED <<halt, halted, file, faults, doubtful>>

(* The last point is in: the results so far are written. *)
Completes(r) ==
    /\ workers[r] # 0 /\ status.results[r].points = Points
    /\ workers' = [workers EXCEPT ![r] = 0]
    /\ Persist(status)
    /\ UNCHANGED <<status, halt, halted>>

\* Faulty variant: what the workers wrote is taken for the results.
FinishUnsaved ==
    /\ status.running /\ \A r \in Receivers : workers[r] = 0
    /\ status' = [status EXCEPT !.running = FALSE]
    /\ halt' = 0
    /\ UNCHANGED <<halted, workers, file, faults, doubtful>>

\* Faulty variant: the stop channel stays installed.
FinishInstalled ==
    /\ status.running /\ \A r \in Receivers : workers[r] = 0
    /\ status' = [status EXCEPT !.running = FALSE]
    /\ Persist(status)
    /\ UNCHANGED <<halt, halted, workers>>

\* Faulty variant: a run ends only while its stop channel is installed.
FinishUnlessStopped ==
    /\ status.running /\ \A r \in Receivers : workers[r] = 0
    /\ halt = status.run
    /\ status' = [status EXCEPT !.running = FALSE]
    /\ halt' = 0
    /\ Persist(status)
    /\ UNCHANGED <<halted, workers>>

Finish ==
    /\ status.running /\ \A r \in Receivers : workers[r] = 0
    /\ status' = [status EXCEPT !.running = FALSE]
    /\ halt' = 0
    /\ Persist(status)
    /\ UNCHANGED <<halted, workers>>

(* The program is killed, perhaps within a write, and started again: what   *)
(* the file holds is loaded as a run that is over.                          *)
Restart ==
    /\ faults < MaxFaults /\ faults' = faults + 1
    /\ file' \in IF status.running THEN {file, Empty} ELSE {file}
    /\ status' = [run |-> status.run, running |-> FALSE, results |-> file'.results]
    /\ doubtful' = (doubtful \/ status.running)
    /\ halt' = 0 /\ halted' = {}
    /\ workers' = [r \in Receivers |-> 0]

Work ==
    \/ \E r \in Receivers : StopsWorker(r) \/ Measure(r) \/ Completes(r)
    \/ Finish

Next ==
    \/ \E devices \in SUBSET Receivers \ {{}} : Start(devices)
    \/ Stop \/ Clear \/ Restart \/ Finish
    \/ \E r \in Receivers : StopsWorker(r) \/ Measure(r) \/ MeasureFails(r) \/ Completes(r)

Spec == Init /\ [][Next]_labvars

-----------------------------------------------------------------------------
(* Workers of an earlier run never write into the results of a later one,   *)
(* and a run that is over has none (Start's test, run's WaitGroup).         *)
RunsApart == \A r \in Receivers : workers[r] # 0 => status.running /\ workers[r] = status.run

(* The results of a run that is over account for every receiver: all its    *)
(* points, or the reason they are missing (runDevice).                      *)
ResultsExplained ==
    ~status.running /\ ~doubtful =>
        \A r \in Tested : status.results[r].points = Points \/ status.results[r].error # "none"

(* What is shown while nothing runs is what a restart would show, unless a  *)
(* write failed (run's last write, Clear).                                  *)
ShownIsSaved == ~status.running /\ ~doubtful => status.results = file.results
=============================================================================
