---------------------------- MODULE MCInstruments ----------------------------
(* The instruments: transmit jobs, the spectrum analyzer, the FPV receiver, *)
(* the receiver test and the calibrations.  They share no state, so a       *)
(* behaviour is of one of them.                                             *)
EXTENDS Naturals, Sequences

CONSTANTS Callers, Clearers, Nobody, Receivers, Swept,
    MaxJobs, MaxSweeps, MaxSlices, MaxViewers, Points, MaxRuns, MaxFaults, MaxEdits
VARIABLES part,
    generation, cancel, reported, jobs, requests,
    installed, sweeps, analysts, overlapped,
    command, stopped, video, viewers, pilots, crossed,
    status, halt, halted, workers, file, faults, doubtful,
    items, disk, attached, editors, edits, acked, losses, behind

T == INSTANCE Transmitter
S == INSTANCE SpectrumAnalyzer WITH Receivers <- Swept
F == INSTANCE FPVReceiver
L == INSTANCE Characterization
K == INSTANCE Calibrations

ASSUME InstrumentsAssumption ==
    /\ T!TransmitterAssumption /\ S!SpectrumAnalyzerAssumption /\ F!FPVReceiverAssumption
    /\ L!CharacterizationAssumption /\ K!CalibrationsAssumption

tvars == <<generation, cancel, reported, jobs, requests>>
svars == <<installed, sweeps, analysts, overlapped>>
fvars == <<command, stopped, video, viewers, pilots, crossed>>
lvars == <<status, halt, halted, workers, file, faults, doubtful>>
kvars == <<items, disk, attached, editors, edits, acked, losses, behind>>
allvars == <<part, tvars, svars, fvars, lvars, kvars>>

MCInit ==
    /\ part \in {"transmitter", "analyzer", "fpv", "lab", "calibrations"}
    /\ T!Init /\ S!Init /\ F!Init /\ L!Init /\ K!Init

Transmits(A) == part = "transmitter" /\ A /\ UNCHANGED <<part, svars, fvars, lvars, kvars>>
Sweeps(A) == part = "analyzer" /\ A /\ UNCHANGED <<part, tvars, fvars, lvars, kvars>>
Views(A) == part = "fpv" /\ A /\ UNCHANGED <<part, tvars, svars, lvars, kvars>>
Tests(A) == part = "lab" /\ A /\ UNCHANGED <<part, tvars, svars, fvars, kvars>>
Calibrates(A) == part = "calibrations" /\ A /\ UNCHANGED <<part, tvars, svars, fvars, lvars>>

MCNext ==
    \/ Transmits(T!Next) \/ Sweeps(S!Next) \/ Views(F!Next) \/ Tests(L!Next) \/ Calibrates(K!Next)

(* The tools end when they are killed and the goroutines of the program run. *)
Fairness ==
    /\ WF_allvars(Transmits(\E j \in DOMAIN jobs : T!ToolStarts(j) \/ T!Killed(j) \/ T!Finish(j)))
    /\ \A s \in 1..MaxSweeps : WF_allvars(Sweeps(s \in DOMAIN sweeps /\ S!Loop(s)))
    /\ WF_allvars(Views(\E v \in DOMAIN viewers : F!Ending(v)))
    /\ WF_allvars(Tests(L!Work))

MCSpec == MCInit /\ [][MCNext]_allvars /\ Fairness

(* The type invariants. *)
InstrumentsTypeOK == T!TypeOK /\ S!TypeOK /\ F!TypeOK /\ L!TypeOK /\ K!TypeOK

(* A job is cancellable until it is over, and reported while there is one to  *)
(* stop (Transmitter); no stop channel is closed twice, and only overlapping  *)
(* starts orphan a sweep (SpectrumAnalyzer); the viewer that is reported is    *)
(* the one installed, and only crossing starts leave one without an owner     *)
(* (FPVReceiver); no worker outlives its run, results account for every       *)
(* receiver and are saved as shown (Characterization); receivers carry the    *)
(* calibrations of the store, the acknowledged ones are on disk              *)
(* (Calibrations).                                                           *)
InstrumentsKept ==
    /\ T!JobCancellable /\ T!ReportTruthful
    /\ S!ClosedOnce /\ S!OverlapOnlyOrphans
    /\ F!ReportOfInstalled /\ F!CrossingOnlyStrays
    /\ L!RunsApart /\ L!ResultsExplained /\ L!ShownIsSaved
    /\ K!AttachedAgree /\ K!AckedOnDisk

(* A job that is stopped ends (StopTransmit, runTransmit). *)
StoppedJobEnds == (cancel # 0 /\ jobs[cancel].cancelled) ~> (cancel = 0)
(* Sweeps that are stopped end, whatever their receivers and the other      *)
(* sweeps do (runSpectrumAnalyzer).                                         *)
Ending(s) == sweeps[s].closed > 0 /\ sweeps[s].phase # "ended"
StoppedSweepEnds == (\E s \in DOMAIN sweeps : Ending(s)) ~> (\A s \in DOMAIN sweeps : ~Ending(s))
(* A viewer that ended is not reported running for ever (StartFPV's waiter). *)
FalselyRunning == video.running /\ ~viewers[video.of].alive
EndNoticed == FalselyRunning ~> ~FalselyRunning
(* A test that is stopped ends (Stop, run). *)
StoppedTestEnds == (halted # {} /\ status.run \in halted) ~> ~status.running

(* What is stopped ends, and is not taken for a failure; a slow stop spares   *)
(* later jobs (Transmitter), no capture begins after the stop and passes that *)
(* capture nothing pause (SpectrumAnalyzer, FPVReceiver).                     *)
StopsObeyed ==
    /\ StoppedJobEnds /\ StoppedSweepEnds /\ EndNoticed /\ StoppedTestEnds
    /\ [][T!LaterJobSpared]_tvars /\ [][S!NoTightLoop]_svars
    /\ [][S!NoCaptureAfterStop]_svars /\ [][F!NoErrorOfStop]_fvars
=============================================================================
