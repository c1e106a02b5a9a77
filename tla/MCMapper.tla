------------------------------- MODULE MCMapper -------------------------------
(* Mapper's two records (mapper.go), the jobs with the loops that run them   *)
(* and the frequencies with their uploads, and how a pass groups its targets *)
(* (live_survey.go).  The records have separate locks and files, and a pass  *)
(* is of one goroutine, so a behaviour is of one of these and leaves the     *)
(* others alone.                                                            *)
(*                                                                           *)
(* Settings "live" run until stopped; "cycle" runs two phases and repeats;   *)
(* "once" runs them once.  One frequency, the upload loop and one request.   *)
EXTENDS MapperJobs

CONSTANTS
    Keys, Uploaders, LoopUploader, Clearer, MapperConfigs, MaxTime, MaxEvents,
    Places, Widths, Automatic, UserRates, Limits
VARIABLES part, records, watermark, config, configFile, recordsFile, saving, uploads,
          frames, sheet, clearing, ghost, spent,
          pass, left, batches

MCConfigs == {"live", "once", "cycle"}
MCScheduled == {"once", "cycle"}
MCRepeating == {"cycle"}

MCMapperConfigs == {[hook |-> TRUE, auto |-> TRUE, verifiedOnly |-> only] : only \in BOOLEAN}

R == INSTANCE MapperRecords
B == INSTANCE MapperBatches WITH job <- pass

ASSUME MapperAssumption == R!MapperRecordsAssumption /\ B!BatchesAssumption

recordsvars == <<records, watermark, config, configFile, recordsFile, saving, uploads,
                 frames, sheet, clearing, ghost, spent>>
bvars == <<pass, left, batches>>
allvars == <<part, vars, recordsvars, bvars>>

(* The pass of the behaviours that are about something else. *)
FixedPass == [targets |-> <<>>, rate |-> 0, limit |-> 1]

MCInit ==
    /\ part \in {"jobs", "records", "pass"} /\ Init /\ R!Init
    /\ IF part = "pass" THEN B!BatchesInit ELSE pass = FixedPass /\ left = <<>> /\ batches = <<>>

JobsStep(A) == part = "jobs" /\ A /\ UNCHANGED <<part, recordsvars, bvars>>
RecordsStep(A) == part = "records" /\ A /\ UNCHANGED <<part, vars, bvars>>
PassStep(A) == part = "pass" /\ A /\ UNCHANGED <<part, vars, recordsvars>>

MCNext == JobsStep(Next) \/ RecordsStep(R!Next) \/ PassStep(B!BatchesNext)

PhaseStep(j) == PhaseFails(j) \/ BeginJobSession(j) \/ SetJobPhase(j)

(* The goroutines of jobs run on, a waiter gets persistMu, and a stop is     *)
(* seen within a capture.  Whether a phase finds targets is left open, but   *)
(* it does one or the other.  The upload loop and its posts run on, and      *)
(* failed posts are bounded, so that a post is confirmed in the end.         *)
Fairness ==
    /\ \A j \in Jobs :
         /\ WF_allvars(JobsStep(PhaseStep(j) \/ Finishing(j) \/ WriteJobs(j)))
         /\ SF_allvars(JobsStep(SeeStop(j))) /\ SF_allvars(JobsStep(Snapshot(j)))
    /\ WF_allvars(RecordsStep(R!LoopStep \/ R!ClearStep))

MCSpec == MCInit /\ [][MCNext]_allvars /\ Fairness

(* The type invariants. *)
MapperTypeOK == TypeOK /\ R!TypeOK /\ B!BatchesTypeOK

(* The watermark covers delivered rows only, decoded frames outlast guesses   *)
(* and restarts, what a saved clear removed stays away, and unidentified rows *)
(* need consent (MapperRecords).                                             *)
RecordsKept == R!WatermarkDelivered /\ R!FramesKept /\ R!ClearSticks /\ R!ConsentedRows

(* A pass listens to each target once, and what it captures together is heard *)
(* (MapperBatches).                                                          *)
PassHeard == B!EachTargetOnce /\ B!CaptureCovers

(* What Mapper owes: the end of a job that was told to stop, and rows the    *)
(* settings let through to the sheet.                                        *)
Owed == (\E j \in Jobs : handles[j] = "stopping") \/ (\E k \in Keys : R!Pending(k))

(* A job told to stop is soon free to start again, and with automatic upload *)
(* on, eligible rows reach the sheet, however many uploads overlapped,       *)
(* failed or forgot them (mapperJobLoop, loop).                              *)
OwedSettled == Owed ~> ~Owed
=============================================================================
