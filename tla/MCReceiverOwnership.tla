------------------------ MODULE MCReceiverOwnership ------------------------
(* Two receivers, two Mapper jobs and one profile of each kind.             *)

CONSTANTS Operators, Devices, Profiles, Jobs, Kind, Assigned, None, MaxChans,
    d1, d2, survey, tune, trunk

VARIABLES running, stopChan, plan, captures, monitors, engine,
    mapperJobs, mapperLoops, lab, ops, lastChan, closedChans

O == INSTANCE ReceiverOwnership WITH closed <- closedChans

ASSUME OwnersAssumption == O!OwnershipAssumption

OwnersSpec == O!Spec
FairOwnersSpec == O!FairSpec

MCDevices == {d1, d2}
MCProfiles == {survey, tune, trunk}
MCKind == [p \in MCProfiles |->
             CASE p = survey -> "survey" [] p = tune -> "stream" [] p = trunk -> "p25"]
(* A survey partitioned over both receivers, a tuner and a trunking system on  *)
(* one each.                                                                 *)
MCAssigned == [p \in MCProfiles |->
             CASE p = survey -> {d1, d2} [] p = tune -> {d1} [] p = trunk -> {d1}]

(* The type invariant.                                                       *)
OwnersTypeOK == O!TypeOK

(* A Mapper handle is registered exactly as long as its loop runs             *)
(* (StartMapperJob, finishMapperJob).                                        *)
HandleMatchesLoop == O!HandleMatchesLoop

(* Live sessions, Mapper jobs and characterization keep out of each other's   *)
(* receivers, and Mapper jobs out of one another's (startProfile,            *)
(* StartMapperJob, StartCharacterization).                                   *)
OwnersExclusive == O!OwnersExclusive

(* Every capture loop can still be stopped (startProfile, Stop).              *)
NoOrphanCapture == O!NoOrphanCapture

(* Two capture loops nobody has stopped are never on the same receiver        *)
(* (ReceiverOwnership).                                                      *)
CaptureExclusive == O!CaptureExclusive

(* The P25 decoder has let go of a receiver before it is captured (Stop).     *)
P25ReturnsFirst == O!P25ReturnsFirst

(* Whatever was told to stop gives its receivers back (liveSurveyLoop,        *)
(* mapperJobLoop, p25MonitorLoop).                                           *)
StopsRelease == O!StopsRelease
=============================================================================
