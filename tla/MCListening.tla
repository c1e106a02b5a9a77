----------------------------- MODULE MCListening -----------------------------
(* What receivers listen to and how: the receivers a profile is given, a    *)
(* tuner and a channel bank, the gains of a Mapper job, the P25 engine's     *)
(* supervision, and its calls.  They share no state, so a behaviour takes    *)
(* steps of one of them.                                                    *)
EXTENDS P25Engine

CONSTANTS
    Channels, Groups, Secret, Listed, Expiry, MaxTicks, MaxAired, MaxMissed,
    Receivers, Any, MaxAssignments, MaxChannels, MaxSteps, MaxRefreshes,
    Frequencies, Decoders, NeedIQ, Centers, BatchFrames, MaxSessions, MaxTunes, MaxOutside,
    LongestFrames, MaxFrames, SavedLNA, SavedVGA
VARIABLES
    part, air, aired, now, missed, calls, previous, events, mixer,
    profile, connected, refreshes, plan, live, pieces,
    tuned, stopped, wanted, spectrum, updates, loop, decoding, recorded, counted,
    frame, bank, transmission, since, heard, saved,
    device, mode, gains, quiet, readings

(* Both centers hold one frequency, the first holds the other as well. *)
MCWindow(c) == IF c = 1 THEN Frequencies ELSE {CHOOSE f \in Frequencies : TRUE}

C == INSTANCE P25Calls
P == INSTANCE SurveyPlan
T == INSTANCE TunerLoop WITH session <- tuned, Window <- MCWindow
W == INSTANCE WidebandMonitor WITH events <- saved
G == INSTANCE MapperTuning

ASSUME ListeningAssumption ==
    /\ C!P25CallsAssumption /\ P!PlanAssumption /\ T!TunerAssumption
    /\ W!MonitorAssumption /\ G!TuningAssumption

callvars == <<air, aired, now, missed, calls, previous, events, mixer>>
planvars == <<profile, connected, refreshes, plan, live, pieces>>
tunervars == <<tuned, stopped, wanted, spectrum, updates, loop, decoding, recorded, counted>>
bankvars == <<frame, bank, transmission, since, heard, saved>>
gainvars == <<device, mode, gains, quiet, readings>>
allvars == <<vars, part, callvars, planvars, tunervars, bankvars, gainvars>>

(* The profile, receiver and gains of the behaviours that are not about them. *)
FixedProfile == [pins |-> <<Any>>, channels |-> 0, steps |-> 0]
FixedTuning ==
    <<[kind |-> "RTL-SDR", calibrated |-> FALSE, lna |-> 0, vga |-> 0, amp |-> FALSE],
      [gain |-> "saved", amp |-> "off"], 0, 0>>

MCInit ==
    /\ part \in {"engine", "calls", "plan", "tuner", "bank", "gains"}
    /\ Init /\ (part = "engine" \/ kind = "OP25") /\ C!Init /\ T!TunerInit /\ W!MonitorInit
    /\ P!PlanInit /\ (part = "plan" \/ (profile = FixedProfile /\ connected = {}))
    /\ G!TuningInit /\ (part = "gains" \/ <<device, mode, gains.lna, gains.vga>> = FixedTuning)

EngineStep(A) == part = "engine" /\ A /\ UNCHANGED <<part, callvars, planvars, tunervars, bankvars, gainvars>>
CallsStep(A) == part = "calls" /\ A /\ UNCHANGED <<part, vars, planvars, tunervars, bankvars, gainvars>>
PlanStep(A) == part = "plan" /\ A /\ UNCHANGED <<part, vars, callvars, tunervars, bankvars, gainvars>>
TunerStep(A) == part = "tuner" /\ A /\ UNCHANGED <<part, vars, callvars, planvars, bankvars, gainvars>>
BankStep(A) == part = "bank" /\ A /\ UNCHANGED <<part, vars, callvars, planvars, tunervars, gainvars>>
GainsStep(A) == part = "gains" /\ A /\ UNCHANGED <<part, vars, callvars, planvars, tunervars, bankvars>>

MCNext ==
    \/ EngineStep(Next) \/ CallsStep(C!Next) \/ PlanStep(P!SurveyPlanNext)
    \/ TunerStep(T!TunerNext) \/ BankStep(W!MonitorNext) \/ GainsStep(G!TuningNext)

(* What works under the engine's lock goes on; so does a tuner's loop, and a  *)
(* decoder has a time limit.                                                *)
Fairness ==
    /\ WF_allvars(EngineStep(Work))
    /\ \A s \in T!Sessions : WF_allvars(TunerStep(T!LoopSteps(s))) /\ WF_allvars(TunerStep(T!Decoding(s)))

MCSpec == MCInit /\ [][MCNext]_allvars /\ Fairness

(* The type invariants. *)
ListeningTypeOK == TypeOK /\ C!TypeOK /\ P!PlanTypeOK /\ T!TunerTypeOK /\ W!MonitorTypeOK /\ G!TuningTypeOK

(* A transmission is recorded once, as the event of a clear call that has a   *)
(* strip (P25Calls).                                                        *)
CallsRecorded == C!RecordedOnce /\ C!EventsHaveStrips

(* No receiver has two roles, no assignment waits beside a free one, and      *)
(* receivers share channels and steps (SurveyPlan); every frame heard is in   *)
(* one transmission, which is bounded (WidebandMonitor).                     *)
ScansShared ==
    /\ P!OneRoleEach /\ P!WaitsForNone /\ P!ScannedOnce
    /\ W!EachFrameOnce /\ W!TransmissionBounded

(* The newest request is the one tuned to, inside the passband, and decoders, *)
(* one at a time, hear and report one frequency (TunerLoop).                 *)
TunedAsAsked ==
    /\ T!NewestTuneWins /\ T!TunedInside
    /\ T!BatchOfOneFrequency /\ T!OneDecoderJob /\ T!ResultsAttributed

(* A followed call is followed on or recorded (P25Calls), a running engine    *)
(* gets the newest mutes and its end is noticed (P25Engine), and stopped      *)
(* tuners release their receiver and their decoders end (TunerLoop).          *)
ListeningSettles ==
    [][C!CallKept]_callvars /\ MutesReach /\ ExitEndsSession /\ T!TunerSettles

(* Gain rises after quiet captures up to the full sensitivity, falls with an  *)
(* overload, and stays where it was asked for (MapperTuning).                *)
GainsFollow ==
    G!RaisedWhenQuiet /\ G!OverloadLowers /\ G!AskedGainsKept /\ G!QuietReachesMost
=============================================================================
