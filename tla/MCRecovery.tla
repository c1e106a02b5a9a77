----------------------------- MODULE MCRecovery ----------------------------
(* The event journals, and captures between analysis, cleanup and restart.  *)
(* A behaviour is of one of them.  The journals meet power failures, or     *)
(* killed processes and writes cut short.                                   *)
EXTENDS EventJournal

CONSTANTS e1, e2, Captures, GroupOf, MediaKinds, Dispositions, Workers, ModelEnabled,
    MaxStarts, MaxPrunes, MaxRestarts

VARIABLES part, event, disk, run, ctl, queue, worker, count, job, analyzed, used

MCEvents == {e1, e2}
TwoCaptures == {1, 2}
OneGroup == [e \in TwoCaptures |-> 1]

\* The module of the theorems, so that they can be cited of this instance.
D == INSTANCE DeferredProofs WITH Events <- Captures, JobEvents <- Captures

ASSUME RecoveryAssumption == D!DeferredAssumption

dvars == <<event, disk, run, ctl, queue, worker, count, job, analyzed, used>>
allvars == <<part, vars, dvars>>

MCInit == part \in {"power", "kill", "restart"} /\ Init /\ D!Init

Journal ==
    /\ part \in {"power", "kill"} /\ Next
    /\ \/ part = "power" /\ Unharmed'
       \/ part = "kill" /\ faults'.power = 0
    /\ UNCHANGED <<part, dvars>>
Analysis == part = "restart" /\ D!Next /\ UNCHANGED <<part, vars>>

MCNext == Journal \/ Analysis
MCSpec == MCInit /\ [][MCNext]_allvars

(* IQ goes only after a successful analysis, and a restarted store agrees     *)
(* with the disk (DeferredAnalysis).                                         *)
MediaKept == D!EvidenceKept /\ D!RestartLinksMedia
=============================================================================
