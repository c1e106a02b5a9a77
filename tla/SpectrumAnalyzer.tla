--------------------------- MODULE SpectrumAnalyzer ---------------------------
(***************************************************************************)
(* The spectrum analyzer (spectrum_analyzer.go): each start stops the      *)
(* sweep it finds, installs a new one and lets it loop over its receivers  *)
(* until its stop channel is closed.                                       *)
(***************************************************************************)
EXTENDS Naturals, Sequences

CONSTANTS
    Callers,   \* requests in progress
    Clearers,  \* bound: the callers that also clear
    Receivers, \* receivers of a sweep
    MaxSweeps, \* bound: sweeps ever started
    MaxSlices  \* bound: slices a sweep counts

SpectrumAnalyzerAssumption == Clearers \subseteq Callers /\ {MaxSweeps, MaxSlices} \subseteq Nat

VARIABLES
    installed,  \* Runtime.spectrumAnalyzer: the number of its sweep, 0 for none
    sweeps,     \* spectrumAnalyzerState of each sweep started, and its loop
    analysts,   \* per caller: what it does and the sweep it holds
    overlapped  \* history: two starts were in progress at once

savars == <<installed, sweeps, analysts, overlapped>>

Away == [pc |-> "idle", starts |-> FALSE, sweep |-> 0]
NewSweep == [running |-> TRUE, closed |-> 0, slices |-> 0, before |-> 0, phase |-> "begin",
             receivers |-> [r \in Receivers |-> "done"], took |-> FALSE, cleared |-> FALSE]
Closed(s) == sweeps[s].closed > 0

TypeOK ==
    /\ installed \in 0..Len(sweeps)
    /\ \A s \in DOMAIN sweeps :
         /\ sweeps[s].slices \in 0..MaxSlices /\ sweeps[s].before \in 0..MaxSlices
         /\ sweeps[s].phase \in {"begin", "passing", "pausing", "ended"}
         /\ sweeps[s].phase # "passing" => \A r \in Receivers : sweeps[s].receivers[r] = "done"
    /\ \A c \in Callers : analysts[c].sweep \in 0..Len(sweeps)

Init ==
    /\ installed = 0
    /\ sweeps = << >>
    /\ analysts = [c \in Callers |-> Away]
    /\ overlapped = FALSE

Step(c, next) == analysts' = [analysts EXCEPT ![c] = next]

-----------------------------------------------------------------------------
\* Faulty variant: a start does not look for a sweep to stop.
RequestFresh(c, starts) ==
    /\ analysts[c].pc = "idle"
    /\ starts => Len(sweeps) < MaxSweeps
    /\ Step(c, [pc |-> "stop", starts |-> starts, sweep |-> IF starts THEN 0 ELSE installed])
    /\ overlapped' = (overlapped \/ (starts /\ \E d \in Callers : analysts[d].starts))
    /\ UNCHANGED <<installed, sweeps>>

(* StartSpectrumAnalyzer and StopSpectrumAnalyzer find the sweep to stop. *)
Request(c, starts) ==
    /\ analysts[c].pc = "idle"
    /\ starts => Len(sweeps) < MaxSweeps
    /\ Step(c, [pc |-> "stop", starts |-> starts, sweep |-> installed])
    /\ overlapped' = (overlapped \/ (starts /\ \E d \in Callers : analysts[d].starts))
    /\ UNCHANGED <<installed, sweeps>>

\* Faulty variant: Running is left to the loop.
CloseAgain(c) ==
    /\ analysts[c].pc = "stop"
    /\ sweeps' = IF analysts[c].sweep = 0 \/ sweeps[analysts[c].sweep].phase = "ended" THEN sweeps
                 ELSE [sweeps EXCEPT ![analysts[c].sweep].closed = @ + 1]
    /\ Step(c, IF analysts[c].starts THEN [analysts[c] EXCEPT !.pc = "install"] ELSE Away)
    /\ UNCHANGED <<installed, overlapped>>

(* The stop channel of a running sweep is closed, once. *)
Close(c) ==
    /\ analysts[c].pc = "stop"
    /\ sweeps' = IF analysts[c].sweep = 0 \/ ~sweeps[analysts[c].sweep].running THEN sweeps
                 ELSE [sweeps EXCEPT ![analysts[c].sweep].closed = @ + 1,
                                     ![analysts[c].sweep].running = FALSE]
    /\ Step(c, IF analysts[c].starts THEN [analysts[c] EXCEPT !.pc = "install"] ELSE Away)
    /\ UNCHANGED <<installed, overlapped>>

Install(c) ==
    /\ analysts[c].pc = "install" /\ Len(sweeps) < MaxSweeps
    /\ sweeps' = Append(sweeps, NewSweep)
    /\ installed' = Len(sweeps')
    /\ Step(c, Away)
    /\ UNCHANGED overlapped

(* ClearSpectrumAnalyzer, between its two locks. *)
FindToClear(c) ==
    /\ analysts[c].pc = "idle" /\ installed # 0
    /\ Step(c, [Away EXCEPT !.pc = "clear", !.sweep = installed])
    /\ UNCHANGED <<installed, sweeps, overlapped>>

Clear(c) ==
    /\ analysts[c].pc = "clear"
    /\ sweeps' = [sweeps EXCEPT ![analysts[c].sweep].slices = 0,
                                ![analysts[c].sweep].cleared = @ \/
                                    sweeps[analysts[c].sweep].phase = "passing"]
    /\ Step(c, Away)
    /\ UNCHANGED <<installed, overlapped>>

-----------------------------------------------------------------------------
Sweep(s, next) == sweeps' = [sweeps EXCEPT ![s] = next] /\ UNCHANGED <<installed, analysts, overlapped>>

(* One pass: a worker per receiver, waited for together. *)
Begin(s) ==
    /\ sweeps[s].phase = "begin"
    /\ Sweep(s, [sweeps[s] EXCEPT !.before = sweeps[s].slices, !.phase = "passing",
                                  !.receivers = [r \in Receivers |-> "look"]])

(* What only one pass uses goes with it. *)
PassOver(s) == [sweeps[s] EXCEPT !.before = 0, !.took = FALSE, !.cleared = FALSE]

\* Faulty variant: the worker does not look at the stop channel.
LookOnly(s, r) ==
    /\ sweeps[s].phase = "passing" /\ sweeps[s].receivers[r] = "look"
    /\ \/ Sweep(s, [sweeps[s] EXCEPT !.receivers[r] = "capture"])
       \/ Sweep(s, [sweeps[s] EXCEPT !.receivers[r] = "done"])

(* Before a slice the worker looks at the stop channel; it may be done. *)
Look(s, r) ==
    /\ sweeps[s].phase = "passing" /\ sweeps[s].receivers[r] = "look"
    /\ \/ ~Closed(s) /\ Sweep(s, [sweeps[s] EXCEPT !.receivers[r] = "capture"])
       \/ Sweep(s, [sweeps[s] EXCEPT !.receivers[r] = "done"])

(* A capture yields a slice, or fails: always when a stop interrupts it. *)
Capture(s, r) ==
    /\ sweeps[s].phase = "passing" /\ sweeps[s].receivers[r] = "capture"
    /\ \/ /\ sweeps[s].slices < MaxSlices
          /\ Sweep(s, [sweeps[s] EXCEPT !.receivers[r] = "look", !.took = TRUE,
                                        !.slices = @ + 1])
       \/ Sweep(s, [sweeps[s] EXCEPT !.receivers[r] = "look"])

\* Faulty variant: a pass that failed is tried again at once.
EndPassAtOnce(s) ==
    /\ sweeps[s].phase = "passing" /\ \A r \in Receivers : sweeps[s].receivers[r] = "done"
    /\ Sweep(s, [PassOver(s) EXCEPT !.phase = IF Closed(s) THEN "ended" ELSE "begin"])

\* Faulty variant: the workers are not waited for.
EndPassUnwaited(s) ==
    /\ sweeps[s].phase = "passing"
    /\ Sweep(s, [PassOver(s) EXCEPT !.phase = IF Closed(s) THEN "ended" ELSE "pausing"])

\* Faulty variant: a worker that returns on the stop is not counted as done.
EndPassWhileOpen(s) ==
    /\ sweeps[s].phase = "passing" /\ \A r \in Receivers : sweeps[s].receivers[r] = "done"
    /\ ~Closed(s)
    /\ Sweep(s, [PassOver(s) EXCEPT !.phase =
                  IF sweeps[s].slices = sweeps[s].before THEN "pausing" ELSE "begin"])

(* All workers are done; a pass that counted nothing is followed by a pause. *)
EndPass(s) ==
    /\ sweeps[s].phase = "passing" /\ \A r \in Receivers : sweeps[s].receivers[r] = "done"
    /\ Sweep(s, [PassOver(s) EXCEPT !.phase =
                  IF Closed(s) THEN "ended"
                  ELSE IF sweeps[s].slices = sweeps[s].before THEN "pausing" ELSE "begin"])

Pause(s) ==
    /\ sweeps[s].phase = "pausing"
    /\ Sweep(s, [sweeps[s] EXCEPT !.phase = IF Closed(s) THEN "ended" ELSE "begin"])

Loop(s) ==
    \/ Begin(s) \/ EndPass(s) \/ Pause(s)
    \/ \E r \in Receivers : Look(s, r) \/ Capture(s, r)

Next ==
    \/ \E c \in Callers : \/ \E starts \in BOOLEAN : Request(c, starts)
                          \/ Close(c) \/ Install(c) \/ Clear(c)
    \/ \E c \in Clearers : FindToClear(c)
    \/ \E s \in DOMAIN sweeps : Loop(s)

Spec == Init /\ [][Next]_savars

-----------------------------------------------------------------------------
(* No stop channel is closed twice, however starts and stops overlap: that  *)
(* would end the program (StopSpectrumAnalyzer).                            *)
ClosedOnce == \A s \in DOMAIN sweeps : sweeps[s].closed <= 1

(* Unless two starts overlapped, a sweep that goes on is the installed one, *)
(* which a stop reaches (StartSpectrumAnalyzer).                            *)
OverlapOnlyOrphans ==
    \A s \in DOMAIN sweeps :
        sweeps[s].phase # "ended" /\ ~Closed(s) => s = installed \/ overlapped

(* A pass that captured nothing is never followed by another one without a  *)
(* pause, except when the counts were cleared meanwhile: dead receivers do  *)
(* not make the loop spin (runSpectrumAnalyzer's comment).                  *)
NoTightLoop ==
    \A s \in DOMAIN sweeps :
        sweeps[s].phase = "passing" /\ sweeps'[s].phase = "begin" =>
            sweeps[s].took \/ sweeps[s].cleared

(* After a stop a sweep counts at most the slices that were being captured: *)
(* its receivers are let go within one capture (runSpectrumAnalyzerPass).   *)
NoCaptureAfterStop ==
    \A s \in DOMAIN sweeps, r \in Receivers :
        Closed(s) /\ sweeps[s].receivers[r] # "capture" => sweeps'[s].receivers[r] # "capture"
=============================================================================
