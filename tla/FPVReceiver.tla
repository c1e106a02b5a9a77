------------------------------ MODULE FPVReceiver ------------------------------
(***************************************************************************)
(* The FPV video receiver (fpv_receiver.go): a viewer process per start.   *)
(* StopFPV gives the viewer up under the lock and ends it after: first an  *)
(* interrupt, two seconds later a kill, neither of them waited for.        *)
(***************************************************************************)
EXTENDS Naturals, Sequences

CONSTANTS
    Callers,   \* requests in progress
    MaxViewers \* bound: viewers ever spawned

FPVReceiverAssumption == MaxViewers \in Nat

VARIABLES
    command, \* fpvReceiverState.command: its viewer, 0 for none
    stopped, \* fpvReceiverState.stop: the viewer of that channel, 0 for nil
    video,   \* fpvReceiverState.status: Running, the viewer it is of, LastError
    viewers, \* viewers spawned: [alive, signalled, closed, waiter]
    pilots,  \* per caller: what it does and the viewer it holds
    crossed  \* history: two starts were in progress at once

fpvars == <<command, stopped, video, viewers, pilots, crossed>>

Landed == [pc |-> "idle", starts |-> FALSE, viewer |-> 0]

TypeOK ==
    /\ command \in 0..Len(viewers) /\ stopped \in 0..Len(viewers)
    /\ video.running \in BOOLEAN /\ video.failed \in BOOLEAN /\ video.of \in 0..Len(viewers)
    /\ \A v \in DOMAIN viewers :
         /\ viewers[v].waiter \in {"none", "waiting", "gone"}
         /\ viewers[v].waiter = "gone" => ~viewers[v].alive
    /\ \A c \in Callers : pilots[c].viewer \in 0..Len(viewers)

Init ==
    /\ command = 0 /\ stopped = 0
    /\ video = [running |-> FALSE, of |-> 0, failed |-> FALSE]
    /\ viewers = << >>
    /\ pilots = [c \in Callers |-> Landed]
    /\ crossed = FALSE

Step(c, next) == pilots' = [pilots EXCEPT ![c] = next]

-----------------------------------------------------------------------------
(* StartFPV and StopFPV take the command away, whatever became of it, and   *)
(* close its stop channel.                                                  *)
TakeCommand(c, starts) ==
    /\ pilots[c].pc = "idle"
    /\ starts => Len(viewers) < MaxViewers
    /\ command' = 0
    /\ stopped' = 0
    /\ video' = [video EXCEPT !.running = FALSE]
    /\ viewers' = IF stopped = 0 THEN viewers ELSE [viewers EXCEPT ![stopped].closed = TRUE]
    /\ Step(c, [pc |-> "signal", starts |-> starts, viewer |-> command])
    /\ crossed' = (crossed \/ (starts /\ \E d \in Callers : pilots[d].starts))

\* Faulty variant: a viewer is signalled when a start replaces it only.
SignalReplaced(c) ==
    /\ pilots[c].pc = "signal"
    /\ viewers' = IF pilots[c].viewer = 0 \/ ~pilots[c].starts THEN viewers
                  ELSE [viewers EXCEPT ![pilots[c].viewer].signalled = TRUE]
    /\ Step(c, IF pilots[c].starts THEN [pilots[c] EXCEPT !.pc = "spawn", !.viewer = 0] ELSE Landed)
    /\ UNCHANGED <<command, stopped, video, crossed>>

(* The interrupt, and the timer of the kill. *)
Signal(c) ==
    /\ pilots[c].pc = "signal"
    /\ viewers' = IF pilots[c].viewer = 0 THEN viewers
                  ELSE [viewers EXCEPT ![pilots[c].viewer].signalled = TRUE]
    /\ Step(c, IF pilots[c].starts THEN [pilots[c] EXCEPT !.pc = "spawn", !.viewer = 0] ELSE Landed)
    /\ UNCHANGED <<command, stopped, video, crossed>>

(* The viewer starts, or the request turns out invalid or cannot be served. *)
Spawn(c) ==
    /\ pilots[c].pc = "spawn"
    /\ \/ Step(c, Landed) /\ UNCHANGED viewers
       \/ /\ Len(viewers) < MaxViewers
          /\ viewers' = Append(viewers, [alive |-> TRUE, signalled |-> FALSE, closed |-> FALSE,
                                         waiter |-> "none"])
          /\ Step(c, [pilots[c] EXCEPT !.pc = "install", !.viewer = Len(viewers')])
    /\ UNCHANGED <<command, stopped, video, crossed>>

(* Its command, stop channel and status are installed; a waiter watches it. *)
Install(c) ==
    /\ pilots[c].pc = "install"
    /\ command' = pilots[c].viewer
    /\ stopped' = pilots[c].viewer
    /\ video' = [running |-> TRUE, of |-> pilots[c].viewer, failed |-> FALSE]
    /\ viewers' = [viewers EXCEPT ![pilots[c].viewer].waiter = "waiting"]
    /\ Step(c, Landed)
    /\ UNCHANGED crossed

-----------------------------------------------------------------------------
Dies(v) ==
    /\ viewers' = [viewers EXCEPT ![v].alive = FALSE]
    /\ UNCHANGED <<command, stopped, video, pilots, crossed>>

(* The viewer ends by itself, or obeys the interrupt. *)
Exits(v) == viewers[v].alive /\ Dies(v)

(* The kill, for a viewer that did not obey. *)
Killed(v) == viewers[v].alive /\ viewers[v].signalled /\ Dies(v)

\* Faulty variant: the waiter does not ask whose command is installed.
ReapAny(v) ==
    /\ ~viewers[v].alive /\ viewers[v].waiter = "waiting"
    /\ video' = [video EXCEPT !.running = FALSE, !.failed = @ \/ ~viewers[v].closed]
    /\ viewers' = [viewers EXCEPT ![v].waiter = "gone"]
    /\ UNCHANGED <<command, stopped, pilots, crossed>>

\* Faulty variant: the waiter of a viewer that was given up reports it too.
ReapGivenUp(v) ==
    /\ ~viewers[v].alive /\ viewers[v].waiter = "waiting"
    /\ video' = IF command \in {0, v} THEN [video EXCEPT !.running = FALSE, !.failed = TRUE] ELSE video
    /\ viewers' = [viewers EXCEPT ![v].waiter = "gone"]
    /\ UNCHANGED <<command, stopped, pilots, crossed>>

\* Faulty variant: only a viewer that was stopped is reported as ended.
ReapClosed(v) ==
    /\ ~viewers[v].alive /\ viewers[v].waiter = "waiting"
    /\ video' = IF command = v /\ viewers[v].closed THEN [video EXCEPT !.running = FALSE] ELSE video
    /\ viewers' = [viewers EXCEPT ![v].waiter = "gone"]
    /\ UNCHANGED <<command, stopped, pilots, crossed>>

\* Faulty variant: the waiter of a viewer that was stopped does not wait for it.
ReapEarly(v) ==
    /\ ~viewers[v].alive \/ viewers[v].closed
    /\ viewers[v].waiter = "waiting"
    /\ video' = IF command # v THEN video
                ELSE [video EXCEPT !.running = FALSE, !.failed = @ \/ ~viewers[v].closed]
    /\ viewers' = [viewers EXCEPT ![v].waiter = "gone"]
    /\ UNCHANGED <<command, stopped, pilots, crossed>>

(* The waiter reports the end of the viewer that is still installed. *)
Reap(v) ==
    /\ ~viewers[v].alive /\ viewers[v].waiter = "waiting"
    /\ video' = IF command # v THEN video
                ELSE [video EXCEPT !.running = FALSE, !.failed = @ \/ ~viewers[v].closed]
    /\ viewers' = [viewers EXCEPT ![v].waiter = "gone"]
    /\ UNCHANGED <<command, stopped, pilots, crossed>>

Ending(v) == Killed(v) \/ Reap(v)

Next ==
    \/ \E c \in Callers : \/ \E starts \in BOOLEAN : TakeCommand(c, starts)
                          \/ Signal(c) \/ Spawn(c) \/ Install(c)
    \/ \E v \in DOMAIN viewers : Exits(v) \/ Killed(v) \/ Reap(v)

Spec == Init /\ [][Next]_fpvars

-----------------------------------------------------------------------------
(* The late end of a viewer that was replaced does not make the new one     *)
(* look stopped, and what is reported running can be stopped (the waiter's  *)
(* test of command).                                                        *)
ReportOfInstalled ==
    /\ command # 0 /\ viewers[command].alive => video.running /\ video.of = command
    /\ video.running => command # 0

(* An error is reported of a viewer that died by itself, never of one the   *)
(* operator ended (StopFPV and the waiter).                                 *)
NoErrorOfStop ==
    video'.failed /\ ~video.failed => ~viewers[video.of].signalled /\ command = video.of

(* Unless two starts overlapped, a viewer that lives on without a signal is *)
(* installed or about to be (StartFPV).                                     *)
CrossingOnlyStrays ==
    \A v \in DOMAIN viewers :
        viewers[v].alive /\ ~viewers[v].signalled =>
            v = command \/ crossed \/ \E c \in Callers : pilots[c].viewer = v
=============================================================================
