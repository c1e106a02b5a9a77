---------------------------- MODULE RelayRuntime ----------------------------
(***************************************************************************)
(* The relay that sends decoded audio to a transmitter (relay_runtime.go): *)
(* Start and Stop requests, the goroutine that consumes audio and keys the *)
(* transmitter through the FT232's RTS line, and the 30-second segments.   *)
(*                                                                         *)
(* Every Start makes a done channel and a context of its own, numbered     *)
(* here.  Start hands the goroutine the channel it finds in the shared     *)
(* field after it has released the mutex.                                  *)
(***************************************************************************)
EXTENDS Naturals, FiniteSets

CONSTANTS
    Callers,          \* concurrent HTTP requests
    MaxStarts,        \* bound: sessions
    MaxPTTFailures,   \* bound: failures of the helper that drives RTS
    MaxStartFailures  \* bound: failures to start aplay

RelayAssumption ==
    MaxStarts \in Nat /\ MaxPTTFailures \in Nat /\ MaxStartFailures \in Nat

VARIABLES
    active,   \* RelayRuntime.active
    current,  \* session whose cancel and done are in the fields, 0 for nil
    output,   \* an output is installed
    line,     \* the RTS line: TRUE keys the transmitter
    consumer, \* session -> its goroutine
    canceled, \* sessions whose context is canceled
    closed,   \* session -> how often its done channel was closed
    caller,   \* what each request is doing
    used      \* sessions made, failures so far

vars == <<active, current, output, line, consumer, canceled, closed, caller, used>>

Sessions == 1..MaxStarts
NoConsumer == [pc |-> "none", keyed |-> FALSE, done |-> 0]
NoRequest == [pc |-> "idle", session |-> 0]

TypeOK ==
    /\ {active, output, line} \subseteq BOOLEAN
    /\ current \in 0..MaxStarts
    /\ \A s \in Sessions :
         /\ consumer[s].pc \in {"none", "wait", "frame", "key", "write", "gap", "ended"}
         /\ consumer[s].keyed \in BOOLEAN
         /\ consumer[s].done \in 0..MaxStarts
    /\ canceled \subseteq Sessions
    /\ closed \in [0..MaxStarts -> Nat]
    /\ \A c \in Callers :
         /\ caller[c].pc \in {"idle", "spawn", "cancel", "release", "join"}
         /\ caller[c].session \in 0..MaxStarts
    /\ used.sessions \in 0..MaxStarts
    /\ active => current # 0 /\ output

Init ==
    /\ active = FALSE /\ current = 0 /\ output = FALSE /\ line = FALSE
    /\ consumer = [s \in Sessions |-> NoConsumer]
    /\ canceled = {}
    /\ closed = [s \in 0..MaxStarts |-> 0]
    /\ caller = [c \in Callers |-> NoRequest]
    /\ used = [sessions |-> 0, ptt |-> 0, start |-> 0]

Request(c, pc, s) == caller' = [caller EXCEPT ![c] = [pc |-> pc, session |-> s]]

\* SetPTT runs a helper that opens the port with RTS low; it may fail.
SetPTT(value) ==
    \/ line' = value /\ UNCHANGED used
    \/ /\ used.ptt < MaxPTTFailures
       /\ used' = [used EXCEPT !.ptt = @ + 1]
       /\ UNCHANGED line

PTTFailed == used'.ptt # used.ptt

-----------------------------------------------------------------------------
(* Start *)

\* Faulty variant: a session is active before its output is installed.
BeginStartEager(c) ==
    /\ caller[c].pc = "idle" /\ ~active /\ used.sessions < MaxStarts
    /\ LET s == used.sessions + 1 IN
         /\ current' = s /\ active' = TRUE
         /\ used' = [used EXCEPT !.sessions = s]
         /\ Request(c, "spawn", s)
    /\ UNCHANGED <<output, line, consumer, canceled, closed>>

\* The part under the mutex: a new session, and aplay for it.
BeginStart(c) ==
    /\ caller[c].pc = "idle" /\ ~active /\ used.sessions < MaxStarts
    /\ LET s == used.sessions + 1 IN
         /\ current' = s
         /\ output' = TRUE
         /\ \/ /\ active' = TRUE
               /\ Request(c, "spawn", s)
               /\ used' = [used EXCEPT !.sessions = s]
            \/ /\ used.start < MaxStartFailures
               /\ used' = [used EXCEPT !.sessions = s, !.start = @ + 1]
               /\ UNCHANGED <<active, caller>>
    /\ UNCHANGED <<line, consumer, canceled, closed>>

\* After the mutex is released: the goroutine gets r.done as it is now.
Spawn(c) ==
    /\ caller[c].pc = "spawn"
    /\ consumer' = [consumer EXCEPT ![caller[c].session] =
                        [pc |-> "wait", keyed |-> FALSE, done |-> current]]
    /\ Request(c, "idle", 0)
    /\ UNCHANGED <<active, current, output, line, canceled, closed, used>>

-----------------------------------------------------------------------------
(* Stop *)

\* Under the mutex Stop takes cancel, done and output.
BeginStop(c) ==
    /\ caller[c].pc = "idle"
    /\ active' = FALSE /\ current' = 0 /\ output' = FALSE
    /\ Request(c, IF current # 0 THEN "cancel" ELSE "release", current)
    /\ UNCHANGED <<line, consumer, canceled, closed, used>>

Cancel(c) ==
    /\ caller[c].pc = "cancel"
    /\ canceled' = canceled \cup {caller[c].session}
    /\ Request(c, "release", caller[c].session)
    /\ UNCHANGED <<active, current, output, line, consumer, closed, used>>

ReleasePTT(c) ==
    /\ caller[c].pc = "release"
    /\ SetPTT(FALSE)
    /\ Request(c, IF caller[c].session = 0 THEN "idle" ELSE "join", caller[c].session)
    /\ UNCHANGED <<active, current, output, consumer, canceled, closed>>

\* Faulty variant: Stop does not wait for the goroutine.
JoinNothing(c) ==
    /\ caller[c].pc = "join"
    /\ Request(c, "idle", 0)
    /\ UNCHANGED <<active, current, output, line, consumer, canceled, closed, used>>

\* Stop waits for the goroutine, then for aplay.
Join(c) ==
    /\ caller[c].pc = "join"
    /\ closed[caller[c].session] > 0
    /\ Request(c, "idle", 0)
    /\ UNCHANGED <<active, current, output, line, consumer, canceled, closed, used>>

-----------------------------------------------------------------------------
(* consumeAudio *)

At(s, pc) == consumer[s].pc = pc
Goes(s, pc) == consumer' = [consumer EXCEPT ![s].pc = pc]

\* Faulty variant: the goroutine ends without closing its channel.
EndSilently(s) ==
    /\ At(s, "wait") /\ s \in canceled
    /\ Goes(s, "ended")
    /\ UNCHANGED <<active, current, output, line, canceled, closed, caller, used>>

\* Faulty variant: the channel is closed on the way out and again by the defer.
EndConsumerTwice(s) ==
    /\ At(s, "wait") /\ s \in canceled
    /\ Goes(s, "ended")
    /\ closed' = [closed EXCEPT ![consumer[s].done] = @ + 2]
    /\ UNCHANGED <<active, current, output, line, canceled, caller, used>>

\* The context is done: the deferred close(done).
EndConsumer(s) ==
    /\ At(s, "wait") /\ s \in canceled
    /\ Goes(s, "ended")
    /\ closed' = [closed EXCEPT ![consumer[s].done] = @ + 1]
    /\ UNCHANGED <<active, current, output, line, canceled, caller, used>>

\* A frame of a selected stream, while an output is installed.
ReceiveFrame(s) ==
    /\ At(s, "wait") /\ output
    /\ Goes(s, IF consumer[s].keyed THEN "write" ELSE "key")
    /\ UNCHANGED <<active, current, output, line, canceled, closed, caller, used>>

\* Key the transmitter and start the segment; without PTT the frame is dropped.
Key(s) ==
    /\ At(s, "key")
    /\ SetPTT(TRUE)
    /\ consumer' = [consumer EXCEPT ![s] =
          IF PTTFailed THEN [@ EXCEPT !.pc = "wait"]
          ELSE [@ EXCEPT !.pc = "write", !.keyed = TRUE]]
    /\ UNCHANGED <<active, current, output, canceled, closed, caller>>

WriteFrame(s) ==
    /\ At(s, "write")
    /\ Goes(s, "wait")
    /\ UNCHANGED <<active, current, output, line, canceled, closed, caller, used>>

\* Faulty variant: the segment's end leaves the transmitter keyed.
EndSegmentKeyed(s) ==
    /\ At(s, "wait") /\ consumer[s].keyed
    /\ consumer' = [consumer EXCEPT ![s].pc = "gap", ![s].keyed = FALSE]
    /\ UNCHANGED <<active, current, output, line, canceled, closed, caller, used>>

\* 30 seconds after keying the transmitter is released; a failure to do so is
\* not noticed.
EndSegment(s) ==
    /\ At(s, "wait") /\ consumer[s].keyed
    /\ SetPTT(FALSE)
    /\ consumer' = [consumer EXCEPT ![s].pc = "gap", ![s].keyed = FALSE]
    /\ UNCHANGED <<active, current, output, canceled, closed, caller>>

EndGap(s) ==
    /\ At(s, "gap")
    /\ Goes(s, "wait")
    /\ UNCHANGED <<active, current, output, line, canceled, closed, caller, used>>

-----------------------------------------------------------------------------
Stopping(c) == Cancel(c) \/ ReleasePTT(c) \/ Join(c)
Work(s) == Key(s) \/ WriteFrame(s) \/ EndGap(s)

Next ==
    \/ \E c \in Callers : BeginStart(c) \/ Spawn(c) \/ BeginStop(c) \/ Stopping(c)
    \/ \E s \in Sessions : EndConsumer(s) \/ ReceiveFrame(s) \/ EndSegment(s) \/ Work(s)

Spec == Init /\ [][Next]_vars

-----------------------------------------------------------------------------
(* Properties *)

Quiet == ~active /\ \A c \in Callers : caller[c].pc = "idle"

\* When no request is under way and the relay is stopped, no goroutine is left
\* that could key the transmitter.
NothingLeftRunning == Quiet => \A s \in Sessions : consumer[s].pc \in {"none", "ended"}

\* close(done) panics on a nil channel and on a closed one.
ClosedOnce == closed[0] = 0 /\ \A s \in Sessions : closed[s] <= 1

\* "want assert then final release": the transmitter is released once Stop has
\* returned.
ReleasedAfterStop == Quiet => ~line

\* A Stop request that has not returned.  Stop after a failed start is not
\* among them, because Start leaves a done channel in place that no goroutine
\* will close.
Returning(c) ==
    /\ caller[c].pc \in {"cancel", "release", "join"}
    /\ caller[c].session \in Sessions => consumer[caller[c].session].pc # "none"

\* The goroutine that Stop waits for ends and says so, whatever it is doing.
StopReturns == \A c \in Callers : Returning(c) ~> ~Returning(c)

\* The radio's own time-out is never relied on: the transmitter a goroutine has
\* keyed is released again although audio keeps coming, unless its session is
\* stopped or the helper that drives RTS fails.
TransmissionEnds ==
    \A s \in Sessions : line /\ consumer[s].keyed ~> ~line \/ s \in canceled \/ used.ptt > 0
=============================================================================
