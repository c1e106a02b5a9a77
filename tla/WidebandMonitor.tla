--------------------------- MODULE WidebandMonitor ---------------------------
(* A channel bank heard in one wide capture (widebandBankLoop and            *)
(* finishWidebandTransmission in live_survey.go): the transmissions of each  *)
(* channel are put together frame by frame and become events.                *)
EXTENDS Naturals, FiniteSets

CONSTANTS
    Channels,
    LongestFrames,  \* frames in two minutes, after which a transmission is cut
    MaxFrames       \* bound: frames of a session

MonitorAssumption == LongestFrames \in Nat \ {0} /\ MaxFrames \in Nat

VARIABLES
    frame,          \* frames read so far
    bank,           \* the loop, and whether its stop channel is closed
    transmission,   \* active: of a channel the frames of its transmission, {} for none
    since,          \* the frame with which that began
    heard,          \* history: frames a channel was heard in
    events          \* history: in how many events such a frame is

monitorvars == <<frame, bank, transmission, since, heard, events>>

Frames == 1..MaxFrames
(* What a frame holds of a channel: less than the squelch, audio, or a        *)
(* signal that could not be demodulated.                                     *)
Levels == {"quiet", "heard", "broken"}

MonitorTypeOK ==
    /\ frame \in 0..MaxFrames
    /\ bank \in [running : BOOLEAN, stopped : BOOLEAN]
    /\ transmission \in [Channels -> SUBSET Frames] /\ since \in [Channels -> 0..MaxFrames]
    /\ heard \in [Channels -> SUBSET Frames] /\ events \in [Channels -> [Frames -> Nat]]

MonitorInit ==
    /\ frame = 0
    /\ bank = [running |-> TRUE, stopped |-> FALSE]
    /\ transmission = [c \in Channels |-> {}] /\ since = [c \in Channels |-> 0]
    /\ heard = [c \in Channels |-> {}]
    /\ events = [c \in Channels |-> [f \in Frames |-> 0]]

(* finishWidebandTransmission of some channels.  An event that the store      *)
(* refuses is reported and lost.                                            *)
Finish(frames) ==
    events' = [c \in Channels |-> [f \in Frames |-> events[c][f] + IF f \in frames[c] THEN 1 ELSE 0]]

(* The transmission of a channel with this frame, and whether it is cut. *)
Extended(c, level) == IF level = "heard" THEN transmission[c] \cup {frame + 1} ELSE transmission[c]
Began(c) == IF transmission[c] = {} THEN frame + 1 ELSE since[c]
Cut(c, level) == level = "heard" /\ frame + 2 - Began(c) >= LongestFrames

(* What a channel's transmission is after the frame. *)
Continued(c, level) == IF level = "quiet" \/ Cut(c, level) THEN {} ELSE Extended(c, level)

HearFrame ==
    /\ bank.running /\ ~bank.stopped /\ frame < MaxFrames
    /\ frame' = frame + 1
    /\ \E level \in [Channels -> Levels] :
          /\ transmission' = [c \in Channels |-> Continued(c, level[c])]
          /\ since' = [c \in Channels |-> IF Continued(c, level[c]) = {} THEN 0 ELSE Began(c)]
          /\ heard' = [c \in Channels |-> IF level[c] = "heard" THEN heard[c] \cup {frame + 1} ELSE heard[c]]
          /\ Finish([c \in Channels |->
                IF level[c] = "quiet" \/ Cut(c, level[c]) THEN Extended(c, level[c]) ELSE {}])
    /\ UNCHANGED bank

(* The spectrum of the frame could not be computed: nothing changes. *)
SkipFrame ==
    /\ bank.running /\ ~bank.stopped /\ frame < MaxFrames
    /\ frame' = frame + 1
    /\ UNCHANGED <<bank, transmission, since, heard, events>>

StopBank ==
    /\ ~bank.stopped
    /\ bank' = [bank EXCEPT !.stopped = TRUE]
    /\ UNCHANGED <<frame, transmission, since, heard, events>>

(* The loop sees its stop channel, or the stream fails; what is in progress   *)
(* is saved either way.                                                      *)
EndBank ==
    /\ bank.running
    /\ bank' = [bank EXCEPT !.running = FALSE]
    /\ Finish(transmission)
    /\ transmission' = [c \in Channels |-> {}] /\ since' = [c \in Channels |-> 0]
    /\ UNCHANGED <<frame, heard>>

MonitorNext == HearFrame \/ SkipFrame \/ StopBank \/ EndBank

(* Every frame heard is in exactly one transmission: the one in progress or   *)
(* one that was made an event, by silence, by length, by a stop in the       *)
(* middle or by a receiver that fails.                                      *)
EachFrameOnce ==
    \A c \in Channels : \A f \in heard[c] :
        events[c][f] + (IF f \in transmission[c] THEN 1 ELSE 0) = 1

(* The audio kept for a transmission is bounded, however long it lasts. *)
TransmissionBounded == \A c \in Channels : Cardinality(transmission[c]) < LongestFrames
=============================================================================
