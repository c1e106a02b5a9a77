----------------------------- MODULE TunerLoop -----------------------------
(* Listening to one frequency (tunerLoop in live_survey.go, trySoftwareTune  *)
(* in runtime.go).  A session streams around a fixed hardware center; within *)
(* its passband the frequency and the decoder are changed through a channel *)
(* that holds one request.  Decoders run beside the loop, one at a time.     *)
EXTENDS Naturals, Sequences

CONSTANTS
    Frequencies,
    Decoders,       \* a request without one only monitors
    NeedIQ,         \* decoders that read IQ; the others read audio
    Centers,        \* hardware centers
    Window(_),      \* the frequencies a center's passband holds
    BatchFrames,    \* frames a decoder needs
    MaxSessions, MaxTunes,
    MaxOutside      \* bounds; the last of failed streams and spectra of other loops

TunerAssumption ==
    /\ Frequencies # {} /\ Decoders # {} /\ Centers # {}
    /\ NeedIQ \subseteq Decoders
    /\ \A c \in Centers : Window(c) \subseteq Frequencies
    /\ BatchFrames \in Nat \ {0} /\ {MaxSessions, MaxTunes, MaxOutside} \subseteq Nat

Requests == [frequency : Frequencies, decoder : Decoders]
Sessions == 1..MaxSessions

VARIABLES
    session,        \* the tuner session in Runtime (running and tuning), 0 for none
    stopped,        \* sessions whose stop channel is closed
    wanted,         \* r.active: what the console shows as tuned
    spectrum,       \* r.spectrum: the session that measured it (0: another receiver's
                    \* loop, or none yet) and the center
    updates,        \* of a session, the channel of its loop: the request, and whether it was
                    \* checked against the session's own spectrum
    loop,           \* of a session, its loop: next step, center, request, frames collected
                    \* for the decoder, whether one is busy
    decoding,       \* of a session, its decoder jobs and the result that waits
    recorded,       \* history: of the last event its frequency, and that of the decoder
    counted         \* counters of the bounds

tunervars == <<session, stopped, wanted, spectrum, updates, loop, decoding, recorded, counted>>

Steps == {"none", "poll", "results", "read", "ended"}
NoFrames == [count |-> 0, at |-> {}]
Batches == [count : 0..BatchFrames, at : SUBSET Frequencies]
Updates == [request : Requests, own : BOOLEAN]
Jobs == [frequency : Frequencies, at : SUBSET Frequencies]

TunerTypeOK ==
    /\ session \in 0..MaxSessions /\ stopped \subseteq Sessions
    /\ wanted \in Requests
    /\ spectrum \in [by : 0..MaxSessions, center : Centers \cup {0}]
    /\ \A s \in Sessions :
          /\ updates[s] \in Seq(Updates) /\ Len(updates[s]) <= 1
          /\ loop[s] \in [at : Steps, center : Centers, request : Requests, own : BOOLEAN,
                          batch : Batches, busy : BOOLEAN]
          /\ decoding[s].jobs \subseteq Jobs /\ decoding[s].result \in Seq(Jobs)
    /\ recorded \in Seq(Frequencies) /\ Len(recorded) \in {0, 2}
    /\ counted \in [tunes : 0..MaxTunes, outside : 0..MaxOutside]

NoLoop == [at |-> "none", center |-> CHOOSE c \in Centers : TRUE, request |-> CHOOSE r \in Requests : TRUE,
           own |-> TRUE, batch |-> NoFrames, busy |-> FALSE]

TunerInit ==
    /\ session = 0 /\ stopped = {}
    /\ wanted = NoLoop.request
    /\ spectrum = [by |-> 0, center |-> 0]
    /\ updates = [s \in Sessions |-> <<>>]
    /\ loop = [s \in Sessions |-> NoLoop]
    /\ decoding = [s \in Sessions |-> [jobs |-> {}, result |-> <<>>]]
    /\ recorded = <<>>
    /\ counted = [tunes |-> 0, outside |-> 0]

---------------------------------------------------------------------------
(* Requests.  Starts follow each other; what overlapping starts do to a      *)
(* session is in ReceiverOwnership.                                         *)

(* startProfile with a tuner.  A loop whose frequency is outside the passband *)
(* of the center asked for ends at once.                                    *)
StartTuner(r, c) ==
    /\ session = 0
    /\ \E s \in Sessions :
          /\ loop[s].at = "none" /\ \A o \in 1..(s - 1) : loop[o].at # "none"
          /\ session' = s
          /\ loop' = [loop EXCEPT ![s] =
                IF r.frequency \in Window(c) THEN [NoLoop EXCEPT !.at = "poll", !.center = c, !.request = r]
                ELSE [NoLoop EXCEPT !.at = "ended"]]
    /\ wanted' = r
    /\ UNCHANGED <<stopped, spectrum, updates, decoding, recorded, counted>>

StopTuner ==
    /\ session # 0
    /\ stopped' = stopped \cup {session}
    /\ session' = 0
    /\ UNCHANGED <<wanted, spectrum, updates, loop, decoding, recorded, counted>>

(* The passband is that of the last spectrum measured, whoever measured it.  *)
Tunable(r) ==
    /\ session # 0 /\ spectrum.center # 0 /\ r.frequency \in Window(spectrum.center)
    /\ counted.tunes < MaxTunes

Accept(r, queued) ==
    /\ updates' = [updates EXCEPT ![session] = queued]
    /\ wanted' = r
    /\ counted' = [counted EXCEPT !.tunes = @ + 1]
    /\ UNCHANGED <<session, stopped, spectrum, loop, decoding, recorded>>

Update(r) == [request |-> r, own |-> spectrum.by = session]

(* Faulty variant: a request already queued is left in its place. *)
SoftwareTuneQueued(r) ==
    Tunable(r) /\ Accept(r, IF updates[session] = <<>> THEN <<Update(r)>> ELSE updates[session])

(* A request not yet taken is replaced by the newer one. *)
SoftwareTune(r) == Tunable(r) /\ Accept(r, <<Update(r)>>)

(* A loop on another receiver updates the spectrum that all share. *)
ForeignSpectrum(c) ==
    /\ counted.outside < MaxOutside
    /\ spectrum' = [by |-> 0, center |-> c]
    /\ counted' = [counted EXCEPT !.outside = @ + 1]
    /\ UNCHANGED <<session, stopped, wanted, updates, loop, decoding, recorded>>

---------------------------------------------------------------------------
(* The loop: look at the stop channel or the updates, at the results of the  *)
(* decoder, read a frame and work on it.                                     *)

Goto(s, step) == loop' = [loop EXCEPT ![s].at = step]
End(s) == loop' = [loop EXCEPT ![s] = [NoLoop EXCEPT !.at = "ended"]]

SeeStop(s) ==
    /\ loop[s].at \in {"poll", "read"} /\ s \in stopped
    /\ End(s)
    /\ UNCHANGED <<session, stopped, wanted, spectrum, updates, decoding, recorded, counted>>

(* Faulty variant: the frames collected so far are kept. *)
RetunedKeeping(l, update) ==
    [l EXCEPT !.at = "results", !.request = update.request, !.own = update.own]

(* What was collected at the old frequency is dropped. *)
Retuned(l, update) ==
    [l EXCEPT !.at = "results", !.request = update.request, !.own = update.own, !.batch = NoFrames]

(* Go chooses when the stop channel is closed as well. *)
TakeUpdate(s) ==
    /\ loop[s].at = "poll" /\ updates[s] # <<>>
    /\ loop' = [loop EXCEPT ![s] = Retuned(@, Head(updates[s]))]
    /\ updates' = [updates EXCEPT ![s] = <<>>]
    /\ UNCHANGED <<session, stopped, wanted, spectrum, decoding, recorded, counted>>

NoUpdate(s) ==
    /\ loop[s].at = "poll" /\ updates[s] = <<>> /\ s \notin stopped
    /\ Goto(s, "results")
    /\ UNCHANGED <<session, stopped, wanted, spectrum, updates, decoding, recorded, counted>>

(* A result found for another frequency is not recorded. *)
Recorded(l, result) ==
    IF result.frequency = l.request.frequency
    THEN <<l.request.frequency, result.frequency>> ELSE recorded

(* The decoder found messages or did not. *)
TakeResult(s) ==
    /\ loop[s].at = "results"
    /\ IF decoding[s].result = <<>>
       THEN Goto(s, "read") /\ UNCHANGED <<decoding, recorded>>
       ELSE /\ loop' = [loop EXCEPT ![s].at = "read", ![s].busy = FALSE]
            /\ decoding' = [decoding EXCEPT ![s].result = <<>>]
            /\ recorded' \in {recorded, Recorded(loop[s], Head(decoding[s].result))}
    /\ UNCHANGED <<session, stopped, wanted, spectrum, updates, counted>>

FrameRead(s) == loop[s].at = "read" /\ s \notin stopped

(* The receiver could not be opened, or stopped sending: the loop reports it *)
(* and ends, the session goes on.                                           *)
StreamFails(s) ==
    /\ FrameRead(s) /\ counted.outside < MaxOutside
    /\ End(s)
    /\ counted' = [counted EXCEPT !.outside = @ + 1]
    /\ UNCHANGED <<session, stopped, wanted, spectrum, updates, decoding, recorded>>

Measured(s) == spectrum' = [by |-> s, center |-> loop[s].center]

(* The channel is quiet, cannot be demodulated, or needs no decoder: the     *)
(* frame goes to the listeners at most.                                     *)
MonitorSamples(s) ==
    /\ FrameRead(s)
    /\ Measured(s) /\ Goto(s, "poll")
    /\ UNCHANGED <<session, stopped, wanted, updates, decoding, recorded, counted>>

(* The frame is added to the batch.  While the decoder is busy audio goes on *)
(* collecting, IQ is dropped.  (The count stops at what a decoder needs.)    *)
WithFrame(l) ==
    IF l.busy /\ l.request.decoder \in NeedIQ THEN NoFrames
    ELSE [count |-> IF l.batch.count < BatchFrames THEN l.batch.count + 1 ELSE BatchFrames,
          at |-> l.batch.at \cup {l.request.frequency}]

(* A batch that is complete goes to a decoder, if that is not busy. *)
Collect(s) ==
    LET batch == WithFrame(loop[s]) IN
    /\ FrameRead(s)
    /\ Measured(s)
    /\ IF batch.count = BatchFrames /\ ~loop[s].busy
       THEN /\ loop' = [loop EXCEPT ![s].at = "poll", ![s].batch = NoFrames, ![s].busy = TRUE]
            /\ decoding' = [decoding EXCEPT ![s].jobs =
                  @ \cup {[frequency |-> loop[s].request.frequency, at |-> batch.at]}]
       ELSE /\ loop' = [loop EXCEPT ![s].at = "poll", ![s].batch = batch]
            /\ UNCHANGED decoding
    /\ UNCHANGED <<session, stopped, wanted, updates, recorded, counted>>

(* A decoder ends, at the latest when its time is over, and leaves its       *)
(* result in a channel that holds one; a stop releases it too.               *)
DecoderEnds(s, job) ==
    /\ job \in decoding[s].jobs
    /\ \/ /\ decoding[s].result = <<>>
          /\ decoding' = [decoding EXCEPT ![s].jobs = @ \ {job}, ![s].result = <<job>>]
       \/ /\ s \in stopped
          /\ decoding' = [decoding EXCEPT ![s].jobs = @ \ {job}]
    /\ UNCHANGED <<session, stopped, wanted, spectrum, updates, loop, recorded, counted>>

LoopSteps(s) ==
    \/ SeeStop(s) \/ TakeUpdate(s) \/ NoUpdate(s) \/ TakeResult(s)
    \/ MonitorSamples(s) \/ Collect(s)
Decoding(s) == \E job \in decoding[s].jobs : DecoderEnds(s, job)

TunerNext ==
    \/ \E r \in Requests : SoftwareTune(r) \/ \E c \in Centers : StartTuner(r, c)
    \/ StopTuner
    \/ \E c \in Centers : ForeignSpectrum(c)
    \/ \E s \in Sessions : LoopSteps(s) \/ StreamFails(s) \/ Decoding(s)

---------------------------------------------------------------------------
(* The newest request wins: it is the one the loop works on or the one it    *)
(* takes next, and the console shows it.                                    *)
NewestTuneWins ==
    session # 0 /\ loop[session].at # "ended" =>
        wanted = IF updates[session] = <<>> THEN loop[session].request
                 ELSE Head(updates[session]).request

(* A decoder is given frames of one frequency only, across every retune. *)
BatchOfOneFrequency ==
    \A s \in Sessions : \A job \in decoding[s].jobs \cup {decoding[s].result[i] : i \in DOMAIN decoding[s].result} :
        job.at = {job.frequency}

(* "Keep exactly one bounded observation and one in-flight decoder job":      *)
(* also while the tuner is retuned and results wait.                         *)
OneDecoderJob ==
    \A s \in Sessions :
        \A a, b \in decoding[s].jobs : a = b /\ decoding[s].result = <<>>

(* What was decoded at one frequency is not recorded as heard at another,    *)
(* though the decoder ends up to 25 seconds after a retune.                  *)
ResultsAttributed == recorded # <<>> => recorded[1] = recorded[2]

(* A retune checked against the session's own spectrum stays in the passband. *)
TunedInside ==
    \A s \in Sessions :
        loop[s].at \notin {"none", "ended"} /\ loop[s].own => loop[s].request.frequency \in Window(loop[s].center)

(* A stopped tuner releases its receiver, and no decoder job is left waiting  *)
(* for a loop that has ended.                                               *)
TunerOwes ==
    \E s \in Sessions : (s \in stopped /\ loop[s].at # "ended") \/ decoding[s].jobs # {}
TunerSettles == TunerOwes ~> ~TunerOwes
=============================================================================
