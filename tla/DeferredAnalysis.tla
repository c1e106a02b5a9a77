-------------------------- MODULE DeferredAnalysis --------------------------
(***************************************************************************)
(* Deferred analysis of stored captures (deferred_analysis.go) together    *)
(* with what else changes an event and its files: a running Mapper job     *)
(* that appends captures, storage cleanup with ReconcileRemovedMedia, and  *)
(* a restart with ReconcileMedia (media_recovery.go).                      *)
(*                                                                         *)
(* A run hands groups of captures (same frequency, same area) to workers.  *)
(* A worker analyses the files of its group in order, then combines the    *)
(* group, then moves or deletes each IQ file and marks the event complete. *)
(* Each step of a worker is one call that touches the store or the disk,   *)
(* so cleanup, Stop and a restart may come between any two of them.  The   *)
(* store's updates are atomic and durable here; EventJournal has their     *)
(* detail.                                                                 *)
(***************************************************************************)
EXTENDS Naturals, Sequences, FiniteSets, SequencesExt, FiniteSetsExt

CONSTANTS
    Events,       \* captures, numbered in the order of their start
    GroupOf,      \* event -> number of its frequency and location key
    JobEvents,    \* events of the Mapper job that is running at first
    MediaKinds,   \* what a capture may save: subset of {"iq", "audio", "both"}
    Dispositions, \* what may become of IQ: subset of {"archive", "move", "delete"}
    Workers,      \* parallel frequency groups
    ModelEnabled, \* the local model is on
    MaxStarts,    \* bound: Start requests
    MaxPrunes,    \* bound: files removed by storage cleanup
    MaxRestarts   \* bound: crashes or restarts of the application

ASSUME DeferredAssumption ==
    /\ Events \subseteq Nat /\ GroupOf \in [Events -> Nat] /\ JobEvents \subseteq Events
    /\ IsFiniteSet(Events) /\ IsFiniteSet(Workers)
    /\ MaxStarts \in Nat /\ MaxPrunes \in Nat /\ MaxRestarts \in Nat

VARIABLES
    event,    \* the stored row of each capture
    disk,     \* its files: where the IQ and its sidecar are, and the audio
    run,      \* analysisRunning, the stop channel, the requested job's events
    ctl,      \* where runDeferredAnalysis is
    queue,    \* groups not yet handed out
    worker,   \* what each worker of the wave is doing
    count,    \* the counters of DeferredAnalysisStatus
    job,      \* "running", "finishing" or "none"
    analyzed, \* history: events whose last analysis ran to its end
    used      \* Start requests, prunes and restarts so far

vars == <<event, disk, run, ctl, queue, worker, count, job, analyzed, used>>

Places == {"none", "pending", "kept"}
Snapshot(e) == [id |-> e, audio |-> event[e].audio, iq |-> event[e].iq]
Snapshots == [id : Events, audio : BOOLEAN, iq : Places]
Idle == [pc |-> "idle", todo |-> <<>>, good |-> <<>>, combine |-> "none", dest |-> "none"]
NotCaptured == [status |-> "none", error |-> "none", audio |-> FALSE, iq |-> "none",
                analysis |-> FALSE, completed |-> FALSE]
NoFiles == [iq |-> "none", meta |-> "none", audio |-> FALSE]
Zero == [total |-> 0, completed |-> 0, failed |-> 0, groups |-> 0, groupsDone |-> 0]
NoRun == [running |-> FALSE, stop |-> "none", scope |-> {}]

TypeOK ==
    /\ \A e \in Events :
         /\ event[e].status \in {"none", "pending", "running", "complete", "error", "unavailable"}
         /\ event[e].error \in {"none", "failed", "missing", "killed", "combine", "removed"}
         /\ event[e].iq \in Places /\ {event[e].audio, event[e].analysis, event[e].completed} \subseteq BOOLEAN
         /\ disk[e].iq \in Places /\ disk[e].meta \in Places /\ disk[e].audio \in BOOLEAN
    /\ run.running \in BOOLEAN /\ run.stop \in {"none", "open", "closed"} /\ run.scope \subseteq Events
    /\ run.running <=> ctl # "off"
    /\ ctl \in {"off", "wave", "closing", "idle", "watch", "ending"}
    /\ \A i \in DOMAIN queue : queue[i] \in Seq(Snapshots)
    /\ \A w \in Workers :
         /\ worker[w].pc \in {"idle", "exited", "next", "derive", "link", "classify", "check", "analyze",
                              "combine", "decide", "finalize", "sidecar", "store", "mark"}
         /\ worker[w].todo \in Seq(Snapshots) /\ worker[w].good \in Seq(Events)
         /\ worker[w].combine \in {"none", "ok", "failed"} /\ worker[w].dest \in Places
    /\ count \in [DOMAIN Zero -> Nat]
    /\ job \in {"running", "finishing", "none"}
    /\ analyzed \subseteq Events

Init ==
    /\ event = [e \in Events |-> NotCaptured]
    /\ disk = [e \in Events |-> NoFiles]
    /\ run = NoRun
    /\ ctl = "off"
    /\ queue = <<>>
    /\ worker = [w \in Workers |-> Idle]
    /\ count = Zero
    /\ job = "running"
    /\ analyzed = {}
    /\ used = [starts |-> 0, prunes |-> 0, restarts |-> 0]

-----------------------------------------------------------------------------
(* The store *)

\* UpdateAnalysisStatus.
WithStatus(row, status, why) ==
    [row EXCEPT !.status = status, !.error = why, !.completed = (status \in {"complete", "error"})]

SetStatus(S, status, why) ==
    event' = [e \in Events |-> IF e \in S THEN WithStatus(event[e], status, why) ELSE event[e]]

Pending(S) == {e \in S : event[e].status = "pending"}

InOrder(S) ==
    CHOOSE s \in [1..Cardinality(S) -> S] : \A i, j \in 1..Cardinality(S) : i < j => s[i] < s[j]

\* groupDeferredEvents: groups by key, the oldest capture of a group first.
GroupsOf(S) ==
    LET keys == InOrder({GroupOf[e] : e \in S})
        members(k) == InOrder({e \in S : GroupOf[e] = k})
    IN [i \in DOMAIN keys |->
          [j \in DOMAIN members(keys[i]) |-> Snapshot(members(keys[i])[j])]]

Files(groups) == FoldSeq(LAMBDA g, n : Len(g) + n, 0, groups)

-----------------------------------------------------------------------------
(* The Mapper job that collects *)

Media(kind) ==
    LET iq == IF kind \in {"iq", "both"} THEN "pending" ELSE "none"
    IN [iq |-> iq, meta |-> iq, audio |-> kind \in {"audio", "both"}]

HalfCaptured(e) == event[e].status = "none" /\ disk[e] # NoFiles

\* processSurveyTarget writes the files ...
WriteMedia(e, kind) ==
    /\ job = "running"
    /\ \A d \in JobEvents : d < e => event[d].status # "none"
    /\ event[e].status = "none" /\ ~HalfCaptured(e)
    /\ disk' = [disk EXCEPT ![e] = Media(kind)]
    /\ UNCHANGED <<event, run, ctl, queue, worker, count, job, analyzed, used>>

\* ... then appends the event, with the waveform analysis made while capturing
\* (or, for archives, a note that it was deferred).
AppendEvent(e) ==
    /\ job = "running" /\ HalfCaptured(e)
    /\ event' = [event EXCEPT ![e] =
            [NotCaptured EXCEPT !.status = "pending", !.analysis = TRUE,
                                !.audio = disk[e].audio, !.iq = disk[e].iq]]
    /\ UNCHANGED <<disk, run, ctl, queue, worker, count, job, analyzed, used>>

\* StartDeferredAnalysis after its checks.
StartRun(scope) ==
    LET groups == GroupsOf(Pending(scope)) IN
      /\ run' = [running |-> TRUE, stop |-> "open", scope |-> scope]
      /\ ctl' = "wave"
      /\ queue' = groups
      /\ worker' = [w \in Workers |-> Idle]
      /\ count' = [Zero EXCEPT !.total = Files(groups), !.groups = Len(groups)]

CanStart(scope) == ~run.running /\ Pending(scope) # {}

Start(scope) ==
    /\ CanStart(scope)
    /\ used.starts < MaxStarts
    /\ used' = [used EXCEPT !.starts = @ + 1]
    /\ StartRun(scope)
    /\ UNCHANGED <<event, disk, job, analyzed>>

\* finishMapperJob forgets the job ...
FinishJob ==
    /\ job = "running"
    /\ \A e \in Events : ~HalfCaptured(e)
    /\ job' = "finishing"
    /\ UNCHANGED <<event, disk, run, ctl, queue, worker, count, analyzed, used>>

\* ... and asks for the analysis of its captures; a refusal is dropped.
StartAfterJob ==
    /\ job = "finishing"
    /\ job' = "none"
    /\ IF CanStart(JobEvents) THEN StartRun(JobEvents)
                              ELSE UNCHANGED <<run, ctl, queue, worker, count>>
    /\ UNCHANGED <<event, disk, analyzed, used>>

\* StopDeferredAnalysis.
Stop ==
    /\ run.stop = "open"
    /\ run' = [run EXCEPT !.stop = "closed"]
    /\ UNCHANGED <<event, disk, ctl, queue, worker, count, job, analyzed, used>>

Stopped == run.stop = "closed"

-----------------------------------------------------------------------------
(* runDeferredAnalysis and runDeferredWave *)

\* The dispatcher's send and a worker's receive; a worker that then sees the
\* stop leaves without the group.
Take(w) ==
    /\ ctl = "wave" /\ queue # <<>> /\ worker[w].pc = "idle"
    /\ queue' = Tail(queue)
    /\ worker' = [worker EXCEPT ![w] =
          IF Stopped THEN [Idle EXCEPT !.pc = "exited"]
          ELSE [Idle EXCEPT !.pc = "next", !.todo = Head(queue)]]
    /\ UNCHANGED <<event, disk, run, ctl, count, job, analyzed, used>>

\* The dispatcher has nothing left to send, or sees the stop.
CloseWork ==
    /\ ctl = "wave" /\ (queue = <<>> \/ Stopped)
    /\ ctl' = "closing"
    /\ UNCHANGED <<event, disk, run, queue, worker, count, job, analyzed, used>>

\* Faulty variant: the new files are not added to the totals.
NextWaveUncounted(groups) ==
    /\ ctl' = "wave"
    /\ queue' = groups
    /\ worker' = [w \in Workers |-> Idle]
    /\ UNCHANGED count

\* registerDeferredGroups and the next wave.
NextWave(groups) ==
    /\ ctl' = "wave"
    /\ queue' = groups
    /\ worker' = [w \in Workers |-> Idle]
    /\ count' = [count EXCEPT !.total = @ + Files(groups), !.groups = @ + Len(groups)]

\* Faulty variant: a worker that leaves at the stop does not report that it is done.
WaveDoneUnreported == ctl = "closing" /\ \A w \in Workers : worker[w].pc = "idle"

WaveDone == ctl = "closing" /\ \A w \in Workers : worker[w].pc \in {"idle", "exited"}

\* Faulty variant: only the captures queued at the start are analysed.
EndWaveOnce ==
    /\ WaveDone
    /\ ctl' = "ending" /\ queue' = <<>> /\ UNCHANGED <<worker, count>>
    /\ UNCHANGED <<event, disk, run, job, analyzed, used>>

\* workers.Wait returns; the queue is read again unless the run was stopped.
EndWave ==
    /\ WaveDone
    /\ LET groups == GroupsOf(Pending(run.scope)) IN
         IF ~Stopped /\ groups # <<>> THEN NextWave(groups)
         ELSE /\ ctl' = IF Stopped THEN "ending" ELSE "idle"
              /\ queue' = <<>> /\ UNCHANGED <<worker, count>>
    /\ UNCHANGED <<event, disk, run, job, analyzed, used>>

\* Caught up: leave at once without a Mapper job, after 30 s in any case.
LeaveIdle ==
    /\ ctl = "idle"
    /\ ctl' = "ending"
    /\ UNCHANGED <<event, disk, run, queue, worker, count, job, analyzed, used>>

KeepWatching ==
    /\ ctl = "idle" /\ job = "running"
    /\ ctl' = "watch"
    /\ UNCHANGED <<event, disk, run, queue, worker, count, job, analyzed, used>>

\* Two seconds later.
Poll ==
    /\ ctl = "watch"
    /\ LET groups == GroupsOf(Pending(run.scope)) IN
         IF ~Stopped /\ groups # <<>> THEN NextWave(groups)
         ELSE /\ ctl' = IF Stopped THEN "ending" ELSE "idle"
              /\ UNCHANGED <<queue, worker, count>>
    /\ UNCHANGED <<event, disk, run, job, analyzed, used>>

\* Faulty variant: the worker returns without its deferred function.
EndRunForgetful ==
    /\ ctl = "ending"
    /\ ctl' = "off"
    /\ UNCHANGED <<event, disk, run, queue, worker, count, job, analyzed, used>>

EndRun ==
    /\ ctl = "ending"
    /\ ctl' = "off"
    /\ run' = NoRun
    /\ UNCHANGED <<event, disk, queue, worker, count, job, analyzed, used>>

-----------------------------------------------------------------------------
(* processDeferredGroup *)

Step(w, pc) == worker' = [worker EXCEPT ![w].pc = pc]
Current(w) == Head(worker[w].todo)

\* Faulty variant: the files already processed are left as they are.
AbandonSilently(w, S) ==
    /\ SetStatus(S, "pending", "none")
    /\ worker' = [worker EXCEPT ![w] = Idle]
    /\ UNCHANGED count

\* Leaving early puts the processed files, and those of S, back in the queue.
Abandon(w, S) ==
    /\ SetStatus(ToSet(worker[w].good) \cup S, "pending", "none")
    /\ count' = [count EXCEPT !.completed = @ - Len(worker[w].good)]
    /\ worker' = [worker EXCEPT ![w] = Idle]

\* An error of analyzeStoredEvent: the file fails, the group goes on.
Fail(w, why) ==
    /\ SetStatus({Current(w).id}, "error", why)
    /\ count' = [count EXCEPT !.failed = @ + 1]
    /\ worker' = [worker EXCEPT ![w].pc = "next", ![w].todo = Tail(@)]

NextFile(w) ==
    /\ worker[w].pc = "next" /\ worker[w].todo # <<>>
    /\ IF Stopped
       THEN Abandon(w, {}) /\ UNCHANGED analyzed
       ELSE /\ SetStatus({Current(w).id}, "running", "none")
            /\ Step(w, IF ~Current(w).audio /\ Current(w).iq # "none" THEN "derive" ELSE "check")
            /\ analyzed' = analyzed \ {Current(w).id}
            /\ UNCHANGED count
    /\ UNCHANGED <<disk, run, ctl, queue, job, used>>

\* The IQ file and its sidecar can be read where the snapshot says.
IQReadable(s) == disk[s.id].iq = s.iq /\ disk[s.id].meta = s.iq

\* deriveStoredAudio writes a WAV from the IQ ...
Derive(w) ==
    LET s == Current(w) IN
      /\ worker[w].pc = "derive"
      /\ \/ IQReadable(s) /\ disk' = [disk EXCEPT ![s.id].audio = TRUE]
            /\ Step(w, "link") /\ UNCHANGED <<event, count>>
         \/ ~IQReadable(s) /\ Fail(w, "missing") /\ UNCHANGED disk
         \/ Fail(w, "failed") /\ UNCHANGED disk
      /\ UNCHANGED <<run, ctl, queue, job, analyzed, used>>

\* ... UpdateAudioPath ...
Link(w) ==
    LET s == Current(w) IN
      /\ worker[w].pc = "link"
      /\ event' = [event EXCEPT ![s.id].audio = TRUE]
      /\ worker' = [worker EXCEPT ![w].pc = "classify", ![w].todo[1].audio = TRUE]
      /\ UNCHANGED <<disk, run, ctl, queue, count, job, analyzed, used>>

\* ... and UpdateAnalysis with the waveform's classification.
Classify(w) ==
    /\ worker[w].pc = "classify"
    /\ event' = [event EXCEPT ![Current(w).id].analysis = TRUE]
    /\ Step(w, "check")
    /\ UNCHANGED <<disk, run, ctl, queue, count, job, analyzed, used>>

\* Every file the snapshot names must exist, and there must be one.
CheckFiles(w) ==
    LET s == Current(w)
        missing == \/ s.iq # "none" /\ disk[s.id].iq # s.iq
                   \/ s.audio /\ ~disk[s.id].audio
                   \/ s.iq = "none" /\ ~s.audio
    IN /\ worker[w].pc = "check"
       /\ IF missing THEN Fail(w, "missing")
                     ELSE Step(w, "analyze") /\ UNCHANGED <<event, count>>
       /\ UNCHANGED <<disk, run, ctl, queue, job, analyzed, used>>

\* Faulty variant: a failed file is counted among the processed ones.
AnalyzeAnyway(w) ==
    LET e == Current(w).id IN
      /\ worker[w].pc = "analyze"
      /\ worker' = [worker EXCEPT ![w].pc = "next", ![w].todo = Tail(@), ![w].good = Append(@, e)]
      /\ count' = [count EXCEPT !.completed = @ + 1]
      /\ \/ analyzed' = analyzed \cup {e}
         \/ UNCHANGED analyzed
      /\ UNCHANGED <<event, disk, run, ctl, queue, job, used>>

\* Decoder, transcription and local model.  After a stop the context's own
\* error puts the file back; a tool that was killed reports its output or
\* "signal: killed", an error like any other.
Analyze(w) ==
    LET e == Current(w).id IN
      /\ worker[w].pc = "analyze"
      /\ \/ /\ worker' = [worker EXCEPT ![w].pc = "next", ![w].todo = Tail(@), ![w].good = Append(@, e)]
            /\ count' = [count EXCEPT !.completed = @ + 1]
            /\ event' = [event EXCEPT ![e].analysis = @ \/ ModelEnabled]
            /\ analyzed' = analyzed \cup {e}
         \/ Fail(w, "failed") /\ UNCHANGED analyzed
         \/ Stopped /\ Fail(w, "killed") /\ UNCHANGED analyzed
         \/ Stopped /\ Abandon(w, {e}) /\ UNCHANGED analyzed
      /\ UNCHANGED <<disk, run, ctl, queue, job, used>>

\* combineDeferredGroup.
Combine(w) ==
    LET good == worker[w].good
        done(result) == worker' = [worker EXCEPT ![w].pc = "decide", ![w].combine = result]
    IN /\ worker[w].pc = "next" /\ worker[w].todo = <<>>
       /\ \/ /\ done("ok")
             /\ event' = [e \in Events |->
                   IF e \in ToSet(good) /\ ModelEnabled THEN [event[e] EXCEPT !.analysis = TRUE] ELSE event[e]]
             /\ UNCHANGED count
          \/ /\ ModelEnabled /\ good # <<>>
             /\ \/ done("failed") /\ UNCHANGED <<event, count>>
                \/ Stopped /\ Abandon(w, {})
       /\ UNCHANGED <<disk, run, ctl, queue, job, analyzed, used>>

Decide(w) ==
    /\ worker[w].pc = "decide"
    /\ IF Stopped THEN Abandon(w, {}) ELSE Step(w, "finalize") /\ UNCHANGED <<event, count>>
    /\ UNCHANGED <<disk, run, ctl, queue, job, analyzed, used>>

\* The head of the processed files is done, as an error.
FinalizeFails(w, why) ==
    /\ SetStatus({Head(worker[w].good)}, "error", why)
    /\ count' = [count EXCEPT !.completed = @ - 1, !.failed = @ + 1]
    /\ worker' = [worker EXCEPT ![w].pc = "finalize", ![w].good = Tail(@)]

\* Faulty variant: the IQ is disposed of although the group failed.
FinalizeAlways(w) ==
    /\ worker[w].pc = "finalize" /\ worker[w].good # <<>>
    /\ LET e == Head(worker[w].good) IN
         \E how \in Dispositions \ {"archive"} :
           /\ event[e].iq # "none"
           /\ disk' = [disk EXCEPT ![e].iq = IF how = "move" THEN "kept" ELSE "none"]
           /\ worker' = [worker EXCEPT ![w].pc = "sidecar", ![w].dest = disk'[e].iq]
           /\ UNCHANGED <<event, count>>
    /\ UNCHANGED <<run, ctl, queue, job, analyzed, used>>

\* finalizeDeferredEvidence and finalizeIQEvidence up to the IQ file itself:
\* an archive stays, evidence is moved, the rest is deleted or moved.
Finalize(w) ==
    /\ worker[w].pc = "finalize" /\ worker[w].good # <<>>
    /\ LET e == Head(worker[w].good)
           iq == event[e].iq
           Dispose(place, pc) ==
             /\ disk' = [disk EXCEPT ![e].iq = place]
             /\ worker' = [worker EXCEPT ![w].pc = pc, ![w].dest = place]
             /\ UNCHANGED <<event, count>>
       IN \/ worker[w].combine = "failed" /\ FinalizeFails(w, "combine") /\ UNCHANGED disk
          \/ /\ worker[w].combine = "ok" /\ iq = "none"
             /\ Step(w, "mark") /\ UNCHANGED <<event, disk, count>>
          \/ /\ worker[w].combine = "ok" /\ iq # "none"
             /\ \/ disk[e].meta # iq /\ FinalizeFails(w, "missing") /\ UNCHANGED disk
                \/ /\ disk[e].meta = iq /\ "archive" \in Dispositions
                   /\ worker' = [worker EXCEPT ![w].pc = "store", ![w].dest = iq]
                   /\ UNCHANGED <<event, disk, count>>
                \/ /\ disk[e].meta = iq /\ "delete" \in Dispositions
                   /\ Dispose("none", "sidecar")
                \/ /\ disk[e].meta = iq /\ "move" \in Dispositions
                   /\ IF disk[e].iq = iq THEN Dispose("kept", "sidecar")
                      ELSE FinalizeFails(w, "missing") /\ UNCHANGED disk
    /\ UNCHANGED <<run, ctl, queue, job, analyzed, used>>

\* The sidecar follows the IQ file.
MoveSidecar(w) ==
    /\ worker[w].pc = "sidecar"
    /\ disk' = [disk EXCEPT ![Head(worker[w].good)].meta = worker[w].dest]
    /\ Step(w, "store")
    /\ UNCHANGED <<event, run, ctl, queue, count, job, analyzed, used>>

\* UpdateIQPath.
StorePath(w) ==
    /\ worker[w].pc = "store"
    /\ event' = [event EXCEPT ![Head(worker[w].good)].iq = worker[w].dest]
    /\ Step(w, "mark")
    /\ UNCHANGED <<disk, run, ctl, queue, count, job, analyzed, used>>

MarkComplete(w) ==
    /\ worker[w].pc = "mark"
    /\ SetStatus({Head(worker[w].good)}, "complete", "none")
    /\ worker' = [worker EXCEPT ![w].pc = "finalize", ![w].good = Tail(@)]
    /\ UNCHANGED <<disk, run, ctl, queue, count, job, analyzed, used>>

GroupDone(w) ==
    /\ worker[w].pc = "finalize" /\ worker[w].good = <<>>
    /\ count' = [count EXCEPT !.groupsDone = @ + 1]
    /\ worker' = [worker EXCEPT ![w] = Idle]
    /\ UNCHANGED <<event, disk, run, ctl, queue, job, analyzed, used>>

WorkerStep(w) ==
    \/ Take(w) \/ NextFile(w) \/ Derive(w) \/ Link(w) \/ Classify(w) \/ CheckFiles(w) \/ Analyze(w)
    \/ Combine(w) \/ Decide(w) \/ Finalize(w) \/ MoveSidecar(w) \/ StorePath(w)
    \/ MarkComplete(w) \/ GroupDone(w)

-----------------------------------------------------------------------------
(* Storage cleanup *)

\* enforceStoragePolicy removes single files; pending IQ too, after 24 hours.
Prune(e) ==
    /\ used.prunes < MaxPrunes /\ event[e].status # "none"
    /\ used' = [used EXCEPT !.prunes = @ + 1]
    /\ \/ disk[e].audio /\ disk' = [disk EXCEPT ![e].audio = FALSE]
       \/ disk[e].iq # "none" /\ disk' = [disk EXCEPT ![e].iq = "none"]
       \/ disk[e].meta # "none" /\ disk' = [disk EXCEPT ![e].meta = "none"]
    /\ UNCHANGED <<event, run, ctl, queue, worker, count, job, analyzed>>

\* ReconcileRemovedMedia for one event.
WithoutRemoved(e) ==
    LET row == event[e]
        audio == row.audio /\ disk[e].audio
        iq == IF row.iq = disk[e].iq THEN row.iq ELSE "none"
        linked == [row EXCEPT !.audio = audio, !.iq = iq]
    IN IF linked # row /\ ~audio /\ iq = "none" /\ row.status \in {"pending", "running"}
       THEN [WithStatus(linked, "unavailable", "removed") EXCEPT !.completed = FALSE]
       ELSE linked

ReconcileRemoved ==
    /\ event' = [e \in Events |-> WithoutRemoved(e)]
    /\ event' # event
    /\ UNCHANGED <<disk, run, ctl, queue, worker, count, job, analyzed, used>>

-----------------------------------------------------------------------------
(* Restart *)

\* Faulty variant: missing files are not looked for under their new place.
RecoveredUnlinked(e) ==
    LET row == event[e] IN
      IF row.status = "none" THEN row
      ELSE [row EXCEPT !.iq = IF disk[e].iq = row.iq THEN row.iq ELSE "none",
                       !.status = IF @ = "running" THEN "pending" ELSE @]

\* ReconcileMedia for one event.  Files nobody refers to become an event of
\* their own; here that is the capture they belong to.  A WAV that was written
\* from a known capture's IQ but never linked becomes one more event, which is
\* not followed.
Recovered(e) ==
    LET row == event[e]
        iq == IF row.iq = "none" THEN "none" ELSE disk[e].iq
        audio == row.audio /\ disk[e].audio
        hadMedia == row.iq # "none" \/ row.audio
        requeued == IF row.status = "running" THEN WithStatus(row, "pending", "none") ELSE row
        judged == IF requeued.status = "pending" /\ requeued.analysis /\ ~requeued.completed
                  THEN WithStatus(requeued, "complete", "none") ELSE requeued
        gone == IF hadMedia /\ iq = "none" /\ ~audio
                THEN [WithStatus(judged, "unavailable", "removed") EXCEPT !.completed = FALSE]
                ELSE judged
        \* The second pass over IQ files that no event refers to.
        orphan == disk[e].iq # "none" /\ iq = "none" /\ disk[e].meta = disk[e].iq
        place == IF orphan THEN disk[e].iq ELSE iq
    IN IF row.status # "none" THEN [gone EXCEPT !.iq = place, !.audio = audio]
       ELSE IF ~HalfCaptured(e) THEN row
       ELSE [NotCaptured EXCEPT !.status = "pending", !.iq = place, !.audio = disk[e].audio]

Restart ==
    /\ used.restarts < MaxRestarts
    /\ used' = [used EXCEPT !.restarts = @ + 1]
    /\ event' = [e \in Events |-> Recovered(e)]
    /\ run' = NoRun /\ ctl' = "off" /\ queue' = <<>> /\ count' = Zero
    /\ worker' = [w \in Workers |-> Idle]
    /\ job' = "none"
    /\ UNCHANGED <<disk, analyzed>>

-----------------------------------------------------------------------------
Controller == CloseWork \/ EndWave \/ LeaveIdle \/ KeepWatching \/ Poll \/ EndRun

\* A program that is not ended, and whose files storage cleanup leaves alone.
Undisturbed ==
    \/ \E e \in JobEvents : (\E kind \in MediaKinds : WriteMedia(e, kind)) \/ AppendEvent(e)
    \/ FinishJob
    \/ StartAfterJob
    \/ Start(Events)
    \/ Stop
    \/ Controller
    \/ \E w \in Workers : WorkerStep(w)
    \/ ReconcileRemoved

Next == Undisturbed \/ (\E e \in Events : Prune(e)) \/ Restart

Spec == Init /\ [][Next]_vars

\* Goroutines keep running, every decoder, transcription and model call has a
\* timeout.
Fairness ==
    /\ WF_vars(Controller)
    /\ \A w \in Workers : WF_vars(WorkerStep(w))

UndisturbedSpec == Init /\ [][Undisturbed]_vars /\ Fairness

-----------------------------------------------------------------------------
(* Properties *)

Held(w) == ToSet(worker[w].good) \cup
           (IF worker[w].todo = <<>> THEN {} ELSE {Current(w).id})

\* PendingAnalysis never offers a "running" event again, so one that no worker
\* holds would stay out of every later run of this process.
NoneStranded ==
    \A e \in Events : event[e].status = "running" => \E w \in Workers : e \in Held(w)

\* What the page shows adds up: until the run is stopped, every file counted
\* in the total is completed, failed or still ahead.
TotalsAddUp ==
    run.stop = "open" =>
        count.total = count.completed + count.failed + Files(queue)
                      + FoldSet(LAMBDA w, n : Len(worker[w].todo) + n, 0, Workers)

\* A complete event has been through analyzeStoredEvent to its end.
CompleteMeansAnalyzed ==
    \A e \in Events : event[e].status = "complete" => e \in analyzed

\* The only copy of a capture's IQ is moved or deleted by analysis only when
\* its own analysis and its group's succeeded.
EvidenceKept ==
    [][\A e \in Events :
          (disk'[e].iq # disk[e].iq /\ event[e].status # "none" /\ used' = used) =>
              \E w \in Workers : /\ worker[w].good # <<>> /\ Head(worker[w].good) = e
                                 /\ worker[w].combine = "ok" /\ e \in analyzed]_vars

\* After a restart the events and the files agree, wherever the restart cut a
\* capture, a move or a cleanup short: an IQ file that has its sidecar belongs
\* to an event that knows its place, and no event names a file that is gone.
RestartLinksMedia ==
    [][used'.restarts # used.restarts =>
          \A e \in Events :
             /\ event'[e].iq \in {"none", disk[e].iq}
             /\ (disk[e].iq # "none" /\ disk[e].meta = disk[e].iq) => event'[e].iq = disk[e].iq
             /\ event'[e].audio => disk[e].audio]_vars

\* A stopped run ends, so that it can be started again.
StopSettles == Stopped ~> ~run.running

\* A capture that waits while groups are being handed out is analysed, or
\* found unavailable, unless the run is stopped.
QueuedServed ==
    \A e \in Events :
        (ctl = "wave" /\ e \in Pending(run.scope)) ~> (event[e].status # "pending" \/ Stopped)

\* No event is lost to later runs, the page's numbers add up, and what is
\* called complete was analysed.
AnalysisAccounted == NoneStranded /\ TotalsAddUp /\ CompleteMeansAnalyzed

\* Runs that were stopped end, and captures that wait are analysed.
AnalysisSettles == StopSettles /\ QueuedServed
=============================================================================
