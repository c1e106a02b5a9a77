-------------------------- MODULE ReceiverOwnership --------------------------
(***************************************************************************)
(* Who owns a physical receiver: the runtime's session control             *)
(* (server/internal/app/runtime.go) and the goroutines it starts and       *)
(* stops.  Operators are HTTP request goroutines.  A request that takes    *)
(* the runtime's lock more than once, or that calls another manager        *)
(* between two critical sections, is one action per critical section, so   *)
(* that requests of different operators interleave where the code lets     *)
(* them.                                                                   *)
(*                                                                         *)
(* Stop channels are numbered in the order they are made; closing one is   *)
(* membership in "closed".  The capture loops of a live session, the P25   *)
(* monitor, the Mapper job loops, the characterization workers and a       *)
(* calibration each run in goroutines of their own and look at their stop  *)
(* channel only now and then.                                              *)
(***************************************************************************)
EXTENDS Naturals, FiniteSets

CONSTANTS
    Operators,  \* concurrent HTTP requests
    Devices,    \* connected, available receivers
    Profiles,   \* saved scan profiles and the quick-tune profile
    Jobs,       \* saved Mapper jobs
    Kind,       \* Kind[p]: how profile p is run
    Assigned,   \* Assigned[p]: receivers buildPlan assigns to p
    None,       \* absent profile or job
    MaxChans    \* bound: stop channels made in a behaviour

OwnershipAssumption ==
    /\ Kind \in [Profiles -> {"survey", "stream", "p25"}]
    /\ Assigned \in [Profiles -> (SUBSET Devices) \ {{}}]
    /\ None \notin Profiles \cup Jobs
    /\ MaxChans \in Nat

VARIABLES
    running,     \* Runtime.running
    stopChan,    \* Runtime.stop, 0 when nil
    plan,        \* receivers assigned in Runtime.plan
    captures,    \* live capture loops: [chan, dev, kind]
    monitors,    \* p25MonitorLoop goroutines: [chan, pc]
    engine,      \* OP25Manager: [state, devs]
    mapperJobs,  \* Runtime.mapperJobs: job -> [chan, dev], chan 0 when absent
    mapperLoops, \* mapperJobLoop goroutines: [job, chan, dev, pc]
    lab,         \* CharacterizationManager: [running, stop, devs]
    ops,         \* the request each operator has in progress
    lastChan,    \* stop channels made so far
    closed       \* stop channels that are closed

session == <<running, stopChan, plan>>
mapper  == <<mapperJobs, mapperLoops>>
vars == <<session, captures, monitors, engine, mapper, lab, ops, lastChan, closed>>

Chans == 1..MaxChans
Handle == [chan : 0..MaxChans, dev : Devices \cup {None}]
NoHandle == [chan |-> 0, dev |-> None]
MapperLoop == [job : Jobs, chan : Chans, dev : Devices, pc : {"run", "finish"}]

Pcs == {"idle", "release", "engineStop", "check", "engineStart", "install",
        "mapperStart", "labStart", "calibrating"}
Request == [pc : Pcs, profile : Profiles \cup {None}, job : Jobs \cup {None},
            devs : SUBSET Devices]
Idle == [pc |-> "idle", profile |-> None, job |-> None, devs |-> {}]

TypeOK ==
    /\ running \in BOOLEAN
    /\ stopChan \in 0..MaxChans
    /\ plan \subseteq Devices
    /\ captures \subseteq [chan : Chans, dev : Devices, kind : {"survey", "stream"}]
    /\ monitors \subseteq [chan : Chans, pc : {"watch", "release", "engineStop"}]
    /\ engine \in [state : {"none", "running", "exited"}, devs : SUBSET Devices]
    /\ mapperJobs \in [Jobs -> Handle]
    /\ mapperLoops \subseteq MapperLoop
    /\ lab \in [running : BOOLEAN, stop : BOOLEAN, devs : SUBSET Devices]
    /\ ops \in [Operators -> Request]
    /\ lastChan \in 0..MaxChans
    /\ closed \subseteq Chans

Init ==
    /\ running = FALSE
    /\ stopChan = 0
    /\ plan = {}
    /\ captures = {}
    /\ monitors = {}
    /\ engine = [state |-> "none", devs |-> {}]
    /\ mapperJobs = [j \in Jobs |-> NoHandle]
    /\ mapperLoops = {}
    /\ lab = [running |-> FALSE, stop |-> FALSE, devs |-> {}]
    /\ ops = [o \in Operators |-> Idle]
    /\ lastChan = 0
    /\ closed = {}

-----------------------------------------------------------------------------
(* Helpers *)

Registered == {j \in Jobs : mapperJobs[j].chan # 0}
MapperOwned == {mapperJobs[j].dev : j \in Registered}
EngineIdle == [state |-> "none", devs |-> {}]

Goto(o, request) == ops' = [ops EXCEPT ![o] = request]
Continue(o, pc) == ops' = [ops EXCEPT ![o].pc = pc]

\* Faulty variants: a nil channel is closed too; the channel is forgotten
\* without being closed.
ReleaseUnguarded ==
    /\ closed' = closed \cup {stopChan}
    /\ stopChan' = 0
    /\ running' = FALSE
    /\ UNCHANGED plan

ReleaseWithoutClose ==
    /\ stopChan' = 0
    /\ running' = FALSE
    /\ UNCHANGED <<plan, closed>>

\* Runtime.Stop up to its Unlock: close the current stop channel and forget
\* the session; the loops notice later, nobody waits for them.
ReleaseSession ==
    /\ closed' = closed \cup ({stopChan} \ {0})
    /\ stopChan' = 0
    /\ running' = FALSE
    /\ UNCHANGED plan

\* Bound: every request in progress may still make one stop channel.
Room == lastChan + Cardinality({o \in Operators : ops[o] # Idle}) < MaxChans

\* The receivers profileUsesDeviceLocked reports as used.
ProfileUses == IF running THEN plan ELSE {}

-----------------------------------------------------------------------------
(* Requests *)

\* Start and Tune refuse while a characterization runs; then startProfile
\* begins by calling Stop.
Start(o, p) ==
    /\ ops[o] = Idle
    /\ Room
    /\ ~lab.running
    /\ Goto(o, [Idle EXCEPT !.pc = "release", !.profile = p])
    /\ UNCHANGED <<session, captures, monitors, engine, mapper, lab, lastChan, closed>>

\* StartOnDevice pins every assignment to one receiver and calls
\* startProfile without asking the characterization manager.
StartOnDevice(o, p) ==
    /\ ops[o] = Idle
    /\ Room
    /\ Goto(o, [Idle EXCEPT !.pc = "release", !.profile = p])
    /\ UNCHANGED <<session, captures, monitors, engine, mapper, lab, lastChan, closed>>

\* POST /api/stop.
RequestStop(o) ==
    /\ ops[o] = Idle
    /\ Goto(o, [Idle EXCEPT !.pc = "release"])
    /\ UNCHANGED <<session, captures, monitors, engine, mapper, lab, lastChan, closed>>

\* First half of Stop.
StopSession(o) ==
    /\ ops[o].pc = "release"
    /\ ReleaseSession
    /\ Continue(o, "engineStop")
    /\ UNCHANGED <<captures, monitors, engine, mapper, lab, lastChan>>

\* Faulty variant: startProfile goes on without stopping the decoder.
LeaveEngine(o) ==
    /\ ops[o].pc = "engineStop"
    /\ IF ops[o].profile = None THEN Goto(o, Idle) ELSE Continue(o, "check")
    /\ UNCHANGED <<session, captures, monitors, engine, mapper, lab, lastChan, closed>>

\* Second half of Stop: op25.Stop interrupts the decoder process and waits
\* until it has exited.  A plain Stop ends here, startProfile goes on.
StopEngine(o) ==
    /\ ops[o].pc = "engineStop"
    /\ engine' = EngineIdle
    /\ IF ops[o].profile = None THEN Goto(o, Idle) ELSE Continue(o, "check")
    /\ UNCHANGED <<session, captures, monitors, mapper, lab, lastChan, closed>>

\* startProfile reads the Mapper owners under the read lock and gives the
\* lock back before it starts anything.
CheckMapperOwners(o) ==
    /\ ops[o].pc = "check"
    /\ LET p == ops[o].profile IN
         IF Assigned[p] \cap MapperOwned # {}
         THEN Goto(o, Idle)
         ELSE Continue(o, IF Kind[p] = "p25" THEN "engineStart" ELSE "install")
    /\ UNCHANGED <<session, captures, monitors, engine, mapper, lab, lastChan, closed>>

\* op25.Start stops a decoder that still runs and launches a new one on the
\* planned receivers, or fails and leaves the runtime stopped.
StartEngine(o) ==
    /\ ops[o].pc = "engineStart"
    /\ \/ /\ engine' = [state |-> "running", devs |-> Assigned[ops[o].profile]]
          /\ Continue(o, "install")
       \/ /\ engine' = EngineIdle
          /\ Goto(o, Idle)
    /\ UNCHANGED <<session, captures, monitors, mapper, lab, lastChan, closed>>

\* The last critical section of startProfile: publish the session with a new
\* stop channel and spawn its goroutines.
InstallSession(o) ==
    /\ ops[o].pc = "install"
    /\ lastChan < MaxChans
    /\ LET p == ops[o].profile
           c == lastChan + 1
       IN /\ running' = TRUE
          /\ plan' = Assigned[p]
          /\ stopChan' = c
          /\ lastChan' = c
          /\ IF Kind[p] = "p25"
             THEN /\ monitors' = monitors \cup {[chan |-> c, pc |-> "watch"]}
                  /\ UNCHANGED captures
             ELSE /\ captures' = captures \cup
                       {[chan |-> c, dev |-> d, kind |-> Kind[p]] : d \in Assigned[p]}
                  /\ UNCHANGED monitors
    /\ Goto(o, Idle)
    /\ UNCHANGED <<engine, mapper, lab, closed>>

\* Faulty variant: the characterization is not consulted.
RequestMapperDuringLab(o, j, d) ==
    /\ ops[o] = Idle
    /\ Room
    /\ Goto(o, [Idle EXCEPT !.pc = "mapperStart", !.job = j, !.devs = {d}])
    /\ UNCHANGED <<session, captures, monitors, engine, mapper, lab, lastChan, closed>>

\* StartMapperJob before it takes the lock.
RequestMapper(o, j, d) ==
    /\ ops[o] = Idle
    /\ Room
    /\ ~lab.running
    /\ Goto(o, [Idle EXCEPT !.pc = "mapperStart", !.job = j, !.devs = {d}])
    /\ UNCHANGED <<session, captures, monitors, engine, mapper, lab, lastChan, closed>>

\* Faulty variants: the receivers of other jobs, or of the live session, are
\* not looked at.
MapperIgnoresJobs(j, d) == j \notin Registered /\ d \notin ProfileUses
MapperIgnoresLive(j, d) == j \notin Registered /\ d \notin MapperOwned

\* What StartMapperJob requires, under the lock, of job j and receiver d.
MapperMayStart(j, d) ==
    /\ j \notin Registered
    /\ d \notin MapperOwned
    /\ d \notin ProfileUses

\* StartMapperJob under the lock: refuse, or register a handle and spawn the
\* job's loop.
StartMapperJob(o) ==
    /\ ops[o].pc = "mapperStart"
    /\ \E d \in ops[o].devs :
         LET j == ops[o].job
             c == lastChan + 1
         IN IF MapperMayStart(j, d)
            THEN /\ lastChan < MaxChans
                 /\ lastChan' = c
                 /\ mapperJobs' = [mapperJobs EXCEPT ![j] = [chan |-> c, dev |-> d]]
                 /\ mapperLoops' = mapperLoops \cup
                      {[job |-> j, chan |-> c, dev |-> d, pc |-> "run"]}
            ELSE UNCHANGED <<mapper, lastChan>>
    /\ Goto(o, Idle)
    /\ UNCHANGED <<session, captures, monitors, engine, lab, closed>>

\* Faulty variant: stopping a job also drops its handle.
ForgetMapperJobs(o, stopping) ==
    /\ ops[o] = Idle
    /\ stopping \cap Registered # {}
    /\ closed' = closed \cup {mapperJobs[j].chan : j \in stopping \cap Registered}
    /\ mapperJobs' = [j \in Jobs |-> IF j \in stopping THEN NoHandle ELSE mapperJobs[j]]
    /\ UNCHANGED <<session, captures, monitors, engine, mapperLoops, lab, ops, lastChan>>

\* StopMapperJob, and StopAllMapperJobs for every job: close a handle once.
StopMapperJobs(o, stopping) ==
    /\ ops[o] = Idle
    /\ stopping \cap Registered # {}
    /\ closed' = closed \cup {mapperJobs[j].chan : j \in stopping \cap Registered}
    /\ UNCHANGED <<session, captures, monitors, engine, mapper, lab, ops, lastChan>>

\* StartCharacterization looks at the runtime under the read lock ...
RequestLab(o, ds) ==
    /\ ops[o] = Idle
    /\ ~running /\ Registered = {}
    /\ Goto(o, [Idle EXCEPT !.pc = "labStart", !.devs = ds])
    /\ UNCHANGED <<session, captures, monitors, engine, mapper, lab, lastChan, closed>>

\* ... and CharacterizationManager.Start looks only at its own state.
StartLab(o) ==
    /\ ops[o].pc = "labStart"
    /\ lab' = IF lab.running THEN lab
              ELSE [running |-> TRUE, stop |-> FALSE, devs |-> ops[o].devs]
    /\ Goto(o, Idle)
    /\ UNCHANGED <<session, captures, monitors, engine, mapper, lastChan, closed>>

StopLab(o) ==
    /\ ops[o] = Idle
    /\ lab.running /\ ~lab.stop
    /\ lab' = [lab EXCEPT !.stop = TRUE]
    /\ UNCHANGED <<session, captures, monitors, engine, mapper, ops, lastChan, closed>>

\* AutoCalibrate checks that the runtime, the Mapper and the lab are idle, and
\* then captures in the request goroutine itself; nothing records that it does.
AutoCalibrate(o, d) ==
    /\ ops[o] = Idle
    /\ ~running /\ Registered = {} /\ ~lab.running
    /\ Goto(o, [Idle EXCEPT !.pc = "calibrating", !.devs = {d}])
    /\ UNCHANGED <<session, captures, monitors, engine, mapper, lab, lastChan, closed>>

FinishCalibration(o) ==
    /\ ops[o].pc = "calibrating"
    /\ Goto(o, Idle)
    /\ UNCHANGED <<session, captures, monitors, engine, mapper, lab, lastChan, closed>>

-----------------------------------------------------------------------------
(* Goroutines *)

\* Faulty variant: the loop polls Runtime.running, not its own channel.
CaptureStopsWithRuntime(l) ==
    /\ ~running
    /\ captures' = captures \ {l}
    /\ UNCHANGED <<session, monitors, engine, mapper, lab, ops, lastChan, closed>>

\* A capture loop finds its own stop channel closed, closes its stream and
\* returns.
CaptureStops(l) ==
    /\ l.chan \in closed
    /\ captures' = captures \ {l}
    /\ UNCHANGED <<session, monitors, engine, mapper, lab, ops, lastChan, closed>>

\* tunerLoop and widebandBankLoop return on a stream error and leave
\* Runtime.running set; liveSurveyLoop retries.
CaptureFails(l) ==
    /\ l.kind = "stream"
    /\ l.chan \notin closed
    /\ captures' = captures \ {l}
    /\ UNCHANGED <<session, monitors, engine, mapper, lab, ops, lastChan, closed>>

\* The P25 decoder process exits by itself; OP25Manager keeps the command and
\* reports the state "error".
EngineExits ==
    /\ engine.state = "running"
    /\ engine' = [state |-> "exited", devs |-> {}]
    /\ UNCHANGED <<session, captures, monitors, mapper, lab, ops, lastChan, closed>>

MonitorMoves(m, pc) == monitors' = (monitors \ {m}) \cup {[m EXCEPT !.pc = pc]}

MonitorStops(m) ==
    /\ m.pc = "watch" /\ m.chan \in closed
    /\ monitors' = monitors \ {m}
    /\ UNCHANGED <<session, captures, engine, mapper, lab, ops, lastChan, closed>>

\* A monitor that reads the state "error" calls Runtime.Stop, which acts on
\* whatever session is current when it gets the lock.
MonitorSeesError(m) ==
    /\ m.pc = "watch" /\ engine.state = "exited"
    /\ MonitorMoves(m, "release")
    /\ UNCHANGED <<session, captures, engine, mapper, lab, ops, lastChan, closed>>

MonitorReleases(m) ==
    /\ m.pc = "release"
    /\ ReleaseSession
    /\ MonitorMoves(m, "engineStop")
    /\ UNCHANGED <<captures, engine, mapper, lab, ops, lastChan>>

MonitorStopsEngine(m) ==
    /\ m.pc = "engineStop"
    /\ engine' = EngineIdle
    /\ monitors' = monitors \ {m}
    /\ UNCHANGED <<session, captures, mapper, lab, ops, lastChan, closed>>

\* Faulty variant: only the end of its last phase ends a loop.
MapperLoopIgnoresStop(l) ==
    /\ l.pc = "run" /\ l.chan \notin closed
    /\ mapperLoops' = (mapperLoops \ {l}) \cup {[l EXCEPT !.pc = "finish"]}
    /\ UNCHANGED <<session, captures, monitors, engine, mapperJobs, lab, ops, lastChan, closed>>

\* The loop of a Mapper job ends: its handle was closed, its last phase is
\* over, or a capture could not be written.
MapperLoopEnds(l) ==
    /\ l.pc = "run"
    /\ mapperLoops' = (mapperLoops \ {l}) \cup {[l EXCEPT !.pc = "finish"]}
    /\ UNCHANGED <<session, captures, monitors, engine, mapperJobs, lab, ops, lastChan, closed>>

\* finishMapperJob removes the handle only if it is still its own.
FinishMapperJob(l) ==
    /\ l.pc = "finish"
    /\ mapperJobs' = IF mapperJobs[l.job].chan = l.chan
                     THEN [mapperJobs EXCEPT ![l.job] = NoHandle] ELSE mapperJobs
    /\ mapperLoops' = mapperLoops \ {l}
    /\ UNCHANGED <<session, captures, monitors, engine, lab, ops, lastChan, closed>>

\* The characterization workers are done: every point measured, an error, or
\* the stop channel seen.
LabEnds ==
    /\ lab.running
    /\ lab' = [lab EXCEPT !.running = FALSE, !.stop = FALSE]
    /\ UNCHANGED <<session, captures, monitors, engine, mapper, ops, lastChan, closed>>

-----------------------------------------------------------------------------
Requests(o) ==
    \/ \E p \in Profiles : Start(o, p)
    \/ \E p \in Profiles : StartOnDevice(o, p)
    \/ RequestStop(o)
    \/ \E j \in Jobs, d \in Devices : RequestMapper(o, j, d)
    \/ \E S \in {{j} : j \in Jobs} \cup {Jobs} : StopMapperJobs(o, S)
    \/ \E d \in Devices : RequestLab(o, {d})
    \/ StopLab(o)
    \/ \E d \in Devices : AutoCalibrate(o, d)

Proceed(o) ==
    \/ StopSession(o)
    \/ StopEngine(o)
    \/ CheckMapperOwners(o)
    \/ StartEngine(o)
    \/ InstallSession(o)
    \/ StartMapperJob(o)
    \/ StartLab(o)
    \/ FinishCalibration(o)

MonitorSteps(m) ==
    \/ MonitorStops(m)
    \/ MonitorSeesError(m)
    \/ MonitorReleases(m)
    \/ MonitorStopsEngine(m)

Next ==
    \/ \E o \in Operators : Requests(o) \/ Proceed(o)
    \/ \E l \in captures : CaptureStops(l) \/ CaptureFails(l)
    \/ EngineExits
    \/ \E m \in monitors : MonitorSteps(m)
    \/ \E l \in mapperLoops : MapperLoopEnds(l) \/ FinishMapperJob(l)
    \/ LabEnds

\* A goroutine that is runnable runs: a loop looks at its stop channel between
\* two captures, and a capture is bounded in time; the Mapper's own end of work
\* (MapperLoopEnds of a handle nobody closed) is not promised.
StoppedMapperLoopEnds(l) == l.chan \in closed /\ MapperLoopEnds(l)

Fairness ==
    /\ \A c \in Chans : /\ WF_vars(\E l \in captures : l.chan = c /\ CaptureStops(l))
                        /\ WF_vars(\E l \in mapperLoops : l.chan = c /\ StoppedMapperLoopEnds(l))
                        /\ WF_vars(\E l \in mapperLoops : l.chan = c /\ FinishMapperJob(l))
                        /\ WF_vars(\E m \in monitors : m.chan = c /\ MonitorSteps(m))
    /\ \A o \in Operators : WF_vars(Proceed(o))

Spec == Init /\ [][Next]_vars
FairSpec == Spec /\ Fairness

-----------------------------------------------------------------------------
(* Properties *)

\* No receiver is captured by two Mapper job loops, whatever requests to start,
\* stop and restart jobs overlap: StartMapperJob checks and registers in one
\* critical section and finishMapperJob releases only after the loop is done.
MapperExclusive ==
    \A k, l \in mapperLoops : k.dev = l.dev => k = l

\* A handle stays registered exactly as long as its loop runs: a loop that
\* lost its handle could not be stopped, and a handle without a loop would
\* keep its receiver reserved for ever.
HandleMatchesLoop ==
    /\ \A l \in mapperLoops : mapperJobs[l.job] = [chan |-> l.chan, dev |-> l.dev]
    /\ \A j \in Registered : \E l \in mapperLoops : l.job = j

\* The receivers of the running live session and of the registered Mapper jobs
\* are disjoint: startProfile refuses receivers a job owns, StartMapperJob
\* refuses receivers the running plan uses.
LiveMapperExclusive ==
    running => plan \cap MapperOwned = {}

\* Every capture loop can still be stopped: its channel is the current one, or
\* is already closed.  startProfile closes the old channel before it publishes
\* a new one over it.
NoOrphanCapture ==
    \A l \in captures : l.chan = stopChan \/ l.chan \in closed

\* "Exactly one capture path owns a physical receiver at a time": two live
\* capture loops nobody has stopped are never on the same receiver.
CaptureExclusive ==
    \A k, l \in captures :
        k.dev = l.dev /\ {k.chan, l.chan} \cap closed = {} => k = l

\* Characterization and Mapper jobs exclude each other.
LabMapperExclusive ==
    lab.running => Registered = {}

\* "The runtime ... stops P25 before returning them [the receivers]": a capture
\* loop is spawned only on receivers the P25 decoder process has let go of.
P25ReturnsFirst ==
    [][\A l \in captures' \ captures : l.dev \notin engine.devs]_vars

\* A live session that is no longer current always winds down: its capture
\* loops and its P25 monitor end, whatever starts next.
SupersededSessionsEnd ==
    \A c \in Chans :
        (c <= lastChan /\ c # stopChan)
            ~> (/\ \A l \in captures : l.chan # c
                /\ \A m \in monitors : m.chan # c)

\* A stopped Mapper job gives its receiver back.
StoppedJobsRelease ==
    \A c \in Chans : c \in closed ~> (\A j \in Jobs : mapperJobs[j].chan # c)

\* Live sessions, Mapper jobs and characterization keep out of each other's
\* receivers, and Mapper jobs out of one another's.
OwnersExclusive == MapperExclusive /\ LiveMapperExclusive /\ LabMapperExclusive

\* Whatever was told to stop gives its receivers back.
StopsRelease == SupersededSessionsEnd /\ StoppedJobsRelease
=============================================================================
