------------------------------ MODULE P25Engine ------------------------------
(***************************************************************************)
(* The external P25 decoder (OP25Manager in sdrtrunk.go and p25.go) and    *)
(* everything that stops, starts and restarts it: requests, the timer that *)
(* applies new mutes, the watch that falls back to a narrow sample rate    *)
(* when SDRTrunk reports transport errors, and the session's monitor that  *)
(* ends a session whose decoder died.                                      *)
(*                                                                         *)
(* All of them run start and stop under restartMu.  There is one profile;  *)
(* mutes are numbered, an engine is built with those of its start.         *)
(***************************************************************************)
EXTENDS Naturals, FiniteSets

CONSTANTS
    Callers,    \* goroutines of start and stop requests
    Timers,     \* goroutines of fired restart timers
    Monitor,    \* the goroutine of p25MonitorLoop
    None,       \* nobody
    MaxStarts,  \* bound: processes started
    MaxMutes,   \* bound: mute updates
    MaxFaults,  \* bound: exits, failed starts and transport errors
    MaxRequests \* bound: start and stop requests

ASSUME P25EngineAssumption ==
    /\ Callers \cap Timers = {} /\ Monitor \notin Callers \cup Timers
    /\ None \notin Callers \cup Timers \cup {Monitor}
    /\ (Callers \cup Timers \cup {Monitor, None}) \cap (1..MaxStarts) = {}
    /\ {MaxStarts, MaxMutes, MaxFaults, MaxRequests} \subseteq Nat

VARIABLES
    kind,    \* "OP25" or "SDRTrunk", from the environment
    session, \* Runtime.running
    manager, \* OP25Manager: command, configured (profile), fallback, mutes, timer
    lock,    \* holder of restartMu
    threads, \* where each goroutine stands
    procs,   \* processes started so far: mutes and rate each was built with
    alive,   \* those still running
    sockets, \* whether the UDP audio sockets are open
    watches, \* processes a transport watch looks at, waits to replace
    ghost,   \* mutes the engine owes, whether this session fell back
    used     \* mutes, faults, requests so far

vars == <<kind, session, manager, lock, threads, procs, alive, sockets, watches, ghost, used>>

Ids == 1..MaxStarts
Threads == Callers \cup Timers \cup {Monitor} \cup Ids \* a watch is known by its process
Idle == [pc |-> "idle", build |-> [mutes |-> 0, narrow |-> FALSE]]
Newest == Cardinality(DOMAIN procs)

TypeOK ==
    /\ kind \in {"OP25", "SDRTrunk"} /\ session \in BOOLEAN
    /\ manager.command \in 0..Newest /\ manager.mutes \in 0..MaxMutes
    /\ manager.timer \in {"none", "armed", "fired"}
    /\ lock \in Threads \cup {None}
    /\ \A t \in Threads : threads[t].pc \in
         {"idle", "toStart", "toStop", "toRestart", "read", "take", "build", "spawn", "register", "ready", "clear"}
    /\ \A t \in Threads : threads[t].pc \in {"take", "build", "spawn", "register", "ready", "clear"} => lock = t
    /\ alive \subseteq DOMAIN procs
    /\ sockets => kind = "OP25"

Init ==
    /\ kind \in {"OP25", "SDRTrunk"}
    /\ session = FALSE
    /\ manager = [command |-> 0, configured |-> FALSE, fallback |-> FALSE, mutes |-> 0, timer |-> "none"]
    /\ lock = None
    /\ threads = [t \in Threads |-> Idle]
    /\ procs = << >>
    /\ alive = {}
    /\ sockets = FALSE
    /\ watches = {}
    /\ ghost = [owed |-> 0, fellBack |-> FALSE]
    /\ used = [mutes |-> 0, faults |-> 0, requests |-> 0]

Spend(what, limit) == used[what] < limit /\ used' = [used EXCEPT ![what] = @ + 1]
Goto(t, pc) == threads' = [threads EXCEPT ![t].pc = pc]

-----------------------------------------------------------------------------
\* start, run by the holder of restartMu

\* Faulty variant: the old process is told to end and not awaited.
StopProcessUnawaited ==
    /\ manager' = [manager EXCEPT !.command = 0]
    /\ alive' = alive
    /\ sockets' = FALSE

(* stop(FALSE): the old process is interrupted, killed if need be, awaited. *)
StopProcess ==
    /\ manager' = [manager EXCEPT !.command = 0]
    /\ alive' = alive \ {manager.command}
    /\ sockets' = FALSE

TakeCommand(t) ==
    /\ threads[t].pc = "take"
    /\ StopProcess
    /\ Goto(t, "build")
    /\ UNCHANGED <<kind, session, lock, procs, watches, ghost, used>>

Release(t, ok) ==
    /\ lock' = None
    /\ threads' = [threads EXCEPT ![t] = Idle]
    /\ session' = (session \/ (ok /\ t \in Callers))

\* Faulty variant: a restart goes back to the wide rate.
BuildWide(t) ==
    /\ threads[t].pc = "build"
    /\ threads' = [threads EXCEPT ![t] =
         [pc |-> "spawn", build |-> [mutes |-> manager.mutes, narrow |-> FALSE]]]
    /\ sockets' = (kind = "OP25")
    /\ UNCHANGED <<kind, session, manager, lock, procs, alive, watches, ghost, used>>

(* The playlist takes the mutes and the rate of this moment; OP25 also gets *)
(* its audio sockets.                                                       *)
Build(t) ==
    /\ threads[t].pc = "build"
    /\ threads' = [threads EXCEPT ![t] =
         [pc |-> "spawn", build |-> [mutes |-> manager.mutes, narrow |-> manager.fallback]]]
    /\ sockets' = (kind = "OP25")
    /\ UNCHANGED <<kind, session, manager, lock, procs, alive, watches, ghost, used>>

Spawn(t) ==
    /\ threads[t].pc = "spawn" /\ Newest < MaxStarts
    /\ procs' = [p \in 1..Newest + 1 |-> IF p <= Newest THEN procs[p] ELSE threads[t].build]
    /\ alive' = alive \cup {Newest + 1}
    /\ Goto(t, "register")
    /\ UNCHANGED <<kind, session, manager, lock, sockets, watches, ghost, used>>

\* Faulty variant: the sockets of a failed start stay open.
StartFailsOpen(t) ==
    /\ threads[t].pc \in {"build", "spawn"}
    /\ (threads[t].pc = "spawn" /\ Newest = MaxStarts) \/ used.faults < MaxFaults
    /\ used' = IF Newest = MaxStarts THEN used ELSE [used EXCEPT !.faults = @ + 1]
    /\ Release(t, FALSE)
    /\ UNCHANGED <<kind, manager, procs, alive, sockets, watches, ghost>>

(* A missing tool, an unwritable file, a busy port or a failed start: what  *)
(* was opened is closed again, the profile of the session stays.            *)
StartFails(t) ==
    /\ threads[t].pc \in {"build", "spawn"}
    /\ (threads[t].pc = "spawn" /\ Newest = MaxStarts) \/ used.faults < MaxFaults
    /\ used' = IF Newest = MaxStarts THEN used ELSE [used EXCEPT !.faults = @ + 1]
    /\ sockets' = FALSE
    /\ Release(t, FALSE)
    /\ UNCHANGED <<kind, manager, procs, alive, watches, ghost>>

(* OP25 counts as started once registered, SDRTrunk once its log says so.   *)
Register(t) ==
    /\ threads[t].pc = "register"
    /\ manager' = [manager EXCEPT !.command = Newest, !.configured = TRUE]
    /\ IF kind = "OP25" THEN Release(t, TRUE)
       ELSE Goto(t, "ready") /\ UNCHANGED <<lock, session>>
    /\ UNCHANGED <<kind, procs, alive, sockets, watches, ghost, used>>

(* A restart for a fallback or a mute gets a watch of its own. *)
Ready(t) ==
    /\ threads[t].pc = "ready" /\ manager.command \in alive
    /\ watches' = watches \cup {manager.command}
    /\ Release(t, TRUE)
    /\ UNCHANGED <<kind, manager, procs, alive, sockets, ghost, used>>

(* The engine exits during startup or its log stays silent for 20 s. *)
NotReady(t) ==
    /\ threads[t].pc = "ready"
    /\ IF manager.command \in alive THEN Spend("faults", MaxFaults) ELSE UNCHANGED used
    /\ StopProcess
    /\ Release(t, FALSE)
    /\ UNCHANGED <<kind, procs, watches, ghost>>

-----------------------------------------------------------------------------
\* Requests

RequestStart(t) ==
    /\ threads[t].pc = "idle" /\ Spend("requests", MaxRequests)
    /\ Goto(t, "toStart")
    /\ UNCHANGED <<kind, session, manager, lock, procs, alive, sockets, watches, ghost>>

(* Runtime.Stop declares the session over before it stops the engine. *)
RequestStop(t) ==
    /\ threads[t].pc = "idle" /\ Spend("requests", MaxRequests)
    /\ session' = FALSE
    /\ Goto(t, "toStop")
    /\ UNCHANGED <<kind, manager, lock, procs, alive, sockets, watches, ghost>>

\* Faulty variant: restartMu is not waited for.
AcquireShared(t, from, to) ==
    /\ threads[t].pc = from
    /\ lock' = t
    /\ Goto(t, to)

Acquire(t, from, to) ==
    /\ threads[t].pc = from /\ lock = None
    /\ lock' = t
    /\ Goto(t, to)

(* An explicit start tries the wide rate again. *)
Start(t) ==
    /\ Acquire(t, "toStart", "take")
    /\ manager' = [manager EXCEPT !.fallback = FALSE]
    /\ ghost' = [ghost EXCEPT !.fellBack = FALSE]
    /\ UNCHANGED <<kind, session, procs, alive, sockets, watches, used>>

(* An explicit stop disarms the timer and forgets the session. *)
Stop(t) ==
    /\ Acquire(t, "toStop", "clear")
    /\ manager' = [manager EXCEPT !.timer = "none"]
    /\ UNCHANGED <<kind, session, procs, alive, sockets, watches, ghost, used>>

Clear(t) ==
    /\ threads[t].pc = "clear"
    /\ alive' = alive \ {manager.command}
    /\ sockets' = FALSE
    /\ manager' = [manager EXCEPT !.command = 0, !.configured = FALSE, !.fallback = FALSE]
    /\ ghost' = [ghost EXCEPT !.fellBack = FALSE]
    /\ Release(t, FALSE)
    /\ UNCHANGED <<kind, procs, watches, used>>

-----------------------------------------------------------------------------
\* Mutes

\* Faulty variant: a timer that was armed before, or fired, is not armed again.
UpdateTalkgroupOnce ==
    /\ Spend("mutes", MaxMutes)
    /\ manager' = [manager EXCEPT !.mutes = @ + 1,
                                  !.timer = IF manager.configured /\ @ = "none" THEN "armed" ELSE @]
    /\ ghost' = [ghost EXCEPT !.owed = IF manager.configured THEN manager.mutes + 1 ELSE @]
    /\ UNCHANGED <<kind, session, lock, threads, procs, alive, sockets, watches>>

(* The newest mutes restart a configured engine 350 ms after the last one.  *)
UpdateTalkgroup ==
    /\ Spend("mutes", MaxMutes)
    /\ manager' = [manager EXCEPT !.mutes = @ + 1,
                                  !.timer = IF manager.configured THEN "armed" ELSE @]
    /\ ghost' = [ghost EXCEPT !.owed = IF manager.configured THEN manager.mutes + 1 ELSE @]
    /\ UNCHANGED <<kind, session, lock, threads, procs, alive, sockets, watches>>

TimerFires(t) ==
    /\ manager.timer = "armed" /\ threads[t].pc = "idle"
    /\ manager' = [manager EXCEPT !.timer = "fired"]
    /\ Goto(t, "read")
    /\ UNCHANGED <<kind, session, lock, procs, alive, sockets, watches, ghost, used>>

(* The session is copied under mu, restartMu is taken afterwards. *)
ReadSession(t) ==
    /\ threads[t].pc = "read"
    /\ Goto(t, IF manager.configured THEN "toRestart" ELSE "idle")
    /\ UNCHANGED <<kind, session, manager, lock, procs, alive, sockets, watches, ghost, used>>

Restart(t) ==
    /\ Acquire(t, "toRestart", "take")
    /\ UNCHANGED <<kind, session, manager, procs, alive, sockets, watches, ghost, used>>

-----------------------------------------------------------------------------
\* The transport watch and the session's monitor

(* A watch ends with its 75 s, with its process or once the rate is narrow. *)
WatchEnds(p) ==
    /\ p \in watches
    /\ watches' = watches \ {p}
    /\ UNCHANGED <<kind, session, manager, lock, threads, procs, alive, sockets, ghost, used>>

SeesTransportError(p) ==
    /\ p \in watches /\ manager.command = p /\ ~manager.fallback
    /\ Spend("faults", MaxFaults)
    /\ watches' = watches \ {p}
    /\ Goto(p, "toRestart")
    /\ UNCHANGED <<kind, session, manager, lock, procs, alive, sockets, ghost>>

(* Once it has restartMu the watch looks again whether all is as it was. *)
FallBack(p) ==
    /\ threads[p].pc = "toRestart" /\ lock = None
    /\ IF manager.command = p /\ ~manager.fallback /\ manager.configured
       THEN /\ lock' = p
            /\ Goto(p, "take")
            /\ manager' = [manager EXCEPT !.fallback = TRUE]
            /\ ghost' = [ghost EXCEPT !.fellBack = TRUE]
       ELSE Goto(p, "idle") /\ UNCHANGED <<lock, manager, ghost>>
    /\ UNCHANGED <<kind, session, procs, alive, sockets, watches, used>>

(* A process may end at any time; the sockets of a registered OP25 close.   *)
Exits(p) ==
    /\ p \in alive
    /\ Spend("faults", MaxFaults)
    /\ alive' = alive \ {p}
    /\ sockets' = (sockets /\ manager.command # p)
    /\ UNCHANGED <<kind, session, manager, lock, threads, procs, watches, ghost>>

\* Faulty variant: an engine that is set up again still counts as the old one.
SeesExitUnlessConfigured ==
    /\ session /\ ~manager.configured /\ threads[Monitor].pc = "idle"
    /\ manager.command # 0 /\ manager.command \notin alive
    /\ session' = FALSE
    /\ Goto(Monitor, "toStop")
    /\ UNCHANGED <<kind, manager, lock, procs, alive, sockets, watches, ghost, used>>

SeesExit ==
    /\ session /\ threads[Monitor].pc = "idle"
    /\ manager.command # 0 /\ manager.command \notin alive
    /\ session' = FALSE
    /\ Goto(Monitor, "toStop")
    /\ UNCHANGED <<kind, manager, lock, procs, alive, sockets, watches, ghost, used>>

-----------------------------------------------------------------------------
Step(t) ==
    TakeCommand(t) \/ Build(t) \/ Spawn(t) \/ StartFails(t) \/ Register(t) \/ Ready(t) \/ NotReady(t)

(* Goroutines run on and a free mutex is taken by one of those who wait for *)
(* it.  One fairness condition for all is enough, as each has finite work.  *)
Work ==
    \/ \E t \in Threads : Step(t)
    \/ \E t \in Callers : Start(t)
    \/ \E t \in Callers \cup {Monitor} : Stop(t) \/ Clear(t)
    \/ \E t \in Timers : TimerFires(t) \/ ReadSession(t) \/ Restart(t)
    \/ \E p \in Ids : FallBack(p)
    \/ SeesExit

Next ==
    \/ Work
    \/ \E t \in Callers : RequestStart(t) \/ RequestStop(t)
    \/ UpdateTalkgroup
    \/ \E p \in Ids : WatchEnds(p) \/ SeesTransportError(p) \/ Exits(p)

Spec == Init /\ [][Next]_vars /\ WF_vars(Work)

-----------------------------------------------------------------------------
(* Whoever starts or restarts it, the only decoder that runs is the one the *)
(* manager knows and a stop reaches; while a start is under way there is at *)
(* most the one being started (start, stopProcess).                         *)
NoLostEngine ==
    /\ Cardinality(alive) <= 1
    /\ lock = None => alive \subseteq {manager.command}

(* Audio sockets outlive neither a failed start nor a stop, so that the     *)
(* next start finds its ports free (startOP25, closeOP25Audio).             *)
SocketsWithEngine == sockets /\ lock = None => manager.command # 0

(* After a fallback every restart of the session keeps the narrow rate,     *)
(* until the next explicit start (rateFallback).                            *)
FallbackKept ==
    ghost.fellBack /\ lock = None /\ manager.command # 0 => procs[manager.command].narrow

(* Mutes given to a configured engine reach the running one: however many   *)
(* updates, stops and fallbacks overlap, no restart with older mutes is the *)
(* last word (UpdateTalkgroup).                                             *)
Deaf == manager.command \in alive /\ procs[manager.command].mutes < ghost.owed
MutesReach == Deaf ~> ~Deaf

(* A session whose decoder died ends, unless the decoder is replaced        *)
(* (p25MonitorLoop, Status).                                                *)
Silent == session /\ manager.command # 0 /\ manager.command \notin alive
ExitEndsSession == Silent ~> ~Silent

(* The decoder is known, leaves no sockets behind and keeps its narrow rate. *)
EngineKept == NoLostEngine /\ SocketsWithEngine /\ FallbackKept
=============================================================================
