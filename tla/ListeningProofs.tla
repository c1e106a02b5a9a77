---------------------------- MODULE ListeningProofs ----------------------------
(***************************************************************************)
(* What MCListening promises for every caller, receiver, channel,          *)
(* frequency, decoder, gain and bound: the only P25 decoder that runs is   *)
(* the one the manager knows, its sockets do not outlive it and a fallback *)
(* to the narrow rate is kept; a transmission is recorded once; receivers  *)
(* share the work of a profile; no frame is lost or counted twice; tuners  *)
(* follow the newest request; and gains follow what is heard.  MCWindow is *)
(* never expanded, so the tuner's results hold for any passbands.          *)
(***************************************************************************)
EXTENDS MCListening, FiniteSetTheorems, SequenceTheorems, TLAPS

-----------------------------------------------------------------------------
(* The P25 engine.                                                         *)

Waiting == {"idle", "toStart", "toStop", "toRestart", "read"}
Critical == {"take", "build", "spawn", "register", "ready", "clear"}
Builds == [mutes : 0..MaxMutes, narrow : BOOLEAN]
Threading == [pc : Waiting \cup Critical, build : Builds]
Managers == [command : Nat, configured : BOOLEAN, fallback : BOOLEAN,
             mutes : 0..MaxMutes, timer : {"none", "armed", "fired"}]
Ghosts == [owed : Nat, fellBack : BOOLEAN]
Uses == [mutes : Nat, faults : Nat, requests : Nat]

TypeInv ==
    /\ kind \in {"OP25", "SDRTrunk"} /\ session \in BOOLEAN
    /\ manager \in Managers
    /\ lock \in Threads \cup {None}
    /\ threads \in [Threads -> Threading]
    /\ Newest \in 0..MaxStarts /\ procs \in [1..Newest -> Builds]
    /\ manager.command \in 0..Newest
    /\ alive \subseteq 1..Newest
    /\ sockets \in BOOLEAN
    /\ ghost \in Ghosts
    /\ used \in Uses /\ used.mutes = manager.mutes

-----------------------------------------------------------------------------
(* The inductive invariant. *)

\* restartMu is held by the one goroutine that starts or stops the engine.
LockHeld == \A t \in Threads : threads[t].pc \in Critical <=> lock = t

\* What runs, at each point of a start.
EngineKnown ==
    /\ lock = None => alive \subseteq {manager.command}
    /\ \A t \in Threads :
         /\ threads[t].pc \in {"take", "clear"} => alive \subseteq {manager.command}
         /\ threads[t].pc \in {"build", "spawn"} => manager.command = 0 /\ alive = {}
         /\ threads[t].pc = "register" =>
              manager.command = 0 /\ Newest # 0 /\ alive \subseteq {Newest}
         /\ threads[t].pc = "ready" =>
              /\ kind = "SDRTrunk" /\ manager.command = Newest /\ Newest # 0
              /\ alive \subseteq {Newest}

SocketsBound == (sockets => kind = "OP25") /\ SocketsWithEngine

\* The rate a start reads stays the session's until the engine is registered.
RateCarried ==
    /\ ghost.fellBack = manager.fallback
    /\ FallbackKept
    /\ \A t \in Threads :
         /\ threads[t].pc = "spawn" => threads[t].build.narrow = manager.fallback
         /\ threads[t].pc \in {"register", "ready"} => procs[Newest].narrow = manager.fallback

\* Only a process that was registered is watched, and its watch is at rest
\* until it asks for a restart.
WatchesRest ==
    /\ watches \subseteq 1..Newest
    /\ \A p \in watches : threads[p].pc = "idle"
    /\ \A p \in Ids : p > Newest => threads[p].pc = "idle"
    /\ \A t \in Threads : threads[t].pc \in {"register", "ready"} =>
         Newest \notin watches /\ threads[Newest].pc = "idle"

EngineInv ==
    TypeInv /\ LockHeld /\ EngineKnown /\ SocketsBound /\ RateCarried /\ WatchesRest

-----------------------------------------------------------------------------
LEMMA InvariantMeans == EngineInv => TypeOK /\ EngineKept
<1> SUFFICES ASSUME EngineInv PROVE TypeOK /\ EngineKept
  OBVIOUS
<1>1. TypeOK
  BY DEF EngineInv, TypeInv, LockHeld, SocketsBound, Managers, Threading, TypeOK, Waiting, Critical
<1>2. Cardinality(alive) <= 1
  <2>1. \A c : IsFiniteSet({c}) /\ Cardinality({c}) = 1
    BY FS_Singleton
  <2>2. \E c : alive \subseteq {c}
    <3>1. CASE lock = None
      BY <3>1 DEF EngineInv, EngineKnown
    <3>2. CASE lock \in Threads
      BY <3>2 DEF EngineInv, TypeInv, LockHeld, Critical, EngineKnown
    <3> QED BY <3>1, <3>2 DEF EngineInv, TypeInv
  <2>3. PICK c : alive \in SUBSET {c}
    BY <2>2
  <2>4. IsFiniteSet({c}) /\ Cardinality({c}) = 1
    BY <2>1
  <2>5. Cardinality(alive) <= Cardinality({c})
    BY <2>3, <2>4, FS_Subset
  <2> QED BY <2>4, <2>5
<1>3. NoLostEngine
  BY <1>2 DEF NoLostEngine, EngineInv, EngineKnown
<1> QED BY <1>1, <1>3 DEF EngineInv, SocketsBound, RateCarried, EngineKept

LEMMA InitInv == Init => EngineInv
<1> SUFFICES ASSUME Init PROVE EngineInv
  OBVIOUS
<1> USE P25EngineAssumption
<1>1. Newest = 0
  <2>1. DOMAIN procs = {}
    BY DEF Init
  <2> QED BY <2>1, FS_EmptySet DEF Newest
<1>2. None \notin Threads
  BY DEF Threads, Ids
<1>3. TypeInv
  <2>1. procs \in [1..Newest -> Builds] /\ alive \subseteq 1..Newest
    BY <1>1 DEF Init
  <2>2. Idle \in Threading
    BY DEF Idle, Threading, Waiting, Builds
  <2>3. threads \in [Threads -> Threading]
    BY <2>2 DEF Init
  <2>4. manager \in Managers /\ ghost \in Ghosts /\ used \in Uses
    BY DEF Init, Managers, Ghosts, Uses
  <2>5. Newest \in 0..MaxStarts /\ manager.command \in 0..Newest
    BY <1>1 DEF Init
  <2>6. kind \in {"OP25", "SDRTrunk"} /\ session \in BOOLEAN /\ sockets \in BOOLEAN
    BY DEF Init
  <2>7. lock \in Threads \cup {None} /\ used.mutes = manager.mutes
    BY DEF Init
  <2> QED BY <2>1, <2>3, <2>4, <2>5, <2>6, <2>7 DEF TypeInv
<1>4. LockHeld /\ EngineKnown /\ SocketsBound /\ RateCarried /\ WatchesRest
  BY <1>1, <1>2 DEF Init, LockHeld, EngineKnown, SocketsBound, SocketsWithEngine, RateCarried,
     FallbackKept, WatchesRest, Idle, Critical, Ids, Threads
<1> QED BY <1>3, <1>4 DEF EngineInv

-----------------------------------------------------------------------------
(* What steps have in common. *)

LEMMA TypesKept ==
    ASSUME EngineInv, threads' \in [Threads -> Threading], manager' \in Managers,
           manager'.command \in 0..Newest, manager'.mutes = manager.mutes,
           lock' \in Threads \cup {None}, alive' \subseteq alive, sockets' \in BOOLEAN,
           session' \in BOOLEAN, ghost' \in Ghosts, used' \in Uses, used'.mutes = used.mutes,
           UNCHANGED <<kind, procs>>
    PROVE  TypeInv' /\ Newest' = Newest
<1>1. Newest' = Newest
  BY DEF Newest
<1>2. Newest' \in 0..MaxStarts /\ procs' \in [1..Newest' -> Builds] /\ alive' \subseteq 1..Newest'
  BY <1>1 DEF EngineInv, TypeInv
<1>3. manager'.command \in 0..Newest' /\ used'.mutes = manager'.mutes
  BY <1>1 DEF EngineInv, TypeInv
<1> QED BY <1>1, <1>2, <1>3 DEF EngineInv, TypeInv

\* One goroutine goes on, the others stay where they are.
Moves(t, pc) ==
    /\ threads' \in [Threads -> Threading]
    /\ threads'[t].pc = pc
    /\ \A x \in Threads : x # t => threads'[x] = threads[x]

LEMMA GotoMoves ==
    ASSUME EngineInv, NEW t \in Threads, NEW pc \in Waiting \cup Critical, Goto(t, pc)
    PROVE  Moves(t, pc) /\ threads'[t].build = threads[t].build
BY DEF EngineInv, TypeInv, Goto, Moves, Threading

LEMMA ReleaseMoves ==
    ASSUME EngineInv, NEW t \in Threads, NEW ok \in BOOLEAN, Release(t, ok)
    PROVE  Moves(t, "idle") /\ lock' = None /\ session' \in BOOLEAN
<1>1. Idle \in Threading
  BY P25EngineAssumption DEF Idle, Threading, Waiting, Builds
<1>2. threads' = [threads EXCEPT ![t] = Idle] /\ lock' = None /\ Idle.pc = "idle"
  BY DEF Release, Idle
<1> QED BY <1>1, <1>2 DEF EngineInv, TypeInv, Moves, Release

LEMMA SpendsOne ==
    ASSUME EngineInv, NEW limit, Spend("faults", limit) \/ Spend("requests", limit)
    PROVE  used' \in Uses /\ used'.mutes = used.mutes
BY DEF EngineInv, TypeInv, Spend, Uses

LEMMA ProcessesWatch ==
    ASSUME EngineInv
    PROVE  Ids \subseteq Threads /\ 1..Newest \subseteq Ids /\ 0 \in 0..Newest /\ Newest \in 0..Newest
BY P25EngineAssumption DEF EngineInv, TypeInv, Threads, Ids

\* The watches stay at rest while one goroutine that is at work goes on.
LEMMA WatchesStay ==
    ASSUME EngineInv, NEW t \in Threads, NEW pc, threads[t].pc # "idle", Moves(t, pc),
           watches' \subseteq watches, Newest' = Newest,
           pc \in {"register", "ready"} => threads[t].pc \in {"register", "ready"}
    PROVE  WatchesRest'
<1>1. Ids \subseteq Threads /\ 1..Newest \subseteq Ids
  BY ProcessesWatch
<1>2. \A x \in Threads : threads[x].pc = "idle" => threads'[x] = threads[x]
  BY DEF Moves
<1>3. watches' \subseteq 1..Newest' /\ \A p \in watches' : threads'[p].pc = "idle"
  BY <1>1, <1>2 DEF EngineInv, WatchesRest
<1>4. \A p \in Ids : p > Newest' => threads'[p].pc = "idle"
  BY <1>1, <1>2 DEF EngineInv, WatchesRest
<1>5. ASSUME NEW x \in Threads, threads'[x].pc \in {"register", "ready"}
      PROVE  Newest' \notin watches' /\ threads'[Newest'].pc = "idle"
  <2>1. threads[x].pc \in {"register", "ready"}
    BY <1>5 DEF Moves
  <2>2. Newest \notin watches /\ threads[Newest].pc = "idle"
    BY <2>1 DEF EngineInv, WatchesRest
  <2>3. Newest \in Threads
    <3>1. Newest # 0
      BY <2>1 DEF EngineInv, EngineKnown
    <3> QED BY <1>1, <3>1, P25EngineAssumption DEF EngineInv, TypeInv
  <2> QED BY <1>2, <2>2, <2>3
<1> QED BY <1>3, <1>4, <1>5 DEF WatchesRest

LEMMA NobodyHolds == None \notin Threads
BY P25EngineAssumption DEF Threads, Ids

-----------------------------------------------------------------------------
(* Starting. *)

LEMMA TakeCommandStep ==
    ASSUME EngineInv, NEW t \in Threads, TakeCommand(t)
    PROVE  EngineInv'
<1>1. /\ threads[t].pc = "take" /\ manager' = [manager EXCEPT !.command = 0]
      /\ alive' = alive \ {manager.command} /\ sockets' = FALSE
      /\ UNCHANGED <<kind, session, lock, procs, watches, ghost, used>>
  BY DEF TakeCommand, StopProcess
<1>2. Moves(t, "build")
  BY GotoMoves DEF TakeCommand, Critical
<1>3. /\ manager' \in Managers /\ manager'.command = 0 /\ manager'.mutes = manager.mutes
      /\ manager'.command \in 0..Newest
  BY <1>1, ProcessesWatch DEF EngineInv, TypeInv, Managers
<1>4. TypeInv' /\ Newest' = Newest
  BY <1>1, <1>2, <1>3, TypesKept DEF EngineInv, TypeInv, Moves
<1>5. LockHeld'
  BY <1>1, <1>2 DEF EngineInv, LockHeld, Moves, Critical
<1>6. EngineKnown'
  BY <1>1, <1>2, <1>3, <1>4, NobodyHolds DEF EngineInv, LockHeld, EngineKnown, Moves, Critical
<1>7. SocketsBound' /\ RateCarried'
  BY <1>1, <1>2, <1>4, NobodyHolds DEF EngineInv, TypeInv, LockHeld, SocketsBound, SocketsWithEngine, RateCarried,
     FallbackKept, Moves, Managers, Critical
<1>8. WatchesRest'
  BY <1>1, <1>2, <1>4, WatchesStay
<1> QED BY <1>4, <1>5, <1>6, <1>7, <1>8 DEF EngineInv

LEMMA BuildStep ==
    ASSUME EngineInv, NEW t \in Threads, Build(t)
    PROVE  EngineInv'
<1>1. /\ threads[t].pc = "build" /\ sockets' = (kind = "OP25")
      /\ UNCHANGED <<kind, session, manager, lock, procs, alive, watches, ghost, used>>
  BY DEF Build
<1>2. Moves(t, "spawn") /\ threads'[t].build.narrow = manager.fallback
  <2> DEFINE next == [pc |-> "spawn", build |-> [mutes |-> manager.mutes, narrow |-> manager.fallback]]
  <2>1. next \in Threading
    BY DEF EngineInv, TypeInv, Managers, Threading, Builds, Critical
  <2>2. next.pc = "spawn" /\ next.build.narrow = manager.fallback
    OBVIOUS
  <2>3. threads' = [threads EXCEPT ![t] = next]
    BY DEF Build
  <2> HIDE DEF next
  <2> QED BY <2>1, <2>2, <2>3 DEF EngineInv, TypeInv, Moves
<1>3. TypeInv' /\ Newest' = Newest
  BY <1>1, <1>2, TypesKept DEF EngineInv, TypeInv, Moves
<1>4. LockHeld'
  BY <1>1, <1>2 DEF EngineInv, LockHeld, Moves, Critical
<1>5. EngineKnown'
  BY <1>1, <1>2, <1>3 DEF EngineInv, LockHeld, EngineKnown, Moves, Critical
<1>6. SocketsBound' /\ RateCarried'
  BY <1>1, <1>2, <1>3, NobodyHolds DEF EngineInv, LockHeld, SocketsBound, SocketsWithEngine,
     RateCarried, FallbackKept, Moves, Critical
<1>7. WatchesRest'
  BY <1>1, <1>2, <1>3, WatchesStay
<1> QED BY <1>3, <1>4, <1>5, <1>6, <1>7 DEF EngineInv

LEMMA SpawnStep ==
    ASSUME EngineInv, NEW t \in Threads, Spawn(t)
    PROVE  EngineInv'
<1>1. /\ threads[t].pc = "spawn" /\ Newest < MaxStarts
      /\ procs' = [p \in 1..Newest + 1 |-> IF p <= Newest THEN procs[p] ELSE threads[t].build]
      /\ alive' = alive \cup {Newest + 1}
      /\ UNCHANGED <<kind, session, manager, lock, sockets, watches, ghost, used>>
  BY DEF Spawn
<1>2. Moves(t, "register")
  BY GotoMoves DEF Spawn, Critical
<1>3. Newest' = Newest + 1 /\ Newest \in Nat /\ Newest' \in 0..MaxStarts /\ MaxStarts \in Nat
  <2>1. DOMAIN procs' = 1..(Newest + 1) /\ Newest \in Nat /\ MaxStarts \in Nat
    BY <1>1, P25EngineAssumption DEF EngineInv, TypeInv
  <2>2. Cardinality(1..(Newest + 1)) = Newest + 1
    BY <2>1, FS_Interval
  <2> QED BY <1>1, <2>1, <2>2 DEF Newest
<1>4. /\ procs' \in [1..Newest' -> Builds] /\ procs'[Newest'] = threads[t].build
      /\ \A p \in 1..Newest : procs'[p] = procs[p]
  <2>1. threads[t].build \in Builds
    BY DEF EngineInv, TypeInv, Threading
  <2> QED BY <1>1, <1>3, <2>1 DEF EngineInv, TypeInv
<1>5. TypeInv'
  <2>1. /\ 0..Newest \subseteq 0..Newest' /\ 1..Newest \subseteq 1..Newest'
        /\ Newest + 1 \in 1..Newest'
    BY <1>3
  <2>2. manager'.command \in 0..Newest' /\ alive' \subseteq 1..Newest'
    BY <1>1, <2>1 DEF EngineInv, TypeInv
  <2> QED BY <1>1, <1>2, <1>3, <1>4, <2>2 DEF EngineInv, TypeInv, Moves
<1>6. LockHeld'
  BY <1>1, <1>2 DEF EngineInv, LockHeld, Moves, Critical
<1>7. lock = t /\ manager.command = 0 /\ alive = {} /\ t # None
  BY <1>1, NobodyHolds DEF EngineInv, LockHeld, EngineKnown, Critical
<1>8. EngineKnown'
  BY <1>1, <1>2, <1>3, <1>6, <1>7 DEF EngineKnown, LockHeld, Moves, Critical
<1>9. SocketsBound' /\ RateCarried'
  BY <1>1, <1>2, <1>4, <1>6, <1>7 DEF EngineInv, LockHeld, SocketsBound, SocketsWithEngine,
     RateCarried, FallbackKept, Moves, Critical
<1>10. WatchesRest'
  <2>1. Newest' \in Ids /\ Ids \subseteq Threads
    BY <1>3, ProcessesWatch DEF Ids
  <2>2. Newest' \notin watches /\ threads[Newest'].pc = "idle"
    BY <1>3, <2>1 DEF EngineInv, WatchesRest
  <2>3. \A x \in Threads : threads[x].pc = "idle" => threads'[x] = threads[x]
    BY <1>1, <1>2 DEF Moves
  <2>4. watches \subseteq 1..Newest' /\ \A p \in watches : threads'[p].pc = "idle"
    <3>1. 1..Newest \subseteq 1..Newest' /\ 1..Newest \subseteq Threads
      BY <1>3, ProcessesWatch
    <3> QED BY <2>3, <3>1 DEF EngineInv, WatchesRest
  <2>5. \A p \in Ids : p > Newest' => threads'[p].pc = "idle"
    BY <1>3, <2>1, <2>3 DEF EngineInv, WatchesRest, Ids
  <2> QED BY <1>1, <2>1, <2>2, <2>3, <2>4, <2>5 DEF WatchesRest
<1> QED BY <1>5, <1>6, <1>8, <1>9, <1>10 DEF EngineInv

LEMMA StartFailsStep ==
    ASSUME EngineInv, NEW t \in Threads, StartFails(t)
    PROVE  EngineInv'
<1>1. /\ threads[t].pc \in {"build", "spawn"} /\ sockets' = FALSE
      /\ UNCHANGED <<kind, manager, procs, alive, watches, ghost>>
  BY DEF StartFails
<1>2. Moves(t, "idle") /\ lock' = None /\ session' \in BOOLEAN
  BY ReleaseMoves DEF StartFails
<1>3. used' \in Uses /\ used'.mutes = used.mutes
  BY DEF StartFails, EngineInv, TypeInv, Uses
<1>4. TypeInv' /\ Newest' = Newest
  BY <1>1, <1>2, <1>3, TypesKept DEF EngineInv, TypeInv, Moves
<1>5. LockHeld'
  BY <1>1, <1>2, NobodyHolds DEF EngineInv, LockHeld, Moves, Critical
<1>6. EngineKnown'
  BY <1>1, <1>2, <1>4, <1>5, NobodyHolds DEF EngineInv, LockHeld, EngineKnown, Moves, Critical
<1>7. SocketsBound' /\ RateCarried'
  BY <1>1, <1>2, <1>4, <1>5, NobodyHolds DEF EngineInv, LockHeld, EngineKnown, SocketsBound,
     SocketsWithEngine, RateCarried, FallbackKept, Moves, Critical
<1>8. WatchesRest'
  BY <1>1, <1>2, <1>4, WatchesStay
<1> QED BY <1>4, <1>5, <1>6, <1>7, <1>8 DEF EngineInv

LEMMA RegisterStep ==
    ASSUME EngineInv, NEW t \in Threads, Register(t)
    PROVE  EngineInv'
<1>1. /\ threads[t].pc = "register"
      /\ manager' = [manager EXCEPT !.command = Newest, !.configured = TRUE]
      /\ UNCHANGED <<kind, procs, alive, sockets, watches, ghost, used>>
  BY DEF Register
<1>2. \/ kind = "OP25" /\ Moves(t, "idle") /\ lock' = None /\ session' \in BOOLEAN
      \/ kind = "SDRTrunk" /\ Moves(t, "ready") /\ UNCHANGED <<lock, session>>
  BY ReleaseMoves, GotoMoves DEF Register, EngineInv, TypeInv, Critical
<1>3. /\ manager' \in Managers /\ manager'.command = Newest /\ manager'.mutes = manager.mutes
      /\ manager'.fallback = manager.fallback /\ manager'.command \in 0..Newest
  <2>1. Newest \in Nat
    BY P25EngineAssumption DEF EngineInv, TypeInv
  <2> QED BY <1>1, <2>1, ProcessesWatch DEF EngineInv, TypeInv, Managers
<1>4. TypeInv' /\ Newest' = Newest
  BY <1>1, <1>2, <1>3, TypesKept DEF EngineInv, TypeInv, Moves
<1>5. LockHeld'
  BY <1>1, <1>2, NobodyHolds DEF EngineInv, LockHeld, Moves, Critical
<1>6. lock = t /\ t # None /\ Newest # 0 /\ alive \subseteq {Newest}
  BY <1>1, NobodyHolds DEF EngineInv, LockHeld, EngineKnown, Critical
<1>7. EngineKnown'
  BY <1>1, <1>2, <1>3, <1>4, <1>5, <1>6, NobodyHolds DEF LockHeld, EngineKnown, Moves, Critical
<1>8. SocketsBound' /\ RateCarried'
  BY <1>1, <1>2, <1>3, <1>4, <1>5, <1>6, NobodyHolds DEF EngineInv, LockHeld, SocketsBound,
     SocketsWithEngine, RateCarried, FallbackKept, Moves, Critical
<1>9. WatchesRest'
  BY <1>1, <1>2, <1>4, WatchesStay
<1> QED BY <1>4, <1>5, <1>7, <1>8, <1>9 DEF EngineInv

LEMMA ReadyStep ==
    ASSUME EngineInv, NEW t \in Threads, Ready(t)
    PROVE  EngineInv'
<1>1. /\ threads[t].pc = "ready" /\ watches' = watches \cup {manager.command}
      /\ UNCHANGED <<kind, manager, procs, alive, sockets, ghost, used>>
  BY DEF Ready
<1>2. Moves(t, "idle") /\ lock' = None /\ session' \in BOOLEAN
  BY ReleaseMoves DEF Ready
<1>3. TypeInv' /\ Newest' = Newest
  BY <1>1, <1>2, TypesKept DEF EngineInv, TypeInv, Moves
<1>4. LockHeld'
  BY <1>1, <1>2, NobodyHolds DEF EngineInv, LockHeld, Moves, Critical
<1>5. /\ lock = t /\ kind = "SDRTrunk" /\ manager.command = Newest /\ Newest # 0
      /\ alive \subseteq {Newest} /\ threads[Newest].pc = "idle"
  BY <1>1 DEF EngineInv, LockHeld, EngineKnown, WatchesRest, Critical
<1>6. EngineKnown'
  BY <1>1, <1>2, <1>3, <1>4, <1>5, NobodyHolds DEF LockHeld, EngineKnown, Moves, Critical
<1>7. SocketsBound' /\ RateCarried'
  BY <1>1, <1>2, <1>3, <1>4, <1>5, NobodyHolds DEF EngineInv, LockHeld, SocketsBound,
     SocketsWithEngine, RateCarried, FallbackKept, Moves, Critical
<1>8. WatchesRest'
  <2>1. Newest \in 1..Newest /\ Newest \in Threads /\ 1..Newest \subseteq Threads /\ Ids \subseteq Threads
    BY <1>5, ProcessesWatch, P25EngineAssumption DEF EngineInv, TypeInv
  <2>2. \A x \in Threads : threads[x].pc = "idle" => threads'[x].pc = "idle"
    BY <1>2 DEF Moves
  <2>3. \A x \in Threads : threads'[x].pc \notin {"register", "ready"}
    BY <1>2, <1>4, NobodyHolds DEF LockHeld, Critical
  <2> QED BY <1>1, <1>3, <1>5, <2>1, <2>2, <2>3 DEF EngineInv, WatchesRest
<1> QED BY <1>3, <1>4, <1>6, <1>7, <1>8 DEF EngineInv

LEMMA NotReadyStep ==
    ASSUME EngineInv, NEW t \in Threads, NotReady(t)
    PROVE  EngineInv'
<1>1. /\ threads[t].pc = "ready" /\ manager' = [manager EXCEPT !.command = 0]
      /\ alive' = alive \ {manager.command} /\ sockets' = FALSE
      /\ UNCHANGED <<kind, procs, watches, ghost>>
  BY DEF NotReady, StopProcess
<1>2. Moves(t, "idle") /\ lock' = None /\ session' \in BOOLEAN
  BY ReleaseMoves DEF NotReady
<1>3. /\ manager' \in Managers /\ manager'.command = 0 /\ manager'.mutes = manager.mutes
      /\ manager'.fallback = manager.fallback /\ manager'.command \in 0..Newest
  BY <1>1, ProcessesWatch DEF EngineInv, TypeInv, Managers
<1>4. used' \in Uses /\ used'.mutes = used.mutes
  BY SpendsOne DEF NotReady, EngineInv, TypeInv
<1>5. TypeInv' /\ Newest' = Newest
  BY <1>1, <1>2, <1>3, <1>4, TypesKept DEF EngineInv, TypeInv, Moves
<1>6. LockHeld'
  BY <1>1, <1>2, NobodyHolds DEF EngineInv, LockHeld, Moves, Critical
<1>7. EngineKnown'
  BY <1>1, <1>2, <1>3, <1>5, <1>6, NobodyHolds DEF EngineInv, LockHeld, EngineKnown, Moves, Critical
<1>8. SocketsBound' /\ RateCarried'
  BY <1>1, <1>2, <1>3, <1>5, <1>6, NobodyHolds DEF EngineInv, LockHeld, SocketsBound,
     SocketsWithEngine, RateCarried, FallbackKept, Moves, Critical
<1>9. WatchesRest'
  BY <1>1, <1>2, <1>5, WatchesStay
<1> QED BY <1>5, <1>6, <1>7, <1>8, <1>9 DEF EngineInv

-----------------------------------------------------------------------------
(* Requests. *)

\* A goroutine at rest, or waiting, goes on without the mutex.
LEMMA WaitsOn ==
    ASSUME EngineInv, NEW t \in Threads, NEW pc \in Waiting, Moves(t, pc),
           threads[t].pc \notin Critical, threads[t].pc # "idle" \/ t \notin Ids,
           manager' \in Managers, manager'.command = manager.command,
           manager'.mutes = manager.mutes, manager'.fallback = manager.fallback,
           session' \in BOOLEAN, used' \in Uses, used'.mutes = used.mutes,
           UNCHANGED <<kind, lock, procs, alive, sockets, watches, ghost>>
    PROVE  EngineInv'
<1>1. TypeInv' /\ Newest' = Newest
  BY TypesKept DEF EngineInv, TypeInv, Moves
<1>2. pc \notin Critical
  BY DEF Waiting, Critical
<1>3. LockHeld'
  BY <1>2 DEF EngineInv, LockHeld, Moves
<1>4. EngineKnown'
  BY <1>1, <1>2, <1>3 DEF EngineInv, LockHeld, EngineKnown, Moves, Critical
<1>5. SocketsBound' /\ RateCarried'
  BY <1>1, <1>2, <1>3 DEF EngineInv, LockHeld, SocketsBound, SocketsWithEngine, RateCarried,
     FallbackKept, Moves, Critical
<1>6. WatchesRest'
  <2>1. Ids \subseteq Threads /\ 1..Newest \subseteq Ids
    BY ProcessesWatch
  <2>2. \A x \in Ids : threads[x].pc = "idle" => threads'[x] = threads[x]
    BY <2>1 DEF Moves
  <2>3. \A x \in Threads : threads'[x].pc \in {"register", "ready"} =>
          threads[x].pc \in {"register", "ready"} /\ Newest \in Ids
    <3> SUFFICES ASSUME NEW x \in Threads, threads'[x].pc \in {"register", "ready"}
                 PROVE  threads[x].pc \in {"register", "ready"} /\ Newest \in Ids
      OBVIOUS
    <3>1. threads[x].pc \in {"register", "ready"}
      BY <1>2 DEF Moves, Critical
    <3>2. Newest # 0
      BY <3>1 DEF EngineInv, EngineKnown
    <3> QED BY <2>1, <3>1, <3>2, P25EngineAssumption DEF EngineInv, TypeInv
  <2> QED BY <1>1, <2>1, <2>2, <2>3 DEF EngineInv, WatchesRest
<1> QED BY <1>1, <1>3, <1>4, <1>5, <1>6 DEF EngineInv

LEMMA CallersAre ==
    /\ Callers \subseteq Threads /\ Timers \subseteq Threads /\ Monitor \in Threads
    /\ (Callers \cup Timers \cup {Monitor}) \cap Ids = {}
BY P25EngineAssumption DEF Threads, Ids

LEMMA RequestStep ==
    ASSUME EngineInv, NEW t \in Callers, RequestStart(t) \/ RequestStop(t)
    PROVE  EngineInv'
<1>1. /\ threads[t].pc = "idle" /\ Spend("requests", MaxRequests) /\ session' \in BOOLEAN
      /\ UNCHANGED <<kind, manager, lock, procs, alive, sockets, watches, ghost>>
      /\ Goto(t, "toStart") \/ Goto(t, "toStop")
  BY DEF RequestStart, RequestStop, EngineInv, TypeInv
<1>2. t \in Threads /\ t \notin Ids
  BY CallersAre
<1>3. used' \in Uses /\ used'.mutes = used.mutes
  BY <1>1, SpendsOne
<1>4. \E pc \in Waiting : Moves(t, pc)
  <2>1. "toStart" \in Waiting /\ "toStop" \in Waiting
    BY DEF Waiting
  <2> QED BY <1>1, <1>2, <2>1, GotoMoves
<1>5. manager' \in Managers
  BY <1>1 DEF EngineInv, TypeInv
<1> QED BY <1>1, <1>2, <1>3, <1>4, <1>5, WaitsOn DEF Critical

\* A goroutine that waited takes the free mutex; the rate it leaves the session
\* with is the one the session remembers.
LEMMA Acquires ==
    ASSUME EngineInv, NEW t \in Threads, NEW from \in {"toStart", "toStop", "toRestart"},
           NEW to \in {"take", "clear"}, Acquire(t, from, to),
           manager' \in Managers, manager'.command = manager.command,
           manager'.mutes = manager.mutes,
           ghost' \in Ghosts, ghost'.fellBack = manager'.fallback,
           UNCHANGED <<kind, session, procs, alive, sockets, watches, used>>
    PROVE  EngineInv'
<1>1. threads[t].pc = from /\ lock = None /\ lock' = t
  BY DEF Acquire
<1>2. Moves(t, to)
  BY GotoMoves DEF Acquire, Critical
<1>3. TypeInv' /\ Newest' = Newest
  BY <1>1, <1>2, TypesKept DEF EngineInv, TypeInv, Moves
<1>4. LockHeld'
  BY <1>1, <1>2, NobodyHolds DEF EngineInv, LockHeld, Moves, Critical
<1>5. EngineKnown'
  BY <1>1, <1>2, <1>3, <1>4, NobodyHolds DEF EngineInv, LockHeld, EngineKnown, Moves, Critical
<1>6. SocketsBound' /\ RateCarried'
  BY <1>1, <1>2, <1>3, <1>4, NobodyHolds DEF EngineInv, LockHeld, SocketsBound,
     SocketsWithEngine, RateCarried, FallbackKept, Moves, Critical
<1>7. WatchesRest'
  BY <1>1, <1>2, <1>3, WatchesStay
<1> QED BY <1>3, <1>4, <1>5, <1>6, <1>7 DEF EngineInv

LEMMA StartStep ==
    ASSUME EngineInv, NEW t \in Threads, Start(t)
    PROVE  EngineInv'
<1>1. /\ Acquire(t, "toStart", "take")
      /\ manager' = [manager EXCEPT !.fallback = FALSE] /\ ghost' = [ghost EXCEPT !.fellBack = FALSE]
      /\ UNCHANGED <<kind, session, procs, alive, sockets, watches, used>>
  BY DEF Start
<1>2. /\ manager' \in Managers /\ manager'.command = manager.command
      /\ manager'.mutes = manager.mutes /\ manager'.fallback = FALSE
  BY <1>1 DEF EngineInv, TypeInv, Managers
<1>3. ghost' \in Ghosts /\ ghost'.fellBack = FALSE
  BY <1>1 DEF EngineInv, TypeInv, Ghosts
<1> QED BY <1>1, <1>2, <1>3, Acquires

LEMMA StopStep ==
    ASSUME EngineInv, NEW t \in Threads, Stop(t)
    PROVE  EngineInv'
<1>1. /\ Acquire(t, "toStop", "clear") /\ manager' = [manager EXCEPT !.timer = "none"]
      /\ UNCHANGED <<kind, session, procs, alive, sockets, watches, ghost, used>>
  BY DEF Stop
<1>2. /\ manager' \in Managers /\ manager'.command = manager.command
      /\ manager'.mutes = manager.mutes /\ manager'.fallback = manager.fallback
  BY <1>1 DEF EngineInv, TypeInv, Managers
<1>3. ghost' \in Ghosts /\ ghost'.fellBack = manager'.fallback
  BY <1>1, <1>2 DEF EngineInv, TypeInv, RateCarried
<1> QED BY <1>1, <1>2, <1>3, Acquires

LEMMA RestartStep ==
    ASSUME EngineInv, NEW t \in Threads, Restart(t)
    PROVE  EngineInv'
<1>1. /\ Acquire(t, "toRestart", "take")
      /\ UNCHANGED <<kind, session, manager, procs, alive, sockets, watches, ghost, used>>
  BY DEF Restart
<1>2. manager' \in Managers /\ ghost' \in Ghosts /\ ghost'.fellBack = manager'.fallback
  BY <1>1 DEF EngineInv, TypeInv, RateCarried
<1> QED BY <1>1, <1>2, Acquires

LEMMA ClearStep ==
    ASSUME EngineInv, NEW t \in Threads, Clear(t)
    PROVE  EngineInv'
<1>1. /\ threads[t].pc = "clear" /\ alive' = alive \ {manager.command} /\ sockets' = FALSE
      /\ manager' = [manager EXCEPT !.command = 0, !.configured = FALSE, !.fallback = FALSE]
      /\ ghost' = [ghost EXCEPT !.fellBack = FALSE]
      /\ UNCHANGED <<kind, procs, watches, used>>
  BY DEF Clear
<1>2. Moves(t, "idle") /\ lock' = None /\ session' \in BOOLEAN
  BY ReleaseMoves DEF Clear
<1>3. /\ manager' \in Managers /\ manager'.command = 0 /\ manager'.mutes = manager.mutes
      /\ manager'.fallback = FALSE /\ manager'.command \in 0..Newest
      /\ ghost' \in Ghosts /\ ghost'.fellBack = FALSE
  BY <1>1, ProcessesWatch DEF EngineInv, TypeInv, Managers, Ghosts
<1>4. TypeInv' /\ Newest' = Newest
  BY <1>1, <1>2, <1>3, TypesKept DEF EngineInv, TypeInv, Moves
<1>5. LockHeld'
  BY <1>1, <1>2, NobodyHolds DEF EngineInv, LockHeld, Moves, Critical
<1>6. EngineKnown'
  BY <1>1, <1>2, <1>3, <1>4, <1>5, NobodyHolds DEF EngineInv, LockHeld, EngineKnown, Moves, Critical
<1>7. SocketsBound' /\ RateCarried'
  BY <1>1, <1>2, <1>3, <1>4, <1>5, NobodyHolds DEF EngineInv, LockHeld, SocketsBound,
     SocketsWithEngine, RateCarried, FallbackKept, Moves, Critical
<1>8. WatchesRest'
  BY <1>1, <1>2, <1>4, WatchesStay
<1> QED BY <1>4, <1>5, <1>6, <1>7, <1>8 DEF EngineInv

-----------------------------------------------------------------------------
(* Mutes. *)

LEMMA UpdateTalkgroupStep ==
    ASSUME EngineInv, UpdateTalkgroup
    PROVE  EngineInv'
<1>1. /\ used.mutes < MaxMutes /\ used' = [used EXCEPT !.mutes = @ + 1]
      /\ manager' = [manager EXCEPT !.mutes = @ + 1,
                                    !.timer = IF manager.configured THEN "armed" ELSE @]
      /\ ghost' = [ghost EXCEPT !.owed = IF manager.configured THEN manager.mutes + 1 ELSE @]
      /\ UNCHANGED <<kind, session, lock, threads, procs, alive, sockets, watches>>
  BY DEF UpdateTalkgroup, Spend
<1>2. Newest' = Newest
  BY <1>1 DEF Newest
<1>3. manager.mutes \in 0..MaxMutes /\ manager.mutes + 1 \in 0..MaxMutes
  BY <1>1, P25EngineAssumption DEF EngineInv, TypeInv, Managers
<1>4. /\ manager' \in Managers /\ manager'.command = manager.command
      /\ manager'.fallback = manager.fallback /\ manager'.mutes = manager.mutes + 1
  BY <1>1, <1>3 DEF EngineInv, TypeInv, Managers
<1>5. ghost' \in Ghosts /\ ghost'.fellBack = ghost.fellBack
  BY <1>1, <1>3, P25EngineAssumption DEF EngineInv, TypeInv, Ghosts
<1>6. used' \in Uses /\ used'.mutes = manager'.mutes
  BY <1>1, <1>4 DEF EngineInv, TypeInv, Uses
<1>7. TypeInv'
  BY <1>1, <1>2, <1>4, <1>5, <1>6 DEF EngineInv, TypeInv
<1>8. LockHeld' /\ EngineKnown' /\ WatchesRest'
  BY <1>1, <1>2, <1>4 DEF EngineInv, LockHeld, EngineKnown, WatchesRest
<1>9. SocketsBound' /\ RateCarried'
  BY <1>1, <1>2, <1>4, <1>5 DEF EngineInv, SocketsBound, SocketsWithEngine, RateCarried, FallbackKept
<1> QED BY <1>7, <1>8, <1>9 DEF EngineInv

LEMMA TimerStep ==
    ASSUME EngineInv, NEW t \in Timers, TimerFires(t) \/ ReadSession(t)
    PROVE  EngineInv'
<1>1. t \in Threads /\ t \notin Ids
  BY CallersAre
<1>2. /\ threads[t].pc \in {"idle", "read"}
      /\ Goto(t, "read") \/ Goto(t, "toRestart") \/ Goto(t, "idle")
      /\ UNCHANGED <<kind, session, lock, procs, alive, sockets, watches, ghost, used>>
  BY DEF TimerFires, ReadSession
<1>3. \E pc \in Waiting : Moves(t, pc)
  <2>1. {"read", "toRestart", "idle"} \subseteq Waiting
    BY DEF Waiting
  <2> QED BY <1>1, <1>2, <2>1, GotoMoves
<1>4. /\ manager' \in Managers /\ manager'.command = manager.command
      /\ manager'.mutes = manager.mutes /\ manager'.fallback = manager.fallback
  BY DEF TimerFires, ReadSession, EngineInv, TypeInv, Managers
<1>5. session' \in BOOLEAN /\ used' \in Uses /\ used'.mutes = used.mutes
  BY <1>2 DEF EngineInv, TypeInv
<1> QED BY <1>1, <1>2, <1>3, <1>4, <1>5, WaitsOn DEF Critical

-----------------------------------------------------------------------------
(* The watch and the monitor. *)

LEMMA WatchEndsStep ==
    ASSUME EngineInv, NEW p \in Ids, WatchEnds(p)
    PROVE  EngineInv'
<1>1. /\ watches' = watches \ {p}
      /\ UNCHANGED <<kind, session, manager, lock, threads, procs, alive, sockets, ghost, used>>
  BY DEF WatchEnds
<1>2. Newest' = Newest
  BY <1>1 DEF Newest
<1>3. TypeInv'
  BY <1>1, <1>2 DEF EngineInv, TypeInv
<1>4. LockHeld' /\ EngineKnown'
  BY <1>1, <1>2 DEF EngineInv, LockHeld, EngineKnown
<1>5. SocketsBound' /\ RateCarried'
  BY <1>1, <1>2 DEF EngineInv, SocketsBound, SocketsWithEngine, RateCarried, FallbackKept
<1>6. WatchesRest'
  BY <1>1, <1>2 DEF EngineInv, WatchesRest
<1> QED BY <1>3, <1>4, <1>5, <1>6 DEF EngineInv

LEMMA SeesTransportErrorStep ==
    ASSUME EngineInv, NEW p \in Ids, SeesTransportError(p)
    PROVE  EngineInv'
<1>1. /\ p \in watches /\ Spend("faults", MaxFaults) /\ watches' = watches \ {p}
      /\ UNCHANGED <<kind, session, manager, lock, procs, alive, sockets, ghost>>
  BY DEF SeesTransportError
<1>2. p \in Threads /\ p \in 1..Newest /\ threads[p].pc = "idle"
  BY <1>1, ProcessesWatch DEF EngineInv, WatchesRest
<1>3. Moves(p, "toRestart")
  BY <1>2, GotoMoves DEF SeesTransportError, Waiting
<1>4. used' \in Uses /\ used'.mutes = used.mutes
  BY <1>1, SpendsOne
<1>5. TypeInv' /\ Newest' = Newest
  BY <1>1, <1>3, <1>4, TypesKept DEF EngineInv, TypeInv, Moves
<1>6. LockHeld'
  BY <1>1, <1>2, <1>3 DEF EngineInv, LockHeld, Moves, Critical
<1>7. EngineKnown'
  BY <1>1, <1>3, <1>5 DEF EngineInv, EngineKnown, Moves
<1>8. SocketsBound' /\ RateCarried'
  BY <1>1, <1>3, <1>5 DEF EngineInv, SocketsBound, SocketsWithEngine, RateCarried,
     FallbackKept, Moves
<1>9. WatchesRest'
  <2>1. Ids \subseteq Threads /\ 1..Newest \subseteq Ids
    BY ProcessesWatch
  <2>2. watches' \subseteq 1..Newest' /\ \A q \in watches' : threads'[q].pc = "idle"
    BY <1>1, <1>3, <1>5, <2>1 DEF EngineInv, WatchesRest, Moves
  <2>3. \A q \in Ids : q > Newest' => threads'[q].pc = "idle"
    BY <1>2, <1>3, <1>5, <2>1 DEF EngineInv, TypeInv, WatchesRest, Moves
  <2>4. ASSUME NEW x \in Threads, threads'[x].pc \in {"register", "ready"}
        PROVE  Newest' \notin watches' /\ threads'[Newest'].pc = "idle"
    <3>1. threads[x].pc \in {"register", "ready"}
      BY <1>3, <2>4 DEF Moves
    <3>2. Newest \notin watches /\ threads[Newest].pc = "idle" /\ Newest # 0
      BY <3>1 DEF EngineInv, WatchesRest, EngineKnown
    <3>3. Newest # p /\ Newest \in Threads
      BY <1>1, <2>1, <3>2, P25EngineAssumption DEF EngineInv, TypeInv
    <3> QED BY <1>1, <1>3, <1>5, <3>2, <3>3 DEF Moves
  <2> QED BY <2>2, <2>3, <2>4 DEF WatchesRest
<1> QED BY <1>5, <1>6, <1>7, <1>8, <1>9 DEF EngineInv

LEMMA FallBackStep ==
    ASSUME EngineInv, NEW p \in Ids, FallBack(p)
    PROVE  EngineInv'
<1>1. /\ threads[p].pc = "toRestart" /\ lock = None
      /\ UNCHANGED <<kind, session, procs, alive, sockets, watches, used>>
  BY DEF FallBack
<1>2. p \in Threads
  BY ProcessesWatch
<1>3. ASSUME lock' = p, Goto(p, "take"), manager' = [manager EXCEPT !.fallback = TRUE],
             ghost' = [ghost EXCEPT !.fellBack = TRUE]
      PROVE  EngineInv'
  <2>1. Acquire(p, "toRestart", "take")
    BY <1>1, <1>3 DEF Acquire
  <2>2. /\ manager' \in Managers /\ manager'.command = manager.command
        /\ manager'.mutes = manager.mutes /\ manager'.fallback = TRUE
    BY <1>3 DEF EngineInv, TypeInv, Managers
  <2>3. ghost' \in Ghosts /\ ghost'.fellBack = TRUE
    BY <1>3 DEF EngineInv, TypeInv, Ghosts
  <2> QED BY <1>1, <1>2, <2>1, <2>2, <2>3, Acquires
<1>4. ASSUME Goto(p, "idle"), UNCHANGED <<lock, manager, ghost>>
      PROVE  EngineInv'
  <2>1. "idle" \in Waiting /\ Moves(p, "idle")
    BY <1>2, <1>4, GotoMoves DEF Waiting
  <2>2. manager' \in Managers /\ session' \in BOOLEAN /\ used' \in Uses
    BY <1>1, <1>4 DEF EngineInv, TypeInv
  <2> QED BY <1>1, <1>2, <1>4, <2>1, <2>2, WaitsOn DEF Critical
<1> QED BY <1>3, <1>4 DEF FallBack

LEMMA ExitsStep ==
    ASSUME EngineInv, NEW p \in Ids, Exits(p)
    PROVE  EngineInv'
<1>1. /\ Spend("faults", MaxFaults) /\ alive' = alive \ {p}
      /\ sockets' = (sockets /\ manager.command # p)
      /\ UNCHANGED <<kind, session, manager, lock, threads, procs, watches, ghost>>
  BY DEF Exits
<1>2. used' \in Uses /\ used'.mutes = used.mutes
  BY <1>1, SpendsOne
<1>3. TypeInv' /\ Newest' = Newest
  BY <1>1, <1>2, TypesKept DEF EngineInv, TypeInv
<1>4. LockHeld' /\ WatchesRest'
  BY <1>1, <1>3 DEF EngineInv, LockHeld, WatchesRest
<1>5. EngineKnown'
  BY <1>1, <1>3 DEF EngineInv, EngineKnown
<1>6. SocketsBound' /\ RateCarried'
  BY <1>1, <1>3 DEF EngineInv, SocketsBound, SocketsWithEngine, RateCarried, FallbackKept
<1> QED BY <1>3, <1>4, <1>5, <1>6 DEF EngineInv

LEMMA SeesExitStep ==
    ASSUME EngineInv, SeesExit
    PROVE  EngineInv'
<1>1. /\ threads[Monitor].pc = "idle" /\ session' = FALSE /\ Goto(Monitor, "toStop")
      /\ UNCHANGED <<kind, manager, lock, procs, alive, sockets, watches, ghost, used>>
  BY DEF SeesExit
<1>2. Monitor \in Threads /\ Monitor \notin Ids
  BY CallersAre
<1>3. "toStop" \in Waiting /\ Moves(Monitor, "toStop")
  BY <1>1, <1>2, GotoMoves DEF Waiting
<1>4. manager' \in Managers /\ session' \in BOOLEAN /\ used' \in Uses
  BY <1>1 DEF EngineInv, TypeInv
<1> QED BY <1>1, <1>2, <1>3, <1>4, WaitsOn DEF Critical

-----------------------------------------------------------------------------
LEMMA InductiveStep == EngineInv /\ [Next]_vars => EngineInv'
<1> SUFFICES ASSUME EngineInv, [Next]_vars PROVE EngineInv'
  OBVIOUS
<1>1. ASSUME NEW t \in Threads, Step(t) PROVE EngineInv'
  BY <1>1, TakeCommandStep, BuildStep, SpawnStep, StartFailsStep, RegisterStep, ReadyStep,
     NotReadyStep DEF Step
<1>2. CASE Work
  <2>1. CASE \E t \in Threads : Step(t)
    BY <1>1, <2>1
  <2>2. CASE \E t \in Callers : Start(t)
    BY <2>2, StartStep, CallersAre
  <2>3. CASE \E t \in Callers \cup {Monitor} : Stop(t) \/ Clear(t)
    BY <2>3, StopStep, ClearStep, CallersAre
  <2>4. CASE \E t \in Timers : TimerFires(t) \/ ReadSession(t) \/ Restart(t)
    BY <2>4, TimerStep, RestartStep, CallersAre
  <2>5. CASE \E p \in Ids : FallBack(p)
    BY <2>5, FallBackStep
  <2>6. CASE SeesExit
    BY <2>6, SeesExitStep
  <2> QED BY <1>2, <2>1, <2>2, <2>3, <2>4, <2>5, <2>6 DEF Work
<1>3. CASE \E t \in Callers : RequestStart(t) \/ RequestStop(t)
  BY <1>3, RequestStep
<1>4. CASE UpdateTalkgroup
  BY <1>4, UpdateTalkgroupStep
<1>5. CASE \E p \in Ids : WatchEnds(p) \/ SeesTransportError(p) \/ Exits(p)
  BY <1>5, WatchEndsStep, SeesTransportErrorStep, ExitsStep
<1>6. CASE UNCHANGED vars
  <2>1. UNCHANGED <<kind, session, manager, lock, threads, procs, alive, sockets, watches, ghost, used>>
    BY <1>6 DEF vars
  <2>2. Newest' = Newest
    BY <2>1 DEF Newest
  <2>3. TypeInv' /\ LockHeld' /\ EngineKnown'
    BY <2>1, <2>2 DEF EngineInv, TypeInv, LockHeld, EngineKnown
  <2>4. SocketsBound' /\ RateCarried' /\ WatchesRest'
    BY <2>1, <2>2 DEF EngineInv, SocketsBound, SocketsWithEngine, RateCarried, FallbackKept,
       WatchesRest
  <2> QED BY <2>3, <2>4 DEF EngineInv
<1> QED BY <1>2, <1>3, <1>4, <1>5, <1>6 DEF Next

LEMMA AlwaysEngineInv == Spec => []EngineInv
<1>1. Init => EngineInv
  BY InitInv
<1>2. EngineInv /\ [Next]_vars => EngineInv'
  BY InductiveStep
<1> QED BY <1>1, <1>2, PTL DEF Spec

(* Types, the holder of restartMu in every section that needs it included   *)
(* (sdrtrunk.go, p25.go), however many goroutines start, stop and restart.  *)
THEOREM EngineTyped == Spec => []TypeOK
<1>1. EngineInv => TypeOK
  BY InvariantMeans
<1> QED BY <1>1, AlwaysEngineInv, PTL

(* For every number of callers, timers and restarts: no decoder runs that   *)
(* the manager does not know, no audio socket outlives its decoder, and     *)
(* after a fallback each restart of the session keeps the narrow rate       *)
(* (start, stopProcess and closeOP25Audio under restartMu; rateFallback).   *)
THEOREM EngineStaysKnown == Spec => []EngineKept
<1>1. EngineInv => EngineKept
  BY InvariantMeans
<1> QED BY <1>1, AlwaysEngineInv, PTL

-----------------------------------------------------------------------------
(* The calls of the P25 engine: what was followed, and what became an event. *)

(* A finite set in some order: all of it, and nothing twice. *)
LEMMA InSomeOrder ==
    ASSUME NEW S, IsFiniteSet(S)
    PROVE  /\ C!SetToSeq(S) \in Seq(S) /\ DOMAIN C!SetToSeq(S) = 1..Len(C!SetToSeq(S))
           /\ \A i, j \in DOMAIN C!SetToSeq(S) : C!SetToSeq(S)[i] = C!SetToSeq(S)[j] => i = j
           /\ \A e \in S : \E i \in DOMAIN C!SetToSeq(S) : C!SetToSeq(S)[i] = e
<1> DEFINE n == Cardinality(S)
           f == CHOOSE g \in [1..n -> S] : \A a, b \in DOMAIN g : g[a] = g[b] => a = b
<1>1. n \in Nat /\ ExistsBijection(1..n, S)
  BY FS_CardinalityType
<1>2. C!SetToSeq(S) = f
  BY DEF C!SetToSeq, C!IsInjective, C!Cardinality, Cardinality
<1>3. \E g \in [1..n -> S] : \A a, b \in DOMAIN g : g[a] = g[b] => a = b
  BY <1>1 DEF ExistsBijection, Bijection, Injection, IsInjective
<1>4. f \in [1..n -> S] /\ \A a, b \in DOMAIN f : f[a] = f[b] => a = b
  BY <1>3
<1> HIDE DEF n, f
<1>5. f \in Seq(S) /\ DOMAIN f = 1..n /\ Len(f) = n
  BY <1>1, <1>4
<1> DEFINE R == {f[i] : i \in 1..n}
<1>6. f \in Bijection(1..n, R)
  BY <1>4, <1>5 DEF Bijection, Injection, Surjection, IsInjective
<1>7. IsFiniteSet(1..n) /\ Cardinality(1..n) = n
  BY <1>1, FS_Interval
<1>8. Cardinality(R) = n
  <2>1. ExistsBijection(1..n, R)
    BY <1>6 DEF ExistsBijection
  <2> HIDE DEF R
  <2> QED BY <1>7, <2>1, FS_Bijection
<1>9. R \in SUBSET S
  BY <1>4, <1>5
<1>10. R = S
  <2> HIDE DEF R
  <2> QED BY <1>8, <1>9, FS_Subset DEF n
<1> QED BY <1>2, <1>4, <1>5, <1>10

(* Two sequences joined, place by place. *)
LEMMA Joined ==
    ASSUME NEW E, NEW s \in Seq(E), NEW t \in Seq(E), NEW u, u = s \o t
    PROVE  /\ u \in Seq(E) /\ Len(u) = Len(s) + Len(t)
           /\ DOMAIN u = 1..Len(u) /\ DOMAIN s = 1..Len(s) /\ DOMAIN t = 1..Len(t)
           /\ Len(s) \in Nat /\ Len(t) \in Nat
           /\ \A i \in DOMAIN u :
                \/ i \in DOMAIN s /\ u[i] = s[i]
                \/ \E j \in DOMAIN t : i = Len(s) + j /\ u[i] = t[j]
           /\ \A j \in DOMAIN t : Len(s) + j \in DOMAIN u /\ u[Len(s) + j] = t[j]
<1>1. /\ Len(s) \in Nat /\ Len(t) \in Nat /\ DOMAIN s = 1..Len(s) /\ DOMAIN t = 1..Len(t)
  BY LenProperties
<1>2. u \in Seq(E) /\ Len(u) = Len(s) + Len(t)
  BY ConcatProperties
<1>3. DOMAIN u = 1..Len(u)
  BY <1>2, LenProperties
<1>4. \A i \in 1..(Len(s) + Len(t)) : u[i] = IF i <= Len(s) THEN s[i] ELSE t[i - Len(s)]
  BY ConcatProperties
<1>5. ASSUME NEW i \in DOMAIN u
      PROVE  \/ i \in DOMAIN s /\ u[i] = s[i]
             \/ \E j \in DOMAIN t : i = Len(s) + j /\ u[i] = t[j]
  <2>1. CASE i <= Len(s)
    BY <1>1, <1>2, <1>3, <1>4, <2>1
  <2>2. CASE ~(i <= Len(s))
    <3>1. i - Len(s) \in DOMAIN t /\ i = Len(s) + (i - Len(s)) /\ u[i] = t[i - Len(s)]
      BY <1>1, <1>2, <1>3, <1>4, <2>2
    <3> QED BY <3>1
  <2> QED BY <2>1, <2>2
<1>6. ASSUME NEW j \in DOMAIN t
      PROVE  Len(s) + j \in DOMAIN u /\ u[Len(s) + j] = t[j]
  <2>1. Len(s) + j \in 1..(Len(s) + Len(t)) /\ ~(Len(s) + j <= Len(s)) /\ (Len(s) + j) - Len(s) = j
    BY <1>1
  <2> QED BY <1>2, <1>3, <1>4, <2>1
<1> QED BY <1>1, <1>2, <1>3, <1>5, <1>6

-----------------------------------------------------------------------------
Calling == [group : Groups \cup {0}, started : Nat, heard : Nat, source : Nat]
Item == [channel : Channels, call : Calling]
Strip == [listed : BOOLEAN, active : BOOLEAN, count : Nat]
Called(c) == calls[c] # C!NoCall

CallsTypes ==
    /\ aired \in Seq(Groups) /\ air \in [Channels -> 0..Len(aired)]
    /\ now \in Nat /\ missed \in Nat
    /\ calls \in [Channels -> Calling] /\ previous = C!Current(calls)
    /\ events \in Seq(Item) /\ mixer \in [Groups -> Strip]
    /\ \A g \in Groups : mixer[g].count <= Len(events)

(* A call, and so an event, is of a clear transmission and has its strip; as *)
(* long as OP25 answers, each tick heard the call.                          *)
CallsAreClear ==
    /\ \A c \in Channels : Called(c) =>
         /\ calls[c].source \in 1..Len(aired) /\ calls[c].group = aired[calls[c].source]
         /\ calls[c].group \in Groups \ Secret /\ mixer[calls[c].group].listed
         /\ 1 <= calls[c].started /\ calls[c].started <= calls[c].heard /\ calls[c].heard <= now
         /\ missed = 0 => calls[c].heard = now
    /\ \A i \in DOMAIN events :
         /\ events[i].call.source \in 1..Len(aired)
         /\ events[i].call.group \in Groups \ Secret /\ mixer[events[i].call.group].listed

(* A transmission is on one channel. *)
OnOneChannel == \A c, d \in Channels : air[c] # 0 /\ air[c] = air[d] => c = d

(* A transmission is the source of one call or of one event, and while it is *)
(* on the air it can be the source of no call but that of its channel.      *)
SourcesApart ==
    missed = 0 =>
        /\ \A c, d \in Channels : Called(c) /\ Called(d) /\ calls[c].source = calls[d].source => c = d
        /\ \A i, j \in DOMAIN events : events[i].call.source = events[j].call.source => i = j
        /\ \A i \in DOMAIN events, c \in Channels : Called(c) => events[i].call.source # calls[c].source
        /\ \A c \in Channels : air[c] # 0 =>
             /\ \A i \in DOMAIN events : events[i].call.source # air[c]
             /\ \A d \in Channels : Called(d) /\ calls[d].source = air[c] => d = c

CallsInv == CallsTypes /\ CallsAreClear /\ OnOneChannel /\ SourcesApart

LEMMA CallsBounds ==
    /\ IsFiniteSet(Channels) /\ Secret \subseteq Groups /\ Listed \subseteq Groups
    /\ Expiry \in Nat /\ Expiry > 1 /\ MaxMissed \in Nat
BY ListeningAssumption DEF C!P25CallsAssumption, C!IsFiniteSet, IsFiniteSet

LEMMA CallsBegin == C!Init => CallsInv
<1> SUFFICES ASSUME C!Init PROVE CallsInv
  OBVIOUS
<1>1. /\ aired = <<>> /\ air = [c \in Channels |-> 0] /\ now = 0 /\ missed = 0
      /\ calls = [c \in Channels |-> C!NoCall] /\ previous = {} /\ events = <<>>
      /\ mixer = [g \in Groups |-> [C!NoStrip EXCEPT !.listed = g \in Listed]]
  BY DEF C!Init
<1>2. /\ <<>> \in Seq(Groups) /\ Len(<<>>) = 0 /\ <<>> \in Seq(Item) /\ DOMAIN <<>> = {}
  OBVIOUS
<1>3. C!NoCall \in Calling
  BY DEF C!NoCall, Calling
<1>4. ASSUME NEW g \in Groups PROVE [C!NoStrip EXCEPT !.listed = g \in Listed] \in Strip
  <2> DEFINE known == g \in Listed
  <2>1. known \in BOOLEAN
    OBVIOUS
  <2> HIDE DEF known
  <2>2. [C!NoStrip EXCEPT !.listed = known] \in Strip
    BY <2>1 DEF C!NoStrip, Strip
  <2> QED BY <2>2 DEF known
<1>5. \A g \in Groups : mixer[g] \in Strip /\ mixer[g].count = 0
  BY <1>1, <1>4 DEF C!NoStrip
<1>6. mixer \in [Groups -> Strip]
  BY <1>1, <1>4
<1>7. \A c \in Channels : ~Called(c)
  BY <1>1 DEF Called
<1>8. previous = C!Current(calls)
  BY <1>1, <1>7 DEF C!Current, Called
<1>9. air \in [Channels -> 0..Len(aired)]
  BY <1>1, <1>2
<1>10. calls \in [Channels -> Calling]
  BY <1>1, <1>3
<1>11. CallsTypes
  BY <1>1, <1>2, <1>5, <1>6, <1>8, <1>9, <1>10 DEF CallsTypes
<1> QED BY <1>1, <1>2, <1>7, <1>11 DEF CallsInv, CallsAreClear, OnOneChannel, SourcesApart

LEMMA GrantKeeps ==
    ASSUME CallsInv, NEW c \in Channels, NEW g \in Groups, C!Grant(c, g)
    PROVE  CallsInv'
<1>1. /\ aired' = Append(aired, g) /\ air' = [air EXCEPT ![c] = Len(aired')]
      /\ UNCHANGED <<now, missed, calls, previous, events, mixer>>
  BY DEF C!Grant
<1>2. aired \in Seq(Groups) /\ air \in [Channels -> 0..Len(aired)] /\ Len(aired) \in Nat
  BY LenProperties DEF CallsInv, CallsTypes
<1>3. /\ aired' \in Seq(Groups) /\ Len(aired') = Len(aired) + 1
      /\ \A n \in 1..Len(aired) : aired'[n] = aired[n] /\ n \in 1..Len(aired')
  BY <1>1, <1>2, AppendProperties
<1>4. /\ air'[c] = Len(aired) + 1 /\ \A d \in Channels : d # c => air'[d] = air[d]
      /\ air' \in [Channels -> 0..Len(aired')]
  BY <1>1, <1>2, <1>3
<1>5. \A d \in Channels : Called(d)' <=> Called(d)
  BY <1>1 DEF Called
<1>6. CallsTypes'
  BY <1>1, <1>3, <1>4 DEF CallsInv, CallsTypes
<1>7. CallsAreClear'
  BY <1>1, <1>3, <1>5 DEF CallsInv, CallsAreClear
<1>8. OnOneChannel'
  BY <1>2, <1>4 DEF CallsInv, OnOneChannel
<1>9. SourcesApart'
  <2> SUFFICES ASSUME missed = 0 PROVE SourcesApart'
    BY <1>1 DEF SourcesApart
  <2>1. /\ \A i \in DOMAIN events : events[i].call.source # Len(aired) + 1
        /\ \A d \in Channels : Called(d) => calls[d].source # Len(aired) + 1
    BY <1>2 DEF CallsInv, CallsAreClear
  <2>2. ASSUME NEW e \in Channels, air'[e] # 0
        PROVE  /\ \A i \in DOMAIN events : events[i].call.source # air'[e]
               /\ \A d \in Channels : Called(d) /\ calls[d].source = air'[e] => d = e
    <3>1. CASE e = c
      BY <1>4, <2>1, <3>1
    <3>2. CASE e # c
      BY <1>4, <2>2, <3>2 DEF CallsInv, SourcesApart
    <3> QED BY <3>1, <3>2
  <2> QED BY <1>1, <1>5, <2>2 DEF CallsInv, SourcesApart
<1> QED BY <1>6, <1>7, <1>8, <1>9 DEF CallsInv

LEMMA EndsKeeps ==
    ASSUME CallsInv, NEW c \in Channels, C!Ends(c)
    PROVE  CallsInv'
<1>1. /\ air' = [air EXCEPT ![c] = 0]
      /\ UNCHANGED <<aired, now, missed, calls, previous, events, mixer>>
  BY DEF C!Ends
<1>2. air \in [Channels -> 0..Len(aired)] /\ Len(aired) \in Nat
  BY LenProperties DEF CallsInv, CallsTypes
<1>3. /\ air'[c] = 0 /\ \A d \in Channels : d # c => air'[d] = air[d]
      /\ air' \in [Channels -> 0..Len(aired)]
  BY <1>1, <1>2
<1>4. \A d \in Channels : Called(d)' <=> Called(d)
  BY <1>1 DEF Called
<1>5. CallsTypes'
  BY <1>1, <1>3 DEF CallsInv, CallsTypes
<1>6. CallsAreClear'
  BY <1>1, <1>4 DEF CallsInv, CallsAreClear
<1>7. OnOneChannel'
  BY <1>3 DEF CallsInv, OnOneChannel
<1>8. SourcesApart'
  BY <1>1, <1>3, <1>4 DEF CallsInv, SourcesApart
<1> QED BY <1>5, <1>6, <1>7, <1>8 DEF CallsInv

-----------------------------------------------------------------------------
(* A tick. *)

(* What becomes of the call of a channel: nothing, itself, itself heard      *)
(* again, or a new call of the transmission on the air.                     *)
Unheard(c) == calls'[c] = calls[c]
HeardAgain(c) ==
    /\ Called(c) /\ C!Clear(air[c]) /\ calls[c].group = aired[air[c]]
    /\ calls'[c] = [calls[c] EXCEPT !.heard = now']
Anew(c) ==
    /\ C!Clear(air[c])
    /\ calls'[c] = [group |-> aired[air[c]], heard |-> now', started |-> now', source |-> air[c]]

LEMMA Merged ==
    ASSUME CallsInv, NEW answered \in BOOLEAN, now' = now + 1, calls' = C!Merge(now', answered),
           NEW c \in Channels
    PROVE  /\ calls'[c] = C!NoCall \/ (~answered /\ Called(c) /\ Unheard(c)) \/ (answered /\ (HeardAgain(c) \/ Anew(c)))
           /\ answered /\ missed = 0 /\ Called(c) /\ C!Clear(air[c]) /\ calls[c].group = aired[air[c]]
                => HeardAgain(c)
<1>1. /\ now \in Nat /\ calls[c] \in Calling /\ Expiry \in Nat /\ Expiry > 1
  BY CallsBounds DEF CallsInv, CallsTypes
<1>2. calls'[c] = IF ~answered THEN IF C!Alive(calls[c], now') THEN calls[c] ELSE C!NoCall
        ELSE IF ~C!Clear(air[c]) THEN C!NoCall
        ELSE LET g == aired[air[c]]
                 same == C!Alive(calls[c], now') /\ calls[c].group = g
             IN [group |-> g, heard |-> now',
                 started |-> IF same THEN calls[c].started ELSE now',
                 source |-> IF same THEN calls[c].source ELSE air[c]]
  BY DEF C!Merge
<1>3. CASE ~answered
  BY <1>2, <1>3 DEF C!Alive, Called, Unheard
<1>4. CASE answered /\ ~C!Clear(air[c])
  BY <1>2, <1>4
<1>5. CASE answered /\ C!Clear(air[c]) /\ C!Alive(calls[c], now') /\ calls[c].group = aired[air[c]]
  <2>1. calls'[c] = [group |-> aired[air[c]], heard |-> now', started |-> calls[c].started, source |-> calls[c].source]
    BY <1>2, <1>5
  <2>2. [calls[c] EXCEPT !.heard = now'] =
          [group |-> calls[c].group, heard |-> now', started |-> calls[c].started, source |-> calls[c].source]
    BY <1>1 DEF Calling
  <2> QED BY <1>5, <2>1, <2>2 DEF HeardAgain, C!Alive, Called
<1>6. CASE answered /\ C!Clear(air[c]) /\ ~(C!Alive(calls[c], now') /\ calls[c].group = aired[air[c]])
  <2>1. calls'[c] = [group |-> aired[air[c]], heard |-> now', started |-> now', source |-> air[c]]
    BY <1>2, <1>6
  <2>2. missed = 0 /\ Called(c) => C!Alive(calls[c], now')
    <3> SUFFICES ASSUME missed = 0, Called(c) PROVE C!Alive(calls[c], now')
      OBVIOUS
    <3>1. calls[c].heard = now
      BY DEF CallsInv, CallsAreClear
    <3>2. now' - calls[c].heard < Expiry
      BY <1>1, <3>1
    <3> QED BY <3>2 DEF C!Alive, Called
  <2> QED BY <1>6, <2>1, <2>2 DEF Anew
<1> QED BY <1>3, <1>4, <1>5, <1>6

LEMMA CurrentFinite == ASSUME CallsTypes PROVE IsFiniteSet(previous) /\ previous \subseteq Item
<1> DEFINE D == {d \in Channels : calls[d] # C!NoCall}
           f == [c \in D |-> [channel |-> c, call |-> calls[c]]]
<1>1. IsFiniteSet(D)
  BY CallsBounds, FS_Subset
<1>2. previous = {[channel |-> c, call |-> calls[c]] : c \in D}
  BY DEF CallsTypes, C!Current
<1>3. f \in Surjection(D, previous)
  BY <1>2 DEF Surjection
<1>4. IsFiniteSet(previous)
  <2> HIDE DEF D, f
  <2> QED BY <1>1, <1>3, FS_Surjection
<1>5. \A c \in D : [channel |-> c, call |-> calls[c]] \in Item
  BY DEF CallsTypes, Item
<1> QED BY <1>2, <1>4, <1>5

(* A call that is gone was not heard again. *)
LEMMA GoneAre ==
    ASSUME CallsInv, now' = now + 1, NEW item \in C!Gone(calls')
    PROVE  /\ item \in previous /\ item.channel \in Channels /\ Called(item.channel)
           /\ item = [channel |-> item.channel, call |-> calls[item.channel]]
           /\ item.call = calls[item.channel]
           /\ ~HeardAgain(item.channel)
<1>1. item \in previous /\ \A other \in C!Current(calls') : C!Key(other) # C!Key(item)
  BY DEF C!Gone
<1>2. PICK c \in Channels : Called(c) /\ item = [channel |-> c, call |-> calls[c]]
  BY <1>1 DEF CallsInv, CallsTypes, C!Current, Called
<1>3. item.channel = c /\ item.call = calls[c]
  BY <1>2
<1>4. ASSUME HeardAgain(c) PROVE FALSE
  <2>1. calls[c] \in Calling /\ 1 <= calls[c].started /\ now \in Nat
    BY <1>2 DEF CallsInv, CallsTypes, CallsAreClear
  <2>2. calls'[c].group = calls[c].group /\ calls'[c].started = calls[c].started
    BY <1>4, <2>1 DEF HeardAgain, Calling
  <2>3. calls'[c] # C!NoCall
    BY <2>1, <2>2 DEF C!NoCall, Calling
  <2> DEFINE other == [channel |-> c, call |-> calls'[c]]
  <2>4. other \in C!Current(calls')
    BY <2>3 DEF C!Current
  <2>5. C!Key(other) = C!Key(item)
    BY <1>3, <2>2 DEF C!Key
  <2> QED BY <1>1, <2>4, <2>5
<1> QED BY <1>1, <1>2, <1>3, <1>4

(* The strips after a tick. *)
LEMMA StripsKept ==
    ASSUME CallsTypes, mixer' = C!Strips(calls')
    PROVE  /\ mixer' \in [Groups -> Strip]
           /\ \A g \in Groups : mixer[g].listed => mixer'[g].listed
           /\ \A g \in Groups, c \in Channels : calls'[c].group = g => mixer'[g].listed
           /\ \A g \in Groups : mixer'[g].count <= Len(events)
<1>1. ASSUME NEW g \in Groups
      PROVE  /\ mixer'[g] \in Strip /\ mixer'[g].count <= Len(events)
             /\ mixer[g].listed => mixer'[g].listed
             /\ \A c \in Channels : calls'[c].group = g => mixer'[g].listed
  <2> DEFINE active == \E c \in Channels : calls'[c].group = g
             known == mixer[g].listed \/ active
             its == {i \in DOMAIN events : events[i].call.group = g}
             n == Cardinality(its)
  <2>1. mixer'[g] = [listed |-> known, active |-> active, count |-> n]
    BY DEF C!Strips, C!Cardinality, Cardinality
  <2>2. active \in BOOLEAN /\ known \in BOOLEAN
    OBVIOUS
  <2>3. n \in Nat /\ n <= Len(events)
    <3>1. Len(events) \in Nat /\ DOMAIN events = 1..Len(events)
      BY LenProperties DEF CallsTypes
    <3>2. IsFiniteSet(1..Len(events)) /\ Cardinality(1..Len(events)) = Len(events)
      <4> DEFINE m == Len(events)
      <4>1. m \in Nat
        BY <3>1
      <4> HIDE DEF m
      <4>2. IsFiniteSet(1..m) /\ Cardinality(1..m) = IF 1 > m THEN 0 ELSE m - 1 + 1
        BY <4>1, FS_Interval
      <4>3. Cardinality(1..m) = m
        BY <4>1, <4>2
      <4> QED BY <4>2, <4>3 DEF m
    <3>3. its \in SUBSET (1..Len(events))
      BY <3>1
    <3> HIDE DEF its
    <3>4. IsFiniteSet(its) /\ Cardinality(its) <= Len(events)
      BY <3>2, <3>3, FS_Subset
    <3> QED BY <3>4, FS_CardinalityType
  <2>4. mixer[g].listed => known
    OBVIOUS
  <2>5. \A c \in Channels : calls'[c].group = g => known
    OBVIOUS
  <2> HIDE DEF known, active, n
  <2>6. mixer'[g] \in Strip /\ mixer'[g].listed = known /\ mixer'[g].count = n
    BY <2>1, <2>2, <2>3 DEF Strip
  <2> QED BY <2>3, <2>4, <2>5, <2>6
<1>2. mixer' = [g \in Groups |-> mixer'[g]]
  BY DEF C!Strips
<1> QED BY <1>1, <1>2

LEMMA TickKeeps ==
    ASSUME CallsInv, NEW answered \in BOOLEAN, C!Tick(answered)
    PROVE  CallsInv'
<1> DEFINE gone == C!Gone(calls')
           q == C!SetToSeq(gone)
<1>1. /\ now' = now + 1 /\ calls' = C!Merge(now', answered) /\ mixer' = C!Strips(calls')
      /\ missed' = (IF answered THEN missed ELSE missed + 1)
      /\ events' = events \o q /\ previous' = C!Current(calls') /\ UNCHANGED <<air, aired>>
  BY DEF C!Tick
<1>2. /\ aired \in Seq(Groups) /\ air \in [Channels -> 0..Len(aired)] /\ Len(aired) \in Nat
      /\ now \in Nat /\ missed \in Nat /\ calls \in [Channels -> Calling]
      /\ events \in Seq(Item) /\ mixer \in [Groups -> Strip]
  BY LenProperties DEF CallsInv, CallsTypes
<1>3. /\ gone \subseteq previous /\ IsFiniteSet(gone) /\ gone \subseteq Item
  <2>1. gone \subseteq previous
    BY DEF C!Gone
  <2> HIDE DEF gone
  <2> QED BY <2>1, CurrentFinite, FS_Subset DEF CallsInv
<1>4. /\ q \in Seq(gone) /\ DOMAIN q = 1..Len(q) /\ q \in Seq(Item)
      /\ \A i, j \in DOMAIN q : q[i] = q[j] => i = j
      /\ \A i \in DOMAIN q : q[i] \in gone
  <2> HIDE DEF gone
  <2>1. /\ q \in Seq(gone) /\ DOMAIN q = 1..Len(q)
        /\ \A i, j \in DOMAIN q : q[i] = q[j] => i = j
    BY <1>3, InSomeOrder
  <2> QED BY <1>3, <2>1
<1> HIDE DEF q
<1>5. /\ events' \in Seq(Item) /\ Len(events') = Len(events) + Len(q)
      /\ Len(events) \in Nat /\ Len(q) \in Nat
      /\ \A i \in DOMAIN events' :
           \/ i \in DOMAIN events /\ events'[i] = events[i]
           \/ \E j \in DOMAIN q : i = Len(events) + j /\ events'[i] = q[j]
  <2>1. events \in Seq(Item) /\ q \in Seq(Item) /\ events' = events \o q
    BY <1>1, <1>2, <1>4
  <2> QED BY <2>1, Joined
<1>6. ASSUME NEW e \in gone
      PROVE  \E d \in Channels : Called(d) /\ e.call = calls[d] /\ e = [channel |-> d, call |-> calls[d]]
                                 /\ ~HeardAgain(d)
  BY <1>1, <1>6, GoneAre
<1>7. \A c \in Channels : air[c] \in 0..Len(aired)
  BY <1>2
<1>8. \A c \in Channels : C!Clear(air[c]) =>
        air[c] \in 1..Len(aired) /\ air[c] # 0 /\ aired[air[c]] \in Groups \ Secret
  BY <1>2, <1>7, ElementOfSeq DEF C!Clear
<1>9. ASSUME NEW c \in Channels
      PROVE  /\ \/ calls'[c] = C!NoCall
                \/ ~answered /\ Called(c) /\ Unheard(c)
                \/ answered /\ (HeardAgain(c) \/ Anew(c))
             /\ answered /\ missed = 0 /\ Called(c) /\ C!Clear(air[c]) /\ calls[c].group = aired[air[c]]
                  => HeardAgain(c)
  BY <1>1, Merged
<1>10. ASSUME NEW c \in Channels
       PROVE  /\ HeardAgain(c) => /\ calls'[c] \in Calling /\ calls'[c].group = calls[c].group
                                  /\ calls'[c].source = calls[c].source /\ calls'[c].started = calls[c].started
                                  /\ calls'[c].heard = now'
              /\ Anew(c) => /\ calls'[c] \in Calling /\ calls'[c].group = aired[air[c]]
                            /\ calls'[c].source = air[c] /\ calls'[c].started = now' /\ calls'[c].heard = now'
  <2>1. calls[c] \in Calling /\ now' \in Nat
    BY <1>1, <1>2
  <2>2. HeardAgain(c) => /\ calls'[c] \in Calling /\ calls'[c].group = calls[c].group
                         /\ calls'[c].source = calls[c].source /\ calls'[c].started = calls[c].started
                         /\ calls'[c].heard = now'
    BY <2>1 DEF HeardAgain, Calling
  <2>3. Anew(c) => /\ calls'[c] \in Calling /\ calls'[c].group = aired[air[c]]
                   /\ calls'[c].source = air[c] /\ calls'[c].started = now' /\ calls'[c].heard = now'
    BY <1>8, <2>1 DEF Anew, Calling
  <2> QED BY <2>2, <2>3
<1>11. /\ mixer' \in [Groups -> Strip]
       /\ \A g \in Groups : mixer[g].listed => mixer'[g].listed
       /\ \A g \in Groups, c \in Channels : calls'[c].group = g => mixer'[g].listed
       /\ \A g \in Groups : mixer'[g].count <= Len(events)
  BY <1>1, StripsKept DEF CallsInv
<1>12. CallsTypes'
  <2>1. \A c \in Channels : calls'[c] \in Calling
    <3>1. C!NoCall \in Calling
      BY DEF C!NoCall, Calling
    <3> QED BY <1>2, <1>9, <1>10, <3>1 DEF Unheard
  <2>2. calls' \in [Channels -> Calling]
    <3>1. calls' = [c \in Channels |-> calls'[c]]
      BY <1>1 DEF C!Merge
    <3> QED BY <2>1, <3>1
  <2>3. \A g \in Groups : mixer'[g].count <= Len(events')
    <3>1. \A g \in Groups : mixer'[g].count \in Nat
      BY <1>11 DEF Strip
    <3> QED BY <1>5, <1>11, <3>1
  <2>4. now' \in Nat /\ missed' \in Nat
    BY <1>1, <1>2
  <2> QED BY <1>1, <1>2, <1>5, <1>11, <2>2, <2>3, <2>4 DEF CallsTypes
<1>13. CallsAreClear'
  <2>1. ASSUME NEW c \in Channels, Called(c)'
        PROVE  /\ calls'[c].source \in 1..Len(aired) /\ calls'[c].group = aired[calls'[c].source]
               /\ calls'[c].group \in Groups \ Secret /\ mixer'[calls'[c].group].listed
               /\ 1 <= calls'[c].started /\ calls'[c].started <= calls'[c].heard /\ calls'[c].heard <= now'
               /\ missed' = 0 => calls'[c].heard = now'
    <3>1. calls[c] \in Calling
      BY <1>2
    <3>2. Called(c) => /\ calls[c].source \in 1..Len(aired) /\ calls[c].group = aired[calls[c].source]
                       /\ calls[c].group \in Groups \ Secret
                       /\ 1 <= calls[c].started /\ calls[c].started <= calls[c].heard /\ calls[c].heard <= now
      BY DEF CallsInv, CallsAreClear
    <3>3. CASE ~answered /\ Called(c) /\ Unheard(c)
      <4>1. missed' # 0 /\ calls'[c] = calls[c]
        BY <1>1, <1>2, <3>3 DEF Unheard
      <4>2. calls[c].heard \in Nat /\ calls[c].heard <= now'
        BY <1>1, <1>2, <3>1, <3>2, <3>3 DEF Calling
      <4>3. mixer'[calls'[c].group].listed
        BY <1>11, <3>2, <3>3, <4>1
      <4> QED BY <3>2, <3>3, <4>1, <4>2, <4>3
    <3>4. CASE HeardAgain(c)
      <4>1. Called(c) /\ mixer'[calls'[c].group].listed
        BY <1>10, <1>11, <3>2, <3>4 DEF HeardAgain
      <4>2. calls[c].started \in Nat /\ calls[c].started <= now'
        BY <1>1, <1>2, <3>1, <3>2, <4>1 DEF Calling
      <4>3. now' <= now'
        BY <1>1, <1>2
      <4> QED BY <1>10, <3>2, <3>4, <4>1, <4>2, <4>3
    <3>5. CASE Anew(c)
      <4>1. calls'[c].group \in Groups \ Secret /\ calls'[c].source \in 1..Len(aired)
        BY <1>8, <1>10, <3>5 DEF Anew
      <4>2. mixer'[calls'[c].group].listed
        BY <1>11, <4>1
      <4>3. 1 <= now' /\ now' <= now'
        BY <1>1, <1>2
      <4> QED BY <1>10, <3>5, <4>1, <4>2, <4>3
    <3> QED BY <1>9, <2>1, <3>3, <3>4, <3>5 DEF Called
  <2>2. ASSUME NEW i \in DOMAIN events'
        PROVE  /\ events'[i].call.source \in 1..Len(aired)
               /\ events'[i].call.group \in Groups \ Secret /\ mixer'[events'[i].call.group].listed
    <3>1. CASE i \in DOMAIN events /\ events'[i] = events[i]
      BY <1>11, <3>1 DEF CallsInv, CallsAreClear
    <3>2. ASSUME NEW j \in DOMAIN q, events'[i] = q[j]
          PROVE  /\ events'[i].call.source \in 1..Len(aired)
                 /\ events'[i].call.group \in Groups \ Secret /\ mixer'[events'[i].call.group].listed
      <4>1. PICK d \in Channels : Called(d) /\ q[j].call = calls[d]
        BY <1>4, <1>6
      <4> QED BY <1>11, <3>2, <4>1 DEF CallsInv, CallsAreClear
    <3> QED BY <1>5, <3>1, <3>2
  <2> QED BY <1>1, <2>1, <2>2 DEF CallsAreClear
<1>14. OnOneChannel'
  BY <1>1 DEF CallsInv, OnOneChannel
<1>15. SourcesApart'
  <2> SUFFICES ASSUME missed' = 0 PROVE SourcesApart'
    BY DEF SourcesApart
  <2>1. answered /\ missed = 0
    BY <1>1, <1>2
  <2>2. /\ \A c, d \in Channels : Called(c) /\ Called(d) /\ calls[c].source = calls[d].source => c = d
        /\ \A i, j \in DOMAIN events : events[i].call.source = events[j].call.source => i = j
        /\ \A i \in DOMAIN events, c \in Channels : Called(c) => events[i].call.source # calls[c].source
        /\ \A c \in Channels : air[c] # 0 =>
             /\ \A i \in DOMAIN events : events[i].call.source # air[c]
             /\ \A d \in Channels : Called(d) /\ calls[d].source = air[c] => d = c
        /\ \A c, d \in Channels : air[c] # 0 /\ air[c] = air[d] => c = d
    BY <2>1 DEF CallsInv, SourcesApart, OnOneChannel
  <2>3. ASSUME NEW c \in Channels, Called(c)'
        PROVE  \/ HeardAgain(c) /\ Called(c) /\ calls'[c].source = calls[c].source
               \/ Anew(c) /\ air[c] # 0 /\ calls'[c].source = air[c]
    BY <1>8, <1>9, <1>10, <2>1, <2>3 DEF Called, HeardAgain, Anew
  \* A call of the transmission on the air is heard again.
  <2>4. ASSUME NEW d \in Channels, Called(d), air[d] # 0, calls[d].source = air[d]
        PROVE  HeardAgain(d)
    <3>1. calls[d].group = aired[air[d]] /\ calls[d].group \notin Secret
      BY <2>4 DEF CallsInv, CallsAreClear
    <3>2. C!Clear(air[d])
      BY <2>4, <3>1 DEF C!Clear
    <3> QED BY <1>9, <2>1, <2>4, <3>1, <3>2
  <2>5. ASSUME NEW c \in Channels, NEW d \in Channels, Called(c)', Called(d)', calls'[c].source = calls'[d].source
        PROVE  c = d
    BY <2>2, <2>3, <2>5
  <2>6. ASSUME NEW j \in DOMAIN q
        PROVE  \E d \in Channels : Called(d) /\ q[j].call = calls[d] /\ q[j] = [channel |-> d, call |-> calls[d]]
                                   /\ ~HeardAgain(d)
    BY <1>4, <1>6
  <2>7. ASSUME NEW j \in DOMAIN q, NEW c \in Channels, Called(c)' PROVE q[j].call.source # calls'[c].source
    <3>1. PICK d \in Channels : Called(d) /\ q[j].call = calls[d] /\ ~HeardAgain(d)
      BY <2>6
    <3> QED BY <2>2, <2>3, <2>4, <2>7, <3>1
  <2>8. ASSUME NEW j \in DOMAIN q, NEW c \in Channels, air[c] # 0 PROVE q[j].call.source # air[c]
    <3>1. PICK d \in Channels : Called(d) /\ q[j].call = calls[d] /\ ~HeardAgain(d)
      BY <2>6
    <3> QED BY <2>2, <2>4, <2>8, <3>1
  <2>9. ASSUME NEW i \in DOMAIN events, NEW j \in DOMAIN q PROVE events[i].call.source # q[j].call.source
    <3>1. PICK d \in Channels : Called(d) /\ q[j].call = calls[d]
      BY <2>6
    <3> QED BY <2>2, <3>1
  <2>10. ASSUME NEW i \in DOMAIN q, NEW j \in DOMAIN q, q[i].call.source = q[j].call.source PROVE i = j
    <3>1. PICK c \in Channels : Called(c) /\ q[i].call = calls[c] /\ q[i] = [channel |-> c, call |-> calls[c]]
      BY <2>6
    <3>2. PICK d \in Channels : Called(d) /\ q[j].call = calls[d] /\ q[j] = [channel |-> d, call |-> calls[d]]
      BY <2>6
    <3>3. c = d
      BY <2>2, <2>10, <3>1, <3>2
    <3> QED BY <1>4, <3>1, <3>2, <3>3
  <2>11. \A i, j \in DOMAIN events' : events'[i].call.source = events'[j].call.source => i = j
    <3> SUFFICES ASSUME NEW i \in DOMAIN events', NEW j \in DOMAIN events',
                        events'[i].call.source = events'[j].call.source
                 PROVE  i = j
      OBVIOUS
    <3>1. \/ i \in DOMAIN events /\ events'[i] = events[i]
          \/ \E k \in DOMAIN q : i = Len(events) + k /\ events'[i] = q[k]
      BY <1>5
    <3>2. \/ j \in DOMAIN events /\ events'[j] = events[j]
          \/ \E k \in DOMAIN q : j = Len(events) + k /\ events'[j] = q[k]
      BY <1>5
    <3> QED BY <2>2, <2>9, <2>10, <3>1, <3>2
  <2>12. \A i \in DOMAIN events', c \in Channels : Called(c)' => events'[i].call.source # calls'[c].source
    <3>1. ASSUME NEW i \in DOMAIN events, NEW c \in Channels, Called(c)'
          PROVE  events[i].call.source # calls'[c].source
      BY <2>2, <2>3, <3>1
    <3> QED BY <1>5, <2>7, <3>1
  <2>13. ASSUME NEW c \in Channels, air[c] # 0
         PROVE  /\ \A i \in DOMAIN events' : events'[i].call.source # air[c]
                /\ \A d \in Channels : Called(d)' /\ calls'[d].source = air[c] => d = c
    BY <1>5, <2>2, <2>3, <2>8, <2>13
  <2> QED BY <1>1, <2>5, <2>11, <2>12, <2>13 DEF SourcesApart
<1> QED BY <1>12, <1>13, <1>14, <1>15 DEF CallsInv

(* One tick to the next, a call is followed or recorded. *)
LEMMA TickFollows == ASSUME CallsInv, [C!Next]_callvars PROVE [C!CallKept]_callvars
<1> SUFFICES ASSUME C!Next PROVE C!CallKept
  OBVIOUS
<1>1. ASSUME UNCHANGED previous PROVE C!CallKept
  BY <1>1 DEF C!CallKept
<1>2. ASSUME NEW answered \in BOOLEAN, C!Tick(answered) PROVE C!CallKept
  <2> DEFINE gone == C!Gone(calls')
             q == C!SetToSeq(gone)
  <2>1. events' = events \o q /\ previous' = C!Current(calls')
    BY <1>2 DEF C!Tick
  <2>2. gone \subseteq previous /\ IsFiniteSet(gone) /\ gone \subseteq Item
    <3>1. gone \subseteq previous
      BY DEF C!Gone
    <3> HIDE DEF gone
    <3> QED BY <3>1, CurrentFinite, FS_Subset DEF CallsInv
  <2>3. ASSUME NEW item \in previous, item \notin gone
        PROVE  \E other \in previous' : C!Key(other) = C!Key(item)
    BY <2>1, <2>3 DEF C!Gone
  <2> HIDE DEF gone
  <2>4. q \in Seq(Item) /\ \A e \in gone : \E i \in DOMAIN q : q[i] = e
    <3>1. q \in Seq(gone) /\ \A e \in gone : \E i \in DOMAIN q : q[i] = e
      BY <2>2, InSomeOrder
    <3> QED BY <2>2, <3>1
  <2>5. \A j \in DOMAIN q : Len(events) + j \in DOMAIN events' /\ events'[Len(events) + j] = q[j]
    <3> HIDE DEF q
    <3> QED BY <2>1, <2>4, Joined DEF CallsInv, CallsTypes
  <2>6. ASSUME NEW item \in gone PROVE \E i \in DOMAIN events' : C!Key(events'[i]) = C!Key(item)
    <3> HIDE DEF q
    <3> QED BY <2>4, <2>5
  <2> QED BY <2>3, <2>6 DEF C!CallKept
<1> QED BY <1>1, <1>2 DEF C!Next, C!Grant, C!Ends

LEMMA CallsStay == ASSUME CallsInv, [C!Next]_callvars PROVE CallsInv'
<1>1. CASE UNCHANGED callvars
  BY <1>1 DEF callvars, CallsInv, CallsTypes, CallsAreClear, OnOneChannel, SourcesApart, Called
<1> QED BY <1>1, GrantKeeps, EndsKeeps, TickKeeps DEF C!Next

LEMMA CallsMean == ASSUME CallsInv PROVE C!RecordedOnce /\ C!EventsHaveStrips /\ C!TypeOK
<1>1. C!EventsHaveStrips
  BY DEF C!EventsHaveStrips, CallsInv, CallsAreClear
<1>2. C!TypeOK
  BY DEF C!TypeOK, CallsInv, CallsTypes, CallsAreClear, Called
<1>3. C!RecordedOnce
  <2> SUFFICES ASSUME missed = 0 PROVE C!RecordedOnce
    BY DEF C!RecordedOnce
  <2>1. \A item \in previous : \E c \in Channels : Called(c) /\ item.call = calls[c]
    BY DEF CallsInv, CallsTypes, C!Current, Called
  <2> QED BY <2>1 DEF C!RecordedOnce, CallsInv, SourcesApart
<1> QED BY <1>1, <1>2, <1>3

-----------------------------------------------------------------------------
(* The receivers of a profile, and the shares of the work they are given.    *)

(* What is at most a quotient. *)
LEMMA Quotient ==
    ASSUME NEW a \in Nat, NEW t \in Nat \ {0}
    PROVE  a \div t \in Nat /\ \A c \in Int : c <= a \div t <=> c * t <= a
<1> DEFINE q == a \div t
<1>1. q \in Nat /\ q * t <= a /\ a < q * t + t
  OBVIOUS
<1>2. ASSUME NEW c \in Int, c <= q PROVE c * t <= a
  <2> HIDE DEF q
  <2>1. c * t <= q * t
    BY <1>1, <1>2
  <2>2. c * t \in Int /\ q * t \in Int
    BY <1>1
  <2> QED BY <1>1, <2>1, <2>2
<1>3. ASSUME NEW c \in Int, c > q PROVE c * t > a
  <2> HIDE DEF q
  <2>1. c >= q + 1
    BY <1>1, <1>3
  <2>2. c * t >= (q + 1) * t
    BY <1>1, <2>1
  <2>3. (q + 1) * t = q * t + t
    BY <1>1
  <2>4. c * t \in Int /\ q * t \in Int
    BY <1>1
  <2> QED BY <1>1, <2>2, <2>3, <2>4
<1> QED BY <1>1, <1>2, <1>3

LEMMA InShare ==
    ASSUME NEW n \in Nat, NEW total \in Nat \ {0}, NEW place \in 1..total, NEW c \in 1..n
    PROVE  c \in P!Share(n, place, total) <=> (place - 1) * n < c * total /\ c * total <= place * n
<1>1. (place - 1) * n \in Nat /\ place * n \in Nat
  OBVIOUS
<1>2. /\ ((place - 1) * n) \div total \in Nat /\ (place * n) \div total \in Nat
      /\ c <= ((place - 1) * n) \div total <=> c * total <= (place - 1) * n
      /\ c <= (place * n) \div total <=> c * total <= place * n
  BY <1>1, Quotient
<1>3. c * total \in Int
  OBVIOUS
<1> QED BY <1>1, <1>2, <1>3 DEF P!Share

(* Everything is in a share. *)
LEMMA SharesCover ==
    ASSUME NEW n \in Nat, NEW total \in Nat \ {0}, NEW c \in 1..n
    PROVE  \E place \in 1..total : c \in P!Share(n, place, total)
<1> DEFINE a == c * total - 1
           q == a \div n
<1>1. a \in Nat /\ n \in Nat \ {0} /\ c * total \in Int
  OBVIOUS
<1>2. c * total <= n * total
  OBVIOUS
<1>3. q \in Nat /\ \A m \in Int : m <= q <=> m * n <= a
  <2> HIDE DEF a
  <2> QED BY <1>1, Quotient
<1>4. q * n <= a
  <2> HIDE DEF a, q
  <2> QED BY <1>3
<1>5. ~((q + 1) * n <= a)
  <2> HIDE DEF a, q
  <2> QED BY <1>3
<1>6. q < total
  <2>1. ~(total * n <= a)
    BY <1>1, <1>2
  <2> HIDE DEF a, q
  <2> QED BY <1>3, <2>1
<1>7. q + 1 \in 1..total
  <2> HIDE DEF q
  <2> QED BY <1>3, <1>6
<1>8. ((q + 1) - 1) * n < c * total /\ c * total <= (q + 1) * n
  <2> HIDE DEF q
  <2>1. q * n \in Int /\ (q + 1) * n \in Int /\ (q + 1) - 1 = q
    BY <1>1, <1>3
  <2> QED BY <1>1, <1>4, <1>5, <2>1
<1> HIDE DEF q
<1> QED BY <1>7, <1>8, InShare

(* Nothing is in two. *)
LEMMA SharesApart ==
    ASSUME NEW n \in Nat, NEW total \in Nat \ {0}, NEW j \in 1..total, NEW k \in 1..total, j < k
    PROVE  P!Share(n, j, total) \cap P!Share(n, k, total) = {}
<1> SUFFICES ASSUME NEW c \in 1..n, c \in P!Share(n, j, total), c \in P!Share(n, k, total)
             PROVE  FALSE
  BY DEF P!Share
<1>1. (k - 1) * n < c * total /\ c * total <= j * n
  BY InShare
<1>2. j * n <= (k - 1) * n
  OBVIOUS
<1>3. j * n \in Int /\ (k - 1) * n \in Int /\ c * total \in Int
  OBVIOUS
<1> QED BY <1>1, <1>2, <1>3

PlanItem == [state : {"assigned", "waiting", "conflict"}, receiver : Receivers \cup {Any}]

(* The types; nothing is planned before a start begins. *)
PlanTypes ==
    /\ profile.pins \in Seq(Receivers \cup {Any})
    /\ profile.channels \in 0..MaxChannels /\ profile.steps \in 0..MaxSteps
    /\ connected \subseteq Receivers /\ refreshes \in 0..MaxRefreshes
    /\ plan \in [devices : SUBSET Receivers, items : Seq(PlanItem)]
    /\ Len(plan.items) <= Len(profile.pins)
    /\ live \in [phase : {"idle", "planning", "running", "refused"}, receivers : Seq(Receivers)]
    /\ DOMAIN pieces = DOMAIN live.receivers
    /\ live.phase = "idle" => plan.items = <<>>

(* A receiver is assigned once, what waits waits for a device that earlier   *)
(* items have, no receiver captures twice, and pieces are shares.           *)
AssignedOnce(items) ==
    \A j, k \in DOMAIN items :
        items[j].state = "assigned" /\ items[k].state = "assigned" /\ items[j].receiver = items[k].receiver => j = k

WaitsRightly(items, devices) ==
    \A k \in DOMAIN items :
        items[k] = P!Item("waiting", Any) => devices \subseteq {items[j].receiver : j \in 1..(k - 1)}

SharesGiven ==
    live.phase = "running" =>
        \E total \in Nat \ {0} :
            /\ DOMAIN pieces = 1..total
            /\ \A k \in 1..total : pieces[k] = [channels |-> P!Share(profile.channels, k, total),
                                                steps |-> P!Share(profile.steps, k, total)]

PlanInv ==
    /\ PlanTypes /\ AssignedOnce(plan.items) /\ WaitsRightly(plan.items, plan.devices)
    /\ \A j, k \in DOMAIN live.receivers : live.receivers[j] = live.receivers[k] => j = k
    /\ SharesGiven

LEMMA PlanBounds == Any \notin Receivers /\ MaxAssignments \in Nat /\ MaxChannels \in Nat /\ MaxSteps \in Nat /\ MaxRefreshes \in Nat
BY ListeningAssumption DEF P!PlanAssumption

LEMMA PlanBegins == P!PlanInit => PlanInv
<1> SUFFICES ASSUME P!PlanInit PROVE PlanInv
  OBVIOUS
<1>1. PICK n \in 1..MaxAssignments, channels \in 0..MaxChannels, steps \in 0..MaxSteps :
       \E pins \in [1..n -> Receivers \cup {Any}] :
          profile = [pins |-> pins, channels |-> channels, steps |-> steps]
  BY DEF P!PlanInit
<1>2. PICK pins \in [1..n -> Receivers \cup {Any}] :
          profile = [pins |-> pins, channels |-> channels, steps |-> steps]
  BY <1>1
<1>3. pins \in Seq(Receivers \cup {Any}) /\ Len(pins) = n /\ n \in Nat
  BY PlanBounds, LenProperties
<1>4. /\ connected \subseteq Receivers /\ refreshes = 0 /\ plan = [devices |-> {}, items |-> <<>>]
      /\ live = [phase |-> "idle", receivers |-> <<>>] /\ pieces = <<>>
  BY DEF P!PlanInit
<1>5. /\ <<>> \in Seq(PlanItem) /\ <<>> \in Seq(Receivers) /\ Len(<<>>) = 0 /\ DOMAIN <<>> = {}
  OBVIOUS
<1>6. /\ plan.items = <<>> /\ plan.devices = {} /\ live.receivers = <<>> /\ live.phase = "idle"
      /\ plan \in [devices : SUBSET Receivers, items : Seq(PlanItem)]
      /\ live \in [phase : {"idle", "planning", "running", "refused"}, receivers : Seq(Receivers)]
  BY <1>4, <1>5
<1>7. PlanTypes
  BY <1>2, <1>3, <1>4, <1>6, PlanBounds DEF PlanTypes
<1> QED BY <1>6, <1>7 DEF PlanInv, AssignedOnce, WaitsRightly, SharesGiven

LEMMA PlanNextKeeps == ASSUME PlanInv, P!PlanNext PROVE PlanInv'
<1> DEFINE items == plan.items
           pin == P!Pin
<1>1. /\ live.phase = "planning" /\ Len(items) < Len(profile.pins)
      /\ UNCHANGED <<profile, connected, refreshes, live, pieces>>
  BY DEF P!PlanNext
<1>2. PICK item \in (IF pin = Any THEN P!AutomaticItems ELSE {P!PinnedItem}) :
        plan' = [plan EXCEPT !.items = Append(items, item)]
  BY DEF P!PlanNext
<1>3. /\ plan \in [devices : SUBSET Receivers, items : Seq(PlanItem)] /\ items \in Seq(PlanItem)
      /\ profile.pins \in Seq(Receivers \cup {Any})
      /\ Len(items) \in Nat /\ DOMAIN items = 1..Len(items) /\ Len(profile.pins) \in Nat
  BY LenProperties DEF PlanInv, PlanTypes
<1>4. pin \in Receivers \cup {Any}
  <2>1. Len(items) + 1 \in 1..Len(profile.pins)
    BY <1>1, <1>3
  <2> QED BY <1>3, <2>1, ElementOfSeq DEF P!Pin
<1>5. /\ item \in PlanItem
      /\ item.state = "assigned" => item.receiver \notin P!Used
      /\ item = P!Item("waiting", Any) => plan.devices \subseteq P!Used
  <2>1. CASE pin = Any
    <3>1. item \in P!AutomaticItems
      BY <1>2, <2>1
    <3>2. CASE plan.devices \subseteq P!Used
      BY <3>1, <3>2 DEF P!AutomaticItems, P!Item, PlanItem
    <3>3. CASE ~(plan.devices \subseteq P!Used)
      <4>1. PICK r \in plan.devices \ P!Used : item = P!Item("assigned", r)
        BY <3>1, <3>3 DEF P!AutomaticItems
      <4>2. r \in Receivers
        BY <1>3
      <4> QED BY <4>1, <4>2 DEF P!Item, PlanItem
    <3> QED BY <3>2, <3>3
  <2>2. CASE pin # Any
    <3>1. item = P!PinnedItem
      BY <1>2, <2>2
    <3>2. pin \in Receivers
      BY <1>4, <2>2
    <3> HIDE DEF pin
    <3>3. item = (IF pin \notin plan.devices THEN P!Item("waiting", pin)
                  ELSE IF pin \in P!Used THEN P!Item("conflict", pin) ELSE P!Item("assigned", pin))
      BY <3>1 DEF P!PinnedItem, pin
    <3> QED BY <2>2, <3>2, <3>3 DEF P!Item, PlanItem
  <2> QED BY <2>1, <2>2
<1> DEFINE longer == Append(items, item)
<1>6. /\ longer \in Seq(PlanItem) /\ Len(longer) = Len(items) + 1 /\ DOMAIN longer = 1..(Len(items) + 1)
      /\ longer[Len(items) + 1] = item /\ \A k \in 1..Len(items) : longer[k] = items[k]
  <2>1. longer \in Seq(PlanItem) /\ Len(longer) = Len(items) + 1
    BY <1>3, <1>5, AppendProperties
  <2> QED BY <1>3, <1>5, <2>1, AppendProperties, LenProperties
<1>7. plan'.items = longer /\ plan'.devices = plan.devices /\ plan' \in [devices : SUBSET Receivers, items : Seq(PlanItem)]
  <2> HIDE DEF longer
  <2>1. plan' = [plan EXCEPT !.items = longer]
    BY <1>2 DEF longer
  <2> QED BY <1>3, <1>6, <2>1
<1> HIDE DEF longer
<1>8. P!Used = {items[k].receiver : k \in {j \in 1..Len(items) : items[j].state = "assigned"}}
  BY <1>3 DEF P!Used
<1>9. AssignedOnce(longer)
  <2> SUFFICES ASSUME NEW j \in 1..(Len(items) + 1), NEW k \in 1..(Len(items) + 1),
                      longer[j].state = "assigned", longer[k].state = "assigned",
                      longer[j].receiver = longer[k].receiver
               PROVE  j = k
    BY <1>6 DEF AssignedOnce
  <2>1. CASE j \in 1..Len(items) /\ k \in 1..Len(items)
    BY <1>3, <1>6, <2>1 DEF PlanInv, AssignedOnce
  <2>2. CASE j = Len(items) + 1 /\ k \in 1..Len(items)
    BY <1>5, <1>6, <1>8, <2>2
  <2>3. CASE k = Len(items) + 1 /\ j \in 1..Len(items)
    BY <1>5, <1>6, <1>8, <2>3
  <2> QED BY <1>3, <2>1, <2>2, <2>3
<1>10. WaitsRightly(longer, plan.devices)
  <2> SUFFICES ASSUME NEW k \in 1..(Len(items) + 1), longer[k] = P!Item("waiting", Any)
               PROVE  plan.devices \subseteq {longer[j].receiver : j \in 1..(k - 1)}
    BY <1>6 DEF WaitsRightly
  <2>1. CASE k \in 1..Len(items)
    <3>1. plan.devices \subseteq {items[j].receiver : j \in 1..(k - 1)}
      BY <1>3, <1>6, <2>1 DEF PlanInv, WaitsRightly
    <3>2. \A j \in 1..(k - 1) : longer[j].receiver = items[j].receiver
      BY <1>3, <1>6, <2>1
    <3> QED BY <3>1, <3>2
  <2>2. CASE k = Len(items) + 1
    <3>1. plan.devices \subseteq P!Used
      BY <1>5, <1>6, <2>2
    <3>2. k - 1 = Len(items)
      BY <1>3, <2>2
    <3>3. \A d \in P!Used : \E j \in 1..Len(items) : d = longer[j].receiver
      BY <1>6, <1>8
    <3> QED BY <3>1, <3>2, <3>3
  <2> QED BY <1>3, <2>1, <2>2
<1>11. Len(longer) <= Len(profile.pins)
  BY <1>1, <1>3, <1>6
<1>12. PlanTypes'
  BY <1>1, <1>7, <1>11 DEF PlanInv, PlanTypes
<1> QED BY <1>1, <1>7, <1>9, <1>10, <1>12 DEF PlanInv, SharesGiven

LEMMA LaunchKeeps == ASSUME PlanInv, P!Launch PROVE PlanInv'
<1> DEFINE total == Cardinality(P!Capturing)
<1>1. UNCHANGED <<profile, connected, refreshes, plan>> /\ P!Capturing # {}
  BY DEF P!Launch
<1>2. PICK order \in P!InOrder(P!Capturing) :
          /\ live' = [phase |-> "running", receivers |-> [k \in DOMAIN order |-> plan.items[order[k]].receiver]]
          /\ pieces' = [k \in DOMAIN order |->
                [channels |-> P!Share(profile.channels, k, total),
                 steps |-> P!Share(profile.steps, k, total)]]
  BY DEF P!Launch, P!Cardinality, Cardinality
<1>3. /\ order \in [1..total -> P!Capturing] /\ DOMAIN order = 1..total
      /\ \A j, k \in 1..total : j < k => order[j] < order[k]
  BY <1>2 DEF P!InOrder, P!Cardinality, Cardinality
<1>4. /\ plan.items \in Seq(PlanItem) /\ Len(plan.items) \in Nat /\ DOMAIN plan.items = 1..Len(plan.items)
      /\ connected \subseteq Receivers
  BY LenProperties DEF PlanInv, PlanTypes
<1>5. /\ P!Capturing \subseteq 1..Len(plan.items)
      /\ \A k \in P!Capturing : plan.items[k].state = "assigned" /\ plan.items[k].receiver \in Receivers
  BY <1>4 DEF P!Capturing
<1>6. total \in Nat \ {0}
  <2>1. IsFiniteSet(P!Capturing)
    <3>1. IsFiniteSet(1..Len(plan.items))
      BY <1>4, FS_Interval
    <3> QED BY <1>5, <3>1, FS_Subset
  <2> QED BY <1>1, <2>1, FS_CardinalityType, FS_EmptySet
<1> DEFINE receivers == [k \in 1..total |-> plan.items[order[k]].receiver]
<1> HIDE DEF total
<1>7. /\ live'.phase = "running" /\ live'.receivers = receivers
      /\ live' = [phase |-> "running", receivers |-> receivers]
  BY <1>2, <1>3
<1>8. receivers \in Seq(Receivers) /\ DOMAIN receivers = 1..total
  <2>1. \A k \in 1..total : plan.items[order[k]].receiver \in Receivers
    BY <1>3, <1>5
  <2>2. receivers \in [1..total -> Receivers]
    BY <2>1
  <2> QED BY <1>6, <2>2, SeqDef
<1>9. ASSUME NEW j \in 1..total, NEW k \in 1..total, receivers[j] = receivers[k]
      PROVE  j = k
  <2>1. /\ order[j] \in P!Capturing /\ order[k] \in P!Capturing
        /\ plan.items[order[j]].receiver = plan.items[order[k]].receiver
    BY <1>3, <1>9
  <2>2. order[j] = order[k] /\ order[j] \in Int
    <3>1. /\ order[j] \in DOMAIN plan.items /\ order[k] \in DOMAIN plan.items /\ order[j] \in Int
          /\ plan.items[order[j]].state = "assigned" /\ plan.items[order[k]].state = "assigned"
      <4>1. order[j] \in 1..Len(plan.items) /\ order[k] \in 1..Len(plan.items)
        BY <1>5, <2>1
      <4>2. plan.items[order[j]].state = "assigned" /\ plan.items[order[k]].state = "assigned"
        BY <1>5, <2>1
      <4> QED BY <1>4, <4>1, <4>2
    <3>2. AssignedOnce(plan.items)
      BY DEF PlanInv
    <3> QED BY <2>1, <3>1, <3>2 DEF AssignedOnce
  <2>3. ~(order[j] < order[k]) /\ ~(order[k] < order[j])
    BY <2>2
  <2>4. ~(j < k) /\ ~(k < j)
    BY <1>3, <2>3
  <2> QED BY <1>6, <2>4
<1>10. /\ DOMAIN pieces' = 1..total
       /\ \A k \in 1..total : pieces'[k] = [channels |-> P!Share(profile.channels, k, total),
                                            steps |-> P!Share(profile.steps, k, total)]
  BY <1>2, <1>3
<1> HIDE DEF receivers
<1>11. PlanTypes'
  BY <1>1, <1>7, <1>8, <1>10 DEF PlanInv, PlanTypes
<1>12. SharesGiven'
  BY <1>1, <1>6, <1>10 DEF SharesGiven
<1> QED BY <1>1, <1>7, <1>8, <1>9, <1>11, <1>12 DEF PlanInv

LEMMA PlanStays == ASSUME PlanInv, [P!SurveyPlanNext]_planvars PROVE PlanInv'
<1>1. CASE UNCHANGED planvars
  BY <1>1 DEF planvars, PlanInv, PlanTypes, SharesGiven
<1>2. CASE P!RefreshDevices
  <2>1. /\ refreshes < MaxRefreshes /\ refreshes' = refreshes + 1 /\ connected' \subseteq Receivers
        /\ UNCHANGED <<profile, plan, live, pieces>>
    BY <1>2 DEF P!RefreshDevices
  <2>2. refreshes' \in 0..MaxRefreshes
    BY <2>1, PlanBounds DEF PlanInv, PlanTypes
  <2> QED BY <2>1, <2>2 DEF PlanInv, PlanTypes, SharesGiven
<1>3. CASE P!BeginPlan
  <2>1. /\ live.phase = "idle" /\ plan' = [plan EXCEPT !.devices = connected]
        /\ live' = [live EXCEPT !.phase = "planning"]
        /\ UNCHANGED <<profile, connected, refreshes, pieces>>
    BY <1>3 DEF P!BeginPlan
  <2>2. /\ plan \in [devices : SUBSET Receivers, items : Seq(PlanItem)] /\ plan.items = <<>>
        /\ live \in [phase : {"idle", "planning", "running", "refused"}, receivers : Seq(Receivers)]
        /\ connected \subseteq Receivers
    BY <2>1 DEF PlanInv, PlanTypes
  <2>3. /\ plan' \in [devices : SUBSET Receivers, items : Seq(PlanItem)] /\ plan'.items = <<>>
        /\ live' \in [phase : {"idle", "planning", "running", "refused"}, receivers : Seq(Receivers)]
        /\ live'.phase = "planning" /\ live'.receivers = live.receivers
    BY <2>1, <2>2
  <2>4. DOMAIN <<>> = {}
    OBVIOUS
  <2>5. PlanTypes'
    BY <2>1, <2>2, <2>3 DEF PlanInv, PlanTypes
  <2> QED BY <2>3, <2>4, <2>5 DEF PlanInv, AssignedOnce, WaitsRightly, SharesGiven
<1>4. CASE P!Refuse
  <2>1. /\ live' = [live EXCEPT !.phase = "refused"]
        /\ UNCHANGED <<profile, connected, refreshes, plan, pieces>>
    BY <1>4 DEF P!Refuse
  <2>2. live \in [phase : {"idle", "planning", "running", "refused"}, receivers : Seq(Receivers)]
    BY DEF PlanInv, PlanTypes
  <2>3. /\ live' \in [phase : {"idle", "planning", "running", "refused"}, receivers : Seq(Receivers)]
        /\ live'.phase = "refused" /\ live'.receivers = live.receivers
    BY <2>1, <2>2
  <2>4. PlanTypes'
    BY <2>1, <2>3 DEF PlanInv, PlanTypes
  <2> QED BY <2>1, <2>3, <2>4 DEF PlanInv, SharesGiven
<1> QED BY <1>1, <1>2, <1>3, <1>4, PlanNextKeeps, LaunchKeeps DEF P!SurveyPlanNext

LEMMA PlanMeans == ASSUME PlanInv PROVE P!OneRoleEach /\ P!WaitsForNone /\ P!ScannedOnce /\ P!PlanTypeOK
<1>1. P!OneRoleEach
  <2>1. \A j, k \in DOMAIN plan.items :
          plan.items[j].state = "assigned" /\ plan.items[j] = plan.items[k] => j = k
    BY DEF PlanInv, AssignedOnce
  <2> QED BY <2>1 DEF PlanInv, P!OneRoleEach
<1>2. P!WaitsForNone
  BY DEF PlanInv, WaitsRightly, P!WaitsForNone
<1>3. P!ScannedOnce
  <2> SUFFICES ASSUME live.phase = "running" PROVE P!ScannedOnce
    BY DEF P!ScannedOnce
  <2>1. PICK total \in Nat \ {0} :
            /\ DOMAIN pieces = 1..total
            /\ \A k \in 1..total : pieces[k] = [channels |-> P!Share(profile.channels, k, total),
                                                steps |-> P!Share(profile.steps, k, total)]
    BY DEF PlanInv, SharesGiven
  <2>2. profile.channels \in Nat /\ profile.steps \in Nat
    BY PlanBounds DEF PlanInv, PlanTypes
  <2>3. \A k \in 1..total : /\ pieces[k].channels = P!Share(profile.channels, k, total)
                            /\ pieces[k].steps = P!Share(profile.steps, k, total)
    BY <2>1
  <2>4. /\ \A c \in 1..profile.channels : \E k \in DOMAIN pieces : c \in pieces[k].channels
        /\ \A s \in 1..profile.steps : \E k \in DOMAIN pieces : s \in pieces[k].steps
    <3>1. ASSUME NEW c \in 1..profile.channels PROVE \E k \in 1..total : c \in pieces[k].channels
      <4>1. \E k \in 1..total : c \in P!Share(profile.channels, k, total)
        BY <2>1, <2>2, SharesCover
      <4> QED BY <2>3, <4>1
    <3>2. ASSUME NEW s \in 1..profile.steps PROVE \E k \in 1..total : s \in pieces[k].steps
      <4>1. \E k \in 1..total : s \in P!Share(profile.steps, k, total)
        BY <2>1, <2>2, SharesCover
      <4> QED BY <2>3, <4>1
    <3> QED BY <2>1, <3>1, <3>2
  <2>5. ASSUME NEW j \in 1..total, NEW k \in 1..total, j # k
        PROVE  /\ pieces[j].channels \cap pieces[k].channels = {}
               /\ pieces[j].steps \cap pieces[k].steps = {}
    <3>1. CASE j < k
      BY <2>2, <2>3, <3>1, SharesApart
    <3>2. CASE k < j
      BY <2>2, <2>3, <3>2, SharesApart
    <3> QED BY <2>5, <3>1, <3>2
  <2> QED BY <2>1, <2>4, <2>5 DEF P!ScannedOnce
<1>4. P!PlanTypeOK
  BY DEF PlanInv, PlanTypes, P!PlanTypeOK, P!Items, PlanItem
<1> QED BY <1>1, <1>2, <1>3, <1>4

-----------------------------------------------------------------------------
(* The wideband channel bank: the frames heard and the events made of them.  *)

(* Of a channel: what it was heard in lies in the past and is counted once,  *)
(* a transmission began with a frame, and the others are in no event.       *)
HeardKept(c) ==
    /\ transmission[c] \in SUBSET (1..MaxFrames) /\ since[c] \in 0..MaxFrames
    /\ saved[c] \in [1..MaxFrames -> Nat]
    /\ transmission[c] \subseteq heard[c] /\ heard[c] \subseteq 1..frame
    /\ \A f \in heard[c] : saved[c][f] + (IF f \in transmission[c] THEN 1 ELSE 0) = 1
    /\ \A f \in 1..MaxFrames : f \notin heard[c] => saved[c][f] = 0
    /\ transmission[c] # {} => transmission[c] \subseteq since[c]..frame
    /\ IsFiniteSet(transmission[c]) /\ Cardinality(transmission[c]) < LongestFrames

BankInv ==
    /\ frame \in 0..MaxFrames
    /\ bank \in [running : BOOLEAN, stopped : BOOLEAN]
    /\ DOMAIN transmission = Channels /\ transmission = [c \in Channels |-> transmission[c]]
    /\ DOMAIN since = Channels /\ since = [c \in Channels |-> since[c]]
    /\ DOMAIN heard = Channels /\ heard = [c \in Channels |-> heard[c]]
    /\ DOMAIN saved = Channels /\ saved = [c \in Channels |-> saved[c]]
    /\ \A c \in Channels : HeardKept(c)

LEMMA BankBounds == LongestFrames \in Nat /\ LongestFrames >= 1 /\ MaxFrames \in Nat
BY ListeningAssumption DEF W!MonitorAssumption

LEMMA NothingHeld == IsFiniteSet({}) /\ Cardinality({}) < LongestFrames
BY BankBounds, FS_EmptySet

LEMMA BankBegins == W!MonitorInit => BankInv
<1> SUFFICES ASSUME W!MonitorInit PROVE BankInv
  OBVIOUS
<1>1. ASSUME NEW c \in Channels PROVE HeardKept(c)
  <2>1. /\ transmission[c] = {} /\ since[c] = 0 /\ heard[c] = {} /\ saved[c] = [f \in 1..MaxFrames |-> 0]
        /\ frame = 0
    BY DEF W!MonitorInit, W!Frames
  <2> QED BY <2>1, BankBounds, NothingHeld DEF HeardKept
<1> QED BY <1>1, BankBounds DEF W!MonitorInit, W!Frames, BankInv

LEMMA FinishCounts ==
    ASSUME NEW frames, DOMAIN frames = Channels, W!Finish(frames)
    PROVE  /\ DOMAIN saved' = Channels /\ saved' = [c \in Channels |-> saved'[c]]
           /\ \A c \in Channels : saved'[c] = [f \in 1..MaxFrames |->
                saved[c][f] + IF f \in frames[c] THEN 1 ELSE 0]
BY DEF W!Finish, W!Frames

(* What one frame does to a channel. *)
LEMMA HeardFrame ==
    ASSUME BankInv, NEW c \in Channels, NEW level \in W!Levels, frame < MaxFrames, frame' = frame + 1,
           transmission'[c] = W!Continued(c, level),
           since'[c] = IF W!Continued(c, level) = {} THEN 0 ELSE W!Began(c),
           heard'[c] = IF level = "heard" THEN heard[c] \cup {frame + 1} ELSE heard[c],
           saved'[c] = [f \in 1..MaxFrames |-> saved[c][f] +
             IF f \in (IF level = "quiet" \/ W!Cut(c, level) THEN W!Extended(c, level) ELSE {})
             THEN 1 ELSE 0]
    PROVE  HeardKept(c)'
<1>1. HeardKept(c) /\ frame \in 0..MaxFrames
  BY DEF BankInv
<1> DEFINE n == frame + 1
<1>2. n \in 1..MaxFrames /\ n \notin heard[c] /\ n \notin transmission[c] /\ saved[c][n] = 0
  BY <1>1, BankBounds DEF HeardKept
<1>3. \A f \in 1..MaxFrames : saved[c][f] \in Nat
  BY <1>1 DEF HeardKept
<1>8. saved[c] = [f \in 1..MaxFrames |-> saved[c][f]] /\ \A f \in 1..MaxFrames : saved[c][f] + 0 = saved[c][f]
  <2>1. saved[c] \in [1..MaxFrames -> Nat]
    BY <1>1 DEF HeardKept
  <2>2. saved[c] = [f \in 1..MaxFrames |-> saved[c][f]]
    BY <2>1
  <2> QED BY <1>3, <2>2
<1>4. CASE level = "quiet"
  <2>1. /\ transmission'[c] = {} /\ since'[c] = 0 /\ heard'[c] = heard[c]
        /\ saved'[c] = [f \in 1..MaxFrames |-> saved[c][f] + IF f \in transmission[c] THEN 1 ELSE 0]
    BY <1>4 DEF W!Continued, W!Extended, W!Cut
  <2>2. heard[c] \subseteq 1..frame' /\ heard[c] \subseteq 1..MaxFrames
    BY <1>1, BankBounds DEF HeardKept
  <2>3. saved'[c] \in [1..MaxFrames -> Nat]
    BY <1>3, <2>1
  <2>4. \A f \in heard[c] : saved'[c][f] = 1
    BY <1>1, <2>1, <2>2 DEF HeardKept
  <2>5. \A f \in 1..MaxFrames : f \notin heard[c] => saved'[c][f] = 0
    BY <1>1, <1>3, <2>1 DEF HeardKept
  <2>6. IsFiniteSet(transmission'[c]) /\ Cardinality(transmission'[c]) < LongestFrames
    BY <2>1, NothingHeld
  <2>7. transmission'[c] = {} /\ since'[c] \in 0..MaxFrames
    BY <2>1, BankBounds
  <2> QED BY <2>1, <2>2, <2>3, <2>4, <2>5, <2>6, <2>7 DEF HeardKept
<1>5. CASE level = "heard" /\ W!Cut(c, level)
  <2>1. /\ transmission'[c] = {} /\ since'[c] = 0 /\ heard'[c] = heard[c] \cup {n}
        /\ saved'[c] = [f \in 1..MaxFrames |-> saved[c][f] + IF f \in transmission[c] \cup {n} THEN 1 ELSE 0]
    BY <1>5 DEF W!Continued, W!Extended
  <2>2. heard'[c] \subseteq 1..frame' /\ heard'[c] \subseteq 1..MaxFrames
    BY <1>1, <1>2, <2>1, BankBounds DEF HeardKept
  <2>3. saved'[c] \in [1..MaxFrames -> Nat]
    BY <1>3, <2>1
  <2>4. ASSUME NEW f \in heard'[c] PROVE saved'[c][f] = 1
    <3>1. CASE f = n
      BY <1>2, <2>1, <3>1
    <3>2. CASE f \in heard[c] /\ f # n
      BY <1>1, <2>1, <2>2, <3>2 DEF HeardKept
    <3> QED BY <2>1, <3>1, <3>2
  <2>5. \A f \in 1..MaxFrames : f \notin heard'[c] => saved'[c][f] = 0
    BY <1>1, <1>3, <2>1 DEF HeardKept
  <2>6. IsFiniteSet(transmission'[c]) /\ Cardinality(transmission'[c]) < LongestFrames
    BY <2>1, NothingHeld
  <2>7. transmission'[c] = {} /\ since'[c] \in 0..MaxFrames
    BY <2>1, BankBounds
  <2> QED BY <2>1, <2>2, <2>3, <2>4, <2>5, <2>6, <2>7 DEF HeardKept
<1>6. CASE level = "heard" /\ ~W!Cut(c, level)
  <2>1. /\ transmission'[c] = transmission[c] \cup {n} /\ since'[c] = W!Began(c)
        /\ heard'[c] = heard[c] \cup {n}
        /\ saved'[c] = [f \in 1..MaxFrames |-> saved[c][f] + 0]
    BY <1>6 DEF W!Continued, W!Extended
  <2>2. saved'[c] = saved[c]
    BY <1>3, <1>8, <2>1
  <2>3. /\ W!Began(c) \in 0..MaxFrames /\ W!Began(c) <= n
        /\ transmission[c] \cup {n} \subseteq W!Began(c)..n
        /\ n + 1 - W!Began(c) < LongestFrames
    <3>1. ~(frame + 2 - W!Began(c) >= LongestFrames)
      BY <1>6 DEF W!Cut
    <3>2. CASE transmission[c] = {}
      <4>1. W!Began(c) = n
        BY <3>2 DEF W!Began
      <4> QED BY <1>1, <1>2, <3>1, <3>2, <4>1, BankBounds
    <3>3. CASE transmission[c] # {}
      <4>1. W!Began(c) = since[c] /\ transmission[c] \subseteq since[c]..frame
            /\ since[c] \in 0..MaxFrames
        BY <1>1, <3>3 DEF W!Began, HeardKept
      <4>2. since[c] <= frame
        BY <1>1, <3>3, <4>1, BankBounds
      <4> QED BY <1>1, <1>2, <3>1, <4>1, <4>2, BankBounds
    <3> QED BY <3>2, <3>3
  <2>4. IsFiniteSet(transmission'[c]) /\ Cardinality(transmission'[c]) < LongestFrames
    <3>1. /\ IsFiniteSet(W!Began(c)..n)
          /\ Cardinality(W!Began(c)..n) = n - W!Began(c) + 1
      <4>1. W!Began(c) \in Int /\ n \in Int
        BY <1>1, <2>3
      <4>2. /\ IsFiniteSet(W!Began(c)..n)
            /\ Cardinality(W!Began(c)..n) = IF W!Began(c) > n THEN 0 ELSE n - W!Began(c) + 1
        <5> HIDE DEF n
        <5> QED BY <4>1, FS_Interval
      <4> QED BY <2>3, <4>1, <4>2
    <3>2. /\ IsFiniteSet(transmission'[c])
          /\ Cardinality(transmission'[c]) <= Cardinality(W!Began(c)..n)
      BY <2>1, <2>3, <3>1, FS_Subset
    <3>3. Cardinality(transmission'[c]) \in Nat
      BY <3>2, FS_CardinalityType
    <3> QED BY <1>1, <2>3, <3>1, <3>2, <3>3, BankBounds
  <2>5. heard'[c] \subseteq 1..frame' /\ transmission'[c] \in SUBSET (1..MaxFrames)
        /\ transmission'[c] \subseteq heard'[c]
    <3>1. heard[c] \subseteq 1..frame /\ transmission[c] \subseteq heard[c] /\ transmission[c] \subseteq 1..MaxFrames
      BY <1>1 DEF HeardKept
    <3>2. 1..frame \subseteq 1..frame' /\ n \in 1..frame'
      BY <1>1
    <3> HIDE DEF n
    <3> QED BY <1>2, <2>1, <3>1, <3>2
  <2>6. ASSUME NEW f \in heard'[c]
        PROVE  saved'[c][f] + (IF f \in transmission'[c] THEN 1 ELSE 0) = 1
    <3>1. CASE f = n
      BY <1>2, <2>1, <2>2, <3>1
    <3>2. CASE f # n /\ f \in heard[c]
      BY <1>1, <2>1, <2>2, <3>2 DEF HeardKept
    <3> QED BY <2>1, <3>1, <3>2
  <2>7. \A f \in 1..MaxFrames : f \notin heard'[c] => saved'[c][f] = 0
    BY <1>1, <2>1, <2>2 DEF HeardKept
  <2>8. saved'[c] \in [1..MaxFrames -> Nat]
    BY <1>1, <2>2 DEF HeardKept
  <2>9. since'[c] \in 0..MaxFrames /\ transmission'[c] \subseteq since'[c]..frame'
    BY <2>1, <2>3
  <2> QED BY <2>4, <2>5, <2>6, <2>7, <2>8, <2>9 DEF HeardKept
<1>7. CASE level = "broken"
  <2>1. /\ transmission'[c] = transmission[c] /\ heard'[c] = heard[c]
        /\ since'[c] = IF transmission[c] = {} THEN 0 ELSE since[c]
        /\ saved'[c] = [f \in 1..MaxFrames |-> saved[c][f] + 0]
    BY <1>7 DEF W!Continued, W!Extended, W!Cut, W!Began
  <2>2. saved'[c] = saved[c]
    BY <1>3, <1>8, <2>1
  <2>3. heard[c] \subseteq 1..frame'
    BY <1>1, BankBounds DEF HeardKept
  <2>4. since'[c] \in 0..MaxFrames
    BY <1>1, <2>1, BankBounds DEF HeardKept
  <2>5. transmission'[c] # {} => transmission'[c] \subseteq since'[c]..frame'
    BY <1>1, <2>1, BankBounds DEF HeardKept
  <2> QED BY <1>1, <2>1, <2>2, <2>3, <2>4, <2>5 DEF HeardKept
<1> QED BY <1>4, <1>5, <1>6, <1>7 DEF W!Levels

LEMMA HearFrameKeeps == ASSUME BankInv, W!HearFrame PROVE BankInv'
<1>1. /\ frame < MaxFrames /\ frame' = frame + 1 /\ UNCHANGED bank
      /\ frame \in 0..MaxFrames
  BY DEF W!HearFrame, BankInv
<1>2. PICK level \in [Channels -> W!Levels] :
        /\ transmission' = [c \in Channels |-> W!Continued(c, level[c])]
        /\ since' = [c \in Channels |-> IF W!Continued(c, level[c]) = {} THEN 0 ELSE W!Began(c)]
        /\ heard' = [c \in Channels |-> IF level[c] = "heard" THEN heard[c] \cup {frame + 1} ELSE heard[c]]
        /\ W!Finish([c \in Channels |->
             IF level[c] = "quiet" \/ W!Cut(c, level[c]) THEN W!Extended(c, level[c]) ELSE {}])
  BY DEF W!HearFrame
<1> DEFINE frames == [c \in Channels |->
             IF level[c] = "quiet" \/ W!Cut(c, level[c]) THEN W!Extended(c, level[c]) ELSE {}]
<1>3. /\ DOMAIN saved' = Channels /\ saved' = [c \in Channels |-> saved'[c]]
      /\ \A c \in Channels : saved'[c] = [f \in 1..MaxFrames |->
           saved[c][f] + IF f \in frames[c] THEN 1 ELSE 0]
  <2>1. DOMAIN frames = Channels /\ W!Finish(frames)
    BY <1>2
  <2> HIDE DEF frames
  <2> QED BY <2>1, FinishCounts
<1>4. ASSUME NEW c \in Channels PROVE HeardKept(c)'
  <2>1. level[c] \in W!Levels
    OBVIOUS
  <2> QED BY <1>1, <1>2, <1>3, <2>1, HeardFrame
<1>5. frame' \in 0..MaxFrames
  BY <1>1, BankBounds
<1>6. /\ DOMAIN transmission' = Channels /\ transmission' = [c \in Channels |-> transmission'[c]]
      /\ DOMAIN since' = Channels /\ since' = [c \in Channels |-> since'[c]]
      /\ DOMAIN heard' = Channels /\ heard' = [c \in Channels |-> heard'[c]]
  BY <1>2
<1> QED BY <1>1, <1>3, <1>4, <1>5, <1>6 DEF BankInv

LEMMA EndBankKeeps == ASSUME BankInv, W!EndBank PROVE BankInv'
<1>1. /\ bank' = [bank EXCEPT !.running = FALSE] /\ W!Finish(transmission)
      /\ transmission' = [c \in Channels |-> {}] /\ since' = [c \in Channels |-> 0]
      /\ UNCHANGED <<frame, heard>> /\ DOMAIN transmission = Channels
  BY DEF W!EndBank, BankInv
<1>2. /\ DOMAIN saved' = Channels /\ saved' = [c \in Channels |-> saved'[c]]
      /\ \A c \in Channels : saved'[c] = [f \in 1..MaxFrames |->
           saved[c][f] + IF f \in transmission[c] THEN 1 ELSE 0]
  BY <1>1, FinishCounts
<1>3. ASSUME NEW c \in Channels PROVE HeardKept(c)'
  <2>1. /\ transmission'[c] = {} /\ since'[c] = 0 /\ heard'[c] = heard[c] /\ frame' = frame
        /\ saved'[c] = [f \in 1..MaxFrames |-> saved[c][f] + IF f \in transmission[c] THEN 1 ELSE 0]
        /\ HeardKept(c) /\ frame \in 0..MaxFrames
    BY <1>1, <1>2 DEF BankInv
  <2>2. heard[c] \subseteq 1..frame /\ heard[c] \subseteq 1..MaxFrames
    BY <2>1, BankBounds DEF HeardKept
  <2>3. \A f \in 1..MaxFrames : saved[c][f] \in Nat
    BY <2>1 DEF HeardKept
  <2>4. saved'[c] \in [1..MaxFrames -> Nat]
    BY <2>1, <2>3
  <2>5. \A f \in heard[c] : saved'[c][f] = 1
    BY <2>1, <2>2 DEF HeardKept
  <2>6. \A f \in 1..MaxFrames : f \notin heard[c] => saved'[c][f] = 0
    BY <2>1, <2>3 DEF HeardKept
  <2> QED BY <2>1, <2>2, <2>4, <2>5, <2>6, NothingHeld, BankBounds DEF HeardKept
<1>4. bank' \in [running : BOOLEAN, stopped : BOOLEAN]
  BY <1>1 DEF BankInv
<1> QED BY <1>1, <1>2, <1>3, <1>4 DEF BankInv

LEMMA BankStays == ASSUME BankInv, [W!MonitorNext]_bankvars PROVE BankInv'
<1>1. CASE UNCHANGED bankvars
  BY <1>1 DEF bankvars, BankInv, HeardKept
<1>2. CASE W!SkipFrame
  <2>1. /\ frame < MaxFrames /\ frame' = frame + 1 /\ frame \in 0..MaxFrames
        /\ UNCHANGED <<bank, transmission, since, heard, saved>>
    BY <1>2 DEF W!SkipFrame, BankInv
  <2>2. frame' \in 0..MaxFrames /\ \A m \in Nat : m..frame \subseteq m..frame'
    BY <2>1, BankBounds
  <2>3. ASSUME NEW c \in Channels PROVE HeardKept(c)'
    <3>1. HeardKept(c)
      BY DEF BankInv
    <3>2. heard[c] \subseteq 1..frame' /\ (transmission[c] # {} => transmission[c] \subseteq since[c]..frame')
      BY <2>2, <3>1 DEF HeardKept
    <3> QED BY <2>1, <3>1, <3>2 DEF HeardKept
  <2> QED BY <2>1, <2>2, <2>3 DEF BankInv
<1>3. CASE W!StopBank
  BY <1>3 DEF W!StopBank, BankInv, HeardKept
<1> QED BY <1>1, <1>2, <1>3, HearFrameKeeps, EndBankKeeps DEF W!MonitorNext

LEMMA BankMeans == ASSUME BankInv PROVE W!EachFrameOnce /\ W!TransmissionBounded /\ W!MonitorTypeOK
<1>1. W!EachFrameOnce /\ W!TransmissionBounded
  <2>1. \A c \in Channels : /\ Cardinality(transmission[c]) < LongestFrames
                            /\ \A f \in heard[c] : saved[c][f] + (IF f \in transmission[c] THEN 1 ELSE 0) = 1
    BY DEF BankInv, HeardKept
  <2>2. W!EachFrameOnce
    BY <2>1 DEF W!EachFrameOnce
  <2>3. W!TransmissionBounded
    BY <2>1 DEF W!TransmissionBounded, W!Cardinality, Cardinality
  <2> QED BY <2>2, <2>3
<1>2. ASSUME NEW c \in Channels
      PROVE  /\ transmission[c] \in SUBSET (1..MaxFrames) /\ since[c] \in 0..MaxFrames
             /\ heard[c] \in SUBSET (1..MaxFrames) /\ saved[c] \in [1..MaxFrames -> Nat]
  <2>1. HeardKept(c) /\ frame \in 0..MaxFrames
    BY DEF BankInv
  <2>2. 1..frame \subseteq 1..MaxFrames
    BY <2>1, BankBounds
  <2> QED BY <2>1, <2>2 DEF HeardKept
<1>3. /\ transmission \in [Channels -> SUBSET (1..MaxFrames)] /\ since \in [Channels -> 0..MaxFrames]
      /\ heard \in [Channels -> SUBSET (1..MaxFrames)] /\ saved \in [Channels -> [1..MaxFrames -> Nat]]
  BY <1>2 DEF BankInv
<1> QED BY <1>1, <1>3 DEF BankInv, W!MonitorTypeOK, W!Frames

-----------------------------------------------------------------------------
(* The gains of a Mapper job.                                                *)

Levels == {"overloaded", "quiet", "fair"}
Ladder == {15, 90, 140, 190, 240, 290, 340, 420}
LNA == {8 * i : i \in 0..5}
VGA == {2 * i : i \in 0..31}
Gains == [rtl : Ladder \cup {10 * v : v \in SavedVGA}, lna : LNA, vga : VGA, amp : BOOLEAN]

(* In automatic mode an RTL tuner stays on its ladder, and a HackRF counts   *)
(* only the quiet capture that was the last.                                *)
GainsInv ==
    /\ device \in [kind : {"HackRF", "RTL-SDR"}, calibrated : BOOLEAN, lna : SavedLNA, vga : SavedVGA,
                   amp : BOOLEAN]
    /\ mode \in [gain : {"auto", "manual", "saved"}, amp : {"auto", "on", "off"}]
    /\ gains \in Gains
    /\ mode.gain = "auto" => gains.rtl \in Ladder
    /\ quiet \in 0..1
    /\ readings \in Seq(Levels) /\ Len(readings) <= 2
    /\ G!Hack /\ mode.gain = "auto" /\ quiet = 1 => G!Last("quiet")

LEMMA LadderIs ==
    /\ G!Steps = <<15, 90, 140, 190, 240, 290, 340, 420>> /\ Len(G!Steps) = 8 /\ DOMAIN G!Steps = 1..8
    /\ {G!Steps[i] : i \in DOMAIN G!Steps} = Ladder
    /\ G!Steps[1] = 15 /\ G!Steps[Len(G!Steps)] = 420
<1>1. /\ G!Steps = <<15, 90, 140, 190, 240, 290, 340, 420>> /\ Len(G!Steps) = 8
      /\ DOMAIN G!Steps = 1..8
  BY DEF G!Steps
<1>2. /\ G!Steps[1] = 15 /\ G!Steps[2] = 90 /\ G!Steps[3] = 140 /\ G!Steps[4] = 190
      /\ G!Steps[5] = 240 /\ G!Steps[6] = 290 /\ G!Steps[7] = 340 /\ G!Steps[8] = 420
  BY DEF G!Steps
<1>3. 1..8 = {1, 2, 3, 4, 5, 6, 7, 8}
  OBVIOUS
<1>4. {G!Steps[i] : i \in 1..8} = Ladder
  BY <1>2, <1>3 DEF Ladder
<1> QED BY <1>1, <1>2, <1>4

LEMMA SavedAre == SavedLNA \subseteq LNA /\ SavedVGA \subseteq VGA
BY ListeningAssumption DEF G!TuningAssumption, LNA, VGA

LEMMA GainsBegin == G!TuningInit => GainsInv
<1> SUFFICES ASSUME G!TuningInit PROVE GainsInv
  OBVIOUS
<1>1. /\ device \in [kind : {"HackRF", "RTL-SDR"}, calibrated : BOOLEAN, lna : SavedLNA, vga : SavedVGA,
                     amp : BOOLEAN]
      /\ mode \in [gain : {"auto", "manual", "saved"}, amp : {"auto", "on", "off"}]
      /\ quiet = 0 /\ readings = <<>>
  BY DEF G!TuningInit
<1>2. PICK lna \in SavedLNA, vga \in SavedVGA :
        gains = [rtl |-> IF ~G!Hack /\ mode.gain = "saved" THEN G!Saved(10 * device.vga, G!Steps[1]) ELSE G!Steps[1],
                 lna |-> IF G!Hack /\ mode.gain # "manual" THEN G!Saved(device.lna, 16) ELSE lna,
                 vga |-> IF G!Hack /\ mode.gain # "manual" THEN G!Saved(device.vga, 16) ELSE vga,
                 amp |-> G!Hack /\ \/ mode.amp = "on"
                                   \/ mode = [gain |-> "saved", amp |-> "auto"] /\ device.calibrated /\ device.amp]
  BY DEF G!TuningInit
<1>3. 16 \in LNA /\ 16 \in VGA
  <2>1. 16 = 8 * 2 /\ 2 \in 0..5 /\ 16 = 2 * 8 /\ 8 \in 0..31
    OBVIOUS
  <2> QED BY <2>1 DEF LNA, VGA
<1>4. device.lna \in LNA /\ device.vga \in SavedVGA /\ lna \in LNA /\ vga \in VGA /\ device.vga \in VGA
  BY <1>1, SavedAre
<1>5. gains.rtl \in Ladder \cup {10 * v : v \in SavedVGA} /\ (mode.gain = "auto" => gains.rtl = 15)
  BY <1>2, <1>4, LadderIs DEF G!Saved, Ladder
<1>6. gains.lna \in LNA /\ gains.vga \in VGA /\ gains.amp \in BOOLEAN
  BY <1>2, <1>3, <1>4 DEF G!Saved, G!Hack
<1>7. gains \in Gains
  BY <1>2, <1>5, <1>6 DEF Gains
<1>8. <<>> \in Seq(Levels) /\ Len(<<>>) <= 2
  OBVIOUS
<1> QED BY <1>1, <1>5, <1>7, <1>8 DEF GainsInv, Ladder

-----------------------------------------------------------------------------
(* One capture. *)

LEMMA Notes ==
    ASSUME readings \in Seq(Levels), Len(readings) <= 2, NEW reading \in Levels, G!Noted(reading)
    PROVE  /\ readings' \in Seq(Levels) /\ Len(readings') <= 2 /\ readings' # <<>>
           /\ readings'[Len(readings')] = reading
           /\ readings # <<>> => readings' = <<readings[Len(readings)], reading>>
<1>1. Len(readings) \in Nat /\ DOMAIN readings = 1..Len(readings)
  BY LenProperties
<1>2. CASE Len(readings) < 2
  <2>1. readings' = Append(readings, reading)
    BY <1>2 DEF G!Noted
  <2>2. readings' \in Seq(Levels) /\ Len(readings') = Len(readings) + 1 /\ readings'[Len(readings')] = reading
    BY <2>1, AppendProperties
  <2>3. readings # <<>> => readings' = <<readings[Len(readings)], reading>>
    <3> SUFFICES ASSUME readings # <<>> PROVE readings' = <<readings[Len(readings)], reading>>
      OBVIOUS
    <3>1. Len(readings) = 1
      BY <1>1, <1>2
    <3>2. readings'[1] = readings[1] /\ Len(readings') = 2 /\ readings'[2] = reading
      BY <1>1, <2>1, <2>2, <3>1, AppendProperties
    <3>3. readings' = [i \in 1..2 |-> readings'[i]]
      BY <2>2, <3>2
    <3>4. <<readings[1], reading>> = [i \in 1..2 |-> <<readings[1], reading>>[i]]
      OBVIOUS
    <3> QED BY <3>1, <3>2, <3>3, <3>4
  <2> QED BY <1>1, <1>2, <2>2, <2>3
<1>3. CASE Len(readings) = 2
  <2>1. readings' = <<readings[2], reading>> /\ readings[2] \in Levels
    BY <1>1, <1>3 DEF G!Noted
  <2> QED BY <1>3, <2>1
<1> QED BY <1>1, <1>2, <1>3

(* A rung of the ladder: lowering never raises, raising never lowers.       *)
LEMMA LoweredRTL ==
    ASSUME gains \in Gains, gains.rtl \in Ladder, G!LowerRTL
    PROVE  /\ gains' \in Gains /\ gains'.rtl \in Ladder
           /\ gains' = [gains EXCEPT !.rtl = gains'.rtl]
           /\ gains'.rtl < gains.rtl \/ (gains'.rtl = gains.rtl /\ gains.rtl = 15)
<1>1. /\ G!Steps[1] = 15 /\ G!Steps[2] = 90 /\ G!Steps[3] = 140 /\ G!Steps[4] = 190
      /\ G!Steps[5] = 240 /\ G!Steps[6] = 290 /\ G!Steps[7] = 340 /\ G!Steps[8] = 420
      /\ Len(G!Steps) = 8
  BY DEF G!Steps
<1> DEFINE above == {i \in 2..Len(G!Steps) : gains.rtl >= G!Steps[i]}
           top == CHOOSE i \in above : \A j \in above : j <= i
           rung == IF above = {} THEN G!Steps[1] ELSE G!Steps[top - 1]
<1>2. gains' = [gains EXCEPT !.rtl = rung]
  BY DEF G!LowerRTL
<1>3. 2..8 = {2, 3, 4, 5, 6, 7, 8}
  OBVIOUS
<1>4. rung \in Ladder /\ (rung < gains.rtl \/ (rung = gains.rtl /\ gains.rtl = 15))
  <2>1. CASE gains.rtl = 15
    <3>1. above = {}
      BY <1>1, <1>3, <2>1
    <3> QED BY <1>1, <2>1, <3>1 DEF Ladder
  <2>2. CASE gains.rtl # 15
    <3>1. 2 \in above /\ above \subseteq 2..8 /\ above # {}
      BY <1>1, <1>3, <2>2 DEF Ladder
    <3>2. \E i \in above : \A j \in above : j <= i
      <4>1. CASE gains.rtl = 90
        BY <1>1, <1>3, <4>1
      <4>2. CASE gains.rtl = 140
        BY <1>1, <1>3, <4>2
      <4>3. CASE gains.rtl = 190
        BY <1>1, <1>3, <4>3
      <4>4. CASE gains.rtl = 240
        BY <1>1, <1>3, <4>4
      <4>5. CASE gains.rtl = 290
        BY <1>1, <1>3, <4>5
      <4>6. CASE gains.rtl = 340
        BY <1>1, <1>3, <4>6
      <4>7. CASE gains.rtl = 420
        BY <1>1, <1>3, <4>7
      <4> QED BY <2>2, <4>1, <4>2, <4>3, <4>4, <4>5, <4>6, <4>7 DEF Ladder
    <3>3. top \in above
      BY <3>2
    <3>4. top \in {2, 3, 4, 5, 6, 7, 8} /\ gains.rtl >= G!Steps[top]
      BY <1>1, <1>3, <3>1, <3>3
    <3>5. G!Steps[top - 1] \in Ladder /\ G!Steps[top - 1] < G!Steps[top] /\ G!Steps[top] \in Int
      <4> HIDE DEF top, above
      <4> QED BY <1>1, <3>4 DEF Ladder
    <3>6. gains.rtl \in Int /\ G!Steps[top - 1] \in Int
      BY <3>5 DEF Ladder
    <3> HIDE DEF top, above
    <3> QED BY <3>1, <3>4, <3>5, <3>6
  <2> QED BY <2>1, <2>2
<1> HIDE DEF rung
<1>5. gains'.rtl = rung
  BY <1>2 DEF Gains
<1>6. gains' \in Gains
  BY <1>2, <1>4 DEF Gains
<1> QED BY <1>2, <1>4, <1>5, <1>6

LEMMA RaisedRTL ==
    ASSUME gains \in Gains, gains.rtl \in Ladder, G!RaiseRTL
    PROVE  /\ gains' \in Gains /\ gains'.rtl \in Ladder
           /\ gains' = [gains EXCEPT !.rtl = gains'.rtl]
           /\ gains'.rtl > gains.rtl \/ (gains'.rtl = gains.rtl /\ gains.rtl = 420)
<1>1. /\ G!Steps[1] = 15 /\ G!Steps[2] = 90 /\ G!Steps[3] = 140 /\ G!Steps[4] = 190
      /\ G!Steps[5] = 240 /\ G!Steps[6] = 290 /\ G!Steps[7] = 340 /\ G!Steps[8] = 420
      /\ DOMAIN G!Steps = 1..8
  BY DEF G!Steps
<1> DEFINE above == {i \in DOMAIN G!Steps : gains.rtl < G!Steps[i]}
           least == CHOOSE i \in above : \A j \in above : i <= j
           rung == IF above = {} THEN gains.rtl ELSE G!Steps[least]
<1>2. gains' = [gains EXCEPT !.rtl = rung]
  BY DEF G!RaiseRTL
<1>3. 1..8 = {1, 2, 3, 4, 5, 6, 7, 8}
  OBVIOUS
<1>4. rung \in Ladder /\ (rung > gains.rtl \/ (rung = gains.rtl /\ gains.rtl = 420))
  <2>1. CASE gains.rtl = 420
    <3>1. above = {}
      BY <1>1, <1>3, <2>1
    <3> QED BY <2>1, <3>1 DEF Ladder
  <2>2. CASE gains.rtl # 420
    <3>1. 8 \in above /\ above \subseteq 1..8 /\ above # {}
      BY <1>1, <1>3, <2>2 DEF Ladder
    <3>2. \E i \in above : \A j \in above : i <= j
      <4>1. CASE gains.rtl = 15
        BY <1>1, <1>3, <4>1
      <4>2. CASE gains.rtl = 90
        BY <1>1, <1>3, <4>2
      <4>3. CASE gains.rtl = 140
        BY <1>1, <1>3, <4>3
      <4>4. CASE gains.rtl = 190
        BY <1>1, <1>3, <4>4
      <4>5. CASE gains.rtl = 240
        BY <1>1, <1>3, <4>5
      <4>6. CASE gains.rtl = 290
        BY <1>1, <1>3, <4>6
      <4>7. CASE gains.rtl = 340
        BY <1>1, <1>3, <4>7
      <4> QED BY <2>2, <4>1, <4>2, <4>3, <4>4, <4>5, <4>6, <4>7 DEF Ladder
    <3>3. least \in above
      BY <3>2
    <3>4. least \in {1, 2, 3, 4, 5, 6, 7, 8} /\ gains.rtl < G!Steps[least]
      BY <1>1, <1>3, <3>1, <3>3
    <3>5. G!Steps[least] \in Ladder
      <4> HIDE DEF least, above
      <4> QED BY <1>1, <3>4 DEF Ladder
    <3> HIDE DEF least, above
    <3> QED BY <3>1, <3>4, <3>5
  <2> QED BY <2>1, <2>2
<1> HIDE DEF rung
<1>5. gains'.rtl = rung
  BY <1>2 DEF Gains
<1>6. gains' \in Gains
  BY <1>2, <1>4 DEF Gains
<1> QED BY <1>2, <1>4, <1>5, <1>6

LEMMA GainSteps ==
    ASSUME NEW lna \in LNA, NEW vga \in VGA
    PROVE  /\ lna \in Int /\ vga \in Int /\ lna <= 40 /\ vga <= 62 /\ lna >= 0 /\ vga >= 0
           /\ lna >= 8 => lna - 8 \in LNA
           /\ lna < 40 => lna + 8 \in LNA
           /\ vga >= 4 => vga - 4 \in VGA
           /\ vga < 58 => vga + 4 \in VGA
           /\ 62 \in VGA
<1>1. PICK i \in 0..5 : lna = 8 * i
  BY DEF LNA
<1>2. PICK j \in 0..31 : vga = 2 * j
  BY DEF VGA
<1>3. lna >= 8 => i - 1 \in 0..5 /\ lna - 8 = 8 * (i - 1)
  BY <1>1
<1>4. lna < 40 => i + 1 \in 0..5 /\ lna + 8 = 8 * (i + 1)
  BY <1>1
<1>5. vga >= 4 => j - 2 \in 0..31 /\ vga - 4 = 2 * (j - 2)
  BY <1>2
<1>6. vga < 58 => j + 2 \in 0..31 /\ vga + 4 = 2 * (j + 2)
  BY <1>2
<1>7. 62 = 2 * 31 /\ 31 \in 0..31
  OBVIOUS
<1>8. lna \in Int /\ vga \in Int /\ lna <= 40 /\ vga <= 62 /\ lna >= 0 /\ vga >= 0
  BY <1>1, <1>2
<1>9. (lna >= 8 => lna - 8 \in LNA) /\ (lna < 40 => lna + 8 \in LNA)
  BY <1>3, <1>4 DEF LNA
<1>10. (vga >= 4 => vga - 4 \in VGA) /\ (vga < 58 => vga + 4 \in VGA) /\ 62 \in VGA
  BY <1>5, <1>6, <1>7 DEF VGA
<1> QED BY <1>8, <1>9, <1>10

(* Which gain a HackRF gives up, and which it takes. *)
LEMMA LoweredHackRF ==
    ASSUME gains \in Gains, G!LowerHackRF
    PROVE  /\ gains' \in Gains /\ gains'.rtl = gains.rtl
           /\ gains'.lna <= gains.lna /\ gains'.vga <= gains.vga /\ (gains'.amp => gains.amp)
           /\ \/ gains'.lna < gains.lna \/ gains'.vga < gains.vga \/ (gains.amp /\ ~gains'.amp)
              \/ gains.vga < 4 /\ gains.lna < 8 /\ (mode.amp = "auto" => ~gains.amp)
<1>1. gains.lna \in LNA /\ gains.vga \in VGA /\ gains.amp \in BOOLEAN
  BY DEF Gains
<1> DEFINE lna == gains.lna
           vga == gains.vga
<1>6. lna \in Int /\ vga \in Int
  BY <1>1, GainSteps
<1>2. CASE mode.amp = "auto" /\ gains.amp
  <2>1. gains' = [gains EXCEPT !.amp = FALSE]
    BY <1>2 DEF G!LowerHackRF
  <2>2. gains' \in Gains /\ gains'.lna = lna /\ gains'.vga = vga /\ gains'.rtl = gains.rtl
    BY <1>1, <2>1 DEF Gains
  <2>3. gains'.amp = FALSE
    BY <1>1, <2>1 DEF Gains
  <2>4. lna <= lna /\ vga <= vga
    BY <1>6
  <2> QED BY <1>2, <2>2, <2>3, <2>4
<1>3. CASE ~(mode.amp = "auto" /\ gains.amp) /\ gains.vga >= 4
  <2>1. gains' = [gains EXCEPT !.vga = gains.vga - 4]
    BY <1>3 DEF G!LowerHackRF
  <2>2. gains.vga - 4 \in VGA
    BY <1>1, <1>3, GainSteps
  <2>3. gains' \in Gains /\ gains'.vga = gains.vga - 4 /\ gains'.lna = gains.lna /\ gains'.amp = gains.amp
        /\ gains'.rtl = gains.rtl
    BY <2>1, <2>2 DEF Gains
  <2> QED BY <1>1, <1>6, <2>3
<1>4. CASE ~(mode.amp = "auto" /\ gains.amp) /\ ~(gains.vga >= 4) /\ gains.lna >= 8
  <2>1. gains' = [gains EXCEPT !.lna = gains.lna - 8]
    BY <1>4 DEF G!LowerHackRF
  <2>2. gains.lna - 8 \in LNA
    BY <1>1, <1>4, GainSteps
  <2>3. gains' \in Gains /\ gains'.lna = gains.lna - 8 /\ gains'.vga = gains.vga /\ gains'.amp = gains.amp
        /\ gains'.rtl = gains.rtl
    BY <2>1, <2>2 DEF Gains
  <2> QED BY <1>1, <1>6, <2>3
<1>5. CASE ~(mode.amp = "auto" /\ gains.amp) /\ ~(gains.vga >= 4) /\ ~(gains.lna >= 8)
  <2>1. gains' = gains
    BY <1>5 DEF G!LowerHackRF
  <2> QED BY <1>1, <1>6, <1>5, <2>1
<1> QED BY <1>2, <1>3, <1>4, <1>5

LEMMA RaisedHackRF ==
    ASSUME gains \in Gains, G!RaiseHackRF
    PROVE  /\ gains' \in Gains /\ gains'.rtl = gains.rtl
           /\ \/ gains'.lna > gains.lna \/ gains'.vga > gains.vga \/ (gains'.amp /\ ~gains.amp)
              \/ gains.vga = 62 /\ gains.lna = 40 /\ (mode.amp = "auto" => gains.amp)
<1>1. gains.lna \in LNA /\ gains.vga \in VGA /\ gains.amp \in BOOLEAN
  BY DEF Gains
<1> DEFINE lna == gains.lna
           vga == gains.vga
<1>6. lna \in Int /\ vga \in Int
  BY <1>1, GainSteps
<1>2. CASE mode.amp = "auto" /\ ~gains.amp
  <2>1. gains' = [gains EXCEPT !.amp = TRUE]
    BY <1>2 DEF G!RaiseHackRF
  <2> QED BY <1>1, <1>2, <2>1 DEF Gains
<1>3. CASE ~(mode.amp = "auto" /\ ~gains.amp) /\ gains.lna < 40 /\ gains.lna <= gains.vga + 8
  <2>1. gains' = [gains EXCEPT !.lna = gains.lna + 8]
    BY <1>3 DEF G!RaiseHackRF
  <2>2. gains.lna + 8 \in LNA
    BY <1>1, <1>3, GainSteps
  <2>3. gains' \in Gains /\ gains'.lna = gains.lna + 8 /\ gains'.rtl = gains.rtl
    BY <2>1, <2>2 DEF Gains
  <2> QED BY <1>1, <1>6, <2>3
<1>4. CASE ~(mode.amp = "auto" /\ ~gains.amp) /\ ~(gains.lna < 40 /\ gains.lna <= gains.vga + 8) /\ gains.vga < 62
  <2> DEFINE v == IF gains.vga < 58 THEN gains.vga + 4 ELSE 62
  <2>1. gains' = [gains EXCEPT !.vga = v]
    BY <1>4 DEF G!RaiseHackRF
  <2>2. v \in VGA /\ v > gains.vga
    BY <1>1, <1>4, GainSteps
  <2> HIDE DEF v
  <2>3. gains' \in Gains /\ gains'.vga = v /\ gains'.rtl = gains.rtl
    BY <2>1, <2>2 DEF Gains
  <2> QED BY <2>2, <2>3
<1>5. CASE ~(mode.amp = "auto" /\ ~gains.amp) /\ ~(gains.lna < 40 /\ gains.lna <= gains.vga + 8) /\ ~(gains.vga < 62)
  <2>1. gains' = gains
    BY <1>5 DEF G!RaiseHackRF
  <2>2. gains.vga = 62 /\ gains.lna = 40
    BY <1>1, <1>5, GainSteps
  <2> QED BY <1>1, <1>5, <2>1, <2>2
<1> QED BY <1>2, <1>3, <1>4, <1>5

-----------------------------------------------------------------------------
(* What a capture may change, by the receiver and what was read. *)

LEMMA GainsAreIntegers ==
    ASSUME gains \in Gains
    PROVE  gains.lna \in Int /\ gains.vga \in Int /\ gains.amp \in BOOLEAN /\ gains.rtl \in Int
<1>1. gains.lna \in LNA /\ gains.vga \in VGA /\ gains.amp \in BOOLEAN
  BY DEF Gains
<1>2. gains.lna \in Int /\ gains.vga \in Int
  BY <1>1, GainSteps
<1>3. \A v \in SavedVGA : v \in Int
  BY SavedAre, GainSteps DEF VGA
<1>4. gains.rtl \in Ladder \/ \E v \in SavedVGA : gains.rtl = 10 * v
  BY DEF Gains
<1>5. gains.rtl \in Int
  BY <1>3, <1>4 DEF Ladder
<1> QED BY <1>1, <1>2, <1>5

(* The step of a receiver whose gains adapt, and what it does to them.      *)
LEMMA Adapts ==
    ASSUME GainsInv, mode.gain = "auto", NEW reading \in Levels,
           IF G!Hack THEN G!AdjustHackRF(reading) ELSE G!AdjustRTL(reading)
    PROVE  /\ gains' \in Gains /\ gains'.rtl \in Ladder /\ quiet' \in 0..1
           /\ reading = "overloaded" => ~G!Louder /\ (G!Softer \/ G!Least)
           /\ reading = "fair" => ~G!Louder
           /\ reading = "quiet" /\ quiet # 1 => ~G!Louder
           /\ reading = "quiet" /\ quiet = 1 => G!Louder \/ G!Most
           /\ G!Hack /\ quiet' = 1 => reading = "quiet"
<1>1. gains \in Gains /\ gains.rtl \in Ladder /\ quiet \in 0..1
  BY DEF GainsInv
<1>2. /\ gains.lna \in Int /\ gains.vga \in Int /\ gains.amp \in BOOLEAN /\ gains.rtl \in Int
      /\ Ladder \subseteq Int
  BY <1>1, GainsAreIntegers DEF Ladder
<1>3. UNCHANGED gains => ~G!Louder
  BY <1>2 DEF G!Louder
<1>4. quiet' = (IF quiet = 1 THEN 0 ELSE 1) => quiet' \in 0..1
  OBVIOUS
<1>5. reading \in {"overloaded", "quiet", "fair"}
  BY DEF Levels
<1>6. CASE G!Hack
  <2>1. CASE reading = "overloaded"
    <3>1. G!LowerHackRF /\ quiet' = 0
      BY <1>6, <2>1 DEF G!AdjustHackRF
    <3>2. /\ gains' \in Gains /\ gains'.rtl = gains.rtl
          /\ gains'.lna <= gains.lna /\ gains'.vga <= gains.vga /\ (gains'.amp => gains.amp)
          /\ \/ gains'.lna < gains.lna \/ gains'.vga < gains.vga \/ (gains.amp /\ ~gains'.amp)
             \/ gains.vga < 4 /\ gains.lna < 8 /\ (mode.amp = "auto" => ~gains.amp)
      BY <1>1, <3>1, LoweredHackRF
    <3>3. gains'.lna \in Int /\ gains'.vga \in Int
      BY <3>2, GainSteps DEF Gains
    <3>4. ~(gains'.rtl > gains.rtl) /\ ~(gains'.lna > gains.lna) /\ ~(gains'.vga > gains.vga)
      BY <1>2, <3>2, <3>3
    <3>5. ~G!Louder
      BY <3>2, <3>4 DEF G!Louder
    <3>6. G!Softer \/ G!Least
      BY <1>6, <3>2 DEF G!Softer, G!Least
    <3> QED BY <1>1, <2>1, <3>1, <3>2, <3>5, <3>6
  <2>2. CASE reading = "quiet"
    <3>1. G!Counted /\ (IF G!Second THEN G!RaiseHackRF ELSE UNCHANGED gains)
      BY <1>6, <2>2 DEF G!AdjustHackRF
    <3>2. quiet' \in 0..1
      BY <1>4, <3>1 DEF G!Counted, G!Second
    <3>3. CASE quiet = 1
      <4>1. /\ gains' \in Gains /\ gains'.rtl = gains.rtl
            /\ \/ gains'.lna > gains.lna \/ gains'.vga > gains.vga \/ (gains'.amp /\ ~gains.amp)
               \/ gains.vga = 62 /\ gains.lna = 40 /\ (mode.amp = "auto" => gains.amp)
        BY <1>1, <3>1, <3>3, RaisedHackRF DEF G!Second
      <4>2. G!Louder \/ G!Most
        BY <1>6, <4>1 DEF G!Louder, G!Most
      <4> QED BY <1>1, <2>2, <3>2, <3>3, <4>1, <4>2
    <3>4. CASE quiet # 1
      <4>1. UNCHANGED gains
        BY <3>1, <3>4 DEF G!Second
      <4> QED BY <1>1, <1>3, <2>2, <3>2, <3>4, <4>1
    <3> QED BY <3>3, <3>4
  <2>3. CASE reading = "fair"
    <3>1. quiet' = 0 /\ UNCHANGED gains
      BY <1>6, <2>3 DEF G!AdjustHackRF
    <3> QED BY <1>1, <1>3, <2>3, <3>1
  <2> QED BY <1>5, <2>1, <2>2, <2>3
<1>7. CASE ~G!Hack
  <2>1. CASE reading = "overloaded"
    <3>1. G!LowerRTL /\ quiet' = quiet
      BY <1>7, <2>1 DEF G!AdjustRTL
    <3>2. /\ gains' \in Gains /\ gains'.rtl \in Ladder /\ gains' = [gains EXCEPT !.rtl = gains'.rtl]
          /\ gains'.rtl < gains.rtl \/ (gains'.rtl = gains.rtl /\ gains.rtl = 15)
      BY <1>1, <3>1, LoweredRTL
    <3>3. gains'.lna = gains.lna /\ gains'.vga = gains.vga /\ gains'.amp = gains.amp
      BY <1>1, <3>2 DEF Gains
    <3>4. ~(gains'.rtl > gains.rtl) /\ ~(gains'.lna > gains.lna) /\ ~(gains'.vga > gains.vga)
      BY <1>2, <3>2, <3>3
    <3>5. ~G!Louder
      BY <3>3, <3>4 DEF G!Louder
    <3>6. G!Softer \/ G!Least
      BY <1>7, <3>2, LadderIs DEF G!Softer, G!Least
    <3> QED BY <1>1, <1>7, <2>1, <3>1, <3>2, <3>5, <3>6
  <2>2. CASE reading = "quiet"
    <3>1. G!Counted /\ (IF G!Second THEN G!RaiseRTL ELSE UNCHANGED gains)
      BY <1>7, <2>2 DEF G!AdjustRTL
    <3>2. quiet' \in 0..1
      BY <1>4, <3>1 DEF G!Counted, G!Second
    <3>3. CASE quiet = 1
      <4>1. /\ gains' \in Gains /\ gains'.rtl \in Ladder
            /\ gains'.rtl > gains.rtl \/ (gains'.rtl = gains.rtl /\ gains.rtl = 420)
        BY <1>1, <3>1, <3>3, RaisedRTL DEF G!Second
      <4>2. G!Louder \/ G!Most
        BY <1>7, <4>1, LadderIs DEF G!Louder, G!Most
      <4> QED BY <1>7, <2>2, <3>2, <3>3, <4>1, <4>2
    <3>4. CASE quiet # 1
      <4>1. UNCHANGED gains
        BY <3>1, <3>4 DEF G!Second
      <4> QED BY <1>1, <1>3, <1>7, <2>2, <3>2, <3>4, <4>1
    <3> QED BY <3>3, <3>4
  <2>3. CASE reading = "fair"
    <3>1. quiet' = 0 /\ UNCHANGED gains
      BY <1>7, <2>3 DEF G!AdjustRTL
    <3> QED BY <1>1, <1>3, <2>3, <3>1
  <2> QED BY <1>5, <2>1, <2>2, <2>3
<1> QED BY <1>6, <1>7

(* The steps that GainsFollow allows. *)
Risen == G!Louder => IF G!Hack THEN readings' = <<"quiet", "quiet">> ELSE G!Last("quiet")'
Lowered == mode.gain = "auto" /\ G!Last("overloaded")' => (G!Softer /\ ~G!Louder) \/ G!Least
Asked == mode.gain # "auto" => G!Applied' = G!Applied
Reached == mode.gain = "auto" /\ G!Second /\ G!Last("quiet")' => G!Louder \/ G!Most

(* One capture: the invariant, and the four promises about the step.        *)
LEMMA CaptureStep ==
    ASSUME GainsInv, [G!TuningNext]_gainvars
    PROVE  GainsInv' /\ [Risen]_gainvars /\ [Lowered]_gainvars /\ [Asked]_gainvars /\ [Reached]_gainvars
<1>1. CASE UNCHANGED gainvars
  <2>1. GainsInv'
    BY <1>1 DEF gainvars, GainsInv, G!Hack, G!Last
  <2> QED BY <1>1, <2>1
<1>2. ASSUME NEW reading \in Levels, G!Observe(reading)
      PROVE  GainsInv' /\ Risen /\ Lowered /\ Asked /\ Reached
  <2>1. UNCHANGED <<device, mode>> /\ G!Noted(reading)
    BY <1>2 DEF G!Observe
  <2>2. readings \in Seq(Levels) /\ Len(readings) <= 2 /\ gains \in Gains /\ quiet \in 0..1
    BY DEF GainsInv
  <2>3. /\ readings' \in Seq(Levels) /\ Len(readings') <= 2 /\ readings' # <<>>
        /\ readings'[Len(readings')] = reading
        /\ readings # <<>> => readings' = <<readings[Len(readings)], reading>>
    BY <2>1, <2>2, Notes
  <2>4. \A r : G!Last(r)' <=> r = reading
    BY <2>3 DEF G!Last
  <2>5. CASE mode.gain # "auto"
    <3>1. UNCHANGED <<gains, quiet>>
      BY <1>2, <2>5 DEF G!Observe
    <3>2. ~G!Louder
      BY <2>2, <3>1, GainsAreIntegers DEF G!Louder
    <3>3. G!Applied' = G!Applied
      BY <2>1, <3>1 DEF G!Applied, G!Hack
    <3>4. GainsInv'
      BY <2>1, <2>3, <2>5, <3>1 DEF GainsInv
    <3> QED BY <2>5, <3>2, <3>3, <3>4 DEF Risen, Lowered, Asked, Reached
  <2>6. CASE mode.gain = "auto"
    <3>1. IF G!Hack THEN G!AdjustHackRF(reading) ELSE G!AdjustRTL(reading)
      BY <1>2, <2>6 DEF G!Observe
    <3>2. /\ gains' \in Gains /\ gains'.rtl \in Ladder /\ quiet' \in 0..1
          /\ reading = "overloaded" => ~G!Louder /\ (G!Softer \/ G!Least)
          /\ reading = "fair" => ~G!Louder
          /\ reading = "quiet" /\ quiet # 1 => ~G!Louder
          /\ reading = "quiet" /\ quiet = 1 => G!Louder \/ G!Most
          /\ G!Hack /\ quiet' = 1 => reading = "quiet"
      BY <2>6, <3>1, Adapts
    <3>3. G!Hack' <=> G!Hack
      BY <2>1 DEF G!Hack
    <3>4. GainsInv'
      BY <2>1, <2>3, <2>4, <3>2, <3>3 DEF GainsInv
    <3>5. G!Louder => reading = "quiet" /\ quiet = 1
      BY <3>2 DEF Levels
    <3>6. G!Louder /\ G!Hack => readings' = <<"quiet", "quiet">>
      <4> SUFFICES ASSUME G!Louder, G!Hack PROVE readings' = <<"quiet", "quiet">>
        OBVIOUS
      <4>1. G!Last("quiet")
        BY <2>6, <3>5 DEF GainsInv
      <4> QED BY <2>3, <3>5, <4>1 DEF G!Last
    <3>7. Risen
      BY <2>4, <3>5, <3>6 DEF Risen
    <3>8. Lowered /\ Asked /\ Reached
      BY <2>4, <2>6, <3>2 DEF G!Second, Lowered, Asked, Reached
    <3> QED BY <3>4, <3>7, <3>8
  <2> QED BY <2>5, <2>6
<1>3. CASE G!TuningNext
  <2>1. PICK reading \in Levels : G!Observe(reading)
    BY <1>3 DEF G!TuningNext, G!Readings, Levels
  <2> QED BY <1>2, <2>1
<1> QED BY <1>1, <1>3

LEMMA GainsMean == GainsInv => G!TuningTypeOK
BY LadderIs DEF GainsInv, G!TuningTypeOK, Gains, LNA, VGA, Levels, G!Readings

-----------------------------------------------------------------------------
(* Tuner loops: whom they follow, and what their decoders hear.              *)

Batch == [count : 0..BatchFrames, at : SUBSET Frequencies]
Request == [frequency : Frequencies, decoder : Decoders]
Update == [request : Request, own : BOOLEAN]
Job == [frequency : Frequencies, at : SUBSET Frequencies]
Looping == [at : {"none", "poll", "results", "read", "ended"}, center : Centers, request : Request,
            own : BOOLEAN, batch : Batch, busy : BOOLEAN]

(* What each session keeps.  Nothing is queued or decoded for a session      *)
(* before its loop; one that is not busy has no decoder job and no result;   *)
(* a request checked against its own spectrum was checked against its center. *)
LoopKept(s) ==
    /\ loop[s] \in Looping
    /\ updates[s] \in Seq(Update) /\ Len(updates[s]) <= 1
    /\ decoding[s] \in [jobs : SUBSET Job, result : Seq(Job)]
    /\ loop[s].at = "none" => ~loop[s].busy /\ updates[s] = <<>> /\ spectrum.by # s /\ s # tuned
    /\ s = tuned /\ loop[s].at # "ended" =>
         wanted = IF updates[s] = <<>> THEN loop[s].request ELSE Head(updates[s]).request
    /\ spectrum.by = s /\ loop[s].at # "ended" => spectrum.center = loop[s].center
    /\ loop[s].at \notin {"none", "ended"} =>
         /\ loop[s].own => loop[s].request.frequency \in MCWindow(loop[s].center)
         /\ updates[s] # <<>> /\ Head(updates[s]).own =>
              Head(updates[s]).request.frequency \in MCWindow(loop[s].center)
    /\ loop[s].batch.at \subseteq {loop[s].request.frequency}
    /\ loop[s].at # "ended" /\ ~loop[s].busy => decoding[s].jobs = {} /\ decoding[s].result = <<>>
    /\ Len(decoding[s].result) <= 1
    /\ \A a, b \in decoding[s].jobs : a = b /\ decoding[s].result = <<>>
    /\ \A job \in decoding[s].jobs : job.at = {job.frequency}
    /\ decoding[s].result # <<>> => Head(decoding[s].result).at = {Head(decoding[s].result).frequency}

TunerInv ==
    /\ tuned \in 0..MaxSessions /\ stopped \subseteq 1..MaxSessions /\ wanted \in Request
    /\ spectrum \in [by : 0..MaxSessions, center : Centers \cup {0}]
    /\ DOMAIN updates = 1..MaxSessions /\ DOMAIN loop = 1..MaxSessions
    /\ DOMAIN decoding = 1..MaxSessions
    /\ recorded \in Seq(Frequencies) /\ Len(recorded) \in {0, 2}
    /\ recorded # <<>> => recorded[1] = recorded[2]
    /\ counted \in [tunes : 0..MaxTunes, outside : 0..MaxOutside]
    /\ \A s \in 1..MaxSessions : LoopKept(s)

LEMMA TunerBounds ==
    /\ MaxSessions \in Nat /\ BatchFrames \in Nat \ {0} /\ MaxTunes \in Nat /\ MaxOutside \in Nat
    /\ Frequencies # {} /\ Decoders # {} /\ Centers # {}
BY ListeningAssumption DEF T!TunerAssumption

LEMMA NoLoopIs ==
    /\ T!NoLoop.request \in Request /\ T!NoLoop \in Looping
    /\ T!NoLoop.at = "none" /\ ~T!NoLoop.busy /\ T!NoLoop.batch.at = {}
<1>1. (CHOOSE r \in T!Requests : TRUE) \in Request
  <2>1. \E r \in T!Requests : TRUE
    <3>1. PICK f \in Frequencies, d \in Decoders : TRUE
      BY TunerBounds
    <3>2. [frequency |-> f, decoder |-> d] \in T!Requests
      BY DEF T!Requests
    <3> QED BY <3>2
  <2> QED BY <2>1 DEF T!Requests, Request
<1>2. (CHOOSE c \in Centers : TRUE) \in Centers
  BY TunerBounds
<1>3. T!NoFrames \in Batch /\ T!NoFrames.at = {}
  BY TunerBounds DEF T!NoFrames, Batch
<1> QED BY <1>1, <1>2, <1>3 DEF T!NoLoop, Looping

LEMMA TunerBegins == T!TunerInit => TunerInv
<1> SUFFICES ASSUME T!TunerInit PROVE TunerInv
  OBVIOUS
<1>1. ASSUME NEW s \in 1..MaxSessions PROVE LoopKept(s)
  <2>1. /\ loop[s] = T!NoLoop /\ updates[s] = <<>> /\ decoding[s] = [jobs |-> {}, result |-> <<>>]
        /\ spectrum.by = 0 /\ tuned = 0 /\ s # 0
    BY TunerBounds DEF T!TunerInit, T!Sessions
  <2>2. <<>> \in Seq(Update) /\ <<>> \in Seq(Job) /\ Len(<<>>) <= 1
    OBVIOUS
  <2>3. decoding[s].jobs = {} /\ decoding[s].result = <<>>
    BY <2>1
  <2>4. decoding[s] \in [jobs : SUBSET Job, result : Seq(Job)]
    BY <2>1, <2>2
  <2> QED BY <2>1, <2>2, <2>3, <2>4, NoLoopIs DEF LoopKept
<1>2. wanted \in Request
  BY NoLoopIs DEF T!TunerInit
<1> QED BY <1>1, <1>2, TunerBounds DEF T!TunerInit, T!Sessions, TunerInv

-----------------------------------------------------------------------------
(* Requests. *)

(* Sessions that a step does not touch. *)
LEMMA OtherSession ==
    ASSUME NEW s, LoopKept(s), loop'[s] = loop[s], updates'[s] = updates[s],
           decoding'[s] = decoding[s], tuned' # s \/ (tuned' = tuned /\ wanted' = wanted),
           spectrum'.by # s \/ spectrum' = spectrum
    PROVE  LoopKept(s)'
BY DEF LoopKept

LEMMA StartTunerKeeps ==
    ASSUME TunerInv, NEW r \in T!Requests, NEW c \in Centers, T!StartTuner(r, c)
    PROVE  TunerInv'
<1>1. PICK s \in 1..MaxSessions :
        /\ loop[s].at = "none" /\ tuned' = s
        /\ loop' = [loop EXCEPT ![s] =
             IF r.frequency \in MCWindow(c)
             THEN [T!NoLoop EXCEPT !.at = "poll", !.center = c, !.request = r]
             ELSE [T!NoLoop EXCEPT !.at = "ended"]]
  BY DEF T!StartTuner, T!Sessions
<1>2. /\ wanted' = r /\ r \in Request
      /\ UNCHANGED <<stopped, spectrum, updates, decoding, recorded, counted>>
  BY DEF T!StartTuner, T!Requests, Request
<1>3. /\ DOMAIN loop = 1..MaxSessions /\ LoopKept(s)
      /\ \A o \in 1..MaxSessions : LoopKept(o)
  BY DEF TunerInv
<1>4. loop'[s] \in Looping /\ loop'[s].batch.at = {} /\ ~loop'[s].busy
  <2>1. CASE r.frequency \in MCWindow(c)
    BY <1>1, <1>2, <1>3, <2>1, NoLoopIs DEF Looping
  <2>2. CASE r.frequency \notin MCWindow(c)
    BY <1>1, <1>2, <1>3, <2>2, NoLoopIs DEF Looping
  <2> QED BY <2>1, <2>2
<1>5. \/ /\ loop'[s].at = "poll" /\ loop'[s].request = r /\ loop'[s].center = c
         /\ r.frequency \in MCWindow(c)
      \/ loop'[s].at = "ended"
  BY <1>1, <1>2, <1>3, NoLoopIs DEF Looping
<1>6. updates[s] = <<>> /\ spectrum.by # s
  <2> USE DEF LoopKept
  <2>1. LoopKept(s) /\ loop[s].at = "none"
    BY <1>1, <1>3
  <2> QED BY <2>1
<1>7. decoding[s].jobs = {} /\ decoding[s].result = <<>>
  <2>1. LoopKept(s) /\ loop[s].at = "none"
    BY <1>1, <1>3
  <2>2. loop[s].at # "ended" /\ ~loop[s].busy
    BY <2>1 DEF LoopKept
  <2> QED BY <2>1, <2>2 DEF LoopKept
<1>8. LoopKept(s)'
  BY <1>1, <1>2, <1>3, <1>4, <1>5, <1>6, <1>7 DEF LoopKept
<1>9. ASSUME NEW o \in 1..MaxSessions, o # s PROVE LoopKept(o)'
  BY <1>1, <1>2, <1>3, <1>9, OtherSession
<1>10. DOMAIN loop' = 1..MaxSessions
  BY <1>1, <1>3
<1> QED BY <1>1, <1>2, <1>8, <1>9, <1>10 DEF TunerInv

LEMMA StopTunerKeeps == ASSUME TunerInv, T!StopTuner PROVE TunerInv'
<1>1. /\ tuned' = 0 /\ stopped' = stopped \cup {tuned} /\ tuned # 0 /\ 0 \in 0..MaxSessions
      /\ UNCHANGED <<wanted, spectrum, updates, loop, decoding, recorded, counted>>
  BY TunerBounds DEF T!StopTuner
<1>2. ASSUME NEW o \in 1..MaxSessions PROVE LoopKept(o)'
  BY <1>1, OtherSession DEF TunerInv
<1>3. stopped' \subseteq 1..MaxSessions
  BY <1>1, TunerBounds DEF TunerInv
<1> QED BY <1>1, <1>2, <1>3 DEF TunerInv

LEMMA SoftwareTuneKeeps ==
    ASSUME TunerInv, NEW r \in T!Requests, T!SoftwareTune(r)
    PROVE  TunerInv'
<1> DEFINE u == T!Update(r)
<1>1. /\ tuned # 0 /\ r.frequency \in MCWindow(spectrum.center) /\ counted.tunes < MaxTunes
      /\ updates' = [updates EXCEPT ![tuned] = <<u>>] /\ wanted' = r
      /\ counted' = [counted EXCEPT !.tunes = @ + 1]
      /\ UNCHANGED <<tuned, stopped, spectrum, loop, decoding, recorded>>
  BY DEF T!SoftwareTune, T!Tunable, T!Accept
<1>2. r \in Request /\ u \in Update /\ u.request = r /\ (u.own <=> spectrum.by = tuned)
  BY DEF T!Update, T!Requests, Request, Update
<1>3. tuned \in 1..MaxSessions
  BY <1>1, TunerBounds DEF TunerInv
<1>4. updates'[tuned] = <<u>> /\ DOMAIN updates' = 1..MaxSessions
  BY <1>1, <1>3 DEF TunerInv
<1>5. <<u>> \in Seq(Update) /\ Len(<<u>>) = 1 /\ Head(<<u>>) = u /\ <<u>> # <<>>
  BY <1>2
<1>6. LoopKept(tuned)
  BY <1>3 DEF TunerInv
<1>7. LoopKept(tuned)'
  <2> HIDE DEF u
  <2> QED BY <1>1, <1>2, <1>4, <1>5, <1>6 DEF LoopKept
<1>8. ASSUME NEW o \in 1..MaxSessions, o # tuned PROVE LoopKept(o)'
  BY <1>1, <1>3, <1>8, OtherSession DEF TunerInv
<1>9. counted' \in [tunes : 0..MaxTunes, outside : 0..MaxOutside]
  <2>1. counted.tunes \in 0..MaxTunes /\ counted.tunes + 1 \in 0..MaxTunes
    BY <1>1, TunerBounds DEF TunerInv
  <2> QED BY <1>1, <2>1 DEF TunerInv
<1> QED BY <1>1, <1>2, <1>3, <1>4, <1>7, <1>8, <1>9 DEF TunerInv

LEMMA ForeignSpectrumKeeps ==
    ASSUME TunerInv, NEW c \in Centers, T!ForeignSpectrum(c)
    PROVE  TunerInv'
<1>1. /\ spectrum' = [by |-> 0, center |-> c] /\ counted.outside < MaxOutside
      /\ counted' = [counted EXCEPT !.outside = @ + 1]
      /\ UNCHANGED <<tuned, stopped, wanted, updates, loop, decoding, recorded>>
  BY DEF T!ForeignSpectrum
<1>2. counted' \in [tunes : 0..MaxTunes, outside : 0..MaxOutside]
  BY <1>1, TunerBounds DEF TunerInv
<1>3. ASSUME NEW o \in 1..MaxSessions PROVE LoopKept(o)'
  BY <1>1, OtherSession DEF TunerInv
<1>4. spectrum' \in [by : 0..MaxSessions, center : Centers \cup {0}]
  BY <1>1, TunerBounds
<1> QED BY <1>1, <1>2, <1>3, <1>4 DEF TunerInv

-----------------------------------------------------------------------------
(* The loop. *)

(* A step of a session's loop or of its decoders, and what it leaves alone.  *)
LEMMA OneLoopMoves ==
    ASSUME TunerInv, NEW s \in 1..MaxSessions, LoopKept(s)',
           DOMAIN loop' = 1..MaxSessions, DOMAIN updates' = 1..MaxSessions,
           DOMAIN decoding' = 1..MaxSessions,
           \A o \in 1..MaxSessions : o # s =>
             loop'[o] = loop[o] /\ updates'[o] = updates[o] /\ decoding'[o] = decoding[o],
           UNCHANGED <<tuned, stopped, wanted>>,
           spectrum' = spectrum
             \/ (spectrum' \in [by : 0..MaxSessions, center : Centers] /\ spectrum'.by = s),
           recorded' \in Seq(Frequencies), Len(recorded') \in {0, 2},
           recorded' # <<>> => recorded'[1] = recorded'[2],
           counted' \in [tunes : 0..MaxTunes, outside : 0..MaxOutside]
    PROVE  TunerInv'
<1>1. ASSUME NEW o \in 1..MaxSessions, o # s PROVE LoopKept(o)'
  BY <1>1, OtherSession DEF TunerInv
<1>2. spectrum' \in [by : 0..MaxSessions, center : Centers \cup {0}]
  BY DEF TunerInv
<1> QED BY <1>1, <1>2 DEF TunerInv

LEMMA EndKeeps ==
    ASSUME TunerInv, NEW s \in 1..MaxSessions, T!End(s), counted' \in [tunes : 0..MaxTunes, outside : 0..MaxOutside],
           UNCHANGED <<tuned, stopped, wanted, spectrum, updates, decoding, recorded>>
    PROVE  TunerInv'
<1>1. loop' = [loop EXCEPT ![s] = [T!NoLoop EXCEPT !.at = "ended"]]
  BY DEF T!End
<1>2. LoopKept(s) /\ DOMAIN loop = 1..MaxSessions
  BY DEF TunerInv
<1>3. loop'[s] \in Looping /\ loop'[s].at = "ended" /\ loop'[s].batch.at = {}
  BY <1>1, <1>2, NoLoopIs DEF Looping
<1>4. LoopKept(s)'
  BY <1>2, <1>3 DEF LoopKept
<1> QED BY <1>1, <1>2, <1>4, OneLoopMoves DEF TunerInv

LEMMA EndsKeep ==
    ASSUME TunerInv, NEW s \in 1..MaxSessions, T!SeeStop(s) \/ T!StreamFails(s)
    PROVE  TunerInv'
<1>1. CASE T!SeeStop(s)
  BY <1>1, EndKeeps DEF T!SeeStop, TunerInv
<1>2. CASE T!StreamFails(s)
  <2>1. counted.outside < MaxOutside /\ counted' = [counted EXCEPT !.outside = @ + 1]
    BY <1>2 DEF T!StreamFails
  <2>2. counted.outside \in 0..MaxOutside /\ counted.outside + 1 \in 0..MaxOutside
    BY <2>1, TunerBounds DEF TunerInv
  <2>3. counted' \in [tunes : 0..MaxTunes, outside : 0..MaxOutside]
    BY <2>1, <2>2 DEF TunerInv
  <2> QED BY <1>2, <2>3, EndKeeps DEF T!StreamFails
<1> QED BY <1>1, <1>2

LEMMA TakeUpdateKeeps ==
    ASSUME TunerInv, NEW s \in 1..MaxSessions, T!TakeUpdate(s)
    PROVE  TunerInv'
<1> DEFINE u == Head(updates[s])
<1>1. /\ loop[s].at = "poll" /\ updates[s] # <<>>
      /\ loop' = [loop EXCEPT ![s] = T!Retuned(loop[s], u)] /\ updates' = [updates EXCEPT ![s] = <<>>]
      /\ UNCHANGED <<tuned, stopped, wanted, spectrum, decoding, recorded, counted>>
  BY DEF T!TakeUpdate
<1>2. /\ LoopKept(s) /\ DOMAIN loop = 1..MaxSessions /\ DOMAIN updates = 1..MaxSessions
      /\ DOMAIN decoding = 1..MaxSessions
  BY DEF TunerInv
<1>3. u \in Update
  BY <1>1, <1>2, HeadTailProperties DEF LoopKept
<1>4. T!NoFrames \in Batch /\ T!NoFrames.at = {}
  BY TunerBounds DEF T!NoFrames, Batch
<1>5. /\ loop'[s] \in Looping /\ loop'[s].at = "results" /\ loop'[s].request = u.request
      /\ loop'[s].own = u.own /\ loop'[s].batch.at = {} /\ loop'[s].busy = loop[s].busy
      /\ loop'[s].center = loop[s].center
  <2> HIDE DEF u
  <2>1. loop[s] \in Looping
    BY <1>2 DEF LoopKept
  <2> QED BY <1>1, <1>2, <1>3, <1>4, <2>1 DEF T!Retuned, Looping, Update
<1>6. updates'[s] = <<>> /\ <<>> \in Seq(Update) /\ Len(<<>>) = 0
  BY <1>1, <1>2
<1>7. LoopKept(s)'
  <2>1. s = tuned => wanted = u.request
    BY <1>1, <1>2 DEF LoopKept
  <2>2. u.own => u.request.frequency \in MCWindow(loop[s].center)
    BY <1>1, <1>2 DEF LoopKept
  <2> HIDE DEF u
  <2> QED BY <1>1, <1>2, <1>5, <1>6, <2>1, <2>2 DEF LoopKept
<1> QED BY <1>1, <1>2, <1>7, OneLoopMoves DEF TunerInv

(* A loop goes on with what it had. *)
LEMMA GoesOn ==
    ASSUME TunerInv, NEW s \in 1..MaxSessions, loop[s].at \notin {"none", "ended"},
           NEW step \in {"poll", "results", "read"}, T!Goto(s, step)
    PROVE  /\ loop'[s] \in Looping /\ loop'[s].at = step /\ loop'[s].request = loop[s].request
           /\ loop'[s].own = loop[s].own /\ loop'[s].batch = loop[s].batch
           /\ loop'[s].busy = loop[s].busy /\ loop'[s].center = loop[s].center
           /\ LoopKept(s) /\ DOMAIN loop' = 1..MaxSessions
           /\ \A o \in 1..MaxSessions : o # s => loop'[o] = loop[o]
<1>1. loop[s] \in Looping /\ DOMAIN loop = 1..MaxSessions /\ LoopKept(s)
  BY DEF TunerInv, LoopKept
<1>2. loop' = [loop EXCEPT ![s] = [loop[s] EXCEPT !.at = step]]
  BY DEF T!Goto
<1>3. loop'[s] = [loop[s] EXCEPT !.at = step]
  BY <1>1, <1>2
<1> QED BY <1>1, <1>2, <1>3 DEF Looping

LEMMA NoUpdateKeeps ==
    ASSUME TunerInv, NEW s \in 1..MaxSessions, T!NoUpdate(s)
    PROVE  TunerInv'
<1>1. /\ loop[s].at = "poll" /\ T!Goto(s, "results")
      /\ UNCHANGED <<tuned, stopped, wanted, spectrum, updates, decoding, recorded, counted>>
  BY DEF T!NoUpdate
<1>2. LoopKept(s)'
  BY <1>1, GoesOn DEF LoopKept
<1> QED BY <1>1, <1>2, GoesOn, OneLoopMoves DEF TunerInv

LEMMA MonitorSamplesKeeps ==
    ASSUME TunerInv, NEW s \in 1..MaxSessions, T!MonitorSamples(s)
    PROVE  TunerInv'
<1>1. /\ loop[s].at = "read" /\ T!Goto(s, "poll") /\ spectrum' = [by |-> s, center |-> loop[s].center]
      /\ UNCHANGED <<tuned, stopped, wanted, updates, decoding, recorded, counted>>
  BY DEF T!MonitorSamples, T!FrameRead, T!Measured
<1>2. LoopKept(s)'
  BY <1>1, GoesOn DEF LoopKept
<1>3. spectrum' \in [by : 0..MaxSessions, center : Centers] /\ spectrum'.by = s
  <2>1. loop[s] \in Looping
    BY DEF TunerInv, LoopKept
  <2> QED BY <1>1, <2>1, TunerBounds DEF Looping
<1> QED BY <1>1, <1>2, <1>3, GoesOn, OneLoopMoves DEF TunerInv

LEMMA TakeResultKeeps ==
    ASSUME TunerInv, NEW s \in 1..MaxSessions, T!TakeResult(s)
    PROVE  TunerInv'
<1>1. loop[s].at = "results" /\ UNCHANGED <<tuned, stopped, wanted, spectrum, updates, counted>>
  BY DEF T!TakeResult
<1>2. /\ LoopKept(s) /\ DOMAIN loop = 1..MaxSessions /\ DOMAIN decoding = 1..MaxSessions
      /\ loop[s] \in Looping /\ DOMAIN updates = 1..MaxSessions
  BY DEF TunerInv, LoopKept
<1>3. CASE decoding[s].result = <<>>
  <2>1. T!Goto(s, "read") /\ UNCHANGED <<decoding, recorded>>
    BY <1>3 DEF T!TakeResult
  <2>2. LoopKept(s)'
    BY <1>1, <2>1, GoesOn DEF LoopKept
  <2> QED BY <1>1, <2>1, <2>2, GoesOn, OneLoopMoves DEF TunerInv
<1>4. CASE decoding[s].result # <<>>
  <2> DEFINE job == Head(decoding[s].result)
  <2>1. /\ loop' = [loop EXCEPT ![s] = [loop[s] EXCEPT !.at = "read", !.busy = FALSE]]
        /\ decoding' = [decoding EXCEPT ![s] = [decoding[s] EXCEPT !.result = <<>>]]
        /\ recorded' \in {recorded, T!Recorded(loop[s], job)}
    BY <1>4 DEF T!TakeResult
  <2>2. /\ loop'[s] \in Looping /\ loop'[s].at = "read" /\ loop'[s].request = loop[s].request
        /\ loop'[s].own = loop[s].own /\ loop'[s].batch = loop[s].batch /\ ~loop'[s].busy
        /\ loop'[s].center = loop[s].center
    BY <1>2, <2>1 DEF Looping
  <2>3. /\ decoding'[s].jobs = {} /\ decoding'[s].result = <<>>
        /\ decoding'[s] \in [jobs : SUBSET Job, result : Seq(Job)]
    <3>1. decoding[s].jobs = {} /\ decoding[s] \in [jobs : SUBSET Job, result : Seq(Job)]
      BY <1>2, <1>4 DEF LoopKept
    <3>2. <<>> \in Seq(Job)
      OBVIOUS
    <3> QED BY <1>2, <2>1, <3>1, <3>2
  <2>4. /\ recorded' \in Seq(Frequencies) /\ Len(recorded') \in {0, 2}
        /\ recorded' # <<>> => recorded'[1] = recorded'[2]
    <3>1. loop[s].request.frequency \in Frequencies
      BY <1>2 DEF Looping, Request
    <3>2. CASE recorded' = recorded
      BY <3>2 DEF TunerInv
    <3>3. CASE recorded' = <<loop[s].request.frequency, loop[s].request.frequency>>
      BY <3>1, <3>3
    <3> QED BY <2>1, <3>2, <3>3 DEF T!Recorded
  <2>5. LoopKept(s)'
    BY <1>1, <1>2, <2>2, <2>3 DEF LoopKept
  <2>6. \A o \in 1..MaxSessions : o # s => loop'[o] = loop[o] /\ decoding'[o] = decoding[o]
    BY <1>2, <2>1
  <2>7. DOMAIN loop' = 1..MaxSessions /\ DOMAIN decoding' = 1..MaxSessions
    BY <1>2, <2>1
  <2> QED BY <1>1, <1>2, <2>4, <2>5, <2>6, <2>7, OneLoopMoves DEF TunerInv
<1> QED BY <1>3, <1>4

LEMMA CollectKeeps ==
    ASSUME TunerInv, NEW s \in 1..MaxSessions, T!Collect(s)
    PROVE  TunerInv'
<1> DEFINE l == loop[s]
           batch == T!WithFrame(l)
           job == [frequency |-> l.request.frequency, at |-> batch.at]
<1>1. /\ l.at = "read" /\ spectrum' = [by |-> s, center |-> l.center]
      /\ UNCHANGED <<tuned, stopped, wanted, updates, recorded, counted>>
  BY DEF T!Collect, T!FrameRead, T!Measured
<1>2. /\ LoopKept(s) /\ DOMAIN loop = 1..MaxSessions /\ DOMAIN decoding = 1..MaxSessions
      /\ l \in Looping /\ DOMAIN updates = 1..MaxSessions
      /\ l.batch.at \subseteq {l.request.frequency}
  BY DEF TunerInv, LoopKept
<1>3. /\ batch \in Batch /\ batch.at \subseteq {l.request.frequency}
      /\ batch.count = BatchFrames => batch.at = {l.request.frequency}
  <2>1. /\ l.batch.count \in 0..BatchFrames /\ l.batch.at \in SUBSET Frequencies
        /\ l.request.frequency \in Frequencies
    BY <1>2 DEF Looping, Batch, Request
  <2>2. CASE batch = T!NoFrames
    BY <2>2, TunerBounds DEF T!NoFrames, Batch
  <2>3. CASE batch = [count |-> IF l.batch.count < BatchFrames THEN l.batch.count + 1 ELSE BatchFrames,
                      at |-> l.batch.at \cup {l.request.frequency}]
    <3> DEFINE n == IF l.batch.count < BatchFrames THEN l.batch.count + 1 ELSE BatchFrames
               here == l.batch.at \cup {l.request.frequency}
    <3>1. n \in 0..BatchFrames /\ here \in SUBSET Frequencies /\ here = {l.request.frequency}
      BY <1>2, <2>1, TunerBounds
    <3> HIDE DEF n, here
    <3> QED BY <2>3, <3>1 DEF Batch, n, here
  <2> QED BY <2>2, <2>3 DEF T!WithFrame
<1>4. spectrum' \in [by : 0..MaxSessions, center : Centers] /\ spectrum'.by = s
  BY <1>1, <1>2, TunerBounds DEF Looping
<1>5. T!NoFrames \in Batch /\ T!NoFrames.at = {}
  BY TunerBounds DEF T!NoFrames, Batch
<1>6. CASE batch.count = BatchFrames /\ ~l.busy
  <2>1. /\ loop' = [loop EXCEPT ![s] = [l EXCEPT !.at = "poll", !.batch = T!NoFrames, !.busy = TRUE]]
        /\ decoding' = [decoding EXCEPT ![s] = [decoding[s] EXCEPT !.jobs = decoding[s].jobs \cup {job}]]
    BY <1>6 DEF T!Collect
  <2>2. /\ loop'[s] \in Looping /\ loop'[s].at = "poll" /\ loop'[s].request = l.request
        /\ loop'[s].own = l.own /\ loop'[s].batch.at = {} /\ loop'[s].busy
        /\ loop'[s].center = l.center
    <3> HIDE DEF l
    <3>1. loop'[s] = [l EXCEPT !.at = "poll", !.batch = T!NoFrames, !.busy = TRUE]
      BY <1>2, <2>1
    <3> QED BY <1>2, <1>5, <3>1 DEF Looping
  <2>3. /\ decoding[s].jobs = {} /\ decoding[s].result = <<>>
        /\ decoding[s] \in [jobs : SUBSET Job, result : Seq(Job)]
    BY <1>1, <1>2, <1>6 DEF LoopKept
  <2>4. job \in Job /\ job.at = {job.frequency}
    BY <1>2, <1>3, <1>6 DEF Job, Looping, Request
  <2>5. /\ decoding'[s].jobs = {job} /\ decoding'[s].result = <<>>
        /\ decoding'[s] \in [jobs : SUBSET Job, result : Seq(Job)]
    <3> HIDE DEF job
    <3> QED BY <1>2, <2>1, <2>3, <2>4
  <2>6. LoopKept(s)'
    <3> HIDE DEF job, l, batch
    <3>1. l = loop[s]
      BY DEF l
    <3>2. Len(<<>>) <= 1
      OBVIOUS
    <3> QED BY <1>1, <1>2, <2>2, <2>4, <2>5, <3>1, <3>2 DEF LoopKept
  <2>7. \A o \in 1..MaxSessions : o # s => loop'[o] = loop[o] /\ decoding'[o] = decoding[o]
    BY <1>2, <2>1
  <2>8. DOMAIN loop' = 1..MaxSessions /\ DOMAIN decoding' = 1..MaxSessions
    BY <1>2, <2>1
  <2> QED BY <1>1, <1>2, <1>4, <2>6, <2>7, <2>8, OneLoopMoves DEF TunerInv
<1>7. CASE ~(batch.count = BatchFrames /\ ~l.busy)
  <2>1. /\ loop' = [loop EXCEPT ![s] = [l EXCEPT !.at = "poll", !.batch = batch]]
        /\ UNCHANGED decoding
    BY <1>7 DEF T!Collect
  <2>2. /\ loop'[s] \in Looping /\ loop'[s].at = "poll" /\ loop'[s].request = l.request
        /\ loop'[s].own = l.own /\ loop'[s].batch = batch /\ loop'[s].busy = l.busy
        /\ loop'[s].center = l.center
    <3> HIDE DEF l, batch
    <3>1. loop'[s] = [l EXCEPT !.at = "poll", !.batch = batch]
      BY <1>2, <2>1
    <3> QED BY <1>2, <1>3, <3>1 DEF Looping
  <2>3. LoopKept(s)'
    <3> HIDE DEF batch
    <3> QED BY <1>1, <1>2, <1>3, <2>1, <2>2 DEF LoopKept
  <2>4. \A o \in 1..MaxSessions : o # s => loop'[o] = loop[o] /\ decoding'[o] = decoding[o]
    BY <1>2, <2>1
  <2>5. DOMAIN loop' = 1..MaxSessions
    BY <1>2, <2>1
  <2> QED BY <1>1, <1>2, <1>4, <2>1, <2>3, <2>4, <2>5, OneLoopMoves DEF TunerInv
<1> QED BY <1>6, <1>7

LEMMA DecoderEndsKeeps ==
    ASSUME TunerInv, NEW s \in 1..MaxSessions, NEW job, T!DecoderEnds(s, job)
    PROVE  TunerInv'
<1>1. /\ job \in decoding[s].jobs
      /\ UNCHANGED <<tuned, stopped, wanted, spectrum, updates, loop, recorded, counted>>
      /\ \/ decoding' = [decoding EXCEPT ![s] = [decoding[s] EXCEPT !.jobs = decoding[s].jobs \ {job}, !.result = <<job>>]]
         \/ decoding' = [decoding EXCEPT ![s] = [decoding[s] EXCEPT !.jobs = decoding[s].jobs \ {job}]]
  BY DEF T!DecoderEnds
<1>2. /\ LoopKept(s) /\ DOMAIN loop = 1..MaxSessions /\ DOMAIN decoding = 1..MaxSessions
      /\ DOMAIN updates = 1..MaxSessions
      /\ decoding[s] \in [jobs : SUBSET Job, result : Seq(Job)]
      /\ decoding[s].result = <<>> /\ decoding[s].jobs \ {job} = {}
      /\ job \in Job /\ job.at = {job.frequency}
  BY <1>1 DEF TunerInv, LoopKept
<1>3. \/ loop[s].at = "ended"
      \/ loop[s].busy
  BY <1>1, <1>2 DEF LoopKept
<1>4. /\ <<job>> \in Seq(Job) /\ Len(<<job>>) = 1 /\ Head(<<job>>) = job
      /\ Len(<<>>) = 0
  BY <1>2
<1>5. /\ decoding'[s] \in [jobs : SUBSET Job, result : Seq(Job)] /\ decoding'[s].jobs = {}
      /\ decoding'[s].result = <<>> \/ decoding'[s].result = <<job>>
  <2>1. \/ decoding'[s] = [decoding[s] EXCEPT !.jobs = decoding[s].jobs \ {job}, !.result = <<job>>]
        \/ decoding'[s] = [decoding[s] EXCEPT !.jobs = decoding[s].jobs \ {job}]
    BY <1>1, <1>2
  <2> QED BY <1>2, <1>4, <2>1
<1>6. LoopKept(s)'
  <2>1. loop'[s] = loop[s] /\ updates'[s] = updates[s] /\ spectrum' = spectrum
        /\ tuned' = tuned /\ wanted' = wanted
    BY <1>1
  <2>2. Len(decoding'[s].result) <= 1
    <3>1. CASE decoding'[s].result = <<>>
      BY <3>1
    <3>2. CASE decoding'[s].result = <<job>>
      BY <3>2
    <3> QED BY <1>5, <3>1, <3>2
  <2>3. decoding'[s].result # <<>> => Head(decoding'[s].result).at = {Head(decoding'[s].result).frequency}
    <3>1. CASE decoding'[s].result = <<job>>
      BY <1>2, <1>4, <3>1
    <3> QED BY <1>5, <3>1
  <2>4. loop[s].at # "none"
    BY <1>1, <1>2, <1>3 DEF LoopKept
  <2>5. ~(loop'[s].at # "ended" /\ ~loop'[s].busy)
    BY <1>3, <2>1
  <2>6. decoding'[s].jobs = {} /\ decoding'[s] \in [jobs : SUBSET Job, result : Seq(Job)]
    BY <1>5
  <2> QED BY <1>2, <2>1, <2>2, <2>3, <2>4, <2>5, <2>6 DEF LoopKept
<1>7. \A o \in 1..MaxSessions : o # s => decoding'[o] = decoding[o]
  BY <1>1, <1>2
<1>8. DOMAIN decoding' = 1..MaxSessions
  BY <1>1, <1>2
<1> QED BY <1>1, <1>2, <1>6, <1>7, <1>8, OneLoopMoves DEF TunerInv

LEMMA TunerStays == ASSUME TunerInv, [T!TunerNext]_tunervars PROVE TunerInv'
<1>1. CASE UNCHANGED tunervars
  <2>1. ASSUME NEW o \in 1..MaxSessions PROVE LoopKept(o)'
    BY <1>1, OtherSession DEF tunervars, TunerInv
  <2> QED BY <1>1, <2>1 DEF tunervars, TunerInv
<1>2. ASSUME NEW s \in 1..MaxSessions, T!LoopSteps(s) \/ T!StreamFails(s) \/ T!Decoding(s)
      PROVE  TunerInv'
  <2>1. CASE T!Decoding(s)
    BY <2>1, DecoderEndsKeeps DEF T!Decoding
  <2> QED BY <1>2, <2>1, EndsKeep, TakeUpdateKeeps, NoUpdateKeeps, TakeResultKeeps,
          MonitorSamplesKeeps, CollectKeeps DEF T!LoopSteps
<1> QED BY <1>1, <1>2, StartTunerKeeps, StopTunerKeeps, SoftwareTuneKeeps, ForeignSpectrumKeeps
    DEF T!TunerNext, T!Sessions

LEMMA TunerMeans ==
    ASSUME TunerInv
    PROVE  /\ T!NewestTuneWins /\ T!TunedInside /\ T!BatchOfOneFrequency /\ T!OneDecoderJob
           /\ T!ResultsAttributed /\ T!TunerTypeOK
<1>1. T!NewestTuneWins
  BY DEF T!NewestTuneWins, TunerInv, LoopKept
<1>2. T!TunedInside
  BY DEF T!TunedInside, T!Sessions, TunerInv, LoopKept
<1>3. T!OneDecoderJob
  BY DEF T!OneDecoderJob, T!Sessions, TunerInv, LoopKept
<1>4. T!BatchOfOneFrequency
  <2> SUFFICES ASSUME NEW s \in 1..MaxSessions, NEW i \in DOMAIN decoding[s].result
               PROVE  decoding[s].result[i].at = {decoding[s].result[i].frequency}
    BY DEF T!BatchOfOneFrequency, T!Sessions, TunerInv, LoopKept
  <2>1. LoopKept(s) /\ decoding[s].result \in Seq(Job) /\ Len(decoding[s].result) <= 1
    BY DEF TunerInv, LoopKept
  <2>2. i = 1 /\ decoding[s].result # <<>>
    BY <2>1, LenProperties
  <2>3. Head(decoding[s].result) = decoding[s].result[1]
    BY <2>1, <2>2
  <2> QED BY <2>1, <2>2, <2>3 DEF LoopKept
<1>5. T!ResultsAttributed
  BY DEF T!ResultsAttributed, TunerInv
<1>6. T!TunerTypeOK
  BY DEF T!TunerTypeOK, T!Sessions, T!Requests, T!Updates, T!Steps, T!Batches, T!Jobs,
         TunerInv, LoopKept, Looping, Update, Request, Batch, Job
<1> QED BY <1>1, <1>2, <1>3, <1>4, <1>5, <1>6

-----------------------------------------------------------------------------
(* All of them. *)

IInv == EngineInv /\ CallsInv /\ PlanInv /\ BankInv /\ GainsInv /\ TunerInv

LEMMA AllBegin == MCInit => IInv
BY InitInv, CallsBegin, PlanBegins, BankBegins, GainsBegin, TunerBegins DEF MCInit, IInv

(* A step is one of its part, and leaves the others alone.                  *)
LEMMA OneMoves ==
    ASSUME [MCNext]_allvars
    PROVE  /\ [Next]_vars /\ [C!Next]_callvars /\ [P!SurveyPlanNext]_planvars
           /\ [W!MonitorNext]_bankvars /\ [G!TuningNext]_gainvars /\ [T!TunerNext]_tunervars
BY DEF MCNext, allvars, EngineStep, CallsStep, PlanStep, BankStep, GainsStep, TunerStep

LEMMA AllStay == ASSUME IInv, [MCNext]_allvars PROVE IInv'
BY OneMoves, InductiveStep, CallsStay, PlanStays, BankStays, CaptureStep, TunerStays DEF IInv

LEMMA Always == MCSpec => []IInv
BY AllBegin, AllStay, PTL DEF MCSpec

(* The state of what listens stays what its code makes of it, whatever the  *)
(* receivers, channels, frequencies, savings and bounds.                    *)
THEOREM ListeningTyped == MCSpec => []ListeningTypeOK
<1>1. IInv => ListeningTypeOK
  BY InvariantMeans, CallsMean, PlanMeans, BankMeans, GainsMean, TunerMeans DEF IInv, ListeningTypeOK
<1> QED BY <1>1, Always, PTL

(* A transmission of an OP25 call becomes one event, of a clear call whose  *)
(* talkgroup has a strip, however many channels, groups and updates there   *)
(* are, as long as a call is kept for longer than a tick (op25_calls.go).   *)
THEOREM CallsStayRecorded == MCSpec => []CallsRecorded
<1>1. IInv => CallsRecorded
  BY CallsMean DEF IInv, CallsRecorded
<1> QED BY <1>1, Always, PTL

(* Every call that was followed is followed on or becomes an event in that  *)
(* step: none is dropped without one (recordOP25CallTransitions).           *)
THEOREM CallsFollowed == MCSpec => [][C!CallKept]_callvars
<1>1. IInv /\ [MCNext]_allvars => [C!CallKept]_callvars
  BY OneMoves, TickFollows DEF IInv
<1> QED BY <1>1, Always, PTL DEF MCSpec

(* However many receivers and assignments: no receiver has two roles, none  *)
(* is free while an assignment it would fit waits, every channel and step   *)
(* is scanned by one receiver (buildSurveyPlan, startProfile); and every    *)
(* frame a channel is heard in is in one transmission of bounded length     *)
(* (wideband monitor).                                                      *)
THEOREM ScansStayShared == MCSpec => []ScansShared
<1>1. IInv => ScansShared
  BY PlanMeans, BankMeans DEF IInv, ScansShared
<1> QED BY <1>1, Always, PTL

(* For every number of sessions, frequencies and requests: a tuner follows  *)
(* the newest request and stays inside the passband, and its decoders run   *)
(* one at a time, on a batch of one frequency, and are reported at theirs   *)
(* (runTunerLoop, softwareTune).                                            *)
THEOREM AlwaysTunedAsAsked == MCSpec => []TunedAsAsked
<1>1. IInv => TunedAsAsked
  BY TunerMeans DEF IInv, TunedAsAsked
<1> QED BY <1>1, Always, PTL

(* From every calibration: a Mapper job raises its gains only after quiet   *)
(* captures and up to the full sensitivity, lowers them after an overload,  *)
(* and never touches gains it was told to keep (mapper.go).                 *)
THEOREM GainsAlwaysFollow == MCSpec => GainsFollow
<1>1. IInv /\ [MCNext]_allvars =>
        [Risen]_gainvars /\ [Lowered]_gainvars /\ [Asked]_gainvars /\ [Reached]_gainvars
  BY OneMoves, CaptureStep DEF IInv
<1>2. MCSpec => [][Risen]_gainvars /\ [][Lowered]_gainvars /\ [][Asked]_gainvars /\ [][Reached]_gainvars
  BY <1>1, Always, PTL DEF MCSpec
<1>3. /\ [][Risen]_gainvars <=> G!RaisedWhenQuiet
      /\ [][Lowered]_gainvars <=> G!OverloadLowers
      /\ [][Asked]_gainvars <=> G!AskedGainsKept
      /\ [][Reached]_gainvars <=> G!QuietReachesMost
  BY DEF Risen, Lowered, Asked, Reached, gainvars, G!tuningvars, G!RaisedWhenQuiet, G!OverloadLowers,
         G!AskedGainsKept, G!QuietReachesMost
<1> QED BY <1>2, <1>3 DEF GainsFollow

(* What P25Engine proves of the engine also holds beside the other parts.   *)
THEOREM EngineKeptHere == MCSpec => []EngineKept
<1>1. IInv => EngineKept
  BY InvariantMeans DEF IInv
<1> QED BY <1>1, Always, PTL
=============================================================================
