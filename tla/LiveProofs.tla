------------------------------ MODULE LiveProofs ------------------------------
(***************************************************************************)
(* What MCLive promises for every number of captures, sessions, helpers,   *)
(* shutdowns, listeners and frames, and every queue limit: no running      *)
(* rtl_tcp is forgotten and captures of one receiver work in turn, the     *)
(* newest frame reaches every listener, the relay lets go of the           *)
(* transmitter as long as one request at a time starts and stops it, and   *)
(* everything keeps its type.  The last section proves what                *)
(* ReceiverOwnership promises of who may use a receiver at all.            *)
(***************************************************************************)
EXTENDS MCLive, MCReceiverOwnership, Sequences, TLAPS

-----------------------------------------------------------------------------
(* The local RTL-SDR sessions. *)

\* Between its lookup and its end a capture has a session of the table, so
\* that helpers are launched for sessions only.
Attached == {"lock"} \cup Working
ClientsAttached ==
    \A c \in Clients : client[c].pc \in Attached => client[c].session \in Sessions

TypeInv == TypeOK /\ ClientsAttached

\* A helper that was launched has a number the counter has passed and belongs
\* to a session; the helper a session names is its own.  Without this a new
\* helper, or the waiter of an old one, could touch another session's fields.
HelpersKnown ==
    \A h \in Helpers : helper[h].state # "none" =>
        h <= lastHelper /\ helper[h].session \in Sessions

NamesOwnHelper ==
    \A s \in Sessions : cmd[s] # 0 =>
        cmd[s] <= lastHelper /\ helper[cmd[s]].session = s

HelperInv == HelpersKnown /\ NamesOwnHelper /\ HelperTracked

\* Whoever works on a session holds its mutex, and until a first shutdown
\* there is one session.
WorkersHoldLock ==
    \A c \in Clients : client[c].pc \in Working => lock[client[c].session] = c

OneSession ==
    shutdowns = 0 => \A c \in Clients :
        client[c].pc \in Attached => client[c].session = current

ExclusiveInv == WorkersHoldLock /\ OneSession

-----------------------------------------------------------------------------
(* Type correctness. *)

LEMMA InitType == Init => TypeInv
<1> SUFFICES ASSUME Init PROVE TypeInv
  OBVIOUS
<1>1. NoCall \in Call /\ NoCall.pc \notin Attached
  BY SessionsAssumption DEF NoCall, Call, Pcs, Attached, Working
<1>2. client \in [Clients -> Call] /\ ClientsAttached
  BY <1>1 DEF Init, ClientsAttached
<1>3. quitting \in BOOLEAN
  BY DEF Init
<1>4. shutdown \in [pc : {"none", "stop", "waitExit", "exited"}, exit : BOOLEAN,
                    session : 0..MaxSessions, helper : 0..MaxHelpers]
  BY SessionsAssumption DEF Init
<1> QED BY <1>2, <1>3, <1>4, SessionsAssumption DEF Init, TypeInv, TypeOK

\* A capture keeps its session from step to step.
LEMMA GotoType ==
    ASSUME TypeInv, NEW c \in Clients, NEW pc \in Pcs, Goto(c, pc),
           pc \in Attached => client[c].session \in Sessions
    PROVE  client' \in [Clients -> Call] /\ ClientsAttached'
<1>1. client[c] \in Call
  BY DEF TypeInv, TypeOK
<1>2. [client[c] EXCEPT !.pc = pc] \in Call
  BY <1>1 DEF Call
<1>3. client' = [client EXCEPT ![c] = [client[c] EXCEPT !.pc = pc]]
  BY DEF Goto
<1>4. /\ client'[c].pc = pc /\ client'[c].session = client[c].session
      /\ \A b \in Clients \ {c} : client'[b] = client[b]
  BY <1>1, <1>3 DEF TypeInv, TypeOK, Call
<1> QED BY <1>2, <1>3, <1>4 DEF TypeInv, TypeOK, ClientsAttached

\* A call replaced by another one.
LEMMA CallType ==
    ASSUME TypeInv, NEW c \in Clients, NEW call \in Call,
           client' = [client EXCEPT ![c] = call],
           call.pc \in Attached => call.session \in Sessions
    PROVE  client' \in [Clients -> Call] /\ ClientsAttached'
BY DEF TypeInv, TypeOK, ClientsAttached

\* An attempt that begins.
LEMMA AttemptType ==
    ASSUME NEW call \in Call, NEW a \in 0..2
    PROVE  /\ [call EXCEPT !.pc = "run", !.attempt = a] \in Call
           /\ [call EXCEPT !.pc = "run", !.attempt = a].session = call.session
           /\ [call EXCEPT !.pc = "run", !.attempt = a].pc = "run"
<1>1. "run" \in Pcs
  BY DEF Pcs
<1> HIDE DEF Pcs
<1> QED BY <1>1 DEF Call

\* What stop leaves of a session.
LEMMA StopSessionType ==
    ASSUME TypeInv, NEW s \in Sessions, StopSession(s)
    PROVE  /\ cmd' \in [Sessions -> 0..MaxHelpers]
           /\ conn' \in [Sessions -> 0..MaxHelpers]
           /\ helper' \in [Helpers -> [state : {"none", "starting", "serving", "stopping",
                                                "dead", "reaped"},
                                       session : 0..MaxSessions]]
<1>1. 0 \in 0..MaxHelpers
  BY SessionsAssumption
<1>2. cmd[s] # 0 => cmd[s] \in Helpers
  BY SessionsAssumption DEF TypeInv, TypeOK, Helpers
<1> QED BY <1>1, <1>2 DEF StopSession, TypeInv, TypeOK

LEMMA WorkType ==
    ASSUME TypeInv, NEW c \in Clients, Work(c)
    PROVE  TypeInv'
<1> USE SessionsAssumption
<1> DEFINE s == client[c].session
<1>0. client[c] \in Call
  BY DEF TypeInv, TypeOK
<1>s. client[c].pc \in Attached => s \in Sessions
  BY DEF TypeInv, ClientsAttached
<1>p. {"connect", "publish", "configure", "streaming", "broken", "recover", "waitExit",
       "panicked", "run"} \subseteq Pcs \cap Working
  BY DEF Pcs, Working
<1>1. CASE LookupSession(c)
  <2>1. current' \in Sessions /\ lastSession' \in 0..MaxSessions
    BY <1>1 DEF LookupSession, sessions, TypeInv, TypeOK, Sessions
  <2>2. current' \in 0..MaxSessions
    BY <2>1 DEF Sessions
  <2>3. [client[c] EXCEPT !.pc = "lock", !.session = current'] \in Call
    BY <1>0, <2>2 DEF Call, Pcs
  <2>4. client' = [client EXCEPT ![c] = [client[c] EXCEPT !.pc = "lock", !.session = current']]
    BY <1>1 DEF LookupSession
  <2>5. [client[c] EXCEPT !.pc = "lock", !.session = current'].session = current'
    BY <1>0 DEF Call
  <2>6. client' \in [Clients -> Call] /\ ClientsAttached'
    BY <2>1, <2>3, <2>4, <2>5, CallType
  <2> QED BY <1>1, <2>1, <2>2, <2>6 DEF LookupSession, TypeInv, TypeOK, state, helpers, stops
<1>2. CASE EnsureRunning(c)
  <2>0. s \in Sessions
    BY <1>2, <1>s, <1>p DEF EnsureRunning, Attached, Working
  <2>1. ASSUME NEW h \in 0..MaxHelpers,
               client' = [client EXCEPT ![c].pc = "connect", ![c].helper = h]
        PROVE  client' \in [Clients -> Call] /\ ClientsAttached'
    <3>1. [client[c] EXCEPT !.pc = "connect", !.helper = h] \in Call
      BY <1>0, <2>1 DEF Call, Pcs
    <3>2. client' = [client EXCEPT ![c] = [client[c] EXCEPT !.pc = "connect", !.helper = h]]
      BY <2>1
    <3>3. [client[c] EXCEPT !.pc = "connect", !.helper = h].session = s
      BY <1>0 DEF Call
    <3> QED BY <2>0, <3>1, <3>2, <3>3, CallType
  <2>2. CASE /\ client' = [client EXCEPT ![c].pc = "connect", ![c].helper = cmd[s]]
             /\ UNCHANGED <<cmd, helpers>>
    BY <1>2, <2>0, <2>1, <2>2 DEF EnsureRunning, TypeInv, TypeOK, sessions, helpers, stops
  <2>3. CASE Launch(c, s)
    <3>1. lastHelper + 1 \in Helpers /\ lastHelper + 1 \in 0..MaxHelpers
      BY <2>3 DEF Launch, TypeInv, TypeOK, Helpers
    <3>2. client' \in [Clients -> Call] /\ ClientsAttached'
      BY <2>1, <2>3, <3>1 DEF Launch
    <3>3. [state |-> "starting", session |-> s] \in
            [state : {"none", "starting", "serving", "stopping", "dead", "reaped"},
             session : 0..MaxSessions]
      BY <2>0 DEF Sessions
    <3> HIDE DEF s
    <3> QED BY <1>2, <2>0, <2>3, <3>1, <3>2, <3>3
          DEF EnsureRunning, Launch, TypeInv, TypeOK, sessions, stops
  <2>4. CASE Goto(c, "recover") /\ UNCHANGED <<cmd, helpers>>
    BY <1>2, <2>0, <2>4, <1>p, GotoType
       DEF EnsureRunning, TypeInv, TypeOK, sessions, helpers, stops
  <2> QED BY <1>2, <2>2, <2>3, <2>4 DEF EnsureRunning
<1>3. CASE EnsureConnected(c)
  <2>0. s \in Sessions
    BY <1>3, <1>s, <1>p DEF EnsureConnected, Attached
  <2> QED BY <1>3, <2>0, <1>p, GotoType
        DEF EnsureConnected, TypeInv, TypeOK, sessions, state, helpers, stops
<1>4. CASE PublishConnection(c)
  <2>0. s \in Sessions
    BY <1>4, <1>s, <1>p DEF PublishConnection, Attached
  <2>1. client[c].helper \in 0..MaxHelpers
    BY <1>0 DEF Call
  <2>2. client' \in [Clients -> Call] /\ ClientsAttached'
    BY <1>4, <2>0, <1>p, GotoType DEF PublishConnection
  <2> QED BY <1>4, <2>1, <2>2
        DEF PublishConnection, TypeInv, TypeOK, sessions, helpers, stops
<1>5. CASE Configure(c)
  <2>0. s \in Sessions
    BY <1>5, <1>s, <1>p DEF Configure, Attached
  <2>1. client' \in [Clients -> Call] /\ ClientsAttached'
    <3>1. CASE client' = [client EXCEPT ![c].pc = "streaming", ![c].helper = conn[s]]
      <4>1. conn[s] \in 0..MaxHelpers
        BY <2>0 DEF TypeInv, TypeOK
      <4>2. [client[c] EXCEPT !.pc = "streaming", !.helper = conn[s]] \in Call
        BY <1>0, <4>1 DEF Call, Pcs
      <4>3. client' = [client EXCEPT ![c] =
                         [client[c] EXCEPT !.pc = "streaming", !.helper = conn[s]]]
        BY <3>1
      <4>4. [client[c] EXCEPT !.pc = "streaming", !.helper = conn[s]].session = s
        BY <1>0 DEF Call
      <4> QED BY <2>0, <4>2, <4>3, <4>4, CallType
    <3>2. CASE Goto(c, "panicked") \/ Goto(c, "recover")
      BY <2>0, <3>2, <1>p, GotoType
    <3> QED BY <1>5, <3>1, <3>2 DEF Configure
  <2> QED BY <1>5, <2>1 DEF Configure, TypeInv, TypeOK, sessions, state, helpers, stops
<1>6. CASE Recover(c)
  <2>0. s \in Sessions
    BY <1>6, <1>s, <1>p DEF Recover, Attached
  <2>1. cmd[s] \in 0..MaxHelpers
    BY <2>0 DEF TypeInv, TypeOK
  <2>2. [client[c] EXCEPT !.pc = "waitExit", !.helper = cmd[s]] \in Call
    BY <1>0, <2>1 DEF Call, Pcs
  <2>3. client' = [client EXCEPT ![c] = [client[c] EXCEPT !.pc = "waitExit", !.helper = cmd[s]]]
    BY <1>6 DEF Recover
  <2>4. [client[c] EXCEPT !.pc = "waitExit", !.helper = cmd[s]].session = s
    BY <1>0 DEF Call
  <2>5. client' \in [Clients -> Call] /\ ClientsAttached'
    BY <2>0, <2>2, <2>3, <2>4, CallType
  <2> QED BY <1>6, <2>0, <2>5, StopSessionType DEF Recover, TypeInv, TypeOK, sessions, stops
<1>7. CASE Retry(c)
  <2>0. s \in Sessions
    BY <1>7, <1>s, <1>p DEF Retry, Attached
  <2>1. client' \in [Clients -> Call] /\ ClientsAttached' /\ lock' \in [Sessions -> Clients \cup {NoClient}]
    <3>1. CASE client[c].attempt < 2
      <4> DEFINE a == client[c].attempt + 1
      <4>1. a \in 0..2
        BY <1>0, <3>1 DEF Call
      <4>2. /\ client' = [client EXCEPT ![c] = [client[c] EXCEPT !.pc = "run", !.attempt = a]]
            /\ UNCHANGED lock
        BY <1>0, <1>7, <3>1 DEF Retry, Call
      <4> HIDE DEF a
      <4> QED BY <1>0, <2>0, <4>1, <4>2, AttemptType, CallType DEF TypeInv, TypeOK
    <3>2. CASE Release(c)
      <4>1. NoCall \in Call /\ NoCall.pc \notin Attached
        BY DEF NoCall, Call, Pcs, Attached, Working
      <4> QED BY <3>2, <4>1, CallType DEF Release, TypeInv, TypeOK
    <3> QED BY <1>7, <3>1, <3>2 DEF Retry
  <2> QED BY <1>7, <2>1 DEF Retry, TypeInv, TypeOK, sessions, helpers, stops
<1>8. CASE StreamBreaks(c)
  <2>0. s \in Sessions
    BY <1>8, <1>s, <1>p DEF StreamBreaks, Attached
  <2>1. client' \in [Clients -> Call] /\ ClientsAttached'
    BY <1>8, <2>0, <1>p, GotoType DEF StreamBreaks
  <2>2. conn' = conn \/ conn' = [conn EXCEPT ![s] = 0]
    BY <1>8 DEF StreamBreaks
  <2>3. conn' \in [Sessions -> 0..MaxHelpers]
    BY <2>2 DEF TypeInv, TypeOK
  <2> QED BY <1>8, <2>1, <2>3 DEF StreamBreaks, TypeInv, TypeOK, sessions, helpers, stops
<1>9. CASE CloseStream(c)
  <2>1. NoCall \in Call /\ NoCall.pc \notin Attached
    BY DEF NoCall, Call, Pcs, Attached, Working
  <2>2. client' \in [Clients -> Call] /\ ClientsAttached'
    BY <1>9, <2>1, CallType DEF CloseStream, Release
  <2> QED BY <1>9, <2>2 DEF CloseStream, Release, TypeInv, TypeOK, sessions, helpers, stops
<1> QED BY <1>1, <1>2, <1>3, <1>4, <1>5, <1>6, <1>7, <1>8, <1>9 DEF Work

LEMMA BeginType ==
    ASSUME TypeInv, NEW c \in Clients, BeginCapture(c) \/ LockSession(c)
    PROVE  TypeInv'
<1>0. client[c] \in Call
  BY DEF TypeInv, TypeOK
<1>1. CASE BeginCapture(c)
  <2>1. client' \in [Clients -> Call] /\ ClientsAttached'
    BY <1>1, GotoType DEF BeginCapture, Pcs, Attached, Working
  <2> QED BY <1>1, <2>1 DEF BeginCapture, TypeInv, TypeOK, sessions, state, helpers, stops
<1>2. CASE LockSession(c)
  <2>0. client[c].session \in Sessions
    BY <1>2 DEF LockSession, TypeInv, ClientsAttached, Attached
  <2>1. 1 \in 0..2
    OBVIOUS
  <2>2. client' = [client EXCEPT ![c] = [client[c] EXCEPT !.pc = "run", !.attempt = 1]]
    BY <1>2 DEF LockSession
  <2>4. client' \in [Clients -> Call] /\ ClientsAttached'
    BY <1>0, <2>0, <2>1, <2>2, AttemptType, CallType
  <2> QED BY <1>2, <2>4 DEF LockSession, TypeInv, TypeOK, sessions, helpers, stops
<1> QED BY <1>1, <1>2

\* Helpers, their waiters, Refresh and exit.
Background ==
    \/ Quit \/ DetachSessions \/ ShutdownSteps
    \/ \E h \in Helpers : ReapHelper(h) \/ HelperServes(h) \/ HelperExits(h)

LEMMA BackgroundType ==
    ASSUME TypeInv, Background
    PROVE  TypeInv'
<1> USE SessionsAssumption
<1>c. ASSUME UNCHANGED client PROVE ClientsAttached'
  BY <1>c DEF TypeInv, ClientsAttached
<1>1. CASE Quit
  BY <1>1, <1>c DEF Quit, TypeInv, TypeOK, sessions, state, helpers
<1>2. CASE DetachSessions
  <2>1. shutdown' \in [pc : {"none", "stop", "waitExit", "exited"}, exit : BOOLEAN,
                       session : 0..MaxSessions, helper : 0..MaxHelpers]
    BY <1>2 DEF DetachSessions, TypeInv, TypeOK
  <2> QED BY <1>2, <1>c, <2>1 DEF DetachSessions, TypeInv, TypeOK, state, helpers
<1>3. CASE StopDetached
  <2>1. CASE shutdown.session = 0
    BY <1>3, <1>c, <2>1 DEF StopDetached, TypeInv, TypeOK, sessions, state
  <2>2. CASE shutdown.session # 0
    <3>1. shutdown.session \in Sessions
      BY <2>2 DEF TypeInv, TypeOK, Sessions
    <3>2. cmd[shutdown.session] \in 0..MaxHelpers
      BY <3>1 DEF TypeInv, TypeOK
    <3> QED BY <1>3, <1>c, <2>2, <3>1, <3>2, StopSessionType
          DEF StopDetached, TypeInv, TypeOK, sessions
  <2> QED BY <2>1, <2>2
<1>4. CASE ShutdownReturns
  BY <1>4, <1>c DEF ShutdownReturns, TypeInv, TypeOK, sessions, state, helpers
<1>5. ASSUME NEW h \in Helpers, ReapHelper(h) PROVE TypeInv'
  BY <1>5, <1>c DEF ReapHelper, TypeInv, TypeOK, sessions, stops
<1>6. ASSUME NEW h \in Helpers, HelperServes(h) \/ HelperExits(h) PROVE TypeInv'
  BY <1>6, <1>c DEF HelperServes, HelperExits, TypeInv, TypeOK, sessions, state, stops
<1> QED BY <1>1, <1>2, <1>3, <1>4, <1>5, <1>6 DEF Background, ShutdownSteps

LEMMA StutterType ==
    ASSUME TypeInv, UNCHANGED vars
    PROVE  TypeInv'
BY DEF vars, sessions, state, helpers, stops, TypeInv, TypeOK, ClientsAttached

LEMMA NextSteps ==
    Next => \/ \E c \in Clients : BeginCapture(c) \/ LockSession(c) \/ Work(c)
            \/ Background
BY DEF Next, Background

LEMMA TypeInductive == TypeInv /\ [Next]_vars => TypeInv'
BY NextSteps, BeginType, WorkType, BackgroundType, StutterType

\* Every variable keeps its type: no capture tries more than twice, sessions
\* and helpers are ones that were made.
THEOREM SessionsTyped == Spec => []TypeOK
<1>1. TypeInv => TypeOK
  BY DEF TypeInv
<1> QED BY InitType, TypeInductive, <1>1, PTL DEF Spec

LEMMA TypeInvariant == Spec => []TypeInv
BY InitType, TypeInductive, PTL DEF Spec

-----------------------------------------------------------------------------
(* No running helper is forgotten. *)

LEMMA InitHelpers == Init => HelperInv
BY DEF Init, HelperInv, HelpersKnown, NamesOwnHelper, HelperTracked, Running

\* A session without a helper launches one: the counter makes it a new one.
LEMMA LaunchKeeps ==
    ASSUME TypeInv, HelperInv, NEW c \in Clients, NEW s \in Sessions, cmd[s] = 0, Launch(c, s)
    PROVE  HelperInv'
<1> DEFINE new == lastHelper + 1
<1>1. new \in Helpers /\ lastHelper \in Nat /\ Helpers \subseteq Nat
  BY SessionsAssumption DEF Launch, TypeInv, TypeOK, Helpers
<1>2. helper'[new] = [state |-> "starting", session |-> s] /\ cmd'[s] = new
  BY <1>1 DEF Launch, TypeInv, TypeOK
<1>3. \A h \in Helpers \ {new} : helper'[h] = helper[h]
  BY DEF Launch, TypeInv, TypeOK
<1>4. \A t \in Sessions \ {s} : cmd'[t] = cmd[t]
  BY DEF Launch, TypeInv, TypeOK
<1>5. lastHelper' = new /\ lastHelper < new
  BY <1>1 DEF Launch
<1>6. \A t \in Sessions : cmd[t] # 0 => cmd[t] \in Helpers \ {new}
  BY <1>1, <1>5, SessionsAssumption DEF TypeInv, TypeOK, Helpers, HelperInv, NamesOwnHelper
<1>7. HelpersKnown'
  BY <1>1, <1>2, <1>3, <1>5 DEF HelperInv, HelpersKnown
<1>8. NamesOwnHelper'
  <2>1. \A t \in Sessions \ {s} : cmd[t] # 0 => cmd[t] <= lastHelper /\ cmd[t] \in Nat
    BY <1>1, <1>6 DEF HelperInv, NamesOwnHelper
  <2> HIDE DEF new
  <2> QED BY <1>1, <1>2, <1>3, <1>4, <1>5, <1>6, <2>1 DEF HelperInv, NamesOwnHelper
<1>9. HelperTracked'
  <2>1. ASSUME NEW h \in Helpers \ {new}, helper'[h].state \in {"starting", "serving"}
        PROVE  cmd'[helper'[h].session] = h
    <3>1. h \in Running /\ helper[h].session \in Sessions
      BY <1>3, <2>1 DEF Running, HelperInv, HelpersKnown
    <3>2. cmd[helper[h].session] = h
      BY <3>1 DEF HelperInv, HelperTracked
    <3>3. h # 0
      BY SessionsAssumption DEF Helpers
    <3> QED BY <1>3, <1>4, <3>1, <3>2, <3>3
  <2> QED BY <1>2, <2>1 DEF HelperTracked, Running
<1> QED BY <1>7, <1>8, <1>9 DEF HelperInv

\* stop signals the helper whose name it clears.
LEMMA StopSessionKeeps ==
    ASSUME TypeInv, HelperInv, NEW s \in Sessions, StopSession(s), UNCHANGED lastHelper
    PROVE  HelperInv'
<1>1. cmd' = [cmd EXCEPT ![s] = 0]
  BY DEF StopSession
<1>2. \A t \in Sessions : cmd'[t] = IF t = s THEN 0 ELSE cmd[t]
  BY <1>1 DEF TypeInv, TypeOK
<1>3. \A h \in Helpers : /\ helper'[h].session = helper[h].session
                         /\ helper'[h].state = "none" <=> helper[h].state = "none"
                         /\ helper'[h].state \in {"starting", "serving"} =>
                              helper[h].state \in {"starting", "serving"} /\ h # cmd[s]
  <2>1. CASE cmd[s] # 0 /\ helper[cmd[s]].state \in {"starting", "serving"}
    <3>1. helper' = [helper EXCEPT ![cmd[s]].state = "stopping"]
      BY <2>1 DEF StopSession
    <3>2. cmd[s] \in Helpers
      BY <2>1, SessionsAssumption DEF TypeInv, TypeOK, Helpers
    <3> QED BY <2>1, <3>1, <3>2 DEF TypeInv, TypeOK
  <2>2. CASE ~(cmd[s] # 0 /\ helper[cmd[s]].state \in {"starting", "serving"})
    <3>1. helper' = helper
      BY <2>2 DEF StopSession
    <3>2. \A h \in Helpers : h # 0
      BY SessionsAssumption DEF Helpers
    <3> QED BY <2>2, <3>1, <3>2
  <2> QED BY <2>1, <2>2
<1>4. HelpersKnown'
  BY <1>3 DEF HelperInv, HelpersKnown
<1>5. NamesOwnHelper'
  <2>1. \A t \in Sessions : cmd[t] # 0 => cmd[t] \in Helpers
    BY SessionsAssumption DEF TypeInv, TypeOK, Helpers
  <2> QED BY <1>2, <1>3, <2>1 DEF HelperInv, NamesOwnHelper
<1>6. HelperTracked'
  <2> SUFFICES ASSUME NEW h \in Helpers, helper'[h].state \in {"starting", "serving"}
               PROVE  cmd'[helper'[h].session] = h
    BY DEF HelperTracked, Running
  <2>1. cmd[helper[h].session] = h /\ helper[h].session \in Sessions
    BY <1>3 DEF HelperInv, HelperTracked, Running, HelpersKnown
  <2>2. helper[h].session # s
    BY <1>3, <2>1
  <2> QED BY <1>2, <1>3, <2>1, <2>2
<1> QED BY <1>4, <1>5, <1>6 DEF HelperInv

\* The waiter of a helper clears its own name only.
LEMMA ReapKeeps ==
    ASSUME TypeInv, HelperInv, NEW h \in Helpers, ReapHelper(h)
    PROVE  HelperInv'
<1> DEFINE s == helper[h].session
<1>1. s \in Sessions
  BY DEF ReapHelper, HelperInv, HelpersKnown
<1>2. \A k \in Helpers : /\ helper'[k].session = helper[k].session
                         /\ helper'[k].state = "none" <=> helper[k].state = "none"
                         /\ helper'[k].state \in {"starting", "serving"} =>
                              helper[k].state \in {"starting", "serving"} /\ k # h
  BY DEF ReapHelper, TypeInv, TypeOK
<1>3. \A t \in Sessions : cmd'[t] = IF t = s /\ cmd[s] = h THEN 0 ELSE cmd[t]
  BY <1>1 DEF ReapHelper, TypeInv, TypeOK
<1>4. UNCHANGED lastHelper
  BY DEF ReapHelper
<1> HIDE DEF s
<1>5. HelpersKnown'
  BY <1>2, <1>4 DEF HelperInv, HelpersKnown
<1>6. NamesOwnHelper'
  <2>1. \A t \in Sessions : cmd[t] # 0 => cmd[t] \in Helpers
    BY SessionsAssumption DEF TypeInv, TypeOK, Helpers
  <2> QED BY <1>2, <1>3, <1>4, <2>1 DEF HelperInv, NamesOwnHelper
<1>7. HelperTracked'
  <2> SUFFICES ASSUME NEW k \in Helpers, helper'[k].state \in {"starting", "serving"}
               PROVE  cmd'[helper'[k].session] = k
    BY DEF HelperTracked, Running
  <2>1. cmd[helper[k].session] = k /\ helper[k].session \in Sessions /\ k # h
    BY <1>2 DEF HelperInv, HelperTracked, Running, HelpersKnown
  <2> QED BY <1>2, <1>3, <2>1
<1> QED BY <1>5, <1>6, <1>7 DEF HelperInv

\* A helper starts to serve or exits.
LEMMA HelperMoves ==
    ASSUME TypeInv, HelperInv, NEW h \in Helpers, HelperServes(h) \/ HelperExits(h)
    PROVE  HelperInv'
<1>1. \A k \in Helpers : /\ helper'[k].session = helper[k].session
                         /\ helper'[k].state = "none" <=> helper[k].state = "none"
                         /\ helper'[k].state \in {"starting", "serving"} =>
                              helper[k].state \in {"starting", "serving"}
  BY DEF HelperServes, HelperExits, TypeInv, TypeOK
<1>2. UNCHANGED <<cmd, lastHelper>>
  BY DEF HelperServes, HelperExits, state
<1>3. \A t \in Sessions : cmd[t] # 0 => cmd[t] \in Helpers
  BY SessionsAssumption DEF TypeInv, TypeOK, Helpers
<1> QED BY <1>1, <1>2, <1>3 DEF HelperInv, HelpersKnown, NamesOwnHelper, HelperTracked, Running

LEMMA HelpersUntouched ==
    ASSUME HelperInv, UNCHANGED <<cmd, helper, lastHelper>>
    PROVE  HelperInv'
BY DEF HelperInv, HelpersKnown, NamesOwnHelper, HelperTracked, Running

LEMMA HelpersInductive == TypeInv /\ HelperInv /\ [Next]_vars => HelperInv'
<1> SUFFICES ASSUME TypeInv, HelperInv, [Next]_vars PROVE HelperInv'
  OBVIOUS
<1>1. ASSUME NEW c \in Clients, BeginCapture(c) \/ LockSession(c) PROVE HelperInv'
  BY <1>1, HelpersUntouched DEF BeginCapture, LockSession, state, helpers
<1>2. ASSUME NEW c \in Clients, Work(c) PROVE HelperInv'
  <2>s. client[c].pc \in Attached => client[c].session \in Sessions
    BY DEF TypeInv, ClientsAttached
  <2>1. CASE EnsureRunning(c)
    <3>1. client[c].session \in Sessions
      BY <2>1, <2>s DEF EnsureRunning, Attached, Working
    <3> QED BY <2>1, <3>1, LaunchKeeps, HelpersUntouched DEF EnsureRunning, helpers
  <2>2. CASE Recover(c)
    <3>1. client[c].session \in Sessions
      BY <2>2, <2>s DEF Recover, Attached, Working
    <3> QED BY <2>2, <3>1, StopSessionKeeps DEF Recover
  <2>3. CASE ~EnsureRunning(c) /\ ~Recover(c)
    BY <1>2, <2>3, HelpersUntouched
       DEF Work, LookupSession, EnsureConnected, PublishConnection, Configure, Retry,
           StreamBreaks, CloseStream, state, helpers
  <2> QED BY <2>1, <2>2, <2>3
<1>3. CASE Background
  <2>1. CASE Quit \/ DetachSessions \/ ShutdownReturns
    BY <2>1, HelpersUntouched DEF Quit, DetachSessions, ShutdownReturns, state, helpers
  <2>2. CASE StopDetached
    <3>1. shutdown.session # 0 => shutdown.session \in Sessions
      BY DEF TypeInv, TypeOK, Sessions
    <3> QED BY <2>2, <3>1, StopSessionKeeps, HelpersUntouched DEF StopDetached, state
  <2>3. ASSUME NEW h \in Helpers, ReapHelper(h) \/ HelperServes(h) \/ HelperExits(h)
        PROVE  HelperInv'
    BY <2>3, ReapKeeps, HelperMoves
  <2> QED BY <1>3, <2>1, <2>2, <2>3 DEF Background, ShutdownSteps
<1>4. CASE UNCHANGED vars
  BY <1>4, HelpersUntouched DEF vars, state, helpers
<1> QED BY <1>1, <1>2, <1>3, <1>4, NextSteps

\* No running rtl_tcp is forgotten: the session that launched it names it.
THEOREM HelpersStayTracked == Spec => []HelperTracked
<1>1. HelperInv => HelperTracked
  BY DEF HelperInv
<1> QED BY TypeInvariant, InitHelpers, HelpersInductive, <1>1, PTL DEF Spec

-----------------------------------------------------------------------------
(* Captures of a receiver work in turn. *)

LEMMA InitExclusive == Init => ExclusiveInv
<1>1. NoCall.pc \notin Attached
  BY DEF NoCall, Attached, Working
<1> QED BY <1>1 DEF Init, ExclusiveInv, WorkersHoldLock, OneSession, Attached

\* A step of a capture that stays on its session and keeps or leaves the mutex
\* alone.
LEMMA SameSession ==
    ASSUME TypeInv, ExclusiveInv, NEW c \in Clients,
           client'[c].session = client[c].session,
           client'[c].pc \in Working => client[c].pc \in Working,
           client'[c].pc \in Attached => client[c].pc \in Attached,
           \A b \in Clients \ {c} : client'[b] = client[b],
           UNCHANGED <<lock, current, shutdowns>>
    PROVE  ExclusiveInv'
BY DEF ExclusiveInv, WorkersHoldLock, OneSession

LEMMA ReleaseExclusive ==
    ASSUME TypeInv, ExclusiveInv, NEW c \in Clients, client[c].pc \in Working, Release(c),
           UNCHANGED <<current, shutdowns>>
    PROVE  ExclusiveInv'
<1>1. NoCall.pc \notin Attached
  BY DEF NoCall, Attached, Working
<1>2. client'[c] = NoCall /\ \A b \in Clients \ {c} : client'[b] = client[b]
  BY DEF Release, TypeInv, TypeOK
<1>3. WorkersHoldLock'
  <2> SUFFICES ASSUME NEW b \in Clients \ {c}, client[b].pc \in Working
               PROVE  lock'[client[b].session] = b
    BY <1>1, <1>2 DEF WorkersHoldLock, Attached
  <2>1. lock[client[b].session] = b /\ lock[client[c].session] = c
    BY DEF ExclusiveInv, WorkersHoldLock
  <2>2. client[b].session \in Sessions
    BY DEF TypeInv, ClientsAttached, Attached
  <2> QED BY <2>1, <2>2 DEF Release, TypeInv, TypeOK
<1>4. OneSession'
  BY <1>1, <1>2 DEF ExclusiveInv, OneSession
<1> QED BY <1>3, <1>4 DEF ExclusiveInv

LEMMA BeginExclusive ==
    ASSUME TypeInv, ExclusiveInv, NEW c \in Clients, BeginCapture(c) \/ LockSession(c)
    PROVE  ExclusiveInv'
<1>1. CASE BeginCapture(c)
  <2>1. /\ client'[c].pc = "lookup" /\ client'[c].session = client[c].session
        /\ \A b \in Clients \ {c} : client'[b] = client[b]
    BY <1>1 DEF BeginCapture, Goto, TypeInv, TypeOK, Call
  <2> QED BY <1>1, <2>1, SameSession
        DEF BeginCapture, Attached, Working, sessions, state, stops
<1>2. CASE LockSession(c)
  <2> DEFINE s == client[c].session
  <2>1. /\ client'[c].pc = "run" /\ client'[c].session = s
        /\ \A b \in Clients \ {c} : client'[b] = client[b]
    BY <1>2 DEF LockSession, TypeInv, TypeOK, Call
  <2>2. s \in Sessions /\ lock[s] = NoClient /\ lock' = [lock EXCEPT ![s] = c]
    BY <1>2 DEF LockSession, TypeInv, ClientsAttached, Attached
  <2>3. UNCHANGED <<current, shutdowns>>
    BY <1>2 DEF LockSession, sessions, stops
  <2> HIDE DEF s
  <2>4. WorkersHoldLock'
    <3>1. lock'[s] = c /\ \A t \in Sessions \ {s} : lock'[t] = lock[t]
      BY <2>2 DEF TypeInv, TypeOK
    <3>2. \A b \in Clients \ {c} : client[b].pc \in Working =>
            /\ lock[client[b].session] = b /\ b # NoClient
            /\ client[b].session \in Sessions
      BY SessionsAssumption DEF ExclusiveInv, WorkersHoldLock, TypeInv, ClientsAttached, Attached
    <3> QED BY <2>1, <2>2, <3>1, <3>2 DEF WorkersHoldLock
  <2>5. OneSession'
    <3>1. shutdowns = 0 => s = current
      BY <1>2 DEF LockSession, ExclusiveInv, OneSession, Attached, s
    <3> QED BY <2>1, <2>3, <3>1 DEF ExclusiveInv, OneSession
  <2> QED BY <2>4, <2>5 DEF ExclusiveInv
<1> QED BY <1>1, <1>2

LEMMA LookupExclusive ==
    ASSUME TypeInv, ExclusiveInv, NEW c \in Clients, LookupSession(c)
    PROVE  ExclusiveInv'
<1>1. /\ client'[c].pc = "lock" /\ client'[c].session = current'
      /\ \A b \in Clients \ {c} : client'[b] = client[b]
  BY DEF LookupSession, TypeInv, TypeOK, Call
<1>2. UNCHANGED <<lock, shutdowns>>
  BY DEF LookupSession, state, stops
<1>3. WorkersHoldLock'
  BY <1>1, <1>2 DEF ExclusiveInv, WorkersHoldLock, Working
<1>4. OneSession'
  <2>1. CASE current # 0
    BY <1>1, <1>2, <2>1 DEF LookupSession, sessions, ExclusiveInv, OneSession
  <2>2. CASE current = 0
    <3>1. shutdowns = 0 => \A b \in Clients : client[b].pc \notin Attached
      BY <2>2, SessionsAssumption
         DEF ExclusiveInv, OneSession, TypeInv, ClientsAttached, Sessions
    <3> QED BY <1>1, <1>2, <3>1 DEF OneSession
  <2> QED BY <2>1, <2>2
<1> QED BY <1>3, <1>4 DEF ExclusiveInv

LEMMA WorkExclusive ==
    ASSUME TypeInv, ExclusiveInv, NEW c \in Clients, Work(c)
    PROVE  ExclusiveInv'
<1>1. CASE LookupSession(c)
  BY <1>1, LookupExclusive
<1>2. CASE CloseStream(c)
  BY <1>2, ReleaseExclusive DEF CloseStream, Working, sessions, stops
<1>3. CASE Retry(c) /\ client[c].attempt >= 2
  <2>1. Release(c)
    BY <1>3 DEF Retry, TypeInv, TypeOK, Call
  <2> QED BY <1>3, <2>1, ReleaseExclusive DEF Retry, Working, sessions, stops
<1>4. CASE ~LookupSession(c) /\ ~CloseStream(c) /\ ~(Retry(c) /\ client[c].attempt >= 2)
  <2>1. /\ client[c].pc \in Working
        /\ client'[c].pc \in Working /\ client'[c].session = client[c].session
        /\ \A b \in Clients \ {c} : client'[b] = client[b]
        /\ UNCHANGED <<lock, current, shutdowns>>
    <3> USE DEF Goto, TypeInv, TypeOK, Call, Working, sessions, state, stops
    <3>1. CASE EnsureRunning(c)
      BY <3>1 DEF EnsureRunning, Launch, helpers
    <3>2. CASE EnsureConnected(c) \/ PublishConnection(c)
      BY <3>2 DEF EnsureConnected, PublishConnection
    <3>3. CASE Configure(c)
      BY <3>3 DEF Configure
    <3>4. CASE Recover(c)
      BY <3>4 DEF Recover
    <3>5. CASE StreamBreaks(c)
      BY <3>5 DEF StreamBreaks
    <3>6. CASE Retry(c) /\ client[c].attempt < 2
      BY <3>6 DEF Retry
    <3>7. client[c].attempt < 2 \/ client[c].attempt >= 2
      OBVIOUS
    <3> QED BY <1>4, <3>1, <3>2, <3>3, <3>4, <3>5, <3>6, <3>7 DEF Work
  <2> QED BY <2>1, SameSession DEF Attached
<1> QED BY <1>1, <1>2, <1>3, <1>4

LEMMA ExclusiveInductive == TypeInv /\ ExclusiveInv /\ [Next]_vars => ExclusiveInv'
<1> SUFFICES ASSUME TypeInv, ExclusiveInv, [Next]_vars PROVE ExclusiveInv'
  OBVIOUS
<1>1. CASE Background
  <2>1. UNCHANGED <<lock, client>>
    BY <1>1 DEF Background, ShutdownSteps, Quit, DetachSessions, StopDetached, ShutdownReturns,
                ReapHelper, HelperServes, HelperExits, state
  <2>2. UNCHANGED <<current, shutdowns>> \/ shutdowns' # 0
    <3>1. CASE DetachSessions
      BY <3>1, SessionsAssumption DEF DetachSessions, TypeInv, TypeOK
    <3>2. CASE ~DetachSessions
      BY <1>1, <3>2 DEF Background, ShutdownSteps, Quit, StopDetached, ShutdownReturns,
                        ReapHelper, HelperServes, HelperExits, sessions, stops
    <3> QED BY <3>1, <3>2
  <2> QED BY <2>1, <2>2 DEF ExclusiveInv, WorkersHoldLock, OneSession
<1>2. CASE UNCHANGED vars
  BY <1>2 DEF vars, sessions, state, stops, ExclusiveInv, WorkersHoldLock, OneSession
<1> QED BY <1>1, <1>2, NextSteps, BeginExclusive, WorkExclusive

\* A receiver has one user at a time, recovery attempts and hand-overs
\* included, and no running helper that nobody can reach, for every number of
\* captures, helpers and shutdowns.
THEOREM ReceiverHeldByOne == Spec => []ReceiverHeldOnce
<1>1. TypeInv /\ ExclusiveInv => ReceiverExclusive
  <2> SUFFICES ASSUME TypeInv, ExclusiveInv, NEW b \in Clients, NEW c \in Clients,
                      client[b].pc \in Working, client[c].pc \in Working,
                      client[b].session = client[c].session \/ shutdowns = 0
               PROVE  b = c
    BY DEF ReceiverExclusive
  <2>1. client[b].session = client[c].session
    BY DEF ExclusiveInv, OneSession, Attached
  <2> QED BY <2>1 DEF ExclusiveInv, WorkersHoldLock
<1>2. Spec => []ExclusiveInv
  BY TypeInvariant, InitExclusive, ExclusiveInductive, PTL DEF Spec
<1>3. HelperTracked /\ ReceiverExclusive => ReceiverHeldOnce
  BY DEF ReceiverHeldOnce
<1> QED BY TypeInvariant, HelpersStayTracked, <1>1, <1>2, <1>3, PTL

-----------------------------------------------------------------------------
(* The audio hub. *)

Frames == 1..MaxFrames
Offering ==
    [left : SUBSET Listeners, to : SUBSET Listeners, at : {"idle", "next", "full", "again"}]

HubTyped ==
    /\ channel \in [Listeners -> {"none", "open", "closed"}]
    /\ queue \in [Listeners -> Seq(Frames)]
    /\ \A l \in Listeners : Len(queue[l]) <= QueueLimit
    /\ taken \in [Listeners -> 0..MaxFrames]
    /\ published \in 0..MaxFrames
    /\ offering \in Offering /\ offering.to \subseteq offering.left
    /\ offering.at # "idle" => published # 0

\* The last frame a listener has taken or will take.
Newest(l) == IF queue[l] = <<>> THEN taken[l] ELSE queue[l][Len(queue[l])]

\* A Publish has served whom it left; the queue it makes room in has room.
Served ==
    /\ \A l \in H!Open \ offering.left : Newest(l) = published
    /\ \A k, l \in offering.to : k = l
    /\ \A l \in Listeners : offering.at = "again" /\ l \in offering.to => Len(queue[l]) < QueueLimit
    /\ \A l \in Listeners : channel[l] = "none" => queue[l] = <<>>

HubInv == HubTyped /\ H!NoSendOnClosed /\ Served

LEMMA HubAssumed == QueueLimit \in Nat \ {0} /\ MaxFrames \in Nat
BY LiveAssumption DEF H!HubAssumption

LEMMA HubInitInv == H!HubInit => HubInv
<1> SUFFICES ASSUME H!HubInit PROVE HubInv
  OBVIOUS
<1>1. H!Open = {} /\ offering.left = {} /\ offering.to = {} /\ offering.at = "idle"
  BY DEF H!HubInit, H!Open, H!Idle
<1>2. HubTyped
  BY <1>1, HubAssumed DEF H!HubInit, HubTyped, Offering, H!Idle
<1> QED BY <1>1, <1>2 DEF HubInv, H!NoSendOnClosed, Served, H!HubInit

\* The frames left after the oldest is taken.
LEMMA TailIs ==
    ASSUME NEW q \in Seq(Frames), q # <<>>
    PROVE  /\ Tail(q) \in Seq(Frames) /\ Head(q) \in Frames
           /\ Len(Tail(q)) = Len(q) - 1 /\ Len(q) \in Nat /\ Len(q) > 0
           /\ Tail(q) = <<>> => q[Len(q)] = Head(q)
           /\ Tail(q) # <<>> => Tail(q)[Len(Tail(q))] = q[Len(q)]
<1>1. /\ Tail(q) \in Seq(Frames) /\ Head(q) \in Frames /\ Head(q) = q[1]
      /\ Len(Tail(q)) = Len(q) - 1 /\ Len(q) \in Nat /\ Len(q) > 0
  OBVIOUS
<1>2. ASSUME Tail(q) = <<>> PROVE Len(q) = 1
  <2>1. \A s \in Seq(Frames) : s = <<>> => Len(s) = 0
    OBVIOUS
  <2> QED BY <1>1, <1>2, <2>1
<1>3. \A i \in 1..Len(Tail(q)) : Tail(q)[i] = q[i + 1]
  OBVIOUS
<1>4. Tail(q) # <<>> => Len(Tail(q)) \in 1..Len(Tail(q))
  BY <1>1
<1> QED BY <1>1, <1>2, <1>3, <1>4

LEMMA AppendIs ==
    ASSUME NEW q \in Seq(Frames), NEW f \in Frames
    PROVE  /\ Append(q, f) \in Seq(Frames) /\ Append(q, f) # <<>>
           /\ Len(Append(q, f)) = Len(q) + 1 /\ Len(q) \in Nat
           /\ Append(q, f)[Len(Append(q, f))] = f
OBVIOUS

\* A Publish goes on to the next listener.
LEMMA ServedIs ==
    ASSUME HubTyped, NEW l \in offering.left
    PROVE  /\ H!Served(l) \in Offering
           /\ H!Served(l).left = offering.left \ {l}
           /\ H!Served(l).to = {} /\ H!Served(l).at \in {"idle", "next"}
BY DEF H!Served, H!Idle, HubTyped, Offering

\* One listener's queue gets the frame published, and the Publish goes on.
LEMMA Appended ==
    ASSUME HubInv, NEW l \in offering.left, Len(queue[l]) < QueueLimit,
           queue' = [queue EXCEPT ![l] = Append(@, published)], offering' = H!Served(l),
           UNCHANGED <<channel, taken, published>>, offering.at # "idle"
    PROVE  HubInv'
<1>1. /\ l \in Listeners /\ queue[l] \in Seq(Frames) /\ published \in Frames
      /\ channel[l] = "open"
  BY HubAssumed DEF HubInv, HubTyped, Frames, Offering, H!NoSendOnClosed, H!Open
<1>2. /\ \A k \in Listeners \ {l} : queue'[k] = queue[k]
      /\ queue'[l] = Append(queue[l], published)
  BY <1>1 DEF HubInv, HubTyped
<1>3. /\ offering' \in Offering /\ offering'.left = offering.left \ {l}
      /\ offering'.to = {} /\ offering'.at \in {"idle", "next"}
  BY ServedIs DEF HubInv
<1>4. queue' \in [Listeners -> Seq(Frames)] /\ \A k \in Listeners : Len(queue'[k]) <= QueueLimit
  BY <1>1, <1>2, AppendIs, HubAssumed DEF HubInv, HubTyped
<1>5. HubTyped'
  BY <1>1, <1>3, <1>4 DEF HubInv, HubTyped, Frames
<1>6. H!NoSendOnClosed'
  BY <1>3 DEF HubInv, H!NoSendOnClosed, H!Open
<1>7. ASSUME NEW k \in H!Open' \ offering'.left PROVE Newest(k)' = published'
  <2>1. k \in H!Open /\ k \in Listeners
    BY <1>7 DEF H!Open
  <2>2. CASE k = l
    BY <1>1, <1>2, <2>2, AppendIs DEF Newest
  <2>3. CASE k # l
    BY <1>2, <1>3, <1>7, <2>1, <2>3 DEF Newest, HubInv, Served
  <2> QED BY <2>2, <2>3
<1>8. \A k \in Listeners : channel'[k] = "none" => queue'[k] = <<>>
  BY <1>1, <1>2 DEF HubInv, Served
<1>9. Served'
  BY <1>3, <1>7, <1>8 DEF Served
<1> QED BY <1>5, <1>6, <1>9 DEF HubInv

LEMMA HubStep == HubInv /\ [H!HubNext]_hvars => HubInv'
<1> SUFFICES ASSUME HubInv, [H!HubNext]_hvars PROVE HubInv'
  OBVIOUS
<1>1. /\ channel \in [Listeners -> {"none", "open", "closed"}]
      /\ queue \in [Listeners -> Seq(Frames)] /\ taken \in [Listeners -> 0..MaxFrames]
      /\ published \in 0..MaxFrames /\ offering \in Offering /\ MaxFrames \in Nat
      /\ QueueLimit \in Nat \ {0}
      /\ \A l \in Listeners : Len(queue[l]) <= QueueLimit /\ Len(queue[l]) \in Nat
  BY HubAssumed DEF HubInv, HubTyped
<1>2. offering = H!Idle => offering.left = {} /\ offering.to = {} /\ offering.at = "idle"
  BY DEF H!Idle
<1>3. ASSUME NEW l \in Listeners, H!Subscribe(l) PROVE HubInv'
  <2>1. HubTyped' /\ H!NoSendOnClosed'
    BY <1>1, <1>2, <1>3 DEF HubInv, HubTyped, H!Subscribe, H!NoSendOnClosed
  <2>2. queue[l] = <<>>
    BY <1>3 DEF HubInv, Served, H!Subscribe
  <2>3. ASSUME NEW k \in H!Open' PROVE Newest(k)' = published'
    <3>1. k \in Listeners /\ (k = l \/ k \in H!Open)
      BY <1>1, <1>3, <2>3 DEF H!Open, H!Subscribe
    <3>2. CASE k = l
      BY <1>1, <1>3, <2>2, <3>2 DEF H!Subscribe, Newest
    <3>3. CASE k # l
      BY <1>1, <1>2, <1>3, <3>1, <3>3 DEF H!Subscribe, Newest, HubInv, Served
    <3> QED BY <3>2, <3>3
  <2>4. Served'
    BY <1>1, <1>2, <1>3, <2>3 DEF HubInv, Served, H!Subscribe
  <2> QED BY <2>1, <2>4 DEF HubInv
<1>4. ASSUME NEW l \in Listeners, H!Unsubscribe(l) PROVE HubInv'
  <2>1. HubTyped' /\ H!NoSendOnClosed'
    BY <1>1, <1>2, <1>4 DEF HubInv, HubTyped, H!Unsubscribe, H!NoSendOnClosed
  <2>2. H!Open' \subseteq H!Open
    BY <1>1, <1>4 DEF H!Open, H!Unsubscribe
  <2>3. Served'
    BY <1>1, <1>2, <1>4, <2>2 DEF HubInv, Served, H!Unsubscribe, Newest
  <2> QED BY <2>1, <2>3 DEF HubInv
<1>5. ASSUME NEW l \in Listeners, H!Receive(l) PROVE HubInv'
  <2>1. /\ queue[l] # <<>> /\ queue[l] \in Seq(Frames) /\ channel[l] = "open"
        /\ queue'[l] = Tail(queue[l]) /\ taken'[l] = Head(queue[l])
        /\ \A k \in Listeners \ {l} : queue'[k] = queue[k] /\ taken'[k] = taken[k]
        /\ UNCHANGED <<channel, published, offering>>
    BY <1>1, <1>5 DEF H!Receive
  <2>2. queue' \in [Listeners -> Seq(Frames)] /\ taken' \in [Listeners -> 0..MaxFrames]
    BY <1>1, <1>5, <2>1, TailIs DEF H!Receive, Frames
  <2>3. ASSUME NEW k \in Listeners
        PROVE  Len(queue'[k]) <= Len(queue[k]) /\ Len(queue'[k]) \in Nat
    <3>1. CASE k = l
      <4>1. Len(Tail(queue[l])) = Len(queue[l]) - 1 /\ Len(queue[l]) \in Nat /\ Len(queue[l]) > 0
        BY <2>1, TailIs
      <4>2. Len(queue'[k]) = Len(queue[k]) - 1 /\ Len(queue[k]) \in Nat /\ Len(queue[k]) > 0
        BY <2>1, <3>1, <4>1
      <4> QED BY <4>2
    <3>2. CASE k # l
      <4>1. queue'[k] = queue[k] /\ queue[k] \in Seq(Frames)
        BY <1>1, <2>1, <3>2 DEF HubTyped
      <4>2. Len(queue[k]) \in Nat
        BY <4>1
      <4> QED BY <4>1, <4>2
    <3> QED BY <3>1, <3>2
  <2>4. HubTyped'
    BY <1>1, <2>1, <2>2, <2>3 DEF HubInv, HubTyped
  <2>5. H!NoSendOnClosed' /\ H!Open' = H!Open
    BY <2>1 DEF HubInv, H!NoSendOnClosed, H!Open
  <2>6. ASSUME NEW k \in Listeners PROVE Newest(k)' = Newest(k)
    <3>1. CASE k # l
      BY <2>1, <3>1 DEF Newest
    <3>2. CASE k = l
      <4>1. /\ queue'[l] = <<>> => queue[l][Len(queue[l])] = taken'[l]
            /\ queue'[l] # <<>> => queue'[l][Len(queue'[l])] = queue[l][Len(queue[l])]
        BY <2>1, TailIs
      <4> QED BY <2>1, <3>2, <4>1 DEF Newest
    <3> QED BY <3>1, <3>2
  <2>7. Served'
    <3>1. \A k \in H!Open' \ offering'.left : Newest(k)' = published'
      BY <2>1, <2>5, <2>6 DEF HubInv, Served, H!Open
    <3>2. \A k \in Listeners : offering'.at = "again" /\ k \in offering'.to
                                 => Len(queue'[k]) < QueueLimit
      BY <1>1, <2>1, <2>3 DEF HubInv, Served
    <3>3. \A k \in Listeners : channel'[k] = "none" => queue'[k] = <<>>
      BY <2>1 DEF HubInv, Served
    <3>4. \A j, k \in offering'.to : j = k
      BY <2>1 DEF HubInv, Served
    <3> QED BY <3>1, <3>2, <3>3, <3>4 DEF Served
  <2> QED BY <2>4, <2>5, <2>7 DEF HubInv
<1>6. CASE H!Publish
  <2>1. /\ published' = published + 1 /\ published < MaxFrames
        /\ offering' = [left |-> H!Open, to |-> {}, at |-> "next"]
        /\ UNCHANGED <<channel, queue, taken>>
    BY <1>6 DEF H!Publish
  <2>2. published' \in 0..MaxFrames /\ published' # 0 /\ offering' \in Offering
    BY <1>1, <2>1 DEF Offering, H!Open
  <2>3. HubTyped' /\ H!NoSendOnClosed' /\ Served'
    BY <2>1, <2>2 DEF HubInv, HubTyped, H!NoSendOnClosed, Served, H!Open
  <2> QED BY <2>3 DEF HubInv
<1>7. ASSUME NEW l \in Listeners, H!Offer(l) PROVE HubInv'
  <2>1. CASE H!HasRoom(l)
    BY <1>7, <2>1, Appended DEF H!Offer, H!HasRoom
  <2>2. CASE ~H!HasRoom(l)
    <3>1. /\ offering' = [offering EXCEPT !.to = {l}, !.at = "full"]
          /\ l \in offering.left /\ offering.at = "next"
          /\ UNCHANGED <<channel, queue, taken, published>>
      BY <1>7, <2>2 DEF H!Offer
    <3>2. /\ offering' = [left |-> offering.left, to |-> {l}, at |-> "full"]
          /\ offering.left \in SUBSET Listeners
      BY <1>1, <3>1 DEF Offering
    <3>3. /\ offering' \in Offering /\ offering'.left = offering.left /\ offering'.to = {l}
          /\ offering'.at = "full"
      BY <3>2 DEF Offering
    <3>4. HubTyped' /\ H!NoSendOnClosed' /\ Served'
      BY <3>1, <3>3 DEF HubInv, HubTyped, H!NoSendOnClosed, Served, H!Open, Newest
    <3> QED BY <3>4 DEF HubInv
  <2> QED BY <2>1, <2>2
<1>8. ASSUME NEW l \in Listeners, H!DropOldest(l) PROVE HubInv'
  <2>1. /\ offering.at = "full" /\ l \in offering.to /\ l \in offering.left
        /\ queue' = [queue EXCEPT ![l] = IF @ = <<>> THEN @ ELSE Tail(@)]
        /\ offering' = [offering EXCEPT !.at = "again"]
        /\ UNCHANGED <<channel, taken, published>>
    BY <1>8 DEF H!DropOldest, HubInv, HubTyped
  <2>2. /\ \A k \in Listeners \ {l} : queue'[k] = queue[k]
        /\ queue'[l] = IF queue[l] = <<>> THEN <<>> ELSE Tail(queue[l])
    BY <1>1, <2>1
  <2>3. queue[l] \in Seq(Frames)
    BY <1>1
  <2>4. queue'[l] \in Seq(Frames) /\ Len(queue'[l]) < QueueLimit /\ Len(queue'[l]) \in Nat
    BY <1>1, <2>2, <2>3, TailIs
  <2>5. /\ offering' \in Offering /\ offering'.left = offering.left
        /\ offering'.to = offering.to /\ offering'.at = "again"
    BY <1>1, <2>1 DEF Offering
  <2>6. HubTyped'
    <3>1. queue' \in [Listeners -> Seq(Frames)]
      BY <1>1, <2>1, <2>4
    <3>2. Len(queue'[l]) <= QueueLimit /\ \A k \in Listeners \ {l} : Len(queue'[k]) <= QueueLimit
      BY <1>1, <2>2, <2>4
    <3> QED BY <2>1, <2>5, <3>1, <3>2 DEF HubInv, HubTyped
  <2>7. H!NoSendOnClosed'
    BY <2>1, <2>5 DEF HubInv, H!NoSendOnClosed, H!Open
  <2>8. Served'
    <3>1. \A k \in H!Open' \ offering'.left : Newest(k)' = published'
      <4>1. \A k \in H!Open' \ offering'.left :
              k \in H!Open \ offering.left /\ k \in Listeners \ {l}
        BY <2>1, <2>5 DEF H!Open
      <4> QED BY <2>1, <2>2, <4>1 DEF HubInv, Served, Newest
    <3>2. \A k \in offering'.to : k = l
      BY <2>1, <2>5 DEF HubInv, Served
    <3>3. \A k \in Listeners : channel'[k] = "none" => queue'[k] = <<>>
      BY <2>1, <2>2 DEF HubInv, Served
    <3> QED BY <2>4, <3>1, <3>2, <3>3 DEF Served
  <2> QED BY <2>6, <2>7, <2>8 DEF HubInv
<1>9. ASSUME NEW l \in Listeners, H!OfferAgain(l) PROVE HubInv'
  <2>1. Len(queue[l]) < QueueLimit /\ l \in offering.left /\ offering.at = "again"
    BY <1>9 DEF H!OfferAgain, HubInv, Served, HubTyped
  <2> QED BY <1>9, <2>1, Appended DEF H!OfferAgain, H!HasRoom
<1>10. CASE UNCHANGED hvars
  BY <1>10 DEF hvars, HubInv, HubTyped, H!NoSendOnClosed, Served, H!Open, Newest
<1> QED BY <1>3, <1>4, <1>5, <1>6, <1>7, <1>8, <1>9, <1>10 DEF H!HubNext, H!Publishing

-----------------------------------------------------------------------------
(* The relay. *)

Consumers ==
    [pc : {"none", "wait", "frame", "key", "write", "gap", "ended"}, keyed : BOOLEAN,
     done : 0..MaxStarts]
Requests == [pc : {"idle", "spawn", "cancel", "release", "join"}, session : 0..MaxStarts]
Counters == [sessions : 0..MaxStarts, ptt : Nat, start : Nat]

RelayTyped ==
    /\ active \in BOOLEAN /\ output \in BOOLEAN /\ line \in BOOLEAN
    /\ relayed \in 0..MaxStarts /\ (active => relayed # 0 /\ output)
    /\ consumer \in [L!Sessions -> Consumers]
    /\ canceled \subseteq L!Sessions
    /\ closed \in [0..MaxStarts -> Nat]
    /\ caller \in [Callers -> Requests]
    /\ \A c \in Callers : caller[c].pc \in {"spawn", "cancel"} => caller[c].session \in L!Sessions
    /\ used \in Counters

LEMMA RelayAssumed == MaxStarts \in Nat
BY LiveAssumption DEF L!RelayAssumption

LEMMA RelayInit == L!Init => RelayTyped
<1> SUFFICES ASSUME L!Init PROVE RelayTyped
  OBVIOUS
<1>1. 0 \in 0..MaxStarts
  BY RelayAssumed
<1>2. /\ L!NoConsumer \in Consumers /\ L!NoRequest \in Requests /\ L!NoRequest.pc = "idle"
      /\ [sessions |-> 0, ptt |-> 0, start |-> 0] \in Counters
  BY <1>1 DEF L!NoConsumer, L!NoRequest, Consumers, Requests, Counters
<1> QED BY <1>1, <1>2 DEF L!Init, RelayTyped

\* The helper that drives RTS.
LEMMA LineTyped ==
    ASSUME RelayTyped, NEW value \in BOOLEAN, L!SetPTT(value)
    PROVE  line' \in BOOLEAN /\ used' \in Counters /\ used'.sessions = used.sessions
BY DEF RelayTyped, L!SetPTT, Counters

\* A request goes on.
LEMMA RequestIs ==
    ASSUME RelayTyped, NEW c \in Callers, NEW pc \in {"idle", "spawn", "cancel", "release", "join"},
           NEW s \in 0..MaxStarts, pc \in {"spawn", "cancel"} => s # 0, L!Request(c, pc, s)
    PROVE  /\ caller' \in [Callers -> Requests]
           /\ caller'[c].pc = pc /\ caller'[c].session = s
           /\ \A d \in Callers : caller'[d].pc \in {"spawn", "cancel"}
                                  => caller'[d].session \in L!Sessions
<1> DEFINE r == [pc |-> pc, session |-> s]
<1>1. r \in Requests /\ r.pc = pc /\ r.session = s
  BY DEF Requests
<1>2. caller' = [caller EXCEPT ![c] = r]
  BY DEF L!Request
<1>3. s # 0 => s \in L!Sessions
  BY RelayAssumed DEF L!Sessions
<1> HIDE DEF r
<1> QED BY <1>1, <1>2, <1>3 DEF RelayTyped

\* A goroutine goes on.
LEMMA GoesIs ==
    ASSUME RelayTyped, NEW s \in L!Sessions, NEW r \in Consumers,
           consumer' = [consumer EXCEPT ![s] = r]
    PROVE  /\ consumer' \in [L!Sessions -> Consumers] /\ consumer'[s] = r
           /\ \A t \in L!Sessions \ {s} : consumer'[t] = consumer[t]
BY DEF RelayTyped

LEMMA MovedTyped ==
    ASSUME NEW r \in Consumers
    PROVE  /\ \A pc \in {"wait", "key", "write", "ended"} :
                /\ [r EXCEPT !.pc = pc] \in Consumers /\ [r EXCEPT !.pc = pc].pc = pc
                /\ [r EXCEPT !.pc = pc].done = r.done
           /\ [r EXCEPT !.pc = "write", !.keyed = TRUE] \in Consumers
           /\ [r EXCEPT !.pc = "write", !.keyed = TRUE].pc = "write"
           /\ [r EXCEPT !.pc = "write", !.keyed = TRUE].done = r.done
           /\ [r EXCEPT !.pc = "gap", !.keyed = FALSE] \in Consumers
           /\ [r EXCEPT !.pc = "gap", !.keyed = FALSE].pc = "gap"
           /\ [r EXCEPT !.pc = "gap", !.keyed = FALSE].done = r.done
BY DEF Consumers

\* A goroutine's step: it keeps its channel, which it closes when it ends.
Step(s) ==
    /\ UNCHANGED <<active, relayed, output, canceled, caller>>
    /\ line' \in BOOLEAN /\ used' \in Counters /\ used'.sessions = used.sessions
    /\ consumer[s].pc \notin {"none", "ended"}
    /\ \E r \in Consumers :
         /\ consumer' = [consumer EXCEPT ![s] = r]
         /\ r.done = consumer[s].done /\ r.pc # "none"
         /\ IF r.pc = "ended" THEN closed' = [closed EXCEPT ![r.done] = @ + 1]
            ELSE UNCHANGED closed

LEMMA WorkIs ==
    ASSUME RelayTyped, NEW s \in L!Sessions,
           L!EndConsumer(s) \/ L!ReceiveFrame(s) \/ L!EndSegment(s) \/ L!Work(s)
    PROVE  Step(s)
<1>1. /\ consumer \in [L!Sessions -> Consumers] /\ consumer[s] \in Consumers
      /\ line \in BOOLEAN /\ used \in Counters
  BY DEF RelayTyped
<1>2. \A pc : L!Goes(s, pc) => consumer' = [consumer EXCEPT ![s] = [consumer[s] EXCEPT !.pc = pc]]
  BY <1>1 DEF L!Goes
<1>3. CASE L!EndConsumer(s)
  <2> DEFINE r == [consumer[s] EXCEPT !.pc = "ended"]
  <2>1. r \in Consumers /\ r.pc = "ended" /\ r.done = consumer[s].done
    BY <1>1, MovedTyped
  <2>2. /\ consumer' = [consumer EXCEPT ![s] = r] /\ consumer[s].pc = "wait"
        /\ closed' = [closed EXCEPT ![consumer[s].done] = @ + 1]
        /\ UNCHANGED <<active, relayed, output, line, canceled, caller, used>>
    BY <1>2, <1>3 DEF L!EndConsumer, L!At
  <2> HIDE DEF r
  <2> QED BY <1>1, <2>1, <2>2 DEF Step
<1>4. ASSUME NEW pc \in {"wait", "key", "write"}, L!Goes(s, pc),
             consumer[s].pc \in {"wait", "write", "gap"},
             UNCHANGED <<active, relayed, output, line, canceled, closed, caller, used>>
      PROVE  Step(s)
  <2> DEFINE r == [consumer[s] EXCEPT !.pc = pc]
  <2>1. r \in Consumers /\ r.pc = pc /\ r.done = consumer[s].done
    BY <1>1 DEF Consumers
  <2>2. consumer' = [consumer EXCEPT ![s] = r]
    BY <1>2, <1>4
  <2> HIDE DEF r
  <2> QED BY <1>1, <1>4, <2>1, <2>2 DEF Step
<1>5. CASE L!ReceiveFrame(s)
  BY <1>4, <1>5 DEF L!ReceiveFrame, L!At
<1>6. CASE L!WriteFrame(s)
  BY <1>4, <1>6 DEF L!WriteFrame, L!At
<1>7. CASE L!EndGap(s)
  BY <1>4, <1>7 DEF L!EndGap, L!At
<1>8. CASE L!Key(s)
  <2>1. PICK r \in {[consumer[s] EXCEPT !.pc = "wait"],
                    [consumer[s] EXCEPT !.pc = "write", !.keyed = TRUE]} :
          consumer' = [consumer EXCEPT ![s] = r]
    BY <1>1, <1>8 DEF L!Key
  <2>2. r \in Consumers /\ r.pc \in {"wait", "write"} /\ r.done = consumer[s].done
    <3>1. CASE r = [consumer[s] EXCEPT !.pc = "wait"]
      BY <1>1, <3>1, MovedTyped
    <3>2. CASE r = [consumer[s] EXCEPT !.pc = "write", !.keyed = TRUE]
      BY <1>1, <3>2, MovedTyped
    <3> QED BY <2>1, <3>1, <3>2
  <2>3. /\ L!SetPTT(TRUE) /\ consumer[s].pc = "key"
        /\ UNCHANGED <<active, relayed, output, canceled, closed, caller>>
    BY <1>8 DEF L!Key, L!At
  <2> QED BY <2>1, <2>2, <2>3, LineTyped DEF Step
<1>9. CASE L!EndSegment(s)
  <2> DEFINE r == [consumer[s] EXCEPT !.pc = "gap", !.keyed = FALSE]
  <2>1. consumer' = [consumer EXCEPT ![s] = r]
    BY <1>1, <1>9 DEF L!EndSegment
  <2>2. r \in Consumers /\ r.pc = "gap" /\ r.done = consumer[s].done
    BY <1>1, MovedTyped
  <2>3. /\ L!SetPTT(FALSE) /\ consumer[s].pc = "wait"
        /\ UNCHANGED <<active, relayed, output, canceled, closed, caller>>
    BY <1>9 DEF L!EndSegment, L!At
  <2> HIDE DEF r
  <2> QED BY <2>1, <2>2, <2>3, LineTyped DEF Step
<1> QED BY <1>3, <1>5, <1>6, <1>7, <1>8, <1>9 DEF L!Work

LEMMA RelayStepTyped == RelayTyped /\ [L!Next]_lvars => RelayTyped'
<1> SUFFICES ASSUME RelayTyped, [L!Next]_lvars PROVE RelayTyped'
  OBVIOUS
<1>1. /\ used \in Counters /\ used.sessions \in 0..MaxStarts /\ MaxStarts \in Nat
      /\ relayed \in 0..MaxStarts /\ 0 \in 0..MaxStarts
      /\ \A c \in Callers : caller[c] \in Requests /\ caller[c].session \in 0..MaxStarts
  BY RelayAssumed DEF RelayTyped, Requests, Counters
<1>2. ASSUME NEW c \in Callers, L!BeginStart(c) PROVE RelayTyped'
  <2> DEFINE s == used.sessions + 1
  <2>1. s \in 0..MaxStarts /\ s # 0
    BY <1>1, <1>2 DEF L!BeginStart
  <2>2. /\ relayed' = s /\ output' = TRUE /\ UNCHANGED <<line, consumer, canceled, closed>>
        /\ \/ /\ active' = TRUE /\ L!Request(c, "spawn", s)
              /\ used' = [used EXCEPT !.sessions = s]
           \/ /\ used' = [used EXCEPT !.sessions = s, !.start = @ + 1]
              /\ UNCHANGED <<active, caller>>
    BY <1>2 DEF L!BeginStart
  <2> HIDE DEF s
  <2>3. used' \in Counters
    <3>1. [used EXCEPT !.sessions = s] \in Counters
      BY <1>1, <2>1 DEF Counters
    <3>2. used.ptt \in Nat /\ used.start + 1 \in Nat
      BY <1>1 DEF Counters
    <3>3. \A n \in Nat : [used EXCEPT !.sessions = s, !.start = n] \in Counters
      BY <1>1, <2>1 DEF Counters
    <3>4. [used EXCEPT !.sessions = s, !.start = @ + 1] \in Counters
      BY <3>2, <3>3
    <3> QED BY <2>2, <3>1, <3>4
  <2>4. /\ caller' \in [Callers -> Requests]
        /\ \A d \in Callers : caller'[d].pc \in {"spawn", "cancel"}
                               => caller'[d].session \in L!Sessions
    <3>1. CASE L!Request(c, "spawn", s)
      BY <2>1, <3>1, RequestIs
    <3>2. CASE UNCHANGED caller
      BY <3>2 DEF RelayTyped
    <3> QED BY <2>2, <3>1, <3>2
  <2> QED BY <2>1, <2>2, <2>3, <2>4 DEF RelayTyped
<1>3. ASSUME NEW c \in Callers, L!Spawn(c) PROVE RelayTyped'
  <2> DEFINE r == [pc |-> "wait", keyed |-> FALSE, done |-> relayed]
  <2>1. /\ r \in Consumers /\ caller[c].session \in L!Sessions
        /\ consumer' = [consumer EXCEPT ![caller[c].session] = r]
        /\ L!Request(c, "idle", 0)
        /\ UNCHANGED <<active, relayed, output, line, canceled, closed, used>>
    BY <1>1, <1>3 DEF L!Spawn, RelayTyped, Consumers
  <2> HIDE DEF r
  <2>2. consumer' \in [L!Sessions -> Consumers]
    BY <2>1, GoesIs
  <2> QED BY <1>1, <2>1, <2>2, RequestIs DEF RelayTyped
<1>4. ASSUME NEW c \in Callers, L!BeginStop(c) PROVE RelayTyped'
  BY <1>1, <1>4, RequestIs DEF L!BeginStop, RelayTyped
<1>5. ASSUME NEW c \in Callers, L!Cancel(c) PROVE RelayTyped'
  BY <1>1, <1>5, RequestIs DEF L!Cancel, RelayTyped
<1>6. ASSUME NEW c \in Callers, L!ReleasePTT(c) PROVE RelayTyped'
  BY <1>1, <1>6, RequestIs, LineTyped DEF L!ReleasePTT, RelayTyped
<1>7. ASSUME NEW c \in Callers, L!Join(c) PROVE RelayTyped'
  BY <1>1, <1>7, RequestIs DEF L!Join, RelayTyped
<1>8. ASSUME NEW s \in L!Sessions, Step(s) PROVE RelayTyped'
  <2>1. PICK r \in Consumers :
          /\ consumer' = [consumer EXCEPT ![s] = r]
          /\ closed' \in {closed, [closed EXCEPT ![r.done] = @ + 1]}
    BY <1>8 DEF Step
  <2>2. consumer' \in [L!Sessions -> Consumers]
    BY <2>1, GoesIs
  <2>3. closed' \in [0..MaxStarts -> Nat]
    BY <2>1 DEF RelayTyped, Consumers
  <2> QED BY <1>8, <2>2, <2>3 DEF Step, RelayTyped
<1>9. CASE UNCHANGED lvars
  BY <1>9 DEF lvars, RelayTyped
<1> QED BY <1>2, <1>3, <1>4, <1>5, <1>6, <1>7, <1>8, <1>9, WorkIs DEF L!Next, L!Stopping

\* With one caller, a session has a goroutine only while the relay is active
\* with it or the caller is stopping it; a session about to be spawned is new.
OneCaller(c) ==
    /\ \A s \in L!Sessions : consumer[s].pc \notin {"none", "ended"} =>
         \/ active /\ relayed = s /\ caller[c].pc = "idle"
         \/ caller[c].session = s /\ caller[c].pc \in {"cancel", "release", "join"}
    /\ caller[c].pc = "spawn" =>
         /\ active /\ relayed = caller[c].session /\ caller[c].session <= used.sessions
         /\ consumer[caller[c].session].pc = "none"
    /\ \A s \in L!Sessions : s > used.sessions => consumer[s].pc = "none"

\* A goroutine has its own session's channel, and closes it as it ends.
OwnChannels ==
    /\ \A s \in L!Sessions : consumer[s].pc # "none" => consumer[s].done = s
    /\ \A s \in L!Sessions : closed[s] = IF consumer[s].pc = "ended" THEN 1 ELSE 0
    /\ closed[0] = 0

RelayInv(c) == RelayTyped /\ OneCaller(c) /\ OwnChannels

LEMMA OneCallerInit == \A c \in Callers : L!Init => RelayInv(c)
BY RelayInit, RelayAssumed
   DEF L!Init, RelayInv, OneCaller, OwnChannels, L!NoConsumer, L!NoRequest, L!Sessions

LEMMA OneCallerStep ==
    ASSUME NEW c, Callers = {c}, RelayInv(c), [L!Next]_lvars
    PROVE  RelayInv(c)'
<1>1. RelayTyped /\ RelayTyped'
  BY RelayStepTyped DEF RelayInv
<1>2. /\ consumer \in [L!Sessions -> Consumers] /\ closed \in [0..MaxStarts -> Nat]
      /\ used.sessions \in 0..MaxStarts /\ MaxStarts \in Nat /\ c \in Callers
      /\ caller[c] \in Requests /\ caller[c].session \in 0..MaxStarts
      /\ L!Sessions = 1..MaxStarts
  BY <1>1, RelayAssumed DEF RelayTyped, Counters, Requests, L!Sessions
<1>3. ASSUME L!BeginStart(c) PROVE OneCaller(c)' /\ OwnChannels'
  <2> DEFINE s == used.sessions + 1
  <2>1. s \in L!Sessions /\ s > used.sessions /\ consumer[s].pc = "none"
    BY <1>2, <1>3 DEF L!BeginStart, RelayInv, OneCaller
  <2>2. /\ ~active /\ caller[c].pc = "idle" /\ relayed' = s /\ UNCHANGED <<consumer, closed>>
        /\ used'.sessions = s
        /\ \/ active' = TRUE /\ L!Request(c, "spawn", s)
           \/ UNCHANGED <<active, caller>>
    BY <1>1, <1>3 DEF L!BeginStart, RelayTyped, Counters
  <2>3. \A t \in L!Sessions : consumer[t].pc \in {"none", "ended"}
    BY <2>2 DEF RelayInv, OneCaller
  <2> HIDE DEF s
  <2>4. OwnChannels'
    BY <2>2 DEF RelayInv, OwnChannels
  <2>5. caller'[c].pc = "spawn" =>
          active' /\ relayed' = caller'[c].session /\ caller'[c].session = s
    <3>1. CASE active' = TRUE /\ L!Request(c, "spawn", s)
      BY <1>1, <1>2, <2>1, <2>2, <3>1, RequestIs
    <3>2. CASE UNCHANGED caller
      BY <2>2, <3>2
    <3> QED BY <2>2, <3>1, <3>2
  <2>6. s <= s /\ \A t \in L!Sessions : t > s => consumer[t].pc = "none"
    BY <1>2, <2>1 DEF RelayInv, OneCaller
  <2> QED BY <2>1, <2>2, <2>3, <2>4, <2>5, <2>6 DEF OneCaller
<1>4. ASSUME L!Spawn(c) PROVE OneCaller(c)' /\ OwnChannels'
  <2> DEFINE s == caller[c].session
             r == [pc |-> "wait", keyed |-> FALSE, done |-> relayed]
  <2>1. /\ s \in L!Sessions /\ active /\ relayed = s /\ consumer[s].pc = "none"
        /\ caller[c].pc = "spawn"
    BY <1>1, <1>2, <1>4 DEF L!Spawn, RelayInv, OneCaller, RelayTyped
  <2>2. /\ r \in Consumers /\ r.pc = "wait" /\ r.done = s
        /\ consumer' = [consumer EXCEPT ![s] = r] /\ L!Request(c, "idle", 0)
        /\ UNCHANGED <<active, relayed, closed, used>>
    BY <1>1, <1>4, <2>1 DEF L!Spawn, Consumers, RelayTyped
  <2> HIDE DEF s, r
  <2>3. /\ consumer'[s] = r /\ \A t \in L!Sessions \ {s} : consumer'[t] = consumer[t]
        /\ caller'[c].pc = "idle"
    BY <1>1, <1>2, <2>1, <2>2, GoesIs, RequestIs
  <2>4. \A t \in L!Sessions \ {s} : consumer[t].pc \in {"none", "ended"}
    BY <2>1 DEF RelayInv, OneCaller
  <2>5. s <= used.sessions
    BY <2>1 DEF RelayInv, OneCaller
  <2>6. OwnChannels'
    BY <2>1, <2>2, <2>3 DEF RelayInv, OwnChannels
  <2>7. OneCaller(c)'
    BY <1>2, <2>1, <2>2, <2>3, <2>4, <2>5 DEF RelayInv, OneCaller
  <2> QED BY <2>6, <2>7
<1>5. ASSUME L!BeginStop(c) PROVE OneCaller(c)' /\ OwnChannels'
  <2>1. /\ caller[c].pc = "idle" /\ UNCHANGED <<consumer, closed, used>>
        /\ L!Request(c, IF relayed # 0 THEN "cancel" ELSE "release", relayed)
        /\ relayed \in 0..MaxStarts
    BY <1>1, <1>5 DEF L!BeginStop, RelayTyped
  <2>2. caller'[c].pc \in {"cancel", "release"} /\ caller'[c].session = relayed
    BY <1>1, <1>2, <2>1, RequestIs
  <2> QED BY <2>1, <2>2 DEF RelayInv, OneCaller, OwnChannels
<1>6. ASSUME L!Cancel(c) PROVE OneCaller(c)' /\ OwnChannels'
  <2>1. caller'[c].pc = "release" /\ caller'[c].session = caller[c].session
    BY <1>1, <1>2, <1>6, RequestIs DEF L!Cancel
  <2> QED BY <1>6, <2>1 DEF L!Cancel, RelayInv, OneCaller, OwnChannels
<1>7. ASSUME L!ReleasePTT(c) PROVE OneCaller(c)' /\ OwnChannels'
  <2>1. /\ caller'[c].pc = (IF caller[c].session = 0 THEN "idle" ELSE "join")
        /\ caller'[c].session = caller[c].session
    BY <1>1, <1>2, <1>7, RequestIs DEF L!ReleasePTT
  <2>2. /\ UNCHANGED <<active, relayed, consumer, closed>> /\ used'.sessions = used.sessions
        /\ caller[c].pc = "release"
    BY <1>1, <1>7, LineTyped DEF L!ReleasePTT
  <2> QED BY <1>2, <2>1, <2>2 DEF RelayInv, OneCaller, OwnChannels
<1>8. ASSUME L!Join(c) PROVE OneCaller(c)' /\ OwnChannels'
  <2>1. caller'[c].pc = "idle"
    BY <1>1, <1>2, <1>8, RequestIs DEF L!Join
  <2>2. /\ caller[c].pc = "join" /\ closed[caller[c].session] > 0
        /\ UNCHANGED <<active, relayed, consumer, closed, used>>
    BY <1>8 DEF L!Join
  <2>3. caller[c].session \in L!Sessions /\ consumer[caller[c].session].pc = "ended"
    BY <1>2, <2>2 DEF RelayInv, OwnChannels
  <2>4. \A s \in L!Sessions : consumer[s].pc \in {"none", "ended"}
    BY <2>2, <2>3 DEF RelayInv, OneCaller
  <2> QED BY <2>1, <2>2, <2>4 DEF RelayInv, OneCaller, OwnChannels
<1>9. ASSUME NEW s \in L!Sessions, Step(s) PROVE OneCaller(c)' /\ OwnChannels'
  <2>1. PICK r \in Consumers :
          /\ consumer' = [consumer EXCEPT ![s] = r] /\ r.done = consumer[s].done
          /\ r.pc # "none"
          /\ IF r.pc = "ended" THEN closed' = [closed EXCEPT ![r.done] = @ + 1]
             ELSE UNCHANGED closed
    BY <1>9 DEF Step
  <2>2. /\ consumer'[s] = r /\ \A t \in L!Sessions \ {s} : consumer'[t] = consumer[t]
        /\ consumer[s].pc \notin {"none", "ended"} /\ r.done = s /\ closed[s] = 0
        /\ UNCHANGED <<active, relayed, caller>> /\ used'.sessions = used.sessions
    BY <1>1, <1>9, <2>1, GoesIs DEF Step, RelayInv, OwnChannels
  <2>3. /\ closed'[s] = IF r.pc = "ended" THEN 1 ELSE 0
        /\ closed'[0] = closed[0] /\ \A t \in L!Sessions \ {s} : closed'[t] = closed[t]
    BY <1>2, <2>1, <2>2
  <2>4. OwnChannels'
    BY <2>1, <2>2, <2>3 DEF RelayInv, OwnChannels
  <2>5. OneCaller(c)'
    BY <1>2, <2>1, <2>2 DEF RelayInv, OneCaller
  <2> QED BY <2>4, <2>5
<1>10. ASSUME UNCHANGED lvars PROVE OneCaller(c)' /\ OwnChannels'
  BY <1>1, <1>10 DEF lvars, RelayInv, OneCaller, OwnChannels
<1>11. OneCaller(c)' /\ OwnChannels'
  <2>1. CASE \E d \in Callers : L!BeginStart(d) \/ L!Spawn(d) \/ L!BeginStop(d) \/ L!Stopping(d)
    <3>1. L!BeginStart(c) \/ L!Spawn(c) \/ L!BeginStop(c) \/ L!Stopping(c)
      BY <2>1
    <3> QED BY <1>3, <1>4, <1>5, <1>6, <1>7, <1>8, <3>1 DEF L!Stopping
  <2>2. CASE \E s \in L!Sessions :
               L!EndConsumer(s) \/ L!ReceiveFrame(s) \/ L!EndSegment(s) \/ L!Work(s)
    BY <1>1, <1>9, <2>2, WorkIs
  <2> QED BY <1>10, <2>1, <2>2 DEF L!Next
<1> QED BY <1>1, <1>11 DEF RelayInv

-----------------------------------------------------------------------------
(* The theorems. *)

LEMMA LiveSteps ==
    [MCNext]_allvars => [Next]_vars /\ [L!Next]_lvars /\ [H!HubNext]_hvars
BY DEF MCNext, Captures, Relays, Plays, allvars

(* However fast frames are published, and however slowly listeners read,     *)
(* come and go, the newest frame is the last in a listener's queue or the    *)
(* last it took, and nothing is sent to a closed channel (audio_hub.go).     *)
THEOREM NewestReaches == MCSpec => []NewestDelivered
<1>1. MCInit => HubInv
  BY HubInitInv DEF MCInit
<1>2. HubInv /\ [MCNext]_allvars => HubInv'
  BY LiveSteps, HubStep
<1>3. HubInv => NewestDelivered
  <2> SUFFICES ASSUME HubInv, offering = H!Idle, NEW l \in H!Open
               PROVE  published = IF queue[l] = <<>> THEN taken[l] ELSE H!Last(queue[l])
    BY DEF NewestDelivered, H!NewestQueued, HubInv
  <2>1. Newest(l) = published
    BY DEF HubInv, Served, H!Idle
  <2> QED BY <2>1 DEF Newest, H!Last
<1> QED BY <1>1, <1>2, <1>3, PTL DEF MCSpec

(* While one request at a time starts and stops the relay, no goroutine that *)
(* could key the transmitter is left once it is stopped, and every done      *)
(* channel is closed once at most, however often starts fail and helpers     *)
(* misbehave (relay_runtime.go).                                             *)
THEOREM RelayLetsGo ==
    ASSUME NEW c, Callers = {c}
    PROVE  MCSpec => []RelayLetGo
<1>1. MCInit => RelayInv(c)
  BY OneCallerInit DEF MCInit
<1>2. RelayInv(c) /\ [MCNext]_allvars => RelayInv(c)'
  BY LiveSteps, OneCallerStep
<1>3. RelayInv(c) => RelayLetGo
  <2> SUFFICES ASSUME RelayInv(c) PROVE RelayLetGo
    OBVIOUS
  <2>1. L!NothingLeftRunning
    BY DEF RelayInv, OneCaller, L!NothingLeftRunning, L!Quiet
  <2>2. L!ClosedOnce
    BY DEF RelayInv, OwnChannels, L!ClosedOnce
  <2> QED BY <2>1, <2>2 DEF RelayLetGo
<1> QED BY <1>1, <1>2, <1>3, PTL DEF MCSpec

(* Every variable of the live system keeps its type: a queue never exceeds   *)
(* its capacity, and an active relay has a session and an output.            *)
THEOREM LiveTyped == MCSpec => []LiveTypeOK
<1> DEFINE Inv == TypeInv /\ RelayTyped /\ HubInv
<1>1. MCInit => Inv
  BY InitType, RelayInit, HubInitInv DEF MCInit
<1>2. Inv /\ [MCNext]_allvars => Inv'
  BY LiveSteps, TypeInductive, RelayStepTyped, HubStep
<1>3. Inv => LiveTypeOK
  <2> SUFFICES ASSUME Inv PROVE LiveTypeOK
    OBVIOUS
  <2>1. H!HubTypeOK
    BY DEF HubInv, HubTyped, Offering, Frames, H!HubTypeOK
  <2>2. L!TypeOK
    BY DEF RelayTyped, Consumers, Requests, Counters, L!TypeOK
  <2> QED BY <2>1, <2>2 DEF LiveTypeOK, TypeInv
<1> QED BY <1>1, <1>2, <1>3, PTL DEF MCSpec

(* The receiver is held by one capture at a time in the composed system too. *)
THEOREM LiveReceiverHeld == MCSpec => []ReceiverHeldOnce
<1>1. MCSpec => Init /\ [][Next]_vars
  BY LiveSteps, PTL DEF MCSpec, MCInit
<1> QED BY <1>1, ReceiverHeldByOne DEF Spec

-----------------------------------------------------------------------------
(* Who owns a receiver: ReceiverOwnership, for every number of operators,    *)
(* receivers, profiles and jobs.  The Mapper's reservations are sound        *)
(* whatever requests overlap, and with requests one at a time no capture     *)
(* loop escapes its stop channel.                                            *)

\* A request that startProfile carries past Stop has a profile, a request that
\* StartMapperJob carries has a job.
ShapedRequest ==
    {r \in O!Request :
        /\ r.pc \in {"check", "engineStart", "install"} => r.profile \in Profiles
        /\ r.pc = "mapperStart" => r.job \in Jobs}

\* TypeOK alone is not inductive: Assigned[None] need not be a set of receivers.
OwnersTyped == O!TypeOK /\ ops \in [Operators -> ShapedRequest]

\* Two registered jobs never name the same receiver.
HandlesApart ==
    \A j, k \in O!Registered : mapperJobs[j].dev = mapperJobs[k].dev => j = k

\* A job has at most one loop.
OneLoopPerJob ==
    \A k, l \in mapperLoops : k.job = l.job => k = l

\* HandleMatchesLoop alone does not survive finishMapperJob (a second loop of
\* the same job would lose its handle), nor does MapperExclusive survive
\* StartMapperJob, which compares receivers of handles and not of loops.
MapperInv == O!HandleMatchesLoop /\ HandlesApart /\ OneLoopPerJob

-----------------------------------------------------------------------------
(* Type correctness. *)

LEMMA IdleShape == O!Idle \in ShapedRequest
BY DEF O!Idle, O!Request, ShapedRequest, O!Pcs

LEMMA InitOwners == O!Init => OwnersTyped
<1> SUFFICES ASSUME O!Init PROVE OwnersTyped
  OBVIOUS
<1>1. mapperJobs \in [Jobs -> O!Handle]
  BY OwnersAssumption DEF O!OwnershipAssumption, O!Init, O!NoHandle, O!Handle
<1>2. ops \in [Operators -> ShapedRequest]
  BY IdleShape DEF O!Init
<1>3. running \in BOOLEAN
  BY DEF O!Init
<1>4. ops \in [Operators -> O!Request]
  BY <1>2 DEF ShapedRequest
<1> QED BY <1>1, <1>2, <1>3, <1>4, OwnersAssumption
           DEF O!OwnershipAssumption, O!Init, O!TypeOK, OwnersTyped

\* The requests stay well-formed when one of them is replaced or moves on.
LEMMA GotoOwners ==
    ASSUME OwnersTyped, NEW o \in Operators, NEW r \in ShapedRequest, O!Goto(o, r)
    PROVE  ops' \in [Operators -> ShapedRequest] /\ ops' \in [Operators -> O!Request]
BY DEF OwnersTyped, O!Goto, ShapedRequest

LEMMA ContinueType ==
    ASSUME OwnersTyped, NEW o \in Operators, ops[o].profile \in Profiles,
           NEW pc \in O!Pcs \ {"mapperStart"}, O!Continue(o, pc)
    PROVE  ops' \in [Operators -> ShapedRequest] /\ ops' \in [Operators -> O!Request]
<1>1. ops[o] \in O!Request
  BY DEF OwnersTyped, O!TypeOK
<1>2. [ops[o] EXCEPT !.pc = pc] \in ShapedRequest
  BY <1>1 DEF ShapedRequest, O!Request
<1>3. ops' = [ops EXCEPT ![o] = [ops[o] EXCEPT !.pc = pc]]
  BY DEF O!Continue
<1> QED BY <1>2, <1>3 DEF OwnersTyped, ShapedRequest

LEMMA RequestsType ==
    ASSUME OwnersTyped, NEW o \in Operators, O!Requests(o)
    PROVE  OwnersTyped'
<1>1. ASSUME NEW p \in Profiles, O!Start(o, p) PROVE OwnersTyped'
  <2>1. [O!Idle EXCEPT !.pc = "release", !.profile = p] \in ShapedRequest
    BY DEF O!Idle, ShapedRequest, O!Request, O!Pcs
  <2> QED BY <1>1, <2>1, GotoOwners
             DEF O!Start, OwnersTyped, O!TypeOK, O!session, O!mapper
<1>2. ASSUME NEW p \in Profiles, O!StartOnDevice(o, p) PROVE OwnersTyped'
  <2>1. [O!Idle EXCEPT !.pc = "release", !.profile = p] \in ShapedRequest
    BY DEF O!Idle, ShapedRequest, O!Request, O!Pcs
  <2> QED BY <1>2, <2>1, GotoOwners
             DEF O!StartOnDevice, OwnersTyped, O!TypeOK, O!session, O!mapper
<1>3. CASE O!RequestStop(o)
  <2>1. [O!Idle EXCEPT !.pc = "release"] \in ShapedRequest
    BY DEF O!Idle, ShapedRequest, O!Request, O!Pcs
  <2> QED BY <1>3, <2>1, GotoOwners
             DEF O!RequestStop, OwnersTyped, O!TypeOK, O!session, O!mapper
<1>4. ASSUME NEW j \in Jobs, NEW d \in Devices, O!RequestMapper(o, j,
             d) PROVE OwnersTyped'
  <2>1. [O!Idle EXCEPT !.pc = "mapperStart", !.job = j, !.devs = {d}] \in ShapedRequest
    BY DEF O!Idle, ShapedRequest, O!Request, O!Pcs
  <2> QED BY <1>4, <2>1, GotoOwners
             DEF O!RequestMapper, OwnersTyped, O!TypeOK, O!session, O!mapper
<1>5. ASSUME NEW S \in {{j} : j \in Jobs} \cup {Jobs}, O!StopMapperJobs(o,
             S) PROVE OwnersTyped'
  <2>1. \A j \in S \cap O!Registered : mapperJobs[j].chan \in O!Chans
    BY OwnersAssumption DEF O!OwnershipAssumption, OwnersTyped, O!TypeOK, O!Registered, O!Handle, O!Chans
  <2> QED BY <1>5, <2>1 DEF O!StopMapperJobs, OwnersTyped, O!TypeOK, O!session, O!mapper
<1>6. ASSUME NEW d \in Devices, O!RequestLab(o, {d}) PROVE OwnersTyped'
  <2>1. [O!Idle EXCEPT !.pc = "labStart", !.devs = {d}] \in ShapedRequest
    BY DEF O!Idle, ShapedRequest, O!Request, O!Pcs
  <2> QED BY <1>6, <2>1, GotoOwners
             DEF O!RequestLab, OwnersTyped, O!TypeOK, O!session, O!mapper
<1>7. CASE O!StopLab(o)
  BY <1>7 DEF O!StopLab, OwnersTyped, O!TypeOK, O!session, O!mapper
<1>8. ASSUME NEW d \in Devices, O!AutoCalibrate(o, d) PROVE OwnersTyped'
  <2>1. [O!Idle EXCEPT !.pc = "calibrating", !.devs = {d}] \in ShapedRequest
    BY DEF O!Idle, ShapedRequest, O!Request, O!Pcs
  <2> QED BY <1>8, <2>1, GotoOwners
             DEF O!AutoCalibrate, OwnersTyped, O!TypeOK, O!session, O!mapper
<1> QED BY <1>1, <1>2, <1>3, <1>4, <1>5, <1>6, <1>7, <1>8 DEF O!Requests

LEMMA ReleaseType ==
    ASSUME OwnersTyped, O!ReleaseSession
    PROVE  /\ running' \in BOOLEAN
           /\ stopChan' \in 0..MaxChans
           /\ plan' \subseteq Devices
           /\ closedChans' \subseteq O!Chans
<1>1. running' \in BOOLEAN
  BY DEF O!ReleaseSession
<1> QED BY <1>1, OwnersAssumption
           DEF O!OwnershipAssumption, OwnersTyped, O!TypeOK, O!ReleaseSession, O!Chans

LEMMA ProceedType ==
    ASSUME OwnersTyped, NEW o \in Operators, O!Proceed(o)
    PROVE  OwnersTyped'
<1> USE IdleShape, OwnersAssumption DEF O!OwnershipAssumption
<1>0. /\ ops[o] \in ShapedRequest
      /\ ops[o] \in O!Request
  BY DEF OwnersTyped, O!TypeOK
<1>p. {"engineStop", "check", "engineStart",
      "install"} \subseteq O!Pcs \ {"mapperStart"}
  BY DEF O!Pcs
<1>1. CASE O!StopSession(o)
  <2>1. [ops[o] EXCEPT !.pc = "engineStop"] \in ShapedRequest
    BY <1>0 DEF ShapedRequest, O!Request, O!Pcs
  <2>2. O!Goto(o, [ops[o] EXCEPT !.pc = "engineStop"])
    BY <1>1 DEF O!StopSession, O!Continue, O!Goto
  <2> QED BY <1>1, <2>1, <2>2, GotoOwners, ReleaseType
             DEF O!StopSession, OwnersTyped, O!TypeOK, O!mapper
<1>2. CASE O!StopEngine(o)
  <2>1. ops' \in [Operators -> ShapedRequest] /\ ops' \in [Operators -> O!Request]
    <3>1. CASE ops[o].profile = None
      BY <1>2, <3>1, GotoOwners DEF O!StopEngine
    <3>2. CASE ops[o].profile # None
      <4>1. ops[o].profile \in Profiles
        BY <1>0, <3>2 DEF O!Request
      <4> QED BY <1>2, <1>p, <3>2, <4>1, ContinueType DEF O!StopEngine
    <3> QED BY <3>1, <3>2
  <2> QED BY <1>2, <2>1
             DEF O!StopEngine, O!EngineIdle, OwnersTyped, O!TypeOK, O!session, O!mapper
<1>3. CASE O!CheckMapperOwners(o)
  <2>0. ops[o].profile \in Profiles
    BY <1>0, <1>3 DEF O!CheckMapperOwners, ShapedRequest
  <2>1. ops' \in [Operators -> ShapedRequest] /\ ops' \in [Operators -> O!Request]
    BY <1>3, <1>p, <2>0, GotoOwners, ContinueType DEF O!CheckMapperOwners
  <2> QED BY <1>3, <2>1
             DEF O!CheckMapperOwners, OwnersTyped, O!TypeOK, O!session, O!mapper
<1>4. CASE O!StartEngine(o)
  <2>0. ops[o].profile \in Profiles
    BY <1>0, <1>4 DEF O!StartEngine, ShapedRequest
  <2>1. ops' \in [Operators -> ShapedRequest] /\ ops' \in [Operators -> O!Request]
    BY <1>4, <1>p, <2>0, GotoOwners, ContinueType DEF O!StartEngine
  <2>2. Assigned[ops[o].profile] \in SUBSET Devices
    BY <2>0
  <2>3. engine' \in [state : {"none", "running", "exited"}, devs : SUBSET Devices]
    BY <1>4, <2>2 DEF O!StartEngine, O!EngineIdle
  <2> QED BY <1>4, <2>1, <2>3
             DEF O!StartEngine, OwnersTyped, O!TypeOK, O!session, O!mapper
<1>5. CASE O!InstallSession(o)
  <2> DEFINE p == ops[o].profile
             c == lastChan + 1
  <2>0. p \in Profiles
    BY <1>0, <1>5 DEF O!InstallSession, ShapedRequest
  <2>1. Assigned[p] \in SUBSET Devices
    BY <2>0
  <2>2. c \in O!Chans
    BY <1>5 DEF O!InstallSession, OwnersTyped, O!TypeOK, O!Chans
  <2>3. ops' \in [Operators -> ShapedRequest] /\ ops' \in [Operators -> O!Request]
    BY <1>5, GotoOwners DEF O!InstallSession
  <2>4. running' \in BOOLEAN
    BY <1>5 DEF O!InstallSession
  <2>5. captures' \subseteq [chan : O!Chans, dev : Devices, kind : {"survey", "stream"}]
    <3>1. CASE Kind[p] = "p25"
      BY <1>5, <3>1 DEF O!InstallSession, OwnersTyped, O!TypeOK
    <3>2. CASE Kind[p] # "p25"
      <4>1. Kind[p] \in {"survey", "stream"}
        BY <2>0, <3>2
      <4>2. captures' = captures \cup {[chan |-> c, dev |-> d,
            kind |-> Kind[p]] : d \in Assigned[p]}
        BY <1>5, <3>2 DEF O!InstallSession
      <4> HIDE DEF p, c
      <4> QED BY <2>1, <2>2, <4>1, <4>2 DEF OwnersTyped, O!TypeOK
    <3> QED BY <3>1, <3>2
  <2>6. monitors' \subseteq [chan : O!Chans, pc : {"watch", "release", "engineStop"}]
    BY <1>5, <2>2 DEF O!InstallSession, OwnersTyped, O!TypeOK
  <2>7. stopChan' \in 0..MaxChans /\ lastChan' \in 0..MaxChans /\ plan' \subseteq Devices
    BY <1>5, <2>1, <2>2 DEF O!InstallSession, O!Chans
  <2> QED BY <1>5, <2>3, <2>4, <2>5, <2>6, <2>7
             DEF O!InstallSession, OwnersTyped, O!TypeOK, O!mapper
<1>6. CASE O!StartMapperJob(o)
  <2>0. ops[o].job \in Jobs /\ ops[o].devs \subseteq Devices
    BY <1>0, <1>6 DEF O!StartMapperJob, ShapedRequest, O!Request
  <2>1. ops' \in [Operators -> ShapedRequest] /\ ops' \in [Operators -> O!Request]
    BY <1>6, GotoOwners DEF O!StartMapperJob
  <2>2. /\ mapperJobs' \in [Jobs -> O!Handle]
        /\ mapperLoops' \subseteq O!MapperLoop
        /\ lastChan' \in 0..MaxChans
    <3>1. CASE UNCHANGED <<O!mapper, lastChan>>
      BY <3>1 DEF O!mapper, OwnersTyped, O!TypeOK
    <3>2. ASSUME NEW d \in Devices, lastChan < MaxChans, lastChan' = lastChan + 1,
                 mapperJobs' = [mapperJobs EXCEPT ![ops[o].job] =
                                  [chan |-> lastChan + 1, dev |-> d]],
                 mapperLoops' = mapperLoops \cup
                   {[job |-> ops[o].job, chan |-> lastChan + 1, dev |-> d,
                   pc |-> "run"]}
          PROVE  /\ mapperJobs' \in [Jobs -> O!Handle]
                 /\ mapperLoops' \subseteq O!MapperLoop
                 /\ lastChan' \in 0..MaxChans
      <4>1. lastChan + 1 \in O!Chans /\ lastChan + 1 \in 0..MaxChans
        BY <3>2 DEF OwnersTyped, O!TypeOK, O!Chans
      <4>2. [chan |-> lastChan + 1, dev |-> d] \in O!Handle
        BY <4>1 DEF O!Handle
      <4>3. [job |-> ops[o].job, chan |-> lastChan + 1, dev |-> d,
            pc |-> "run"] \in O!MapperLoop
        BY <2>0, <4>1 DEF O!MapperLoop
      <4> QED BY <3>2, <4>1, <4>2, <4>3 DEF OwnersTyped, O!TypeOK
    <3> QED BY <1>6, <2>0, <3>1, <3>2 DEF O!StartMapperJob
  <2> QED BY <1>6, <2>1, <2>2 DEF O!StartMapperJob, OwnersTyped, O!TypeOK, O!session
<1>7. CASE O!StartLab(o)
  <2>1. ops[o].devs \in SUBSET Devices
    BY <1>0 DEF O!Request
  <2>2. ops' \in [Operators -> ShapedRequest] /\ ops' \in [Operators -> O!Request]
    BY <1>7, GotoOwners DEF O!StartLab
  <2> QED BY <1>7, <2>1, <2>2 DEF O!StartLab, OwnersTyped, O!TypeOK, O!session, O!mapper
<1>8. CASE O!FinishCalibration(o)
  BY <1>8, GotoOwners
     DEF O!FinishCalibration, OwnersTyped, O!TypeOK, O!session, O!mapper
<1> QED BY <1>1, <1>2, <1>3, <1>4, <1>5, <1>6, <1>7, <1>8 DEF O!Proceed

\* The steps of the goroutines.
Goroutines ==
    \/ \E l \in captures : O!CaptureStops(l) \/ O!CaptureFails(l)
    \/ O!EngineExits
    \/ \E m \in monitors : O!MonitorSteps(m)
    \/ \E l \in mapperLoops : O!MapperLoopEnds(l) \/ O!FinishMapperJob(l)
    \/ O!LabEnds

LEMMA GoroutinesTyped ==
    ASSUME OwnersTyped, Goroutines
    PROVE  OwnersTyped'
<1> USE OwnersAssumption DEF O!OwnershipAssumption
<1>1. ASSUME NEW l \in captures,
             O!CaptureStops(l) \/ O!CaptureFails(l) PROVE OwnersTyped'
  BY <1>1 DEF O!CaptureStops, O!CaptureFails, OwnersTyped, O!TypeOK, O!session, O!mapper
<1>2. CASE O!EngineExits
  BY <1>2 DEF O!EngineExits, OwnersTyped, O!TypeOK, O!session, O!mapper
<1>3. ASSUME NEW m \in monitors, O!MonitorSteps(m) PROVE OwnersTyped'
  <2>0. m \in [chan : O!Chans, pc : {"watch", "release", "engineStop"}]
    BY DEF OwnersTyped, O!TypeOK
  <2>1. CASE O!MonitorStops(m)
    BY <2>1 DEF O!MonitorStops, OwnersTyped, O!TypeOK, O!session, O!mapper
  <2>2. CASE O!MonitorSeesError(m)
    BY <2>0, <2>2
       DEF O!MonitorSeesError, O!MonitorMoves, OwnersTyped, O!TypeOK, O!session,
           O!mapper
  <2>3. CASE O!MonitorReleases(m)
    BY <2>0, <2>3, ReleaseType
       DEF O!MonitorReleases, O!MonitorMoves, OwnersTyped, O!TypeOK, O!mapper
  <2>4. CASE O!MonitorStopsEngine(m)
    BY <2>4
       DEF O!MonitorStopsEngine, O!EngineIdle, OwnersTyped, O!TypeOK, O!session,
           O!mapper
  <2> QED BY <1>3, <2>1, <2>2, <2>3, <2>4 DEF O!MonitorSteps
<1>4. ASSUME NEW l \in mapperLoops, O!MapperLoopEnds(l) PROVE OwnersTyped'
  <2>1. [l EXCEPT !.pc = "finish"] \in O!MapperLoop
    BY DEF OwnersTyped, O!TypeOK, O!MapperLoop
  <2> QED BY <1>4, <2>1 DEF O!MapperLoopEnds, OwnersTyped, O!TypeOK, O!session
<1>5. ASSUME NEW l \in mapperLoops, O!FinishMapperJob(l) PROVE OwnersTyped'
  <2>1. O!NoHandle \in O!Handle
    BY DEF O!NoHandle, O!Handle
  <2> QED BY <1>5, <2>1 DEF O!FinishMapperJob, OwnersTyped, O!TypeOK, O!session
<1>6. CASE O!LabEnds
  BY <1>6 DEF O!LabEnds, OwnersTyped, O!TypeOK, O!session, O!mapper
<1> QED BY <1>1, <1>2, <1>3, <1>4, <1>5, <1>6 DEF Goroutines

LEMMA StutterOwners ==
    ASSUME OwnersTyped, UNCHANGED O!vars
    PROVE  OwnersTyped'
BY DEF O!vars, O!session, O!mapper, OwnersTyped, O!TypeOK

LEMMA OwnershipSteps ==
    O!Next <=> \/ \E o \in Operators : O!Requests(o) \/ O!Proceed(o)
               \/ Goroutines
BY DEF O!Next, Goroutines

\* Every variable keeps its type: receivers named by plans, handles, loops and
\* decoders are connected receivers, channels are channels that were made.
THEOREM OwnershipTypes == OwnersSpec => []OwnersTypeOK
<1>1. OwnersTyped /\ [O!Next]_O!vars => OwnersTyped'
  BY OwnershipSteps, RequestsType, ProceedType, GoroutinesTyped, StutterOwners
<1>2. OwnersTyped => OwnersTypeOK
  BY DEF OwnersTyped, OwnersTypeOK
<1> QED BY InitOwners, <1>1, <1>2, PTL DEF OwnersSpec, O!Spec

LEMMA OwnersStayTyped == OwnersSpec => []OwnersTyped
<1>1. OwnersTyped /\ [O!Next]_O!vars => OwnersTyped'
  BY OwnershipSteps, RequestsType, ProceedType, GoroutinesTyped, StutterOwners
<1> QED BY InitOwners, <1>1, PTL DEF OwnersSpec, O!Spec

-----------------------------------------------------------------------------
(* The Mapper's reservations. *)

\* What HandleMatchesLoop says of one loop.
LEMMA LoopHandle ==
    ASSUME OwnersTyped, O!HandleMatchesLoop,
           NEW l \in mapperLoops
    PROVE  /\ l.job \in O!Registered
           /\ mapperJobs[l.job].chan = l.chan
           /\ mapperJobs[l.job].dev = l.dev
<1>1. mapperJobs[l.job] = [chan |-> l.chan, dev |-> l.dev]
  BY DEF O!HandleMatchesLoop
<1>2. l.job \in Jobs /\ l.chan \in O!Chans
  BY DEF OwnersTyped, O!TypeOK, O!MapperLoop
<1>3. l.chan # 0
  BY <1>2, OwnersAssumption DEF O!OwnershipAssumption, O!Chans
<1> QED BY <1>1, <1>2, <1>3 DEF O!Registered

LEMMA InitMapper == O!Init => MapperInv
BY DEF O!Init, MapperInv, O!HandleMatchesLoop, HandlesApart, OneLoopPerJob,
   O!Registered, O!NoHandle

\* StartMapperJob registers a handle for a job that has none, on a receiver no
\* other handle names, and spawns one loop for it.
LEMMA StartMapperJobKeeps ==
    ASSUME OwnersTyped, MapperInv, NEW o \in Operators,
           O!StartMapperJob(o)
    PROVE  MapperInv'
<1> DEFINE j == ops[o].job
           c == lastChan + 1
<1>1. CASE UNCHANGED O!mapper
  BY <1>1
     DEF O!mapper, MapperInv, O!HandleMatchesLoop, HandlesApart, OneLoopPerJob,
         O!Registered
<1>2. ASSUME NEW d \in ops[o].devs, O!MapperMayStart(j, d),
             mapperJobs' = [mapperJobs EXCEPT ![j] = [chan |-> c, dev |-> d]],
             mapperLoops' = mapperLoops \cup {[job |-> j, chan |-> c, dev |-> d,
             pc |-> "run"]}
      PROVE  MapperInv'
  <2> DEFINE new == [job |-> j, chan |-> c, dev |-> d, pc |-> "run"]
  <2>1. j \in Jobs /\ j \notin O!Registered /\ d \notin O!MapperOwned
    BY <1>2 DEF O!StartMapperJob, O!MapperMayStart, OwnersTyped, ShapedRequest
  <2>2. c \in Nat \ {0}
    BY OwnersAssumption DEF O!OwnershipAssumption, OwnersTyped, O!TypeOK
  <2>3. mapperJobs \in [Jobs -> O!Handle] /\ mapperLoops \subseteq O!MapperLoop
    BY DEF OwnersTyped, O!TypeOK
  <2>4. O!Registered' = O!Registered \cup {j}
    BY <1>2, <2>1, <2>2, <2>3 DEF O!Registered
  <2>5. /\ mapperJobs'[j] = [chan |-> c, dev |-> d]
        /\ \A k \in O!Registered : k # j /\ mapperJobs'[k] = mapperJobs[k]
    BY <1>2, <2>1, <2>3 DEF O!Registered
  <2>6. \A l \in mapperLoops : l.job \in O!Registered
    BY LoopHandle DEF MapperInv
  <2> HIDE DEF j, c
  <2>7. O!HandleMatchesLoop'
    <3>1. \A l \in mapperLoops' : mapperJobs'[l.job] = [chan |-> l.chan, dev |-> l.dev]
      <4>1. ASSUME NEW l \in mapperLoops
            PROVE  mapperJobs'[l.job] = [chan |-> l.chan, dev |-> l.dev]
        <5>1. mapperJobs[l.job] = [chan |-> l.chan, dev |-> l.dev]
          BY DEF MapperInv, O!HandleMatchesLoop
        <5> QED BY <2>5, <2>6, <5>1
      <4>2. mapperJobs'[new.job] = [chan |-> new.chan, dev |-> new.dev]
        BY <2>5
      <4> QED BY <1>2, <4>1, <4>2
    <3>2. \A k \in O!Registered' : \E l \in mapperLoops' : l.job = k
      <4>1. \A k \in O!Registered : \E l \in mapperLoops : l.job = k
        BY DEF MapperInv, O!HandleMatchesLoop
      <4>2. new \in mapperLoops' /\ new.job = j
        BY <1>2
      <4> QED BY <1>2, <2>4, <4>1, <4>2
    <3> QED BY <3>1, <3>2 DEF O!HandleMatchesLoop
  <2>8. HandlesApart'
    <3>1. \A k \in O!Registered : mapperJobs'[k].dev # d
      BY <2>1, <2>5 DEF O!MapperOwned
    <3> QED BY <2>4, <2>5, <3>1 DEF MapperInv, HandlesApart
  <2>9. OneLoopPerJob'
    BY <1>2, <2>1, <2>6 DEF MapperInv, OneLoopPerJob
  <2> QED BY <2>7, <2>8, <2>9 DEF MapperInv
<1> QED BY <1>1, <1>2 DEF O!StartMapperJob

\* A loop that ends keeps its handle until finishMapperJob.
LEMMA MapperLoopEndsKeeps ==
    ASSUME OwnersTyped, MapperInv, NEW l \in mapperLoops, O!MapperLoopEnds(l)
    PROVE  MapperInv'
<1> DEFINE ended == [l EXCEPT !.pc = "finish"]
<1>1. l \in O!MapperLoop
  BY DEF OwnersTyped, O!TypeOK
<1>2. ended.job = l.job /\ ended.chan = l.chan /\ ended.dev = l.dev
  BY <1>1 DEF O!MapperLoop
<1>3. mapperLoops' = (mapperLoops \ {l}) \cup {ended} /\ UNCHANGED mapperJobs
  BY DEF O!MapperLoopEnds
<1> HIDE DEF ended
<1>4. O!Registered' = O!Registered
  BY <1>3 DEF O!Registered
<1> QED BY <1>2, <1>3, <1>4
           DEF MapperInv, O!HandleMatchesLoop, HandlesApart, OneLoopPerJob

\* finishMapperJob removes one loop together with its handle.
LEMMA FinishMapperJobKeeps ==
    ASSUME OwnersTyped, MapperInv, NEW l \in mapperLoops,
           O!FinishMapperJob(l)
    PROVE  MapperInv'
<1>1. l \in O!MapperLoop /\ mapperJobs \in [Jobs -> O!Handle]
  BY DEF OwnersTyped, O!TypeOK
<1>2. mapperJobs[l.job].chan = l.chan /\ l.job \in Jobs
  BY <1>1, LoopHandle DEF MapperInv, O!MapperLoop
<1>3. /\ mapperJobs' = [mapperJobs EXCEPT ![l.job] = O!NoHandle]
      /\ mapperLoops' = mapperLoops \ {l}
  BY <1>2 DEF O!FinishMapperJob
<1>4. O!Registered' = O!Registered \ {l.job}
  BY <1>1, <1>2, <1>3 DEF O!Registered, O!NoHandle
<1>5. \A k \in Jobs \ {l.job} : mapperJobs'[k] = mapperJobs[k]
  BY <1>1, <1>3
<1>6. \A k \in mapperLoops' : k.job # l.job /\ k.job \in Jobs
  BY <1>3 DEF MapperInv, OneLoopPerJob, OwnersTyped, O!TypeOK, O!MapperLoop
<1>7. O!HandleMatchesLoop'
  <2>1. \A k \in mapperLoops' : mapperJobs'[k.job] = [chan |-> k.chan, dev |-> k.dev]
    BY <1>3, <1>5, <1>6 DEF MapperInv, O!HandleMatchesLoop
  <2>2. \A j \in O!Registered' : \E k \in mapperLoops' : k.job = j
    BY <1>3, <1>4 DEF MapperInv, O!HandleMatchesLoop
  <2> QED BY <2>1, <2>2 DEF O!HandleMatchesLoop
<1>8. HandlesApart'
  BY <1>4, <1>5 DEF MapperInv, HandlesApart, O!Registered
<1>9. OneLoopPerJob'
  BY <1>3 DEF MapperInv, OneLoopPerJob
<1> QED BY <1>7, <1>8, <1>9 DEF MapperInv

\* No other step touches the handles or the loops.
LEMMA MapperUntouched ==
    ASSUME MapperInv, UNCHANGED O!mapper
    PROVE  MapperInv'
BY DEF O!mapper, MapperInv, O!HandleMatchesLoop, HandlesApart, OneLoopPerJob,
   O!Registered

LEMMA MapperInductive == OwnersTyped /\ MapperInv /\ [O!Next]_O!vars => MapperInv'
<1> SUFFICES ASSUME OwnersTyped, MapperInv, [O!Next]_O!vars PROVE MapperInv'
  OBVIOUS
<1>1. ASSUME NEW o \in Operators, O!Requests(o) PROVE MapperInv'
  BY <1>1, MapperUntouched
     DEF O!Requests, O!Start, O!StartOnDevice, O!RequestStop, O!RequestMapper,
         O!StopMapperJobs,
         O!RequestLab, O!StopLab, O!AutoCalibrate
<1>2. ASSUME NEW o \in Operators, O!Proceed(o) PROVE MapperInv'
  <2>1. CASE O!StartMapperJob(o)
    BY <2>1, StartMapperJobKeeps
  <2>2. CASE ~O!StartMapperJob(o)
    BY <1>2, <2>2, MapperUntouched
       DEF O!Proceed, O!StopSession, O!StopEngine, O!CheckMapperOwners, O!StartEngine,
           O!InstallSession, O!StartLab, O!FinishCalibration
  <2> QED BY <2>1, <2>2
<1>3. CASE Goroutines
  <2>1. ASSUME NEW l \in mapperLoops,
               O!MapperLoopEnds(l) \/ O!FinishMapperJob(l) PROVE MapperInv'
    BY <2>1, MapperLoopEndsKeeps, FinishMapperJobKeeps
  <2>2. ASSUME NEW m \in monitors, O!MonitorSteps(m) PROVE MapperInv'
    BY <2>2, MapperUntouched
       DEF O!MonitorSteps, O!MonitorStops, O!MonitorSeesError, O!MonitorReleases,
           O!MonitorStopsEngine
  <2>3. ASSUME NEW l \in captures,
               O!CaptureStops(l) \/ O!CaptureFails(l) PROVE MapperInv'
    BY <2>3, MapperUntouched DEF O!CaptureStops, O!CaptureFails
  <2>4. CASE O!EngineExits \/ O!LabEnds
    BY <2>4, MapperUntouched DEF O!EngineExits, O!LabEnds
  <2> QED BY <1>3, <2>1, <2>2, <2>3, <2>4 DEF Goroutines
<1>4. CASE UNCHANGED O!vars
  BY <1>4, MapperUntouched DEF O!vars
<1> QED BY <1>1, <1>2, <1>3, <1>4, OwnershipSteps

\* A handle is registered exactly as long as its loop runs.
THEOREM HandlesFollowLoops == OwnersSpec => []HandleMatchesLoop
<1>1. MapperInv => HandleMatchesLoop
  BY DEF MapperInv, HandleMatchesLoop
<1> QED BY OwnersStayTyped, InitMapper, MapperInductive, <1>1, PTL DEF OwnersSpec, O!Spec

\* No receiver is captured by two Mapper job loops, for every number of
\* operators, jobs and receivers.
THEOREM MapperOwnsExclusively == OwnersSpec => []O!MapperExclusive
<1>1. OwnersTyped /\ MapperInv => O!MapperExclusive
  <2> SUFFICES ASSUME OwnersTyped, MapperInv, NEW k \in mapperLoops,
                      NEW l \in mapperLoops,
                      k.dev = l.dev
               PROVE  k = l
    BY DEF O!MapperExclusive
  <2>1. k.job \in O!Registered /\ l.job \in O!Registered
    BY LoopHandle DEF MapperInv
  <2>2. mapperJobs[k.job].dev = mapperJobs[l.job].dev
    BY LoopHandle DEF MapperInv
  <2> QED BY <2>1, <2>2 DEF MapperInv, HandlesApart, OneLoopPerJob
<1> QED BY OwnersStayTyped, InitMapper, MapperInductive, <1>1, PTL DEF OwnersSpec, O!Spec

-----------------------------------------------------------------------------
(* One request at a time.  The properties below fail when requests overlap  *)
(* (runs race_live and race_start); what makes them true of requests that   *)
(* do not is what the request in progress has already established.          *)

\* startProfile past Stop has no current channel; past its Mapper check its
\* receivers are no job's; StartMapperJob and CharacterizationManager.Start
\* have just seen each other idle.
Established(o) ==
    /\ ops[o].pc \in {"engineStop", "check", "engineStart", "install"} => stopChan = 0
    /\ ops[o].pc \in {"engineStart", "install"} =>
         Assigned[ops[o].profile] \cap O!MapperOwned = {}
    /\ ops[o].pc = "mapperStart" => ~lab.running
    /\ ops[o].pc = "labStart" => O!Registered = {}

SerialInv ==
    /\ O!NoOrphanCapture
    /\ O!LiveMapperExclusive
    /\ O!LabMapperExclusive
    /\ \A o \in Operators : Established(o)

LEMMA InitSerial == O!Init => SerialInv
<1> SUFFICES ASSUME O!Init PROVE SerialInv
  OBVIOUS
<1>1. \A o \in Operators : ops[o].pc = "idle"
  BY DEF O!Init, O!Idle
<1>2. O!NoOrphanCapture /\ O!LiveMapperExclusive /\ O!LabMapperExclusive
  BY DEF O!Init, O!NoOrphanCapture, O!LiveMapperExclusive, O!LabMapperExclusive
<1> QED BY <1>1, <1>2 DEF SerialInv, Established

\* Where one operator's request goes.
LEMMA OneRequest ==
    ASSUME OwnersTyped, NEW op, Operators = {op}, NEW r, O!Goto(op, r)
    PROVE  \A o \in Operators : ops'[o] = r
BY DEF OwnersTyped, O!TypeOK, O!Goto

LEMMA OneContinue ==
    ASSUME OwnersTyped, NEW op, Operators = {op}, NEW pc, O!Continue(op, pc)
    PROVE  \A o \in Operators : ops'[o].pc = pc /\ ops'[o].profile = ops[o].profile
<1>1. ops[op] \in O!Request
  BY DEF OwnersTyped, O!TypeOK
<1>2. ops'[op] = [ops[op] EXCEPT !.pc = pc]
  BY DEF OwnersTyped, O!TypeOK, O!Continue
<1> QED BY <1>1, <1>2 DEF O!Request

LEMMA IdleEstablished ==
    ASSUME NEW o \in Operators, ops[o].pc \in {"idle", "release", "calibrating"}
    PROVE  Established(o)
BY DEF Established

\* A new request establishes what its first step has checked.
LEMMA RequestsSerial ==
    ASSUME OwnersTyped, SerialInv, NEW op, Operators = {op}, O!Requests(op)
    PROVE  SerialInv'
<1> USE DEF O!NoOrphanCapture, O!LiveMapperExclusive, O!LabMapperExclusive,
            O!MapperOwned, O!Registered
<1>1. CASE \E p \in Profiles : O!Start(op, p) \/ O!StartOnDevice(op, p)
  <2> PICK p \in Profiles : O!Start(op, p) \/ O!StartOnDevice(op, p)
    BY <1>1
  <2>0. [O!Idle EXCEPT !.pc = "release", !.profile = p].pc = "release"
    BY DEF O!Idle
  <2>1. \A o \in Operators : ops'[o].pc = "release"
    BY <2>0, OneRequest DEF O!Start, O!StartOnDevice
  <2> QED BY <2>1
             DEF O!Start, O!StartOnDevice, O!session, O!mapper, SerialInv, Established
<1>2. CASE O!RequestStop(op)
  <2>1. \A o \in Operators : ops'[o].pc = "release"
    BY <1>2, OneRequest DEF O!RequestStop, O!Idle
  <2> QED BY <1>2, <2>1 DEF O!RequestStop, O!session, O!mapper, SerialInv, Established
<1>3. ASSUME NEW j \in Jobs, NEW d \in Devices, O!RequestMapper(op, j,
             d) PROVE SerialInv'
  <2>0. [O!Idle EXCEPT !.pc = "mapperStart", !.job = j, !.devs = {d}].pc = "mapperStart"
    BY DEF O!Idle
  <2>1. \A o \in Operators : ops'[o].pc = "mapperStart"
    BY <1>3, <2>0, OneRequest DEF O!RequestMapper
  <2> QED BY <1>3, <2>1 DEF O!RequestMapper, O!session, O!mapper, SerialInv, Established
<1>4. ASSUME NEW S \in {{j} : j \in Jobs} \cup {Jobs}, O!StopMapperJobs(op,
             S) PROVE SerialInv'
  BY <1>4 DEF O!StopMapperJobs, O!session, O!mapper, SerialInv, Established
<1>5. ASSUME NEW d \in Devices, O!RequestLab(op, {d}) PROVE SerialInv'
  <2>0. [O!Idle EXCEPT !.pc = "labStart", !.devs = {d}].pc = "labStart"
    BY DEF O!Idle
  <2>1. \A o \in Operators : ops'[o].pc = "labStart"
    BY <1>5, <2>0, OneRequest DEF O!RequestLab
  <2> QED BY <1>5, <2>1 DEF O!RequestLab, O!session, O!mapper, SerialInv, Established
<1>6. CASE O!StopLab(op)
  <2>1. lab'.running = lab.running
    BY <1>6 DEF O!StopLab, OwnersTyped, O!TypeOK
  <2> QED BY <1>6, <2>1 DEF O!StopLab, O!session, O!mapper, SerialInv, Established
<1>7. ASSUME NEW d \in Devices, O!AutoCalibrate(op, d) PROVE SerialInv'
  <2>0. [O!Idle EXCEPT !.pc = "calibrating", !.devs = {d}].pc = "calibrating"
    BY DEF O!Idle
  <2>1. \A o \in Operators : ops'[o].pc = "calibrating"
    BY <1>7, <2>0, OneRequest DEF O!AutoCalibrate
  <2> QED BY <1>7, <2>1 DEF O!AutoCalibrate, O!session, O!mapper, SerialInv, Established
<1> QED BY <1>1, <1>2, <1>3, <1>4, <1>5, <1>6, <1>7 DEF O!Requests

\* Stop empties the current channel and leaves every loop stoppable.
LEMMA ReleaseSerial ==
    ASSUME SerialInv, O!ReleaseSession, UNCHANGED <<captures, O!mapper, lab>>
    PROVE  /\ O!NoOrphanCapture' /\ O!LiveMapperExclusive' /\ O!LabMapperExclusive'
           /\ stopChan' = 0
           /\ O!Registered' = O!Registered /\ O!MapperOwned' = O!MapperOwned
<1>1. O!NoOrphanCapture'
  BY DEF SerialInv, O!NoOrphanCapture, O!ReleaseSession
<1>2. O!Registered' = O!Registered /\ O!MapperOwned' = O!MapperOwned
  BY DEF O!mapper, O!Registered, O!MapperOwned
<1>3. O!LiveMapperExclusive'
  BY DEF O!ReleaseSession, O!LiveMapperExclusive
<1>4. O!LabMapperExclusive'
  BY <1>2 DEF SerialInv, O!LabMapperExclusive
<1> QED BY <1>1, <1>2, <1>3, <1>4 DEF O!ReleaseSession

\* Each critical section of a request relies on what the previous one
\* established, because no other request ran in between.
LEMMA ProceedSerial ==
    ASSUME OwnersTyped, SerialInv, NEW op, Operators = {op},
           O!Proceed(op)
    PROVE  SerialInv'
<1> DEFINE p == ops[op].profile
<1>0. O!Idle.pc = "idle"
  BY DEF O!Idle
<1>1. CASE O!StopSession(op)
  <2>1. \A o \in Operators : ops'[o].pc = "engineStop"
    BY <1>1, OneContinue DEF O!StopSession
  <2>2. /\ O!NoOrphanCapture' /\ O!LiveMapperExclusive' /\ O!LabMapperExclusive'
        /\ stopChan' = 0
    BY <1>1, ReleaseSerial DEF O!StopSession, O!mapper
  <2> QED BY <2>1, <2>2 DEF SerialInv, Established
<1>2. CASE O!StopEngine(op)
  <2>1. \A o \in Operators : ops'[o].pc \in {"idle", "check"}
    BY <1>0, <1>2, OneRequest, OneContinue DEF O!StopEngine
  <2>2. stopChan' = 0
    BY <1>2 DEF O!StopEngine, SerialInv, Established, O!session
  <2> QED BY <1>2, <2>1, <2>2
        DEF O!StopEngine, O!session, O!mapper, SerialInv, Established,
            O!NoOrphanCapture,
            O!LiveMapperExclusive, O!LabMapperExclusive, O!MapperOwned, O!Registered
<1>3. CASE O!CheckMapperOwners(op)
  <2>1. \A o \in Operators :
          \/ ops'[o].pc = "idle"
          \/ /\ ops'[o].pc \in {"engineStart", "install"} /\ ops'[o].profile = p
             /\ Assigned[p] \cap O!MapperOwned = {}
    BY <1>0, <1>3, OneRequest, OneContinue DEF O!CheckMapperOwners
  <2>2. stopChan' = 0
    BY <1>3 DEF O!CheckMapperOwners, SerialInv, Established, O!session
  <2> QED BY <1>3, <2>1, <2>2
        DEF O!CheckMapperOwners, O!session, O!mapper, SerialInv, Established,
            O!NoOrphanCapture,
            O!LiveMapperExclusive, O!LabMapperExclusive, O!MapperOwned, O!Registered
<1>4. CASE O!StartEngine(op)
  <2>1. \A o \in Operators :
          \/ ops'[o].pc = "idle"
          \/ ops'[o].pc = "install" /\ ops'[o].profile = p
    BY <1>0, <1>4, OneRequest, OneContinue DEF O!StartEngine
  <2>2. stopChan' = 0 /\ Assigned[p] \cap O!MapperOwned = {}
    BY <1>4 DEF O!StartEngine, SerialInv, Established, O!session
  <2> QED BY <1>4, <2>1, <2>2
        DEF O!StartEngine, O!session, O!mapper, SerialInv, Established,
            O!NoOrphanCapture,
            O!LiveMapperExclusive, O!LabMapperExclusive, O!MapperOwned, O!Registered
<1>5. CASE O!InstallSession(op)
  <2>1. \A o \in Operators : ops'[o].pc = "idle"
    BY <1>0, <1>5, OneRequest DEF O!InstallSession
  <2>2. stopChan = 0 /\ Assigned[p] \cap O!MapperOwned = {}
    BY <1>5 DEF O!InstallSession, SerialInv, Established
  <2>3. \A l \in captures : l.chan \in closedChans
    <3>1. \A l \in captures : l.chan # 0
      BY OwnersAssumption DEF O!OwnershipAssumption, OwnersTyped, O!TypeOK, O!Chans
    <3> QED BY <2>2, <3>1 DEF SerialInv, O!NoOrphanCapture
  <2>4. O!NoOrphanCapture'
    <3>1. \A l \in captures' \ captures : l.chan = stopChan'
      BY <1>5 DEF O!InstallSession
    <3> QED BY <1>5, <2>3, <3>1 DEF O!InstallSession, O!NoOrphanCapture
  <2>5. plan' = Assigned[p] /\ O!MapperOwned' = O!MapperOwned /\ O!Registered' = O!Registered
    BY <1>5 DEF O!InstallSession, O!mapper, O!MapperOwned, O!Registered
  <2>6. O!LiveMapperExclusive'
    BY <2>2, <2>5 DEF O!LiveMapperExclusive
  <2>7. O!LabMapperExclusive'
    BY <1>5, <2>5 DEF O!InstallSession, SerialInv, O!LabMapperExclusive
  <2> QED BY <2>1, <2>4, <2>6, <2>7 DEF SerialInv, Established
<1>6. CASE O!StartMapperJob(op)
  <2>1. \A o \in Operators : ops'[o].pc = "idle"
    BY <1>0, <1>6, OneRequest DEF O!StartMapperJob
  <2>2. UNCHANGED <<O!session, captures, closedChans, lab>> /\ ~lab.running
    BY <1>6 DEF O!StartMapperJob, SerialInv, Established
  <2>3. O!NoOrphanCapture' /\ O!LabMapperExclusive'
    BY <2>2 DEF O!session, SerialInv, O!NoOrphanCapture, O!LabMapperExclusive
  <2>4. O!LiveMapperExclusive'
    <3>1. CASE UNCHANGED O!mapper
      BY <2>2, <3>1
         DEF O!session, O!mapper, SerialInv, O!LiveMapperExclusive, O!MapperOwned,
             O!Registered
    <3>2. ASSUME NEW d, d \notin O!ProfileUses,
                 mapperJobs' = [mapperJobs EXCEPT ![ops[op].job] =
                                  [chan |-> lastChan + 1, dev |-> d]]
          PROVE  O!LiveMapperExclusive'
      <4>1. O!MapperOwned' \subseteq O!MapperOwned \cup {d}
        BY <3>2 DEF O!MapperOwned, O!Registered, OwnersTyped, O!TypeOK
      <4>2. running => d \notin plan
        BY <3>2 DEF O!ProfileUses
      <4> QED BY <2>2, <4>1, <4>2 DEF O!session, SerialInv, O!LiveMapperExclusive
    <3> QED BY <1>6, <3>1, <3>2 DEF O!StartMapperJob, O!MapperMayStart
  <2> QED BY <2>1, <2>3, <2>4 DEF SerialInv, Established
<1>7. CASE O!StartLab(op)
  <2>1. \A o \in Operators : ops'[o].pc = "idle"
    BY <1>0, <1>7, OneRequest DEF O!StartLab
  <2>2. O!Registered = {}
    BY <1>7 DEF O!StartLab, SerialInv, Established
  <2> QED BY <1>7, <2>1, <2>2
        DEF O!StartLab, O!session, O!mapper, SerialInv, Established, O!NoOrphanCapture,
            O!LiveMapperExclusive, O!LabMapperExclusive, O!MapperOwned, O!Registered
<1>8. CASE O!FinishCalibration(op)
  <2>1. \A o \in Operators : ops'[o].pc = "idle"
    BY <1>0, <1>8, OneRequest DEF O!FinishCalibration
  <2> QED BY <1>8, <2>1
        DEF O!FinishCalibration, O!session, O!mapper, SerialInv, Established,
            O!NoOrphanCapture,
            O!LiveMapperExclusive, O!LabMapperExclusive, O!MapperOwned, O!Registered
<1> QED BY <1>1, <1>2, <1>3, <1>4, <1>5, <1>6, <1>7, <1>8 DEF O!Proceed

\* The goroutines only ever release: captures end, handles go, stop channels
\* close.
LEMMA BackgroundSerial ==
    ASSUME OwnersTyped, MapperInv, SerialInv, Goroutines
    PROVE  SerialInv'
<1> USE DEF O!session, O!mapper, SerialInv, Established, O!NoOrphanCapture,
            O!LiveMapperExclusive, O!LabMapperExclusive, O!MapperOwned, O!Registered
<1>1. ASSUME NEW l \in captures, O!CaptureStops(l) \/ O!CaptureFails(l) PROVE SerialInv'
  BY <1>1 DEF O!CaptureStops, O!CaptureFails
<1>2. CASE O!EngineExits
  BY <1>2 DEF O!EngineExits
<1>3. ASSUME NEW m \in monitors, O!MonitorSteps(m) PROVE SerialInv'
  <2>1. CASE O!MonitorReleases(m)
    <3>1. UNCHANGED <<captures, O!mapper, lab, ops>> /\ O!ReleaseSession
      BY <2>1 DEF O!MonitorReleases
    <3>2. /\ O!NoOrphanCapture' /\ O!LiveMapperExclusive' /\ O!LabMapperExclusive'
          /\ stopChan' = 0
          /\ O!Registered' = O!Registered /\ O!MapperOwned' = O!MapperOwned
      BY <3>1, ReleaseSerial
    <3> QED BY <3>1, <3>2
  <2>2. CASE O!MonitorStops(m) \/ O!MonitorSeesError(m) \/ O!MonitorStopsEngine(m)
    BY <2>2 DEF O!MonitorStops, O!MonitorSeesError, O!MonitorStopsEngine
  <2> QED BY <1>3, <2>1, <2>2 DEF O!MonitorSteps
<1>4. ASSUME NEW l \in mapperLoops, O!MapperLoopEnds(l) PROVE SerialInv'
  BY <1>4 DEF O!MapperLoopEnds
<1>5. ASSUME NEW l \in mapperLoops, O!FinishMapperJob(l) PROVE SerialInv'
  <2>1. O!Registered' \subseteq O!Registered /\ O!MapperOwned' \subseteq O!MapperOwned
    BY <1>5 DEF O!FinishMapperJob, OwnersTyped, O!TypeOK, O!NoHandle
  <2>2. UNCHANGED <<O!session, captures, lab, ops, closedChans>>
    BY <1>5 DEF O!FinishMapperJob
  <2> HIDE DEF O!MapperOwned, O!Registered
  <2> QED BY <2>1, <2>2
<1>6. CASE O!LabEnds
  <2>1. ~lab'.running
    BY <1>6 DEF O!LabEnds, OwnersTyped, O!TypeOK
  <2> QED BY <1>6, <2>1 DEF O!LabEnds
<1> QED BY <1>1, <1>2, <1>3, <1>4, <1>5, <1>6 DEF Goroutines

LEMMA StutterSerial ==
    ASSUME SerialInv, UNCHANGED O!vars
    PROVE  SerialInv'
BY DEF O!vars, O!session, O!mapper, SerialInv, Established, O!NoOrphanCapture,
       O!LiveMapperExclusive, O!LabMapperExclusive, O!MapperOwned, O!Registered

\* With one request at a time, a capture loop can always be stopped, live
\* sessions and Mapper jobs have disjoint receivers, and the Mapper and the
\* characterization exclude each other, whatever the goroutines do meanwhile.
THEOREM SerialRequestsAreSafe ==
    ASSUME NEW op, Operators = {op}
    PROVE  OwnersSpec => [](NoOrphanCapture /\ O!LiveMapperExclusive /\ O!LabMapperExclusive)
<1>1. OwnersTyped /\ MapperInv /\ SerialInv /\ [O!Next]_O!vars => SerialInv'
  BY OwnershipSteps, RequestsSerial, ProceedSerial, BackgroundSerial, StutterSerial
<1>2. SerialInv => NoOrphanCapture /\ O!LiveMapperExclusive /\ O!LabMapperExclusive
  BY DEF SerialInv, NoOrphanCapture
<1>3. O!Init => OwnersTyped /\ MapperInv /\ SerialInv
  BY InitOwners, InitMapper, InitSerial
<1> QED BY <1>1, <1>2, <1>3, OwnersStayTyped, MapperInductive, PTL DEF OwnersSpec, O!Spec

\* With one request at a time live sessions, Mapper jobs and the
\* characterization keep out of each other's receivers.
THEOREM SerialOwnersExclusive ==
    ASSUME NEW op, Operators = {op}
    PROVE  OwnersSpec => []OwnersExclusive
<1>1. OwnersSpec => [](NoOrphanCapture /\ O!LiveMapperExclusive /\ O!LabMapperExclusive)
  BY SerialRequestsAreSafe
<1>2. O!MapperExclusive /\ O!LiveMapperExclusive /\ O!LabMapperExclusive => OwnersExclusive
  BY DEF OwnersExclusive, O!OwnersExclusive
<1> QED BY <1>1, <1>2, MapperOwnsExclusively, PTL

-----------------------------------------------------------------------------
(* The decoder gives its receivers back before a capture loop is spawned.   *)

\* A request past op25.Stop, and past its Mapper check unless it started the
\* decoder itself, finds the decoder on no receiver.
EngineLetGo(o) ==
    \/ ops[o].pc = "check"
    \/ ops[o].pc = "install" /\ Kind[ops[o].profile] # "p25"
    => engine.devs = {}

EngineInv ==
    /\ \A o \in Operators : EngineLetGo(o)
    /\ \A o \in Operators : ops[o].pc = "engineStart" => Kind[ops[o].profile] = "p25"

LEMMA InitEngine == O!Init => EngineInv
<1> SUFFICES ASSUME O!Init PROVE EngineInv
  OBVIOUS
<1>1. \A o \in Operators : ops[o].pc = "idle"
  BY DEF O!Init, O!Idle
<1> QED BY <1>1 DEF EngineInv, EngineLetGo

\* A request that has just begun promises nothing of the decoder.
LEMMA RequestsEngine ==
    ASSUME OwnersTyped, EngineInv, NEW op, Operators = {op}, O!Requests(op)
    PROVE  EngineInv'
<1>1. ASSUME NEW r, O!Goto(op, r), r.pc \notin {"check", "engineStart", "install"}
      PROVE  EngineInv'
  <2>1. \A o \in Operators : ops'[o].pc \notin {"check", "engineStart", "install"}
    BY <1>1, OneRequest
  <2> QED BY <2>1 DEF EngineInv, EngineLetGo
<1>2. ASSUME UNCHANGED <<ops, engine>> PROVE EngineInv'
  BY <1>2 DEF EngineInv, EngineLetGo
<1>3. ASSUME NEW p \in Profiles,
             O!Start(op, p) \/ O!StartOnDevice(op, p) PROVE EngineInv'
  <2>1. [O!Idle EXCEPT !.pc = "release", !.profile = p].pc = "release"
    BY DEF O!Idle
  <2> QED BY <1>1, <1>3, <2>1 DEF O!Start, O!StartOnDevice
<1>4. CASE O!RequestStop(op)
  <2>1. [O!Idle EXCEPT !.pc = "release"].pc = "release"
    BY DEF O!Idle
  <2> QED BY <1>1, <1>4, <2>1 DEF O!RequestStop
<1>5. ASSUME NEW j \in Jobs, NEW d \in Devices, O!RequestMapper(op, j,
             d) PROVE EngineInv'
  <2>1. [O!Idle EXCEPT !.pc = "mapperStart", !.job = j, !.devs = {d}].pc = "mapperStart"
    BY DEF O!Idle
  <2> QED BY <1>1, <1>5, <2>1 DEF O!RequestMapper
<1>6. ASSUME NEW S \in {{j} : j \in Jobs} \cup {Jobs}, O!StopMapperJobs(op,
             S) PROVE EngineInv'
  BY <1>2, <1>6 DEF O!StopMapperJobs
<1>7. ASSUME NEW d \in Devices, O!RequestLab(op, {d}) PROVE EngineInv'
  <2>1. [O!Idle EXCEPT !.pc = "labStart", !.devs = {d}].pc = "labStart"
    BY DEF O!Idle
  <2> QED BY <1>1, <1>7, <2>1 DEF O!RequestLab
<1>8. CASE O!StopLab(op)
  BY <1>2, <1>8 DEF O!StopLab
<1>9. ASSUME NEW d \in Devices, O!AutoCalibrate(op, d) PROVE EngineInv'
  <2>1. [O!Idle EXCEPT !.pc = "calibrating", !.devs = {d}].pc = "calibrating"
    BY DEF O!Idle
  <2> QED BY <1>1, <1>9, <2>1 DEF O!AutoCalibrate
<1> QED BY <1>3, <1>4, <1>5, <1>6, <1>7, <1>8, <1>9 DEF O!Requests

\* op25.Stop returns with the decoder gone; only a P25 start brings one back.
LEMMA ProceedEngine ==
    ASSUME OwnersTyped, EngineInv, NEW op, Operators = {op}, O!Proceed(op)
    PROVE  EngineInv'
<1> USE DEF EngineInv, EngineLetGo
<1>0. O!Idle.pc = "idle"
  BY DEF O!Idle
<1>1. CASE O!StopSession(op)
  <2>1. \A o \in Operators : ops'[o].pc = "engineStop"
    BY <1>1, OneContinue DEF O!StopSession
  <2> QED BY <2>1
<1>2. CASE O!StopEngine(op)
  <2>1. \A o \in Operators : ops'[o].pc \in {"idle", "check"}
    BY <1>0, <1>2, OneRequest, OneContinue DEF O!StopEngine
  <2>2. engine'.devs = {}
    BY <1>2 DEF O!StopEngine, O!EngineIdle
  <2> QED BY <2>1, <2>2
<1>3. CASE O!CheckMapperOwners(op)
  <2>1. engine.devs = {} /\ UNCHANGED engine
    BY <1>3 DEF O!CheckMapperOwners
  <2>2. \A o \in Operators :
          \/ ops'[o].pc = "idle"
          \/ /\ ops'[o].pc = IF Kind[ops[o].profile] = "p25" THEN "engineStart" ELSE "install"
             /\ ops'[o].profile = ops[o].profile
    BY <1>0, <1>3, OneRequest, OneContinue DEF O!CheckMapperOwners
  <2> QED BY <2>1, <2>2
<1>4. CASE O!StartEngine(op)
  <2>1. Kind[ops[op].profile] = "p25"
    BY <1>4 DEF O!StartEngine
  <2>2. \A o \in Operators :
          \/ ops'[o].pc = "idle"
          \/ ops'[o].pc = "install" /\ ops'[o].profile = ops[op].profile
    BY <1>0, <1>4, OneRequest, OneContinue DEF O!StartEngine
  <2> QED BY <2>1, <2>2
<1>5. CASE O!InstallSession(op) \/ O!StartMapperJob(op) \/ O!StartLab(op) \/ O!FinishCalibration(op)
  <2>1. \A o \in Operators : ops'[o].pc = "idle"
    BY <1>0, <1>5, OneRequest
       DEF O!InstallSession, O!StartMapperJob, O!StartLab, O!FinishCalibration
  <2> QED BY <2>1
<1> QED BY <1>1, <1>2, <1>3, <1>4, <1>5 DEF O!Proceed

\* A decoder only ever leaves receivers by itself or by a monitor.
LEMMA BackgroundEngine ==
    ASSUME OwnersTyped, EngineInv, Goroutines \/ UNCHANGED O!vars
    PROVE  EngineInv'
<1>1. UNCHANGED ops
  BY DEF Goroutines, O!CaptureStops, O!CaptureFails, O!EngineExits, O!MonitorSteps,
     O!MonitorStops,
         O!MonitorSeesError, O!MonitorReleases, O!MonitorStopsEngine, O!MapperLoopEnds,
         O!FinishMapperJob, O!LabEnds, O!vars
<1>2. engine' = engine \/ engine'.devs = {}
  BY DEF Goroutines, O!CaptureStops, O!CaptureFails, O!EngineExits, O!EngineIdle,
     O!MonitorSteps,
         O!MonitorStops, O!MonitorSeesError, O!MonitorReleases, O!MonitorStopsEngine,
         O!MapperLoopEnds, O!FinishMapperJob, O!LabEnds, O!vars
<1> QED BY <1>1, <1>2 DEF EngineInv, EngineLetGo

\* Only InstallSession spawns capture loops, and never for a P25 profile.
LEMMA CapturesSpawned ==
    ASSUME EngineInv, [O!Next]_O!vars
    PROVE  \A l \in captures' \ captures : l.dev \notin engine.devs
<1>1. ASSUME NEW o \in Operators, O!Requests(o) PROVE UNCHANGED captures
  BY <1>1
     DEF O!Requests, O!Start, O!StartOnDevice, O!RequestStop, O!RequestMapper,
         O!StopMapperJobs,
              O!RequestLab, O!StopLab, O!AutoCalibrate
<1>2. ASSUME NEW o \in Operators, O!Proceed(o)
      PROVE  UNCHANGED captures \/ engine.devs = {}
  <2>1. CASE O!InstallSession(o)
    BY <2>1 DEF O!InstallSession, EngineInv, EngineLetGo
  <2>2. CASE ~O!InstallSession(o)
    BY <1>2, <2>2
       DEF O!Proceed, O!StopSession, O!StopEngine, O!CheckMapperOwners, O!StartEngine,
                      O!StartMapperJob, O!StartLab, O!FinishCalibration
  <2> QED BY <2>1, <2>2
<1>3. ASSUME Goroutines \/ UNCHANGED O!vars PROVE captures' \subseteq captures
  BY <1>3 DEF Goroutines, O!CaptureStops, O!CaptureFails, O!EngineExits, O!MonitorSteps,
              O!MonitorStops, O!MonitorSeesError, O!MonitorReleases,
              O!MonitorStopsEngine,
              O!MapperLoopEnds, O!FinishMapperJob, O!LabEnds, O!vars
<1> QED BY <1>1, <1>2, <1>3, OwnershipSteps

\* With one request at a time, a capture loop is spawned only on receivers the
\* P25 decoder process has let go of, for every number of receivers and
\* profiles and whatever monitors of earlier sessions do meanwhile.
THEOREM SerialEngineReturnsFirst ==
    ASSUME NEW op, Operators = {op}
    PROVE  OwnersSpec => P25ReturnsFirst
<1>1. OwnersTyped /\ EngineInv /\ [O!Next]_O!vars => EngineInv'
  BY OwnershipSteps, RequestsEngine, ProceedEngine, BackgroundEngine
<1>2. EngineInv /\ [O!Next]_O!vars => [\A l \in captures' \ captures : l.dev \notin engine.devs]_O!vars
  BY CapturesSpawned
<1> QED BY <1>1, <1>2, InitEngine, OwnersStayTyped, PTL
   DEF OwnersSpec, O!Spec, P25ReturnsFirst, O!P25ReturnsFirst
=============================================================================
