----------------------------- MODULE RTLSessions -----------------------------
(***************************************************************************)
(* Persistent RTL-SDR sessions (rtl_session.go) of one physical receiver.  *)
(* A session keeps an rtl_tcp helper process, and through it the USB       *)
(* device, open between captures; the captures of Live, Tuner, Mapper and  *)
(* calibration take the session's mutex in turn.  Refresh and process      *)
(* shutdown detach every session from the table and stop its helper        *)
(* without that mutex.                                                     *)
(*                                                                         *)
(* Sessions and helpers are numbered in the order they are made.  A        *)
(* connection is named by the helper it leads to.                          *)
(***************************************************************************)
EXTENDS Naturals

CONSTANTS
    Clients,      \* goroutines that capture from the receiver
    NoClient,     \* nobody holds the mutex
    MaxSessions,  \* bound: sessions made for the receiver
    MaxHelpers,   \* bound: helper processes launched
    MaxShutdowns  \* bound: Refresh requests and application shutdowns

ASSUME SessionsAssumption ==
    /\ NoClient \notin Clients
    /\ MaxSessions \in Nat /\ MaxHelpers \in Nat /\ MaxShutdowns \in Nat

VARIABLES
    current,      \* localRTLSessions.items[device.ID], 0 when absent
    lastSession,  \* sessions made so far
    lock,         \* session -> the client holding session.mu
    cmd,          \* session -> its helper (cmd, done and address), 0 when nil
    conn,         \* session -> its connection, 0 when nil
    helper,       \* helper -> [state, session]
    lastHelper,   \* helpers launched so far
    client,       \* client -> its StartIQStream call or its stream
    shutdown,     \* the shutdownLocalRTLSessions call in progress
    shutdowns,    \* such calls so far
    quitting      \* main has called Runtime.Stop: loops begin no new capture

sessions == <<current, lastSession>>
state == <<lock, cmd, conn>>
helpers == <<helper, lastHelper>>
stops == <<shutdown, shutdowns, quitting>>
vars == <<sessions, state, helpers, client, stops>>

Sessions == 1..MaxSessions
Helpers == 1..MaxHelpers
Pcs == {"idle", "lookup", "lock", "run", "connect", "publish", "configure",
        "streaming", "broken", "recover", "waitExit", "panicked"}
Call == [pc : Pcs, session : 0..MaxSessions, helper : 0..MaxHelpers, attempt : 0..2]
NoCall == [pc |-> "idle", session |-> 0, helper |-> 0, attempt |-> 0]
Working == {"run", "connect", "publish", "configure", "streaming", "broken",
            "recover", "waitExit", "panicked"}

TypeOK ==
    /\ current \in 0..MaxSessions /\ lastSession \in 0..MaxSessions
    /\ lock \in [Sessions -> Clients \cup {NoClient}]
    /\ cmd \in [Sessions -> 0..MaxHelpers]
    /\ conn \in [Sessions -> 0..MaxHelpers]
    /\ helper \in [Helpers -> [state : {"none", "starting", "serving", "stopping",
                                        "dead", "reaped"},
                               session : 0..MaxSessions]]
    /\ lastHelper \in 0..MaxHelpers
    /\ client \in [Clients -> Call]
    /\ shutdown \in [pc : {"none", "stop", "waitExit", "exited"}, exit : BOOLEAN,
                     session : 0..MaxSessions, helper : 0..MaxHelpers]
    /\ shutdowns \in 0..MaxShutdowns
    /\ quitting \in BOOLEAN

Init ==
    /\ current = 0 /\ lastSession = 0
    /\ lock = [s \in Sessions |-> NoClient]
    /\ cmd = [s \in Sessions |-> 0]
    /\ conn = [s \in Sessions |-> 0]
    /\ helper = [h \in Helpers |-> [state |-> "none", session |-> 0]]
    /\ lastHelper = 0
    /\ client = [c \in Clients |-> NoCall]
    /\ shutdown = [pc |-> "none", exit |-> FALSE, session |-> 0, helper |-> 0]
    /\ shutdowns = 0
    /\ quitting = FALSE

-----------------------------------------------------------------------------
(* Helpers *)

Running == {h \in Helpers : helper[h].state \in {"starting", "serving"}}
Serving(h) == h \in Helpers /\ helper[h].state = "serving"

\* The helper has exited, or the time-outs of stop (2 s, then 500 ms after the
\* kill) have run out, which only a signalled process can make them do.
StopWaited(h) == h \in Helpers => helper[h].state \in {"stopping", "reaped"}

Goto(c, pc) == client' = [client EXCEPT ![c].pc = pc]

\* The critical section of localRTLSession.stop and its interrupt signal.
StopSession(s) ==
    /\ cmd' = [cmd EXCEPT ![s] = 0]
    /\ conn' = [conn EXCEPT ![s] = 0]
    /\ helper' = IF cmd[s] # 0 /\ helper[cmd[s]].state \in {"starting", "serving"}
                 THEN [helper EXCEPT ![cmd[s]].state = "stopping"] ELSE helper

-----------------------------------------------------------------------------
(* A capture: startLocalRTLStream, open, the stream, Close *)

\* A loop saw its stop channel open, or a calibration begins.
BeginCapture(c) ==
    /\ client[c].pc = "idle"
    /\ ~quitting
    /\ Goto(c, "lookup")
    /\ UNCHANGED <<sessions, state, helpers, stops>>

\* The receiver's session from the table, made when it is missing.
LookupSession(c) ==
    /\ client[c].pc = "lookup"
    /\ IF current # 0
       THEN UNCHANGED sessions
       ELSE /\ lastSession < MaxSessions
            /\ lastSession' = lastSession + 1
            /\ current' = lastSession'
    /\ client' = [client EXCEPT ![c].pc = "lock", ![c].session = current']
    /\ UNCHANGED <<state, helpers, stops>>

LockSession(c) ==
    /\ client[c].pc = "lock"
    /\ lock[client[c].session] = NoClient
    /\ lock' = [lock EXCEPT ![client[c].session] = c]
    /\ client' = [client EXCEPT ![c].pc = "run", ![c].attempt = 1]
    /\ UNCHANGED <<sessions, cmd, conn, helpers, stops>>

Launch(c, s) ==
    /\ lastHelper < MaxHelpers
    /\ lastHelper' = lastHelper + 1
    /\ helper' = [helper EXCEPT ![lastHelper + 1] = [state |-> "starting", session |-> s]]
    /\ cmd' = [cmd EXCEPT ![s] = lastHelper + 1]
    /\ client' = [client EXCEPT ![c].pc = "connect", ![c].helper = lastHelper + 1]

\* ensureRunning: reuse the helper the session names, launch one, or fail.
EnsureRunning(c) ==
    /\ client[c].pc = "run"
    /\ LET s == client[c].session IN
         \/ /\ cmd[s] # 0
            /\ client' = [client EXCEPT ![c].pc = "connect", ![c].helper = cmd[s]]
            /\ UNCHANGED <<cmd, helpers>>
         \/ /\ cmd[s] = 0
            /\ Launch(c, s)
         \/ /\ cmd[s] = 0
            /\ Goto(c, "recover")
            /\ UNCHANGED <<cmd, helpers>>
    /\ UNCHANGED <<sessions, lock, conn, stops>>

\* ensureConnected: the session still has a connection, the helper accepts
\* one, or the three seconds run out.
EnsureConnected(c) ==
    /\ client[c].pc = "connect"
    /\ \/ conn[client[c].session] # 0 /\ Goto(c, "configure")
       \/ /\ conn[client[c].session] = 0
          /\ \/ Serving(client[c].helper) /\ Goto(c, "publish")
             \/ Goto(c, "recover")
    /\ UNCHANGED <<sessions, state, helpers, stops>>

\* The new connection is recorded in a critical section of its own.
PublishConnection(c) ==
    /\ client[c].pc = "publish"
    /\ conn' = [conn EXCEPT ![client[c].session] = client[c].helper]
    /\ Goto(c, "configure")
    /\ UNCHANGED <<sessions, lock, cmd, helpers, stops>>

\* configureRTLTCPConnection and the settling samples, on whatever connection
\* the session names now; with none the first Write is a nil dereference.
Configure(c) ==
    /\ client[c].pc = "configure"
    /\ LET s == client[c].session IN
         \/ conn[s] = 0 /\ Goto(c, "panicked")
         \/ /\ Serving(conn[s])
            /\ client' = [client EXCEPT ![c].pc = "streaming", ![c].helper = conn[s]]
         \/ conn[s] # 0 /\ Goto(c, "recover")
    /\ UNCHANGED <<sessions, state, helpers, stops>>

\* open's recovery: stop the helper ...
Recover(c) ==
    /\ client[c].pc = "recover"
    /\ StopSession(client[c].session)
    /\ client' = [client EXCEPT ![c].pc = "waitExit", ![c].helper = cmd[client[c].session]]
    /\ UNCHANGED <<sessions, lock, lastHelper, stops>>

Release(c) ==
    /\ lock' = [lock EXCEPT ![client[c].session] = NoClient]
    /\ client' = [client EXCEPT ![c] = NoCall]

\* Faulty variant: the attempts are not counted against their limit.
RetryForever(c) ==
    /\ client[c].pc = "waitExit"
    /\ StopWaited(client[c].helper)
    /\ client' = [client EXCEPT ![c].pc = "run", ![c].attempt = @ + 1]
    /\ UNCHANGED <<sessions, state, helpers, stops>>

\* Faulty variant: the mutex is given back while the helper is restarted.
RetryUnlocked(c) ==
    /\ client[c].pc = "waitExit"
    /\ StopWaited(client[c].helper)
    /\ IF client[c].attempt < 2
       THEN /\ client' = [client EXCEPT ![c].pc = "run", ![c].attempt = @ + 1]
            /\ lock' = [lock EXCEPT ![client[c].session] = NoClient]
       ELSE Release(c)
    /\ UNCHANGED <<sessions, cmd, conn, helpers, stops>>

\* ... wait for it, and try once more or give the mutex back.
Retry(c) ==
    /\ client[c].pc = "waitExit"
    /\ StopWaited(client[c].helper)
    /\ IF client[c].attempt < 2
       THEN /\ client' = [client EXCEPT ![c].pc = "run", ![c].attempt = @ + 1]
            /\ UNCHANGED lock
       ELSE Release(c)
    /\ UNCHANGED <<sessions, cmd, conn, helpers, stops>>

\* A read fails: markConnectionBroken drops the connection if it is still the
\* session's.
StreamBreaks(c) ==
    /\ client[c].pc = "streaming"
    /\ ~Serving(client[c].helper)
    /\ LET s == client[c].session IN
         conn' = IF conn[s] = client[c].helper THEN [conn EXCEPT ![s] = 0] ELSE conn
    /\ Goto(c, "broken")
    /\ UNCHANGED <<sessions, lock, cmd, helpers, stops>>

\* Faulty variant: Close forgets the mutex.
CloseKeepsLock(c) ==
    /\ client[c].pc \in {"streaming", "broken"}
    /\ client' = [client EXCEPT ![c] = NoCall]
    /\ UNCHANGED <<sessions, state, helpers, stops>>

\* IQStream.Close gives the mutex back; helper and connection stay.
CloseStream(c) ==
    /\ client[c].pc \in {"streaming", "broken"}
    /\ Release(c)
    /\ UNCHANGED <<sessions, cmd, conn, helpers, stops>>

-----------------------------------------------------------------------------
(* The helper processes and the goroutines waiting for them *)

\* rtl_tcp gets the USB interface when no other helper has it.
HelperServes(h) ==
    /\ helper[h].state = "starting"
    /\ \A k \in Helpers : helper[k].state \notin {"serving", "stopping"}
    /\ helper' = [helper EXCEPT ![h].state = "serving"]
    /\ UNCHANGED <<sessions, state, lastHelper, client, stops>>

\* It cannot claim the interface, the receiver is unplugged, or the signal of
\* stop takes effect.
HelperExits(h) ==
    /\ helper[h].state \in {"starting", "serving", "stopping"}
    /\ helper' = [helper EXCEPT ![h].state = "dead"]
    /\ UNCHANGED <<sessions, state, lastHelper, client, stops>>

\* Faulty variant: the fields are cleared although they name another helper.
ReapUnconditionally(h) ==
    /\ helper[h].state = "dead"
    /\ helper' = [helper EXCEPT ![h].state = "reaped"]
    /\ cmd' = [cmd EXCEPT ![helper[h].session] = 0]
    /\ conn' = [conn EXCEPT ![helper[h].session] = 0]
    /\ UNCHANGED <<sessions, lock, lastHelper, client, stops>>

\* Faulty variant: the exit is not noted.
ReapSilently(h) ==
    /\ helper[h].state = "dead"
    /\ helper' = [helper EXCEPT ![h].state = "reaped"]
    /\ UNCHANGED <<sessions, state, lastHelper, client, stops>>

\* The goroutine in cmd.Wait: clear the session's fields if they still name
\* this helper.
ReapHelper(h) ==
    /\ helper[h].state = "dead"
    /\ helper' = [helper EXCEPT ![h].state = "reaped"]
    /\ LET s == helper[h].session IN
         IF cmd[s] = h
         THEN /\ cmd' = [cmd EXCEPT ![s] = 0]
              /\ conn' = [conn EXCEPT ![s] = 0]
         ELSE UNCHANGED <<cmd, conn>>
    /\ UNCHANGED <<sessions, lock, lastHelper, client, stops>>

-----------------------------------------------------------------------------
(* Refresh and application shutdown *)

\* main's Runtime.Stop closes the stop channels and waits for no loop.
Quit ==
    /\ ~quitting /\ shutdowns < MaxShutdowns
    /\ quitting' = TRUE
    /\ UNCHANGED <<sessions, state, helpers, client, shutdown, shutdowns>>

\* shutdownLocalRTLSessions empties the table.  Refresh calls it when the
\* runtime looks idle, which says nothing of a calibration or of a loop that
\* has not noticed its stop channel yet.
DetachSessions ==
    /\ shutdown.pc = "none" /\ shutdowns < MaxShutdowns
    /\ shutdowns' = shutdowns + 1
    /\ shutdown' = [pc |-> "stop", exit |-> quitting, session |-> current, helper |-> 0]
    /\ current' = 0
    /\ UNCHANGED <<lastSession, state, helpers, client, quitting>>

\* Faulty variant: a detached session is dropped without being stopped.
DropDetached ==
    /\ shutdown.pc = "stop"
    /\ shutdown' = [shutdown EXCEPT !.pc = "waitExit"]
    /\ UNCHANGED <<sessions, state, helpers, client, shutdowns, quitting>>

\* It stops a session it took out, without the session's mutex ...
StopDetached ==
    /\ shutdown.pc = "stop"
    /\ IF shutdown.session = 0
       THEN /\ shutdown' = [shutdown EXCEPT !.pc = "waitExit"]
            /\ UNCHANGED <<state, helper>>
       ELSE /\ StopSession(shutdown.session)
            /\ shutdown' = [shutdown EXCEPT !.pc = "waitExit", !.helper = cmd[shutdown.session]]
            /\ UNCHANGED lock
    /\ UNCHANGED <<sessions, lastHelper, client, shutdowns, quitting>>

\* ... and waits for the helper.  main then ends the process.
ShutdownReturns ==
    /\ shutdown.pc = "waitExit"
    /\ StopWaited(shutdown.helper)
    /\ shutdown' = [pc |-> IF shutdown.exit THEN "exited" ELSE "none", exit |-> FALSE,
                    session |-> 0, helper |-> 0]
    /\ UNCHANGED <<sessions, state, helpers, client, shutdowns, quitting>>

-----------------------------------------------------------------------------
Work(c) ==
    \/ LookupSession(c)
    \/ EnsureRunning(c)
    \/ EnsureConnected(c)
    \/ PublishConnection(c)
    \/ Configure(c)
    \/ Recover(c)
    \/ Retry(c)
    \/ StreamBreaks(c)
    \/ CloseStream(c)

ShutdownSteps == StopDetached \/ ShutdownReturns

\* The goroutines of a process that has exited take no step; its children do.
Next ==
    \/ /\ shutdown.pc # "exited"
       /\ \/ \E c \in Clients : BeginCapture(c) \/ LockSession(c) \/ Work(c)
          \/ Quit \/ DetachSessions \/ ShutdownSteps
          \/ \E h \in Helpers : ReapHelper(h)
    \/ \E h \in Helpers : HelperServes(h) \/ HelperExits(h)

Spec == Init /\ [][Next]_vars

-----------------------------------------------------------------------------
(* Properties *)

\* No running rtl_tcp is forgotten: the session that launched it still names
\* it, so that the next capture reuses it and stop can reach it.  The waiter
\* of an earlier helper must not clear the fields of its successor.
HelperTracked ==
    \A h \in Running : cmd[helper[h].session] = h

\* "The per-device mutex guarantees that Live, Tuner, Mapper, and calibration
\* cannot claim the same receiver concurrently": captures of one session work
\* in turn, recovery attempts and hand-overs included, and a second session of
\* the receiver exists only once Refresh or the exit has detached the first.
ReceiverExclusive ==
    \A b, c \in Clients :
        /\ client[b].pc \in Working /\ client[c].pc \in Working
        /\ client[b].session = client[c].session \/ shutdowns = 0
        => b = c

\* Whoever waits for the receiver gets it or an error, unless a holder ran
\* into a nil connection.
WaitersServed ==
    \A c \in Clients :
        client[c].pc = "lock" ~> \/ client[c].pc # "lock"
                                 \/ shutdown.pc = "exited"
                                 \/ \E b \in Clients : client[b].pc = "panicked"

\* A session still names a helper that died: the next capture would dial a
\* dead address.
Stale ==
    /\ shutdown.pc # "exited"
    /\ \E s \in Sessions, h \in Helpers :
          cmd[s] = h /\ helper[h].state \in {"dead", "reaped"}

\* Dead helpers are forgotten, so that the next capture launches a new one.
DeadHelperForgotten == Stale ~> ~Stale

\* Refresh frees the USB interface of an idle receiver: a detached session no
\* capture is using loses its helper.
IdleHelperReleased ==
    \A s \in Sessions :
        (/\ shutdown.pc = "stop" /\ shutdown.session = s
         /\ \A c \in Clients : client[c].session # s)
            ~> (\A h \in Running : helper[h].session # s)

\* A receiver has one user at a time, and no helper that nobody can reach.
ReceiverHeldOnce == HelperTracked /\ ReceiverExclusive

\* Waiters are served, dead helpers forgotten and idle ones released.
SessionsSettle == WaitersServed /\ DeadHelperForgotten /\ IdleHelperReleased
=============================================================================
