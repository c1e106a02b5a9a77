------------------------------- MODULE MCLive -------------------------------
(* What runs while a receiver is listened to: captures that compete for it,  *)
(* the relay and the audio hub.  A behaviour is of one of them.              *)
EXTENDS RTLSessions

CONSTANTS
    Callers, MaxStarts, MaxPTTFailures, MaxStartFailures,
    Listeners, QueueLimit, MaxFrames

VARIABLES part,
    active, line, output, relayed, consumer, canceled, closed, caller, used,
    channel, queue, taken, published, offering

L == INSTANCE RelayRuntime WITH current <- relayed
H == INSTANCE AudioHub

ASSUME LiveAssumption == L!RelayAssumption /\ H!HubAssumption

lvars == <<active, line, output, relayed, consumer, canceled, closed, caller, used>>
hvars == <<channel, queue, taken, published, offering>>
allvars == <<part, vars, lvars, hvars>>

Parts == {"receiver", "relay", "hub"}

MCInit == part \in Parts /\ Init /\ L!Init /\ H!HubInit

Captures(A) == part = "receiver" /\ A /\ UNCHANGED <<part, lvars, hvars>>
Relays(A) == part = "relay" /\ A /\ UNCHANGED <<part, vars, hvars>>
Plays(A) == part = "hub" /\ A /\ UNCHANGED <<part, vars, lvars>>

MCNext == Captures(Next) \/ Relays(L!Next) \/ Plays(H!HubNext)

(* Every call makes progress and captures are bounded in time; Go's mutex    *)
(* hands itself to a waiter that has waited long enough; a signalled helper  *)
(* exits and its exit is noticed.                                           *)
(* Requests to the relay and its goroutines run on.  A select with several  *)
(* ready cases picks among them at random, so an end that stays ready is    *)
(* taken eventually although frames keep coming.                            *)
(* A Publish waits for nobody.                                              *)
Fairness ==
    /\ \A c \in Clients : WF_allvars(Captures(Work(c))) /\ SF_allvars(Captures(LockSession(c)))
    /\ WF_allvars(Captures(ShutdownSteps))
    /\ \A h \in Helpers :
          /\ WF_allvars(Captures(ReapHelper(h)))
          /\ WF_allvars(Captures(helper[h].state = "stopping" /\ HelperExits(h)))
    /\ WF_allvars(Relays(\E c \in Callers : L!Spawn(c) \/ L!Stopping(c)))
    /\ WF_allvars(Relays(\E s \in L!Sessions : L!Work(s)))
    /\ SF_allvars(Relays(\E s \in L!Sessions : L!EndConsumer(s)))
    /\ SF_allvars(Relays(\E s \in L!Sessions : L!EndSegment(s)))
    /\ WF_allvars(Plays(H!Publishing))

MCSpec == MCInit /\ [][MCNext]_allvars /\ Fairness

(* The type invariants of the modules. *)
LiveTypeOK == TypeOK /\ L!TypeOK /\ H!HubTypeOK

(* No goroutine is left that could key the transmitter, and no done channel   *)
(* is closed twice (RelayRuntime).                                          *)
RelayLetGo == L!NothingLeftRunning /\ L!ClosedOnce

(* The newest frame reaches every listener, and none is sent to a closed      *)
(* channel (AudioHub).                                                       *)
NewestDelivered == H!NewestQueued /\ H!NoSendOnClosed

(* Sessions settle; a Stop of the relay that has a goroutine to wait for      *)
(* returns, and the transmitter is released although audio keeps coming; no   *)
(* publisher waits for a listener (RTLSessions, RelayRuntime, AudioHub).      *)
LiveSettles == SessionsSettle /\ L!StopReturns /\ L!TransmissionEnds /\ H!PublishReturns
=============================================================================
