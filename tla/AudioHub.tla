------------------------------ MODULE AudioHub ------------------------------
(* Live audio for browsers and the relay (audio_hub.go): whoever decodes     *)
(* publishes frames, every listener has a queue of its own, and a full queue *)
(* gives up its oldest frame.  Frames are numbered in the order published.   *)
EXTENDS Naturals, Sequences, SequencesExt

CONSTANTS
    Listeners,      \* calls of Subscribe, one channel each
    QueueLimit,     \* capacity of a channel (64 in the code)
    MaxFrames       \* bound: frames published

HubAssumption == QueueLimit \in Nat \ {0} /\ MaxFrames \in Nat

VARIABLES
    channel,        \* of a listener: "none", "open" (in hub.subscribers) or "closed"
    queue,          \* frames in its channel
    taken,          \* the frame it took last; what was published when it subscribed
    published,      \* frames published so far
    offering        \* the Publish that holds hub.mu: listeners it has left, whom it found
                    \* full, and what it does next

hubvars == <<channel, queue, taken, published, offering>>

Idle == [left |-> {}, to |-> {}, at |-> "idle"]
Open == {l \in Listeners : channel[l] = "open"}
HasRoom(l) == Len(queue[l]) < QueueLimit

HubTypeOK ==
    /\ channel \in [Listeners -> {"none", "open", "closed"}]
    /\ \A l \in Listeners : queue[l] \in Seq(1..MaxFrames) /\ Len(queue[l]) <= QueueLimit
    /\ taken \in [Listeners -> 0..MaxFrames]
    /\ published \in 0..MaxFrames
    /\ offering.to \subseteq offering.left /\ offering.left \subseteq Listeners
    /\ offering.at \in {"idle", "next", "full", "again"}

HubInit ==
    /\ channel = [l \in Listeners |-> "none"]
    /\ queue = [l \in Listeners |-> <<>>]
    /\ taken = [l \in Listeners |-> 0]
    /\ published = 0
    /\ offering = Idle

Subscribe(l) ==
    /\ offering = Idle /\ channel[l] = "none"
    /\ channel' = [channel EXCEPT ![l] = "open"]
    /\ taken' = [taken EXCEPT ![l] = published]
    /\ UNCHANGED <<queue, published, offering>>

(* A client that has gone, or a relay that ends. *)
Unsubscribe(l) ==
    /\ offering = Idle /\ channel[l] = "open"
    /\ channel' = [channel EXCEPT ![l] = "closed"]
    /\ UNCHANGED <<queue, taken, published, offering>>

(* A listener takes a frame without the lock, when it comes to it. *)
Receive(l) ==
    /\ channel[l] = "open" /\ queue[l] # <<>>
    /\ taken' = [taken EXCEPT ![l] = Head(queue[l])]
    /\ queue' = [queue EXCEPT ![l] = Tail(@)]
    /\ UNCHANGED <<channel, published, offering>>

(* Publish takes the lock and goes through the subscribers in any order; of  *)
(* each it tries the channel, and if that is full makes room and tries       *)
(* again.                                                                   *)
Publish ==
    /\ offering = Idle /\ Open # {} /\ published < MaxFrames
    /\ published' = published + 1
    /\ offering' = [left |-> Open, to |-> {}, at |-> "next"]
    /\ UNCHANGED <<channel, queue, taken>>

Served(l) ==
    IF offering.left \subseteq {l} THEN Idle
    ELSE [left |-> offering.left \ {l}, to |-> {}, at |-> "next"]

Offer(l) ==
    /\ offering.at = "next" /\ l \in offering.left
    /\ IF HasRoom(l)
       THEN queue' = [queue EXCEPT ![l] = Append(@, published)] /\ offering' = Served(l)
       ELSE offering' = [offering EXCEPT !.to = {l}, !.at = "full"] /\ UNCHANGED queue
    /\ UNCHANGED <<channel, taken, published>>

(* Faulty variant: the new frame is dropped instead of the oldest. *)
DropNewest(l) ==
    /\ offering.at = "full" /\ l \in offering.to
    /\ offering' = Served(l)
    /\ UNCHANGED <<channel, queue, taken, published>>

(* The listener may have emptied its queue in the meantime. *)
DropOldest(l) ==
    /\ offering.at = "full" /\ l \in offering.to
    /\ queue' = [queue EXCEPT ![l] = IF @ = <<>> THEN @ ELSE Tail(@)]
    /\ offering' = [offering EXCEPT !.at = "again"]
    /\ UNCHANGED <<channel, taken, published>>

OfferAgain(l) ==
    /\ offering.at = "again" /\ l \in offering.to
    /\ queue' = IF HasRoom(l) THEN [queue EXCEPT ![l] = Append(@, published)] ELSE queue
    /\ offering' = Served(l)
    /\ UNCHANGED <<channel, taken, published>>

Publishing == \E l \in Listeners : Offer(l) \/ DropOldest(l) \/ OfferAgain(l)

HubNext ==
    \/ Publish \/ Publishing
    \/ \E l \in Listeners : Subscribe(l) \/ Unsubscribe(l) \/ Receive(l)

(* The newest frame reaches every listener: after a Publish it is the last   *)
(* in its queue, or the last it took, however slow or fast it is ("discard   *)
(* the oldest queued frame, then offer the newest one").                    *)
NewestQueued ==
    offering = Idle =>
        \A l \in Open :
            published = IF queue[l] = <<>> THEN taken[l] ELSE Last(queue[l])

(* Publish never sends to a channel that was closed, which would end the     *)
(* program.                                                                 *)
NoSendOnClosed == offering.left \subseteq Open

(* A receiver's loop is never held up by a listener that does not read. *)
PublishReturns == offering # Idle ~> offering = Idle
=============================================================================
