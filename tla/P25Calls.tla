------------------------------- MODULE P25Calls -------------------------------
(***************************************************************************)
(* From what OP25 reports of its voice channels to the events and mixer    *)
(* strips of GP-SDR (op25_calls.go; p25MonitorLoop and syncP25Mixer in     *)
(* runtime.go).  Each tick asks OP25 for its channels, merges the answer   *)
(* with the calls known, refreshes the mixer and records the calls that    *)
(* are gone.  One tick is 750 ms, Expiry ticks are 2 s.                    *)
(***************************************************************************)
EXTENDS Naturals, Sequences, FiniteSets, SequencesExt

CONSTANTS
    Channels, \* voice channels of OP25
    Groups,   \* talkgroups that may be heard
    Secret,   \* talkgroups whose calls are encrypted
    Listed,   \* talkgroups of the profile
    Expiry,   \* ticks after which a call that is not reported is gone
    MaxTicks, \* bound: ticks
    MaxAired, \* bound: transmissions
    MaxMissed \* bound: requests OP25 did not answer

\* A call outlives the tick that reported it, as 2 s do 750 ms.
P25CallsAssumption ==
    /\ IsFiniteSet(Channels)
    /\ Secret \subseteq Groups /\ Listed \subseteq Groups
    /\ {Expiry, MaxTicks, MaxAired, MaxMissed} \subseteq Nat /\ Expiry > 1

VARIABLES
    air,      \* external: the transmission on each channel, 0 for none
    aired,    \* external: the group of each transmission so far
    now,      \* ticks so far
    missed,   \* requests not answered so far
    calls,    \* OP25Manager.op25Calls: at most one per channel
    previous, \* the monitor's calls of the tick before
    events,   \* events appended, oldest first
    mixer     \* talkgroup strips: listed, active, events counted

cvars == <<air, aired, now, missed, calls, previous, events, mixer>>

NoCall == [group |-> 0, started |-> 0, heard |-> 0, source |-> 0]
NoStrip == [listed |-> FALSE, active |-> FALSE, count |-> 0]
Current(cs) == {[channel |-> c, call |-> cs[c]] : c \in {d \in Channels : cs[d] # NoCall}}
Key(item) == <<item.channel, item.call.group, item.call.started>>

TypeOK ==
    /\ air \in [Channels -> 0..Len(aired)]
    /\ \A c \in Channels : calls[c] # NoCall =>
         calls[c].group \in Groups /\ calls[c].started <= calls[c].heard /\ calls[c].heard <= now
    /\ \A g \in Groups : mixer[g].count <= Len(events)

Init ==
    /\ air = [c \in Channels |-> 0]
    /\ aired = << >>
    /\ now = 0 /\ missed = 0
    /\ calls = [c \in Channels |-> NoCall]
    /\ previous = {}
    /\ events = << >>
    /\ mixer = [g \in Groups |-> [NoStrip EXCEPT !.listed = g \in Listed]]

(* OP25 grants a voice channel to a talkgroup, or the channel falls silent. *)
Grant(c, g) ==
    /\ Len(aired) < MaxAired
    /\ aired' = Append(aired, g)
    /\ air' = [air EXCEPT ![c] = Len(aired')]
    /\ UNCHANGED <<now, missed, calls, previous, events, mixer>>

Ends(c) ==
    /\ air[c] # 0
    /\ air' = [air EXCEPT ![c] = 0]
    /\ UNCHANGED <<aired, now, missed, calls, previous, events, mixer>>

-----------------------------------------------------------------------------
Alive(call, t) == call # NoCall /\ t - call.heard < Expiry
Clear(n) == n # 0 /\ aired[n] \notin Secret

\* Faulty variant: a new call keeps the time of the one it replaces.
MergeUnheard(t, answered) ==
    [c \in Channels |->
        IF ~answered THEN IF Alive(calls[c], t) THEN calls[c] ELSE NoCall
        ELSE IF ~Clear(air[c]) THEN NoCall
        ELSE [group |-> aired[air[c]], heard |-> calls[c].heard, started |-> t, source |-> air[c]]]

\* Faulty variant: every report starts a call.
MergeAfresh(t, answered) ==
    [c \in Channels |->
        IF ~answered THEN IF Alive(calls[c], t) THEN calls[c] ELSE NoCall
        ELSE IF ~Clear(air[c]) THEN NoCall
        ELSE [group |-> aired[air[c]], heard |-> t, started |-> t, source |-> air[c]]]

(* Silent and encrypted channels lose their call at once; a call goes on    *)
(* when the same group was heard there less than Expiry ago.                *)
Merge(t, answered) ==
    [c \in Channels |->
        IF ~answered THEN IF Alive(calls[c], t) THEN calls[c] ELSE NoCall
        ELSE IF ~Clear(air[c]) THEN NoCall
        ELSE LET g == aired[air[c]]
                 same == Alive(calls[c], t) /\ calls[c].group = g
             IN [group |-> g, heard |-> t,
                 started |-> IF same THEN calls[c].started ELSE t,
                 source |-> IF same THEN calls[c].source ELSE air[c]]]

\* Faulty variant: only the talkgroups of the profile.
StripsOfProfile(cs) ==
    [g \in Groups |->
        LET active == \E c \in Channels : cs[c].group = g IN
        [listed |-> mixer[g].listed,
         active |-> active,
         count  |-> Cardinality({i \in DOMAIN events : events[i].call.group = g})]]

(* Groups of the calls get a strip; a strip's events are those before this  *)
(* tick's.                                                                  *)
Strips(cs) ==
    [g \in Groups |->
        LET active == \E c \in Channels : cs[c].group = g IN
        [listed |-> mixer[g].listed \/ active,
         active |-> active,
         count  |-> Cardinality({i \in DOMAIN events : events[i].call.group = g})]]

\* Faulty variant: a call is looked for by its channel only.
GoneByChannel(cs) ==
    {item \in previous : \A other \in Current(cs) : other.channel # item.channel}

(* The calls of the tick before whose key is not there any more. *)
Gone(cs) == {item \in previous : \A other \in Current(cs) : Key(other) # Key(item)}

Tick(answered) ==
    /\ now < MaxTicks
    /\ now' = now + 1
    /\ ~answered => missed < MaxMissed
    /\ missed' = IF answered THEN missed ELSE missed + 1
    /\ calls' = Merge(now', answered)
    /\ mixer' = Strips(calls')
    /\ events' = events \o SetToSeq(Gone(calls'))
    /\ previous' = Current(calls')
    /\ UNCHANGED <<air, aired>>

Next ==
    \/ \E c \in Channels, g \in Groups : Grant(c, g)
    \/ \E c \in Channels : Ends(c)
    \/ \E answered \in BOOLEAN : Tick(answered)

Spec == Init /\ [][Next]_cvars

-----------------------------------------------------------------------------
(* As long as OP25 answers every tick, a transmission is recorded once,     *)
(* however channels are taken over, and none while it is still followed     *)
(* (mergeOP25Calls, p25CallKey).                                            *)
RecordedOnce ==
    missed = 0 =>
        /\ \A i, j \in DOMAIN events :
             i # j => events[i].call.source # events[j].call.source
        /\ \A i \in DOMAIN events, item \in previous :
             events[i].call.source # item.call.source

(* A call that was followed in one tick is followed in the next or          *)
(* recorded, also when another call took its channel (p25MonitorLoop).      *)
CallKept ==
    \A item \in previous :
        \/ \E other \in previous' : Key(other) = Key(item)
        \/ \E i \in DOMAIN events' : Key(events'[i]) = Key(item)

(* Encrypted calls are never recorded, and every talkgroup with an event    *)
(* has a strip in the mixer (readOP25Calls, syncP25Mixer).                  *)
EventsHaveStrips ==
    \A i \in DOMAIN events :
        events[i].call.group \notin Secret /\ mixer[events[i].call.group].listed
=============================================================================
