---------------------------- MODULE EventHistory ----------------------------
(***************************************************************************)
(* What the event store promises its callers: an operation that returned   *)
(* without an error is never forgotten, whatever crashes follow.  An       *)
(* operation that failed, or was cut short, may have happened or not.      *)
(*                                                                         *)
(* Every attempt to record or change an event has a revision of its own;   *)
(* 0 is an absent event.                                                   *)
(***************************************************************************)
EXTENDS Naturals

CONSTANTS Events, Revs

VARIABLES
    up,     \* the store is open
    view,   \* event -> revision it is served with
    acked,  \* event -> last revision acknowledged to a caller
    stable, \* event -> revision a crash cannot take back
    fresh   \* event -> later revisions that a crash may keep or lose

vars == <<up, view, acked, stable, fresh>>

Init ==
    /\ up = TRUE
    /\ view = [e \in Events |-> 0]
    /\ acked = [e \in Events |-> 0]
    /\ stable = [e \in Events |-> 0]
    /\ fresh = [e \in Events |-> {}]

\* f follows g: every event keeps its revision or takes one from "from".
Follows(f, g, from) ==
    \A e \in Events : f[e] = g[e] \/ (f[e] \in from[e] /\ f[e] > g[e])

\* Revisions reach stable storage.
Settles ==
    /\ stable' \in [Events -> Revs \cup {0}]
    /\ Follows(stable', stable, fresh)

\* An operation on the events of S begins; an update shows at once.
Attempt(S, r) ==
    /\ up
    /\ \A e \in Events : r > stable[e] /\ \A q \in fresh[e] : r > q
    /\ fresh' = [e \in Events |-> IF e \in S THEN fresh[e] \cup {r} ELSE fresh[e]]
    /\ view' \in [Events -> Revs \cup {0}]
    /\ \A e \in Events : view'[e] # view[e] => e \in S /\ view'[e] = r
    /\ UNCHANGED <<up, acked, stable>>

\* What has reached stable storage may be acknowledged, and nothing else.
Confirm ==
    /\ up
    /\ Settles
    /\ fresh' = [e \in Events |-> {r \in fresh[e] : r > stable'[e]}]
    /\ acked' \in [Events -> Revs \cup {0}]
    /\ \A e \in Events : acked'[e] = acked[e] \/ acked'[e] = stable'[e]
    /\ view' \in [Events -> Revs \cup {0}]
    /\ \A e \in Events : view'[e] = view[e] \/ view'[e] = stable'[e]
    /\ UNCHANGED up

\* What is not stable may be lost.
Sheds == /\ fresh' \in [Events -> SUBSET Revs]
         /\ \A e \in Events : fresh'[e] \subseteq {r \in fresh[e] : r > stable'[e]}

\* The process or the machine goes down, also while it comes back.
Crash ==
    /\ up' = FALSE
    /\ Settles /\ Sheds
    /\ view' = [e \in Events |-> 0]
    /\ UNCHANGED acked

\* It comes back with the stable revisions and perhaps later ones.
Restart ==
    /\ ~up
    /\ up' = TRUE
    /\ Settles /\ Sheds
    /\ view' \in [Events -> Revs \cup {0}]
    /\ Follows(view', stable', fresh)
    /\ UNCHANGED acked

Next ==
    \/ \E S \in SUBSET Events, r \in Revs : Attempt(S, r)
    \/ Confirm
    \/ Crash
    \/ Restart

Spec == Init /\ [][Next]_vars
=============================================================================
