----------------------------- MODULE SurveyPlan -----------------------------
(* Which receivers a profile is given and what each of them scans           *)
(* (startProfile, buildPlan and partitionScanProfile in runtime.go).  The    *)
(* assignments are gone through in their order, and a Refresh may change     *)
(* the connected receivers before the plan is used.                         *)
EXTENDS Integers, Sequences, FiniteSets

CONSTANTS
    Receivers, Any,     \* Any: an assignment that is not pinned
    MaxAssignments, MaxChannels, MaxSteps, MaxRefreshes     \* bounds

PlanAssumption ==
    /\ Any \notin Receivers
    /\ {MaxAssignments, MaxChannels, MaxSteps, MaxRefreshes} \subseteq Nat

VARIABLES
    profile,    \* pins of its assignments, enabled channels, steps of its range
    connected,  \* r.devices
    refreshes,  \* Refresh requests so far
    plan,       \* devices that buildPlan has read, and its items so far
    live,       \* phase of the start, and the receivers that will capture, in order
    pieces      \* of the place of a receiver: its channels and its steps

planvars == <<profile, connected, refreshes, plan, live, pieces>>

Item(state, receiver) == [state |-> state, receiver |-> receiver]
Items == [state : {"assigned", "waiting", "conflict"}, receiver : Receivers \cup {Any}]
Used == {plan.items[k].receiver : k \in {j \in DOMAIN plan.items : plan.items[j].state = "assigned"}}

PlanTypeOK ==
    /\ profile.pins \in Seq(Receivers \cup {Any})
    /\ profile.channels \in 0..MaxChannels /\ profile.steps \in 0..MaxSteps
    /\ connected \subseteq Receivers /\ refreshes \in 0..MaxRefreshes
    /\ plan.devices \subseteq Receivers /\ plan.items \in Seq(Items)
    /\ Len(plan.items) <= Len(profile.pins)
    /\ live.phase \in {"idle", "planning", "running", "refused"} /\ live.receivers \in Seq(Receivers)
    /\ DOMAIN pieces = DOMAIN live.receivers

PlanInit ==
    /\ \E n \in 1..MaxAssignments, channels \in 0..MaxChannels, steps \in 0..MaxSteps :
       \E pins \in [1..n -> Receivers \cup {Any}] :
          profile = [pins |-> pins, channels |-> channels, steps |-> steps]
    /\ connected \in SUBSET Receivers
    /\ refreshes = 0
    /\ plan = [devices |-> {}, items |-> <<>>]
    /\ live = [phase |-> "idle", receivers |-> <<>>]
    /\ pieces = <<>>

RefreshDevices ==
    /\ refreshes < MaxRefreshes
    /\ refreshes' = refreshes + 1
    /\ connected' \in SUBSET Receivers
    /\ UNCHANGED <<profile, plan, live, pieces>>

BeginPlan ==
    /\ live.phase = "idle"
    /\ plan' = [plan EXCEPT !.devices = connected]
    /\ live' = [live EXCEPT !.phase = "planning"]
    /\ UNCHANGED <<profile, connected, refreshes, pieces>>

Pin == profile.pins[Len(plan.items) + 1]

(* Faulty variant: a pin is not compared with what was assigned. *)
PinnedItemUnchecked == IF Pin \notin plan.devices THEN Item("waiting", Pin) ELSE Item("assigned", Pin)

(* A pinned receiver that another assignment has already been given. *)
PinnedItem ==
    IF Pin \notin plan.devices THEN Item("waiting", Pin)
    ELSE IF Pin \in Used THEN Item("conflict", Pin) ELSE Item("assigned", Pin)

(* The first that is free in the order of discovery, which is any order. *)
AutomaticItems ==
    IF plan.devices \subseteq Used THEN {Item("waiting", Any)}
    ELSE {Item("assigned", r) : r \in plan.devices \ Used}

PlanNext ==
    /\ live.phase = "planning" /\ Len(plan.items) < Len(profile.pins)
    /\ \E item \in (IF Pin = Any THEN AutomaticItems ELSE {PinnedItem}) :
          plan' = [plan EXCEPT !.items = Append(@, item)]
    /\ UNCHANGED <<profile, connected, refreshes, live, pieces>>

Planned == live.phase = "planning" /\ Len(plan.items) = Len(profile.pins)
Conflict == \E k \in DOMAIN plan.items : plan.items[k].state = "conflict"

(* Items assigned to receivers that are still connected; in their order, they  *)
(* give the receivers that capture.  None of these is listed twice.          *)
Capturing == {k \in DOMAIN plan.items : plan.items[k].state = "assigned" /\ plan.items[k].receiver \in connected}
InOrder(items) ==
    {order \in [1..Cardinality(items) -> items] : \A j, k \in 1..Cardinality(items) : j < k => order[j] < order[k]}

Refuse ==
    /\ Planned /\ (Conflict \/ Capturing = {} \/ profile.channels + profile.steps = 0)
    /\ live' = [live EXCEPT !.phase = "refused"]
    /\ UNCHANGED <<profile, connected, refreshes, plan, pieces>>

(* Faulty variant: a share begins where the one before it ends. *)
ShareOverlapping(n, place, total) ==
    {k \in 1..n : ((place - 1) * n) \div total <= k /\ k <= (place * n) \div total}

(* Of n things the share of the place-th of total receivers. *)
Share(n, place, total) == {k \in 1..n : ((place - 1) * n) \div total < k /\ k <= (place * n) \div total}

(* partitionScanProfile for each of the receivers. *)
Launch ==
    /\ Planned /\ ~Conflict /\ Capturing # {} /\ profile.channels + profile.steps > 0
    /\ \E order \in InOrder(Capturing) :
          /\ live' = [phase |-> "running", receivers |-> [k \in DOMAIN order |-> plan.items[order[k]].receiver]]
          /\ pieces' = [k \in DOMAIN order |->
                [channels |-> Share(profile.channels, k, Cardinality(Capturing)),
                 steps |-> Share(profile.steps, k, Cardinality(Capturing))]]
    /\ UNCHANGED <<profile, connected, refreshes, plan>>

SurveyPlanNext == BeginPlan \/ PlanNext \/ Refuse \/ Launch \/ RefreshDevices

---------------------------------------------------------------------------
(* No receiver is given to two roles, and none captures twice. *)
OneRoleEach ==
    /\ \A j, k \in DOMAIN plan.items :
          plan.items[j].state = "assigned" /\ plan.items[j] = plan.items[k] => j = k
    /\ \A j, k \in DOMAIN live.receivers : live.receivers[j] = live.receivers[k] => j = k

(* An assignment that is not pinned waits only if every receiver is in use. *)
WaitsForNone ==
    \A k \in DOMAIN plan.items :
        plan.items[k] = Item("waiting", Any) =>
            plan.devices \subseteq {plan.items[j].receiver : j \in 1..(k - 1)}

(* The receivers that capture share the channels and the steps of the range:  *)
(* each is scanned by exactly one of them, also when a receiver that was     *)
(* assigned has gone.                                                       *)
ScannedOnce ==
    live.phase = "running" =>
        /\ \A c \in 1..profile.channels : \E k \in DOMAIN pieces : c \in pieces[k].channels
        /\ \A s \in 1..profile.steps : \E k \in DOMAIN pieces : s \in pieces[k].steps
        /\ \A j, k \in DOMAIN pieces : j # k =>
              /\ pieces[j].channels \cap pieces[k].channels = {}
              /\ pieces[j].steps \cap pieces[k].steps = {}
=============================================================================
