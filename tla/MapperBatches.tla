---------------------------- MODULE MapperBatches ----------------------------
(* How a Mapper job listens to many frequencies with one receiver           *)
(* (live_survey.go): neighbouring targets are taken together as long as     *)
(* they, and the noise measured beside them, fit the passband of a capture. *)
(* Frequencies, bandwidths and rates are in units of 12.5 kHz, the narrowest *)
(* bandwidth; centers in hundredths of a unit.                              *)
EXTENDS Integers, Sequences, FiniteSets, SequencesExt, FiniteSetsExt

CONSTANTS
    Places, Widths,     \* frequencies and bandwidths of targets
    Automatic,          \* the rate the receiver is given by itself
    UserRates,          \* rates a job may ask for, 0 for none
    Limits              \* concurrent channels a job may ask for

BatchesAssumption ==
    /\ Places \subseteq Nat /\ IsFiniteSet(Places) /\ Widths \subseteq Nat \ {0}
    /\ Limits \subseteq Nat \ {0} /\ 1 \in Limits
    /\ Automatic \in Nat \ {0} /\ UserRates \subseteq Nat /\ 0 \in UserRates

VARIABLES job, left, batches    \* settings and targets; targets to go; captures of a pass

batchvars == <<job, left, batches>>

Targets == [at : Places, width : Widths]
Rate == IF job.rate = 0 THEN Automatic ELSE job.rate

Larger(a, b) == IF a < b THEN b ELSE a
Distance(a, b) == IF a < b THEN b - a ELSE a - b

(* Noise is sampled as far as two bandwidths from a target. *)
Lowest(group) == Min({t.at - 2 * t.width : t \in ToSet(group)})
Highest(group) == Max({t.at + 2 * t.width : t \in ToSet(group)})

(* Faulty variant: only the channels themselves have to fit. *)
FitsWithoutNoise(group) ==
    100 * (Max({t.at : t \in ToSet(group)}) - Min({t.at : t \in ToSet(group)})) <= 84 * Rate

(* mapperTargetsFitSampleWindow *)
Fits(group) == 100 * (Highest(group) - Lowest(group)) <= 84 * Rate

(* surveyTuningOffset: away from the spur at the center, an eighth of the     *)
(* span or beyond the noise window, yet with the channel in the passband --  *)
(* unless the channel is wider than that.                                    *)
Offset(t) ==
    LET wanted == Larger((25 * Rate) \div 2, Larger(400, 250 * t.width))
        most == 42 * Rate - 50 * t.width
    IN IF most > 0 /\ wanted > most THEN most ELSE wanted

(* mapperBatchCaptureSpec: of the centers that keep every window in the       *)
(* passband, one whose spur is farthest from the targets.                    *)
CentersOf(group) ==
    LET lower == 100 * Highest(group) - 42 * Rate
        upper == 100 * Lowest(group) + 42 * Rate
        middle == 50 * (Lowest(group) + Highest(group))
        Clamp(c) == Larger(lower, Min({upper, c}))
        guard(t) == Larger(400, 250 * t.width)
        candidates == {lower, upper, middle, Clamp(middle - 12 * Rate), Clamp(middle + 12 * Rate)}
            \cup UNION {{Clamp(100 * t.at - guard(t)), Clamp(100 * t.at + guard(t))} : t \in ToSet(group)}
        nearest(c) == Min({Distance(c, 100 * t.at) : t \in ToSet(group)})
    IN {c \in candidates : \A d \in candidates : nearest(d) <= nearest(c)}

Centers(group) == IF Len(group) = 1 THEN {100 * group[1].at + Offset(group[1])} ELSE CentersOf(group)

BatchesTypeOK ==
    /\ job \in [targets : Seq(Targets), rate : UserRates, limit : Limits]
    /\ left \in Seq(Targets)
    /\ \A i \in DOMAIN batches :
          batches[i].targets \in Seq(Targets) /\ Len(batches[i].targets) \in 1..job.limit

Ascending(place) == \A i, k \in DOMAIN place : i < k => place[i] < place[k]

(* The targets of a pass in order of frequency, each frequency once. *)
BatchesInit ==
    /\ \E chosen \in SUBSET Places, rate \in UserRates, limit \in Limits :
       \E width \in [chosen -> Widths], place \in [1..Cardinality(chosen) -> chosen] :
          /\ Ascending(place)
          /\ job = [targets |-> [i \in DOMAIN place |-> [at |-> place[i], width |-> width[place[i]]]],
                    rate |-> rate, limit |-> limit]
    /\ left = job.targets
    /\ batches = <<>>

(* The targets at the head that are taken: one, and more while they fit. *)
Taken ==
    Max({n \in 1..Len(left) :
        n = 1 \/ (n <= job.limit /\ \A m \in 2..n : Fits(SubSeq(left, 1, m)))})

TakeCapture(n, center) ==
    /\ batches' = Append(batches, [targets |-> SubSeq(left, 1, n), center |-> center])
    /\ left' = SubSeq(left, n + 1, Len(left))
    /\ UNCHANGED job

(* Faulty variant: the target that did not fit is passed over. *)
NextBatchSkips ==
    /\ left # <<>>
    /\ \E center \in Centers(SubSeq(left, 1, Taken)) :
          batches' = Append(batches, [targets |-> SubSeq(left, 1, Taken), center |-> center])
    /\ left' = SubSeq(left, Taken + 2, Len(left))
    /\ UNCHANGED job

NextBatch ==
    /\ left # <<>>
    /\ \E center \in Centers(SubSeq(left, 1, Taken)) : TakeCapture(Taken, center)

BatchesNext == NextBatch

(* A pass listens to each target exactly once, in order of frequency. *)
EachTargetOnce ==
    job.targets = FlattenSeq([i \in DOMAIN batches |-> batches[i].targets]) \o left

(* Whatever is taken together can be heard together: every target of a        *)
(* capture and the noise beside it are in its passband.  A target taken      *)
(* alone is in the passband itself, if it is not wider than the passband.    *)
CaptureCovers ==
    \A i \in DOMAIN batches : LET b == batches[i] IN
        IF Len(b.targets) > 1
        THEN \A t \in ToSet(b.targets) : Distance(b.center, 100 * t.at) + 200 * t.width <= 42 * Rate
        ELSE LET t == b.targets[1] IN
             100 * t.width < 84 * Rate => Distance(b.center, 100 * t.at) + 50 * t.width <= 42 * Rate
=============================================================================
