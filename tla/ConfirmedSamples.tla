---------------------------- MODULE ConfirmedSamples ----------------------------
(***************************************************************************)
(* The library of signals a user has confirmed (local_learning.go): one    *)
(* sample per event, the newest label of each, in a file that is replaced  *)
(* as a whole.                                                             *)
(***************************************************************************)
EXTENDS Naturals, Sequences, SequencesExt

CONSTANTS
    Signals,          \* events that are confirmed
    MaxConfirmations, \* bound: confirmations
    MaxLosses         \* bound: writes that fail, and restarts

ConfirmedSamplesAssumption == {MaxConfirmations, MaxLosses} \subseteq Nat

VARIABLES
    samples,       \* [event, id, label]; an ID is the number of the confirmation that made it
    sampleFile,    \* the file's samples
    confirmations, \* confirmations so far
    confirmed,     \* per event: the sample last acknowledged, or none
    losses         \* failed writes and restarts so far

samplevars == <<samples, sampleFile, confirmations, confirmed, losses>>

NoSample == [event |-> "none", id |-> 0, label |-> 0]
Positions(event) == {i \in DOMAIN samples : samples[i].event = event}

SamplesTypeOK ==
    /\ confirmations \in 0..MaxConfirmations /\ losses \in 0..MaxLosses
    /\ \A i \in DOMAIN samples : samples[i].id \in 1..samples[i].label /\ samples[i].label <= confirmations

SamplesInit ==
    /\ samples = <<>> /\ sampleFile = <<>> /\ confirmations = 0 /\ losses = 0
    /\ confirmed = [e \in Signals |-> NoSample]

\* Faulty variant: a new label makes a new sample.
Relabelled(event, label) ==
    Append(SelectSeq(samples, LAMBDA s : s.event # event), [event |-> event, id |-> label, label |-> label])
\* Faulty variant: a label is added to the ones before.
Labelled2(event, label) ==
    Append(samples, [event |-> event, label |-> label,
                     id |-> IF Positions(event) = {} THEN label ELSE samples[CHOOSE i \in Positions(event) : TRUE].id])

(* The sample of an event keeps its place and its ID. *)
Labelled(event, label) ==
    IF Positions(event) = {} THEN Append(samples, [event |-> event, id |-> label, label |-> label])
    ELSE [i \in DOMAIN samples |-> IF samples[i].event = event THEN [samples[i] EXCEPT !.label = label] ELSE samples[i]]

(* Confirm, under the library's lock: a write that fails is reported, and   *)
(* the sample stays in memory.                                              *)
Confirm(event) ==
    /\ confirmations < MaxConfirmations /\ confirmations' = confirmations + 1
    /\ samples' = Labelled(event, confirmations')
    /\ \/ /\ sampleFile' = samples'
          /\ confirmed' = [confirmed EXCEPT ![event] = samples'[CHOOSE i \in DOMAIN samples' : samples'[i].event = event]]
          /\ UNCHANGED losses
       \/ losses < MaxLosses /\ losses' = losses + 1 /\ UNCHANGED <<sampleFile, confirmed>>

RestartLibrary ==
    /\ losses < MaxLosses /\ losses' = losses + 1
    /\ samples' = sampleFile
    /\ UNCHANGED <<sampleFile, confirmations, confirmed>>

SamplesNext == RestartLibrary \/ \E e \in Signals : Confirm(e)

SamplesSpec == SamplesInit /\ [][SamplesNext]_samplevars

-----------------------------------------------------------------------------
(* Every acknowledged confirmation is in the library, under the ID that was *)
(* acknowledged first and with that label or a newer one, also after writes *)
(* that failed and restarts (Confirm, saveLocked).                          *)
ConfirmedKept ==
    \A e \in Signals : confirmed[e] # NoSample =>
        \E i \in DOMAIN samples :
            samples[i].event = e /\ samples[i].id = confirmed[e].id /\ samples[i].label >= confirmed[e].label

(* An event has one sample, in memory and in the file, so that the examples *)
(* given to the model are of different signals (Confirm, Similar).          *)
OneSamplePerEvent ==
    \A s \in {samples, sampleFile} : \A i, j \in DOMAIN s : s[i].event = s[j].event => i = j
=============================================================================
