----------------------------- MODULE ServicesProofs -----------------------------
(***************************************************************************)
(* Theorems about the services (MCServices), for any number of users,      *)
(* requests, sheets, folders, packages and receivers, of any bounds: the   *)
(* type invariants, that profiles agree with what is saved, and that what  *)
(* the services report is true.                                            *)
(*                                                                         *)
(* Each part has an inductive invariant: XBegins, XStays and XMeans say    *)
(* that it holds at first, that the part's steps keep it, and what it      *)
(* means.  Range sync and local database change the same profiles; the one *)
(* that does not run is still, and the profiles have no sheet unless range *)
(* sync runs.                                                              *)
(***************************************************************************)
EXTENDS MCServices, Integers, Sequences, SequenceTheorems, FiniteSetTheorems, TLAPS

-----------------------------------------------------------------------------
(* The confirmed samples (ConfirmedSamples).                                *)

Sample == [event : Signals, id : Nat, label : Nat]

(* A library: one sample per event, made by the confirmation its ID tells   *)
(* and labelled by that one or a later one.                                 *)
Library(s) ==
    /\ s \in Seq(Sample)
    /\ \A i \in DOMAIN s : 1 <= s[i].id /\ s[i].id <= s[i].label /\ s[i].label <= confirmations
    /\ \A i, j \in DOMAIN s : s[i].event = s[j].event => i = j

(* What was acknowledged is in it. *)
HoldsConfirmed(s) ==
    \A e \in Signals : confirmed[e] # C!NoSample =>
        \E i \in DOMAIN s : s[i].event = e /\ s[i].id = confirmed[e].id /\ s[i].label >= confirmed[e].label

SamplesInv ==
    /\ confirmations \in 0..MaxConfirmations /\ losses \in 0..MaxLosses
    /\ DOMAIN confirmed = Signals /\ confirmed = [e \in Signals |-> confirmed[e]]
    /\ \A e \in Signals : confirmed[e].label <= confirmations /\ confirmed[e].label \in Nat
    /\ Library(samples) /\ Library(sampleFile)
    /\ HoldsConfirmed(samples) /\ HoldsConfirmed(sampleFile)

LEMMA SampleBounds == MaxConfirmations \in Nat /\ MaxLosses \in Nat
BY ServicesAssumption DEF C!ConfirmedSamplesAssumption

LEMMA SampleFields == ASSUME NEW s \in Seq(Sample), NEW i \in DOMAIN s PROVE s[i].id \in Nat /\ s[i].label \in Nat
<1>1. s[i] \in Sample
  BY ElementOfSeq
<1> QED BY <1>1 DEF Sample

LEMMA SamplesBegin == C!SamplesInit => SamplesInv
<1> SUFFICES ASSUME C!SamplesInit PROVE SamplesInv
  OBVIOUS
<1>1. samples = <<>> /\ sampleFile = <<>> /\ confirmations = 0 /\ losses = 0
      /\ confirmed = [e \in Signals |-> C!NoSample]
  BY DEF C!SamplesInit
<1>2. <<>> \in Seq(Sample) /\ DOMAIN <<>> = {}
  OBVIOUS
<1>3. Library(<<>>)
  BY <1>2 DEF Library
<1> QED BY <1>1, <1>2, <1>3, SampleBounds DEF SamplesInv, HoldsConfirmed, C!NoSample

(* Labelling an event: the library has its sample, and those that were      *)
(* there with newer labels at most.                                         *)
LEMMA Labels ==
    ASSUME SamplesInv, NEW e \in Signals,
           confirmations < MaxConfirmations, confirmations' = confirmations + 1,
           NEW new, new = C!Labelled(e, confirmations')
    PROVE  /\ new \in Seq(Sample)
           /\ \A i \in DOMAIN new : 1 <= new[i].id /\ new[i].id <= new[i].label /\ new[i].label <= confirmations'
           /\ \A i, j \in DOMAIN new : new[i].event = new[j].event => i = j
           /\ \E i \in DOMAIN new : new[i].event = e /\ new[i].label = confirmations'
           /\ \A i \in DOMAIN samples : i \in DOMAIN new /\ new[i].event = samples[i].event
                                        /\ new[i].id = samples[i].id /\ new[i].label >= samples[i].label
<1> DEFINE label == confirmations'
<1>1. label \in Nat /\ 1 <= label /\ confirmations \in Nat
  BY SampleBounds DEF SamplesInv
<1>2. /\ samples \in Seq(Sample)
      /\ \A i \in DOMAIN samples : /\ 1 <= samples[i].id /\ samples[i].id <= samples[i].label
                                   /\ samples[i].label <= confirmations
      /\ \A i, j \in DOMAIN samples : samples[i].event = samples[j].event => i = j
  BY DEF SamplesInv, Library
<1>3. \A i \in DOMAIN samples : samples[i] \in Sample
  BY <1>2, ElementOfSeq
<1>4. DOMAIN samples = 1..Len(samples) /\ Len(samples) \in Nat
  BY <1>2
<1>5. CASE C!Positions(e) = {}
  <2> DEFINE s == [event |-> e, id |-> label, label |-> label]
  <2>1. new = Append(samples, s) /\ s \in Sample
    BY <1>1, <1>5 DEF C!Labelled, Sample
  <2>2. /\ new \in Seq(Sample) /\ DOMAIN new = 1..(Len(samples) + 1)
        /\ \A i \in 1..Len(samples) : new[i] = samples[i]
        /\ new[Len(samples) + 1] = s
    BY <1>2, <1>4, <2>1, AppendProperties
  <2>3. \A i \in DOMAIN samples : samples[i].event # e
    BY <1>5 DEF C!Positions
  <2>4. \A i \in DOMAIN new : new[i] = s \/ (i \in DOMAIN samples /\ new[i] = samples[i])
    BY <1>4, <2>2
  <2>5. \A i \in DOMAIN new : i = Len(samples) + 1 \/ (i \in DOMAIN samples /\ new[i] = samples[i])
    BY <1>4, <2>2
  <2>6. \A i \in DOMAIN new : 1 <= new[i].id /\ new[i].id <= new[i].label /\ new[i].label <= confirmations'
    <3> TAKE i \in DOMAIN new
    <3>1. CASE new[i] = s
      BY <1>1, <3>1
    <3>2. CASE i \in DOMAIN samples /\ new[i] = samples[i]
      BY <1>1, <1>2, <1>3, <3>2 DEF Sample
    <3> QED BY <2>4, <3>1, <3>2
  <2>7. \A i, j \in DOMAIN new : new[i].event = new[j].event => i = j
    BY <1>2, <2>2, <2>3, <2>5
  <2>8. Len(samples) + 1 \in DOMAIN new
    BY <1>4, <2>2
  <2>9. \A i \in DOMAIN samples : i \in DOMAIN new /\ new[i] = samples[i] /\ samples[i].label \in Nat
    BY <1>3, <1>4, <2>2 DEF Sample
  <2> QED BY <2>2, <2>6, <2>7, <2>8, <2>9
<1>6. CASE C!Positions(e) # {}
  <2>1. new = [i \in DOMAIN samples |-> IF samples[i].event = e THEN [samples[i] EXCEPT !.label = label] ELSE samples[i]]
    BY <1>6 DEF C!Labelled
  <2>2. DOMAIN new = DOMAIN samples
    BY <2>1
  <2>3. \A i \in DOMAIN samples :
          /\ new[i] \in Sample /\ new[i].event = samples[i].event /\ new[i].id = samples[i].id
          /\ new[i].label = IF samples[i].event = e THEN label ELSE samples[i].label
    BY <1>1, <1>3, <2>1 DEF Sample
  <2>4. new \in Seq(Sample)
    BY <1>4, <2>1, <2>2, <2>3
  <2>5. \A i \in DOMAIN samples : samples[i].id \in Nat /\ samples[i].label \in Nat
    BY <1>3 DEF Sample
  <2>6. \A i \in DOMAIN new : 1 <= new[i].id /\ new[i].id <= new[i].label /\ new[i].label <= confirmations'
                              /\ new[i].label >= samples[i].label
    BY <1>1, <1>2, <2>2, <2>3, <2>5
  <2>7. \E i \in DOMAIN new : new[i].event = e /\ new[i].label = confirmations'
    BY <1>6, <2>2, <2>3 DEF C!Positions
  <2> QED BY <1>2, <2>2, <2>3, <2>4, <2>6, <2>7
<1> QED BY <1>5, <1>6

LEMMA ConfirmKeeps == ASSUME SamplesInv, NEW e \in Signals, C!Confirm(e) PROVE SamplesInv'
<1>1. /\ confirmations < MaxConfirmations /\ confirmations' = confirmations + 1
      /\ samples' = C!Labelled(e, confirmations')
  BY DEF C!Confirm
<1>2. /\ samples' \in Seq(Sample)
      /\ \A i \in DOMAIN samples' :
           1 <= samples'[i].id /\ samples'[i].id <= samples'[i].label /\ samples'[i].label <= confirmations'
      /\ \A i, j \in DOMAIN samples' : samples'[i].event = samples'[j].event => i = j
      /\ \E i \in DOMAIN samples' : samples'[i].event = e /\ samples'[i].label = confirmations'
      /\ \A i \in DOMAIN samples : /\ i \in DOMAIN samples' /\ samples'[i].event = samples[i].event
                                   /\ samples'[i].id = samples[i].id /\ samples'[i].label >= samples[i].label
  BY <1>1, Labels
<1>3. Library(samples)'
  BY <1>2 DEF Library
<1>4. ASSUME NEW s \in Seq(Sample), NEW i \in DOMAIN s PROVE s[i].id \in Nat /\ s[i].label \in Nat
  BY SampleFields
<1>5. confirmations \in Nat /\ confirmations' \in 0..MaxConfirmations
  BY <1>1, SampleBounds DEF SamplesInv
<1>6. ASSUME NEW d \in Signals, confirmed[d] # C!NoSample
      PROVE  \E i \in DOMAIN samples' :
                samples'[i].event = d /\ samples'[i].id = confirmed[d].id /\ samples'[i].label >= confirmed[d].label
  <2>1. PICK i \in DOMAIN samples :
             samples[i].event = d /\ samples[i].id = confirmed[d].id /\ samples[i].label >= confirmed[d].label
    BY <1>6 DEF SamplesInv, HoldsConfirmed
  <2>2. samples[i].label \in Nat /\ samples'[i].label \in Nat /\ confirmed[d].label \in Nat
    BY <1>2, <1>4, <2>1 DEF SamplesInv, Library
  <2> QED BY <1>2, <2>1, <2>2
<1>7. CASE losses < MaxLosses /\ losses' = losses + 1 /\ UNCHANGED <<sampleFile, confirmed>>
  <2>1. Library(sampleFile)'
    <3>1. \A i \in DOMAIN sampleFile : sampleFile[i].label <= confirmations /\ sampleFile[i].label \in Nat
      BY <1>4 DEF SamplesInv, Library
    <3>2. \A i \in DOMAIN sampleFile : sampleFile[i].label <= confirmations'
      BY <1>1, <1>5, <3>1
    <3> QED BY <1>7, <3>2 DEF SamplesInv, Library
  <2>2. HoldsConfirmed(samples)' /\ HoldsConfirmed(sampleFile)'
    BY <1>6, <1>7 DEF SamplesInv, HoldsConfirmed
  <2>4. losses' \in 0..MaxLosses
    BY <1>7, SampleBounds DEF SamplesInv
  <2>5. \A d \in Signals : confirmed[d].label <= confirmations'
    BY <1>1, <1>5 DEF SamplesInv
  <2> QED BY <1>3, <1>5, <1>7, <2>1, <2>2, <2>4, <2>5 DEF SamplesInv
<1>8. CASE /\ sampleFile' = samples'
           /\ confirmed' = [confirmed EXCEPT ![e] = samples'[CHOOSE i \in DOMAIN samples' : samples'[i].event = e]]
           /\ UNCHANGED losses
  <2> DEFINE k == CHOOSE i \in DOMAIN samples' : samples'[i].event = e
  <2>1. k \in DOMAIN samples' /\ samples'[k].event = e
    BY <1>2
  <2>2. samples'[k].label \in Nat /\ samples'[k].id \in Nat /\ samples'[k].label <= confirmations'
    BY <1>2, <1>4, <2>1
  <2> HIDE DEF k
  <2>3. confirmed' = [confirmed EXCEPT ![e] = samples'[k]]
    BY <1>8 DEF k
  <2>4. /\ DOMAIN confirmed' = Signals /\ confirmed' = [d \in Signals |-> confirmed'[d]]
        /\ \A d \in Signals : confirmed'[d] = IF d = e THEN samples'[k] ELSE confirmed[d]
    BY <2>3 DEF SamplesInv
  <2>5. HoldsConfirmed(samples)'
    <3> SUFFICES ASSUME NEW d \in Signals, confirmed'[d] # C!NoSample'
                 PROVE  \E i \in DOMAIN samples' : /\ samples'[i].event = d /\ samples'[i].id = confirmed'[d].id
                                                   /\ samples'[i].label >= confirmed'[d].label
      BY DEF HoldsConfirmed
    <3>1. CASE d = e
      BY <2>1, <2>2, <2>4, <3>1
    <3>2. CASE d # e
      BY <1>6, <2>4, <3>2 DEF C!NoSample
    <3> QED BY <3>1, <3>2
  <2>6. \A d \in Signals : confirmed'[d].label <= confirmations' /\ confirmed'[d].label \in Nat
    BY <1>1, <1>5, <2>2, <2>4 DEF SamplesInv
  <2>7. Library(sampleFile)' /\ HoldsConfirmed(sampleFile)'
    BY <1>3, <1>8, <2>5 DEF Library, HoldsConfirmed
  <2> QED BY <1>3, <1>5, <1>8, <2>4, <2>5, <2>6, <2>7 DEF SamplesInv
<1> QED BY <1>7, <1>8 DEF C!Confirm

LEMMA SamplesStay == ASSUME SamplesInv, [C!SamplesNext]_cvars PROVE SamplesInv'
<1>1. CASE UNCHANGED cvars
  BY <1>1 DEF cvars, SamplesInv, Library, HoldsConfirmed
<1>2. CASE C!RestartLibrary
  <2>1. /\ losses < MaxLosses /\ losses' = losses + 1 /\ samples' = sampleFile
        /\ UNCHANGED <<sampleFile, confirmations, confirmed>>
    BY <1>2 DEF C!RestartLibrary
  <2>2. losses' \in 0..MaxLosses
    BY <2>1, SampleBounds DEF SamplesInv
  <2> QED BY <2>1, <2>2 DEF SamplesInv, Library, HoldsConfirmed
<1> QED BY <1>1, <1>2, ConfirmKeeps DEF C!SamplesNext

LEMMA SamplesMean == ASSUME SamplesInv PROVE C!ConfirmedKept /\ C!OneSamplePerEvent /\ C!SamplesTypeOK
<1>1. C!ConfirmedKept /\ C!OneSamplePerEvent
  BY DEF SamplesInv, Library, HoldsConfirmed, C!ConfirmedKept, C!OneSamplePerEvent
<1>2. \A i \in DOMAIN samples : /\ samples[i].id \in 1..samples[i].label /\ samples[i].label <= confirmations
  BY SampleFields DEF SamplesInv, Library
<1> QED BY <1>1, <1>2 DEF SamplesInv, C!SamplesTypeOK

-----------------------------------------------------------------------------
(* The remote receivers (RemoteReceivers).                                  *)

Refresh == [pc : {"idle", "look", "discover", "install"}, list : SUBSET Remotes, alone : BOOLEAN]

RemoteTypes ==
    /\ remotes \in SUBSET Remotes /\ devices \in SUBSET Remotes
    /\ remoteFile \in [list : SUBSET Remotes, torn : BOOLEAN]
    /\ refreshes \in [Editors -> Refresh]
    /\ outdated \in BOOLEAN /\ started \in BOOLEAN
    /\ ~started => remoteFile.torn

(* While the list is not outdated a refresh in progress has no company and   *)
(* installs the saved receivers; with none in progress they are listed.      *)
Company ==
    /\ \A e, o \in Editors :
         refreshes[e].pc # "idle" /\ refreshes[o].pc # "idle" /\ (refreshes[e].alone \/ ~outdated) => e = o
    /\ ~outdated => \A e \in Editors : refreshes[e].pc = "install" => refreshes[e].list = remotes
    /\ ~outdated /\ (\A e \in Editors : refreshes[e].pc = "idle") => devices = remotes

RemotesInv == RemoteTypes /\ Company

LEMMA RemotesBegin == N!RemotesInit => RemotesInv
<1> SUFFICES ASSUME N!RemotesInit PROVE RemotesInv
  OBVIOUS
<1>1. N!Resting \in Refresh /\ N!Resting.pc = "idle"
  BY DEF N!Resting, Refresh
<1>2. /\ remotes = {} /\ remoteFile = [list |-> {}, torn |-> FALSE] /\ devices = {}
      /\ refreshes = [e \in Editors |-> N!Resting] /\ outdated = FALSE /\ started = TRUE
  BY DEF N!RemotesInit
<1> QED BY <1>1, <1>2 DEF RemotesInv, RemoteTypes, Company

(* One refresh goes on: those in progress are no longer alone. *)
LEMMA Entered ==
    ASSUME RemoteTypes, NEW e \in Editors, NEW next \in Refresh, N!Enters(e, next)
    PROVE  /\ refreshes' \in [Editors -> Refresh]
           /\ refreshes'[e].pc = next.pc /\ refreshes'[e].list = next.list
           /\ refreshes'[e].alone <=> N!Refreshing \ {e} = {}
           /\ \A o \in Editors \ {e} :
                /\ refreshes'[o].pc = refreshes[o].pc /\ refreshes'[o].list = refreshes[o].list
                /\ refreshes[o].pc # "idle" => ~refreshes'[o].alone
<1> DEFINE only == N!Refreshing \ {e} = {}
           mine == [next EXCEPT !.alone = only]
<1>1. only \in BOOLEAN
  OBVIOUS
<1> HIDE DEF only
<1>2. mine \in Refresh /\ mine.pc = next.pc /\ mine.list = next.list /\ (mine.alone <=> only)
  BY <1>1 DEF Refresh
<1>3. \A o \in Editors : [refreshes[o] EXCEPT !.alone = FALSE] \in Refresh
  BY DEF RemoteTypes, Refresh
<1>4. refreshes' = [o \in Editors |-> CASE o = e -> mine
          [] o \in N!Refreshing \ {e} -> [refreshes[o] EXCEPT !.alone = FALSE]
          [] OTHER -> refreshes[o]]
  BY DEF N!Enters, only
<1> HIDE DEF mine
<1>5. refreshes'[e] = mine
  BY <1>4
<1>6. ASSUME NEW o \in Editors \ {e}
      PROVE  refreshes'[o] = IF refreshes[o].pc # "idle" THEN [refreshes[o] EXCEPT !.alone = FALSE] ELSE refreshes[o]
  BY <1>4, <1>6 DEF N!Refreshing
<1>7. \A o \in Editors : refreshes'[o] \in Refresh
  BY <1>2, <1>3, <1>5, <1>6 DEF RemoteTypes
<1>8. refreshes' \in [Editors -> Refresh]
  BY <1>4, <1>7
<1>9. ASSUME NEW o \in Editors \ {e}
      PROVE  /\ refreshes'[o].pc = refreshes[o].pc /\ refreshes'[o].list = refreshes[o].list
             /\ refreshes[o].pc # "idle" => ~refreshes'[o].alone
  <2>1. refreshes[o] \in Refresh
    BY DEF RemoteTypes
  <2> QED BY <1>6, <2>1 DEF Refresh
<1> QED BY <1>2, <1>5, <1>8, <1>9 DEF only

(* Whoever goes on, or begins, with a list that is outdated if it has       *)
(* company.                                                                 *)
LEMMA EntersKeeps ==
    ASSUME RemotesInv, NEW e \in Editors, NEW next \in Refresh, N!Enters(e, next),
           next.pc # "idle", outdated' \in BOOLEAN,
           N!Refreshing \ {e} # {} => outdated',
           ~outdated' => ~outdated,
           ~outdated' /\ next.pc = "install" => next.list = remotes',
           RemoteTypes' \/ UNCHANGED <<remotes, devices, remoteFile, started>>
    PROVE  RemotesInv'
<1>1. /\ refreshes' \in [Editors -> Refresh]
      /\ refreshes'[e].pc = next.pc /\ refreshes'[e].list = next.list
      /\ refreshes'[e].alone <=> N!Refreshing \ {e} = {}
      /\ \A o \in Editors \ {e} :
           /\ refreshes'[o].pc = refreshes[o].pc /\ refreshes'[o].list = refreshes[o].list
           /\ refreshes[o].pc # "idle" => ~refreshes'[o].alone
  BY Entered DEF RemotesInv
<1>2. RemoteTypes'
  BY <1>1 DEF RemotesInv, RemoteTypes
<1>3. ~outdated' \/ refreshes'[e].alone => \A o \in Editors \ {e} : refreshes[o].pc = "idle"
  BY <1>1 DEF N!Refreshing
<1>4. Company'
  <2>1. ASSUME NEW a \in Editors, NEW b \in Editors, refreshes'[a].pc # "idle", refreshes'[b].pc # "idle",
               refreshes'[a].alone \/ ~outdated', a # b
        PROVE  FALSE
    <3>1. CASE a = e
      BY <1>1, <1>3, <2>1, <3>1
    <3>2. CASE a # e /\ ~outdated'
      BY <1>1, <1>3, <2>1, <3>2
    <3>3. CASE a # e /\ refreshes'[a].alone
      BY <1>1, <2>1, <3>3
    <3> QED BY <2>1, <3>1, <3>2, <3>3
  <2>2. ASSUME ~outdated', NEW o \in Editors, refreshes'[o].pc = "install" PROVE refreshes'[o].list = remotes'
    BY <1>1, <1>3, <2>2
  <2>3. refreshes'[e].pc # "idle"
    BY <1>1
  <2> QED BY <2>1, <2>2, <2>3 DEF Company
<1> QED BY <1>2, <1>4 DEF RemotesInv

LEMMA ChangeKeeps ==
    ASSUME RemotesInv, NEW e \in Editors, NEW list \in SUBSET Remotes, N!ChangeRemotes(e, list)
    PROVE  RemotesInv'
<1>1. /\ started /\ refreshes[e].pc = "idle" /\ remotes' = list /\ UNCHANGED <<devices, receiving, started>>
  BY DEF N!ChangeRemotes
<1>2. CASE /\ remoteFile' = [list |-> list, torn |-> FALSE]
           /\ N!Enters(e, [N!Resting EXCEPT !.pc = "look"])
           /\ outdated' = (outdated \/ N!Refreshing # {})
  <2> DEFINE next == [N!Resting EXCEPT !.pc = "look"]
  <2>1. next \in Refresh /\ next.pc = "look"
    BY DEF Refresh, N!Resting
  <2>2. /\ refreshes' \in [Editors -> Refresh] /\ remoteFile' \in [list : SUBSET Remotes, torn : BOOLEAN]
        /\ outdated' \in BOOLEAN
    BY <1>2, <2>1, Entered DEF RemotesInv
  <2>3. RemoteTypes'
    BY <1>1, <2>2 DEF RemotesInv, RemoteTypes
  <2>4. (N!Refreshing \ {e} # {} => outdated') /\ (~outdated' => ~outdated)
    BY <1>2
  <2> QED BY <1>2, <2>1, <2>2, <2>3, <2>4, EntersKeeps
<1>3. CASE outdated' = TRUE /\ UNCHANGED <<remoteFile, refreshes>>
  <2>1. RemoteTypes'
    BY <1>1, <1>3 DEF RemotesInv, RemoteTypes
  <2>2. Company'
    BY <1>1, <1>3 DEF RemotesInv, Company
  <2> QED BY <2>1, <2>2 DEF RemotesInv
<1> QED BY <1>2, <1>3 DEF N!ChangeRemotes

LEMMA LookKeeps == ASSUME RemotesInv, NEW e \in Editors, N!Look(e) PROVE RemotesInv'
<1> DEFINE next == [refreshes[e] EXCEPT !.pc = IF receiving THEN "install" ELSE "discover",
                                        !.list = IF receiving THEN devices ELSE {}]
<1>1. /\ N!Enters(e, next)
      /\ outdated' = (outdated \/ N!Refreshing # {e} \/ (receiving /\ devices # remotes))
      /\ UNCHANGED <<remotes, remoteFile, devices, started>>
  BY DEF N!Look
<1>2. /\ next \in Refresh /\ next.pc = (IF receiving THEN "install" ELSE "discover")
      /\ next.list = (IF receiving THEN devices ELSE {})
  BY DEF RemotesInv, RemoteTypes, Refresh
<1> HIDE DEF next
<1>3. /\ N!Refreshing \ {e} # {} => outdated'
      /\ ~outdated' => ~outdated
      /\ outdated' \in BOOLEAN
      /\ ~outdated' /\ next.pc = "install" => next.list = remotes'
  BY <1>1, <1>2
<1> QED BY <1>1, <1>2, <1>3, EntersKeeps

LEMMA DiscoverKeeps == ASSUME RemotesInv, NEW e \in Editors, N!Discover(e) PROVE RemotesInv'
<1> DEFINE next == [refreshes[e] EXCEPT !.pc = "install", !.list = remotes]
<1>1. /\ N!Enters(e, next) /\ outdated' = (outdated \/ N!Refreshing # {e})
      /\ UNCHANGED <<remotes, remoteFile, devices, started>>
  BY DEF N!Discover
<1>2. next \in Refresh /\ next.pc = "install" /\ next.list = remotes
  BY DEF RemotesInv, RemoteTypes, Refresh
<1> HIDE DEF next
<1>3. /\ N!Refreshing \ {e} # {} => outdated'
      /\ ~outdated' => ~outdated
      /\ outdated' \in BOOLEAN
      /\ next.list = remotes'
  BY <1>1, <1>2
<1> QED BY <1>1, <1>2, <1>3, EntersKeeps

LEMMA AskRefreshKeeps == ASSUME RemotesInv, NEW e \in Editors, N!AskRefresh(e) PROVE RemotesInv'
<1> DEFINE next == [N!Resting EXCEPT !.pc = "look"]
<1>1. /\ N!Enters(e, next) /\ outdated' = (outdated \/ N!Refreshing # {})
      /\ UNCHANGED <<remotes, remoteFile, devices, started>>
  BY DEF N!AskRefresh
<1>2. next \in Refresh /\ next.pc = "look"
  BY DEF Refresh, N!Resting
<1> HIDE DEF next
<1>3. (N!Refreshing \ {e} # {} => outdated') /\ (~outdated' => ~outdated) /\ outdated' \in BOOLEAN
  BY <1>1
<1> QED BY <1>1, <1>2, <1>3, EntersKeeps

LEMMA InstallKeeps == ASSUME RemotesInv, NEW e \in Editors, N!InstallDevices(e) PROVE RemotesInv'
<1>1. /\ refreshes[e].pc = "install" /\ devices' = refreshes[e].list
      /\ outdated' = (outdated /\ ~(refreshes[e].alone /\ refreshes[e].list = remotes))
      /\ refreshes' = [refreshes EXCEPT ![e] = N!Resting]
      /\ UNCHANGED <<remotes, remoteFile, started>>
  BY DEF N!InstallDevices
<1>2. N!Resting \in Refresh /\ N!Resting.pc = "idle"
  BY DEF N!Resting, Refresh
<1>3. RemoteTypes'
  <2>1. refreshes' \in [Editors -> Refresh] /\ devices' \in SUBSET Remotes
    BY <1>1, <1>2 DEF RemotesInv, RemoteTypes, Refresh
  <2> QED BY <1>1, <2>1 DEF RemotesInv, RemoteTypes
<1>4. /\ refreshes'[e].pc = "idle" /\ \A o \in Editors \ {e} : refreshes'[o] = refreshes[o]
  BY <1>1, <1>2 DEF RemotesInv, RemoteTypes
<1>5. ASSUME ~outdated' PROVE devices' = remotes' /\ \A o \in Editors : refreshes'[o].pc = "idle"
  <2>1. refreshes[e].alone \/ ~outdated
    BY <1>1, <1>5
  <2>2. \A o \in Editors : refreshes[o].pc # "idle" => o = e
    BY <1>1, <2>1 DEF RemotesInv, Company
  <2>3. refreshes[e].list = remotes
    BY <1>1, <1>5 DEF RemotesInv, Company
  <2> QED BY <1>1, <1>4, <2>2, <2>3
<1>6. Company'
  <2>1. ASSUME NEW a \in Editors, NEW b \in Editors, refreshes'[a].pc # "idle", refreshes'[b].pc # "idle",
               refreshes'[a].alone \/ ~outdated'
        PROVE  a = b
    BY <1>4, <1>5, <2>1 DEF RemotesInv, Company
  <2> QED BY <1>5, <2>1 DEF Company
<1> QED BY <1>3, <1>6 DEF RemotesInv

LEMMA RemotesStay == ASSUME RemotesInv, [N!RemotesNext]_nvars PROVE RemotesInv'
<1>1. CASE UNCHANGED nvars
  BY <1>1 DEF nvars, RemotesInv, RemoteTypes, Company
<1>2. ASSUME NEW e \in Editors, NEW r \in Remotes, N!SaveRemote(e, r) \/ N!DeleteRemote(e, r) PROVE RemotesInv'
  <2>1. (remotes \cup {r}) \in SUBSET Remotes /\ (remotes \ {r}) \in SUBSET Remotes
    BY DEF RemotesInv, RemoteTypes
  <2> QED BY <1>2, <2>1, ChangeKeeps DEF N!SaveRemote, N!DeleteRemote
<1>3. CASE N!Session
  BY <1>3 DEF N!Session, RemotesInv, RemoteTypes, Company
<1>4. CASE N!KillRemotes
  <2>1. PICK torn \in BOOLEAN : remoteFile' = [remoteFile EXCEPT !.torn = torn] /\ started' = ~torn
    BY <1>4 DEF N!KillRemotes
  <2>2. /\ remotes' = remoteFile.list /\ devices' = remoteFile.list
        /\ refreshes' = [e \in Editors |-> N!Resting] /\ outdated' = FALSE
    BY <1>4 DEF N!KillRemotes
  <2>3. /\ N!Resting \in Refresh /\ N!Resting.pc = "idle"
    BY DEF N!Resting, Refresh
  <2>4. /\ remoteFile' \in [list : SUBSET Remotes, torn : BOOLEAN] /\ remoteFile.list \in SUBSET Remotes
        /\ ~started' => remoteFile'.torn
    BY <2>1 DEF RemotesInv, RemoteTypes
  <2>5. RemoteTypes'
    BY <2>1, <2>2, <2>3, <2>4 DEF RemoteTypes
  <2>6. Company'
    BY <2>2, <2>3 DEF Company
  <2> QED BY <2>5, <2>6 DEF RemotesInv
<1> QED BY <1>1, <1>2, <1>3, <1>4, LookKeeps, DiscoverKeeps, InstallKeeps, AskRefreshKeeps DEF N!RemotesNext

LEMMA RemotesMean == ASSUME RemotesInv PROVE N!RemotesListed /\ N!RemotesTypeOK
<1>1. N!RemotesListed
  BY DEF RemotesInv, Company, N!RemotesListed, N!Refreshing
<1>2. N!RemotesTypeOK
  BY DEF RemotesInv, RemoteTypes, N!RemotesTypeOK
<1> QED BY <1>1, <1>2

-----------------------------------------------------------------------------
(* The installer (Installer).                                               *)

Working == {"tool", "model", "copy", "verify"}
JobOf == [component : I!Components, pc : Working \cup {"refresh", "over"}, state : {"installing", "ready", "error"}]

(* A job installs until it is ready or failed, and one at a time does; the  *)
(* speech model is the pinned one whenever there is one, and what is ready  *)
(* is there, and found once its refresh is over.                            *)
JobKept(j) ==
    /\ jobs[j] \in JobOf
    /\ jobs[j].pc \in Working <=> jobs[j].state = "installing"
    /\ jobs[j].pc = "refresh" => jobs[j].state = "ready"
    /\ jobs[j].pc \in {"model", "copy", "verify"} => jobs[j].component = Speech /\ Speech \in present
    /\ jobs[j].state = "ready" =>
         /\ I!Ready(jobs[j].component)
         /\ jobs[j].pc = "over" => jobs[j].component \in found

InstallInv ==
    /\ present \subseteq Packages /\ found \subseteq I!Components
    /\ codecFile \in {"none", "part", "whole"} /\ model \in {"none", "right"}
    /\ \A r \in Requests : checked[r] \in I!Components \cup {I!Nothing}
    /\ DOMAIN checked = Requests /\ checked = [r \in Requests |-> checked[r]]
    /\ \E n \in 0..MaxJobs : DOMAIN jobs = 1..n
    /\ jobs = [j \in DOMAIN jobs |-> jobs[j]]
    /\ \A j \in DOMAIN jobs : JobKept(j)
    /\ \A i, j \in DOMAIN jobs : jobs[i].state = "installing" /\ jobs[j].state = "installing" => i = j

LEMMA InstallBounds == MaxJobs \in Nat /\ Speech \in Packages /\ Codec \notin Packages
BY ServicesAssumption DEF I!InstallerAssumption

LEMMA InstallBegins == I!InstallerInit => InstallInv
<1> SUFFICES ASSUME I!InstallerInit PROVE InstallInv
  OBVIOUS
<1>1. /\ present \in SUBSET Packages /\ model = "none" /\ codecFile = "none" /\ jobs = [j \in {} |-> I!Nothing]
      /\ checked = [r \in Requests |-> I!Nothing] /\ found \subseteq I!Components
  BY DEF I!InstallerInit, I!None
<1>2. DOMAIN jobs = {} /\ DOMAIN jobs = 1..0 /\ 0 \in 0..MaxJobs
  BY <1>1, InstallBounds
<1> QED BY <1>1, <1>2 DEF InstallInv

LEMMA Counted ==
    ASSUME InstallInv
    PROVE  /\ Cardinality(DOMAIN jobs) \in Nat /\ I!Cardinality(DOMAIN jobs) = Cardinality(DOMAIN jobs)
           /\ DOMAIN jobs = 1..Cardinality(DOMAIN jobs) /\ Cardinality(DOMAIN jobs) <= MaxJobs
<1>1. PICK n \in 0..MaxJobs : DOMAIN jobs = 1..n
  BY DEF InstallInv
<1>2. Cardinality(1..n) = n
  BY <1>1, InstallBounds, FS_Interval
<1>3. I!Cardinality(DOMAIN jobs) = Cardinality(DOMAIN jobs)
  BY DEF I!Cardinality, Cardinality
<1> QED BY <1>1, <1>2, <1>3, InstallBounds

(* A component that is ready stays so: packages, the model and the codec    *)
(* are never removed.                                                       *)
LEMMA StaysReady ==
    ASSUME InstallInv, NEW c \in I!Components, I!Ready(c), present \subseteq present',
           codecFile # "none" => codecFile' # "none", model # "none" => model' # "none"
    PROVE  I!Ready(c)'
BY DEF I!Ready, I!None

(* One job goes on; the others keep what they have.                         *)
LEMMA OneJobMoves ==
    ASSUME InstallInv, NEW j \in DOMAIN jobs, NEW c, c = jobs[j].component, NEW pc \in Working \cup {"refresh", "over"},
           NEW state \in {"installing", "ready", "error"}, I!Job(j, pc, state),
           present' \subseteq Packages, present \subseteq present', found' \subseteq I!Components, found' = found \/ pc = "over",
           codecFile' \in {"none", "part", "whole"}, codecFile # "none" => codecFile' # "none",
           model' \in {"none", "right"}, model # "none" => model' # "none",
           checked' = checked,
           pc \in Working <=> state = "installing",
           pc = "refresh" => state = "ready",
           state = "installing" => jobs[j].state = "installing",
           pc \in {"model", "copy", "verify"} => c = Speech /\ Speech \in present',
           state = "ready" => I!Ready(c)' /\ (pc = "over" => c \in found'),
           \A d \in found : I!Ready(d)' => d \in found'
    PROVE  InstallInv'
<1>1. /\ DOMAIN jobs' = DOMAIN jobs
      /\ \A i \in DOMAIN jobs : i # j => jobs'[i] = jobs[i]
      /\ jobs' = [i \in DOMAIN jobs |-> jobs'[i]]
      /\ jobs'[j] = [jobs[j] EXCEPT !.pc = pc, !.state = state]
  BY DEF I!Job, InstallInv
<1>2. jobs[j] \in JobOf
  BY DEF InstallInv, JobKept
<1>3. jobs'[j] \in JobOf /\ jobs'[j].pc = pc /\ jobs'[j].state = state /\ jobs'[j].component = c
  BY <1>1, <1>2 DEF JobOf
<1>4. JobKept(j)'
  BY <1>3 DEF JobKept
<1>5. ASSUME NEW i \in DOMAIN jobs, i # j PROVE JobKept(i)'
  <2>1. jobs'[i] = jobs[i] /\ JobKept(i) /\ jobs[i].component \in I!Components
    BY <1>1, <1>5 DEF InstallInv, JobKept, JobOf
  <2>2. jobs[i].state = "ready" => I!Ready(jobs[i].component)'
    BY <2>1, StaysReady DEF JobKept
  <2>3. jobs[i].state = "ready" /\ jobs[i].pc = "over" => jobs[i].component \in found'
    BY <2>1, <2>2 DEF JobKept
  <2> QED BY <2>1, <2>2, <2>3 DEF JobKept
<1>6. \A a, b \in DOMAIN jobs : jobs'[a].state = "installing" /\ jobs'[b].state = "installing" => a = b
  BY <1>1, <1>3 DEF InstallInv
<1> QED BY <1>1, <1>4, <1>5, <1>6 DEF InstallInv

LEMMA JobStepKeeps == ASSUME InstallInv, NEW j \in DOMAIN jobs, I!JobStep(j) PROVE InstallInv'
<1>0. PICK c \in I!Components : c = jobs[j].component
  BY DEF InstallInv, JobKept, JobOf
<1>1. JobKept(j)
  BY DEF InstallInv
<1>2. CASE I!ToolDone(j)
  <2>1. /\ jobs[j].pc = "tool"
        /\ IF c = Codec THEN codecFile' = "whole" /\ UNCHANGED present
           ELSE present' = present \cup {c} /\ UNCHANGED codecFile
        /\ IF c = Speech /\ model = "none" THEN I!Job(j, "model", "installing")
           ELSE I!Job(j, "refresh", "ready")
        /\ UNCHANGED <<model, download, checked, found, restarts>>
    BY <1>0, <1>2 DEF I!ToolDone, I!At, I!None
  <2>2. present' \subseteq Packages /\ present \subseteq present' /\ codecFile' \in {"none", "part", "whole"}
        /\ (codecFile # "none" => codecFile' # "none")
    BY <1>1, <2>1 DEF InstallInv, I!Components
  <2>3. jobs[j].state = "installing"
    BY <1>0, <1>1, <2>1 DEF JobKept, Working
  <2>4. CASE c = Speech /\ model = "none"
    <3>1. I!Job(j, "model", "installing") /\ Speech \in present'
      BY <2>1, <2>4, InstallBounds
    <3> QED BY <2>1, <2>2, <2>3, <2>4, <3>1, OneJobMoves, <1>0 DEF InstallInv, Working
  <2>5. CASE ~(c = Speech /\ model = "none")
    <3>1. I!Job(j, "refresh", "ready")
      BY <2>1, <2>5
    <3>2. I!Ready(c)'
      BY <2>1, <2>5 DEF I!Ready, I!None
    <3> QED BY <2>1, <2>2, <2>3, <3>1, <3>2, OneJobMoves, <1>0 DEF InstallInv, Working
  <2> QED BY <2>4, <2>5
<1>3. CASE I!ToolFails(j)
  <2>1. /\ codecFile' \in {codecFile, "part"} /\ I!Job(j, "over", "error")
        /\ UNCHANGED <<present, model, download, checked, found, restarts>>
    BY <1>3 DEF I!ToolFails
  <2>2. codecFile' \in {"none", "part", "whole"} /\ (codecFile # "none" => codecFile' # "none")
    BY <2>1 DEF InstallInv
  <2> QED BY <2>1, <2>2, OneJobMoves, <1>0 DEF InstallInv, Working
<1>4. CASE I!DownloadRefused(j) \/ I!CopyFails(j)
  <2>1. /\ I!Job(j, "over", "error") /\ UNCHANGED <<present, codecFile, model, checked, found, restarts>>
    BY <1>4 DEF I!DownloadRefused, I!CopyFails
  <2> QED BY <2>1, OneJobMoves, <1>0 DEF InstallInv, Working
<1>5. CASE I!Download(j)
  <2>1. /\ jobs[j].pc = "model" /\ I!Job(j, "copy", "installing")
        /\ UNCHANGED <<present, codecFile, model, checked, found, restarts>>
    BY <1>5 DEF I!Download, I!At
  <2>2. jobs[j].state = "installing" /\ c = Speech /\ Speech \in present'
    BY <1>0, <1>1, <2>1 DEF JobKept, Working
  <2> QED BY <2>1, <2>2, OneJobMoves, <1>0 DEF InstallInv, Working
<1>6. ASSUME NEW what \in {"wrong", "right"}, I!Copied(j, what) PROVE InstallInv'
  <2>1. /\ jobs[j].pc = "copy" /\ I!Job(j, "verify", "installing")
        /\ UNCHANGED <<present, codecFile, model, checked, found, restarts>>
    BY <1>6 DEF I!Copied, I!At
  <2>2. jobs[j].state = "installing" /\ c = Speech /\ Speech \in present'
    BY <1>0, <1>1, <2>1 DEF JobKept, Working
  <2> QED BY <2>1, <2>2, OneJobMoves, <1>0 DEF InstallInv, Working
<1>7. CASE I!Verify(j)
  <2>1. /\ jobs[j].pc = "verify" /\ UNCHANGED <<present, codecFile, checked, found, restarts>>
        /\ \/ model' = "right" /\ I!Job(j, "refresh", "ready")
           \/ UNCHANGED model /\ I!Job(j, "over", "error")
    BY <1>7 DEF I!Verify, I!At
  <2>2. CASE model' = "right" /\ I!Job(j, "refresh", "ready")
    <3>1. c = Speech /\ Speech \in present'
      BY <1>0, <1>1, <2>1 DEF JobKept
    <3>2. I!Ready(c)'
      BY <2>2, <3>1, InstallBounds DEF I!Ready, I!None
    <3> QED BY <2>1, <2>2, <3>2, OneJobMoves, <1>0 DEF InstallInv, Working
  <2>3. CASE UNCHANGED model /\ I!Job(j, "over", "error")
    BY <2>1, <2>3, OneJobMoves, <1>0 DEF InstallInv, Working
  <2> QED BY <2>1, <2>2, <2>3
<1>8. CASE I!RefreshFound(j)
  <2>1. /\ jobs[j].pc = "refresh" /\ found' = {d \in I!Components : I!Ready(d)} /\ I!Job(j, "over", jobs[j].state)
        /\ UNCHANGED <<present, codecFile, model, checked, restarts>>
    BY <1>8 DEF I!RefreshFound, I!At
  <2>2. jobs[j].state = "ready" /\ I!Ready(c)
    BY <1>0, <1>1, <2>1 DEF JobKept
  <2>3. \A d \in I!Components : I!Ready(d)' <=> I!Ready(d)
    BY <2>1 DEF I!Ready
  <2> QED BY <1>1, <2>1, <2>2, <2>3, OneJobMoves, <1>0 DEF InstallInv, Working
<1> QED BY <1>2, <1>3, <1>4, <1>5, <1>6, <1>7, <1>8 DEF I!JobStep

LEMMA BeginJobKeeps == ASSUME InstallInv, NEW r \in Requests, I!BeginJob(r) PROVE InstallInv'
<1>0. PICK n \in Nat : n = Cardinality(DOMAIN jobs) /\ DOMAIN jobs = 1..n
  BY Counted
<1>1. /\ checked[r] # I!Nothing /\ n < MaxJobs /\ \A j \in DOMAIN jobs : jobs[j].state # "installing"
      /\ jobs' = [j \in 1..n + 1 |-> IF j \in DOMAIN jobs THEN jobs[j]
                                     ELSE [component |-> checked[r], pc |-> "tool", state |-> "installing"]]
      /\ checked' = [checked EXCEPT ![r] = I!Nothing]
      /\ UNCHANGED <<present, codecFile, model, download, found, restarts>>
  BY <1>0, Counted DEF I!BeginJob
<1>2. n \in Nat /\ DOMAIN jobs = 1..n
  BY <1>0
<1>3. /\ DOMAIN jobs' = 1..(n + 1) /\ n + 1 \in 0..MaxJobs /\ n + 1 \notin DOMAIN jobs
      /\ \A j \in 1..n : jobs'[j] = jobs[j]
      /\ jobs'[n + 1] = [component |-> checked[r], pc |-> "tool", state |-> "installing"]
      /\ jobs' = [j \in DOMAIN jobs' |-> jobs'[j]]
  BY <1>1, <1>2, InstallBounds
<1>4. checked[r] \in I!Components
  BY <1>1 DEF InstallInv
<1>5. JobKept(n + 1)'
  BY <1>3, <1>4 DEF JobKept, JobOf, Working
<1>6. ASSUME NEW j \in 1..n PROVE JobKept(j)'
  <2>1. JobKept(j) /\ jobs'[j] = jobs[j]
    BY <1>2, <1>3 DEF InstallInv
  <2> QED BY <1>1, <2>1 DEF JobKept, I!Ready
<1>7. \A j \in 1..(n + 1) : j \in 1..n \/ j = n + 1
  BY <1>2
<1>8. \A j \in DOMAIN jobs' : JobKept(j)'
  BY <1>3, <1>5, <1>6, <1>7
<1>9. \A i, j \in DOMAIN jobs' : jobs'[i].state = "installing" /\ jobs'[j].state = "installing" => i = j
  BY <1>1, <1>2, <1>3, <1>7
<1>10. /\ \A q \in Requests : checked'[q] \in I!Components \cup {I!Nothing}
       /\ DOMAIN checked' = Requests /\ checked' = [q \in Requests |-> checked'[q]]
  BY <1>1 DEF InstallInv
<1>11. \E k \in 0..MaxJobs : DOMAIN jobs' = 1..k
  BY <1>3
<1> QED BY <1>1, <1>3, <1>8, <1>9, <1>10, <1>11 DEF InstallInv

LEMMA RestartKeeps == ASSUME InstallInv, I!RestartInstaller PROVE InstallInv'
<1>1. /\ codecFile' \in {codecFile, "part"}
      /\ jobs' = [j \in DOMAIN jobs |-> [jobs[j] EXCEPT !.pc = "over", !.state = "error"]]
      /\ checked' = [r \in Requests |-> I!Nothing]
      /\ found' \subseteq I!Components
      /\ UNCHANGED <<present, model, download>>
  BY DEF I!RestartInstaller
<1>2. codecFile' \in {"none", "part", "whole"}
  BY <1>1 DEF InstallInv
<1>3. ASSUME NEW j \in DOMAIN jobs
      PROVE  jobs'[j] \in JobOf /\ jobs'[j].pc = "over" /\ jobs'[j].state = "error"
  <2>1. jobs[j] \in JobOf
    BY DEF InstallInv, JobKept
  <2> QED BY <1>1, <2>1 DEF JobOf
<1>4. DOMAIN jobs' = DOMAIN jobs /\ jobs' = [j \in DOMAIN jobs |-> jobs'[j]]
  BY <1>1
<1>5. \A j \in DOMAIN jobs : JobKept(j)'
  BY <1>3 DEF JobKept, Working
<1> QED BY <1>1, <1>2, <1>3, <1>4, <1>5 DEF InstallInv

LEMMA InstallStays == ASSUME InstallInv, [I!InstallerNext]_ivars PROVE InstallInv'
<1>1. CASE UNCHANGED ivars
  BY <1>1 DEF ivars, InstallInv, JobKept, I!Ready
<1>2. ASSUME NEW r \in Requests, UNCHANGED <<present, codecFile, model, download, jobs, found, restarts>>,
             NEW c \in I!Components \cup {I!Nothing}, checked' = [checked EXCEPT ![r] = c]
      PROVE  InstallInv'
  BY <1>2 DEF InstallInv, JobKept, I!Ready
<1>3. ASSUME NEW r \in Requests, I!Refuse(r) \/ (\E c \in I!Components : I!Check(r, c)) PROVE InstallInv'
  BY <1>2, <1>3 DEF I!Refuse, I!Check
<1> QED BY <1>1, <1>3, BeginJobKeeps, JobStepKeeps, RestartKeeps DEF I!InstallerNext

LEMMA InstallMeans ==
    ASSUME InstallInv PROVE I!OneInstallation /\ I!ReadyWorks /\ I!InstalledFound /\ I!InstallerTypeOK
<1>1. \A j \in DOMAIN jobs : JobKept(j) /\ jobs[j] \in JobOf
  BY DEF InstallInv, JobKept
<1>2. I!OneInstallation
  BY <1>1 DEF InstallInv, JobKept, JobOf, Working, I!OneInstallation, I!Active
<1>3. I!ReadyWorks
  <2>1. \A c \in Packages : I!Ready(c) => I!Works(c)
    BY InstallBounds DEF InstallInv, I!Ready, I!Works, I!None
  <2> QED BY <1>1, <2>1 DEF I!ReadyWorks, JobKept
<1>4. I!InstalledFound
  BY <1>1 DEF I!InstalledFound, I!Active, JobKept
<1>5. I!InstallerTypeOK
  BY <1>1, Counted DEF InstallInv, I!InstallerTypeOK, JobKept, Working
<1> QED BY <1>2, <1>3, <1>4, <1>5

-----------------------------------------------------------------------------
(* The local model (LocalModel).                                            *)

Asked == [pc : {"waiting", "asking"}, seen : A!Observations, minimum : Nat]
Answered == [pc : {"done"}, seen : A!Observations, minimum : Nat, raw : A!Answers,
             answer : [band : Bands \cup {A!NoBand}, modulation : Modulations \cup {A!Unknown}, confidence : Nat]]

(* An analysis keeps what analyzeWithConfig makes of its answer; the         *)
(* benchmark's case that waits or is asked is not counted yet.              *)
CallKept(a) ==
    \/ calls[a] = A!Idle
    \/ calls[a] \in Asked
    \/ calls[a] \in Answered /\ calls[a].answer = A!Kept(calls[a].raw, calls[a].seen, calls[a].minimum)

BenchKept ==
    /\ "pc" \in DOMAIN calls[Bench]
    /\ calls[Bench].pc \in {"idle", "waiting", "asking"}
    /\ calls[Bench].pc # "idle" => tally.grounded + tally.errors < tally.cases

ModelInv ==
    /\ settings \in A!Settings /\ settingsFile \in A!Settings /\ editors \subseteq A!Settings
    /\ benchmark \in [running : BOOLEAN, asked : Nat, results : Nat, minimum : Nat]
    /\ benchmark.results <= benchmark.asked
    /\ tally \in [cases : Nat, grounded : Nat, errors : Nat]
    /\ tally.grounded + tally.errors <= tally.cases /\ tally.cases <= Cases
    /\ DOMAIN calls = A!Callers /\ calls = [c \in A!Callers |-> calls[c]]
    /\ \A a \in Analyses : CallKept(a)
    /\ BenchKept
    /\ \A c \in A!Callers : calls[c].pc = "asking" => semaphore = {c}

LEMMA ModelBounds ==
    /\ Cases \in Nat /\ MaxModels \in Nat /\ Confidences \subseteq Nat /\ Minimums \subseteq Nat
    /\ Bench \notin Analyses /\ Bench \in A!Callers /\ A!Callers = Analyses \cup {Bench}
BY ServicesAssumption DEF A!LocalModelAssumption, A!Callers

(* What is kept of an answer names what was measured, nothing below the     *)
(* minimum, and is at most likely when the answer contradicted it.          *)
LEMMA KeptGrounded ==
    ASSUME NEW raw \in A!Answers, NEW seen \in A!Observations, NEW minimum \in Nat,
           NEW kept, kept = A!Kept(raw, seen, minimum)
    PROVE  /\ kept \in [band : Bands \cup {A!NoBand}, modulation : Modulations \cup {A!Unknown}, confidence : Nat]
           /\ kept.confidence \in Confidences \cup {A!Capped}
           /\ kept.band # A!NoBand \/ kept.modulation # A!Unknown =>
                /\ kept.confidence >= minimum /\ kept.band \in {A!NoBand, seen.band}
                /\ seen.measured # A!Unknown => kept.modulation = seen.measured
           /\ \/ raw.band \notin {A!NoBand, seen.band}
              \/ seen.measured # A!Unknown /\ raw.modulation # seen.measured
              => kept.confidence <= A!Capped
<1> DEFINE Findings == [band : Bands \cup {A!NoBand}, modulation : Modulations \cup {A!Unknown},
                        confidence : Confidences \cup {A!Capped}]
           b == A!Banded(raw, seen)
           m == A!Measured(b, seen)
<1>1. raw \in Findings /\ seen.band \in Bands /\ seen.measured \in Modulations \cup {A!Unknown}
  BY DEF A!Answers, A!Observations
<1>2. ASSUME NEW x \in Confidences \cup {A!Capped}
      PROVE  /\ x \in Nat /\ A!LesserOf(x, A!Capped) \in Confidences \cup {A!Capped}
             /\ A!LesserOf(x, A!Capped) <= A!Capped
  BY ModelBounds DEF A!LesserOf, A!Capped
<1>3. /\ b \in Findings /\ b.modulation = raw.modulation /\ b.band \in {A!NoBand, seen.band}
      /\ raw.band \notin {A!NoBand, seen.band} => b.confidence <= A!Capped
  <2>1. CASE raw.band \notin {A!NoBand, seen.band}
    <3>1. b = [raw EXCEPT !.band = seen.band, !.confidence = A!LesserOf(raw.confidence, A!Capped)]
      BY <2>1 DEF A!Banded
    <3>2. raw.confidence \in Confidences \cup {A!Capped}
      BY <1>1
    <3> HIDE DEF b
    <3> QED BY <1>1, <1>2, <3>1, <3>2
  <2>2. CASE raw.band \in {A!NoBand, seen.band}
    <3>1. b = raw
      BY <2>2 DEF A!Banded
    <3> HIDE DEF b
    <3> QED BY <1>1, <2>2, <3>1
  <2> QED BY <2>1, <2>2
<1>4. /\ m \in Findings /\ m.band = b.band
      /\ seen.measured # A!Unknown => m.modulation = seen.measured
      /\ seen.measured # A!Unknown /\ raw.modulation # seen.measured => m.confidence <= A!Capped
      /\ b.confidence <= A!Capped => m.confidence <= A!Capped
  <2> HIDE DEF b
  <2>1. CASE seen.measured # A!Unknown /\ b.modulation # seen.measured
    <3>1. m = [b EXCEPT !.modulation = seen.measured, !.confidence = A!LesserOf(b.confidence, A!Capped)]
      BY <2>1 DEF A!Measured
    <3>2. b.confidence \in Confidences \cup {A!Capped}
      BY <1>3
    <3> HIDE DEF m
    <3> QED BY <1>1, <1>2, <1>3, <3>1, <3>2
  <2>2. CASE ~(seen.measured # A!Unknown /\ b.modulation # seen.measured)
    <3>1. m = b
      BY <2>2 DEF A!Measured
    <3> HIDE DEF m
    <3> QED BY <1>3, <2>2, <3>1
  <2> QED BY <2>1, <2>2
<1>5. kept = IF m.confidence < minimum THEN [m EXCEPT !.band = A!NoBand, !.modulation = A!Unknown] ELSE m
  BY DEF A!Kept, A!Named
<1>6. m.confidence \in Nat /\ minimum \in Nat
  <2> HIDE DEF b, m
  <2> QED BY <1>2, <1>4
<1>7. kept.confidence = m.confidence
  <2> HIDE DEF b, m
  <2> QED BY <1>4, <1>5
<1>8. kept \in Findings
  <2> HIDE DEF b, m
  <2> QED BY <1>4, <1>5
<1>9. kept.band # A!NoBand \/ kept.modulation # A!Unknown => kept = m /\ m.confidence >= minimum
  <2> HIDE DEF b, m
  <2> QED BY <1>4, <1>5, <1>6
<1> HIDE DEF b, m
<1>10. kept \in [band : Bands \cup {A!NoBand}, modulation : Modulations \cup {A!Unknown}, confidence : Nat]
  BY <1>2, <1>8
<1> QED BY <1>3, <1>4, <1>7, <1>8, <1>9, <1>10

LEMMA ModelBegins == A!LocalModelInit => ModelInv
<1> SUFFICES ASSUME A!LocalModelInit PROVE ModelInv
  OBVIOUS
<1>1. /\ settings \in A!Settings /\ settingsFile = settings /\ editors = {} /\ calls = [c \in A!Callers |-> A!Idle]
      /\ benchmark = [running |-> FALSE, asked |-> 0, results |-> 0, minimum |-> 0]
      /\ tally = [cases |-> 0, grounded |-> 0, errors |-> 0]
  BY DEF A!LocalModelInit, A!Untried
<1>2. /\ tally \in [cases : Nat, grounded : Nat, errors : Nat] /\ tally.grounded + tally.errors <= tally.cases
      /\ tally.cases = 0 /\ benchmark.results <= benchmark.asked
      /\ benchmark \in [running : BOOLEAN, asked : Nat, results : Nat, minimum : Nat]
  BY <1>1
<1>3. \A c \in A!Callers : calls[c] = A!Idle /\ calls[c].pc = "idle" /\ "pc" \in DOMAIN calls[c]
  BY <1>1 DEF A!Idle
<1> QED BY <1>1, <1>2, <1>3, ModelBounds DEF ModelInv, CallKept, BenchKept

(* An analysis moves: its call and the runtime's semaphore. *)
LEMMA AnalysisMoves ==
    ASSUME ModelInv, NEW a \in Analyses, NEW call, calls' = [calls EXCEPT ![a] = call], CallKept(a)',
           UNCHANGED <<settings, settingsFile, editors, benchmark, tally>>,
           \/ call.pc # "asking" /\ semaphore' = semaphore
           \/ call.pc # "asking" /\ semaphore' = semaphore \ {a}
           \/ call.pc = "asking" /\ semaphore = {} /\ semaphore' = {a}
    PROVE  ModelInv'
<1>1. /\ a # Bench /\ a \in A!Callers /\ Bench \in A!Callers
      /\ \A c \in A!Callers : c # a => calls'[c] = calls[c]
      /\ calls'[a] = call /\ DOMAIN calls' = A!Callers /\ calls' = [c \in A!Callers |-> calls'[c]]
  BY ModelBounds DEF ModelInv
<1>2. \A b \in Analyses : CallKept(b)'
  <2> TAKE b \in Analyses
  <2>1. CASE b = a
    BY <2>1
  <2>2. CASE b # a
    BY <1>1, <2>2, ModelBounds DEF ModelInv, CallKept
  <2> QED BY <2>1, <2>2
<1>3. BenchKept'
  BY <1>1 DEF ModelInv, BenchKept
<1>4. \A c \in A!Callers : calls'[c].pc = "asking" => semaphore' = {c}
  <2> TAKE c \in A!Callers
  <2> HAVE calls'[c].pc = "asking"
  <2>1. CASE c = a
    BY <1>1, <2>1
  <2>2. CASE c # a
    BY <1>1, <2>2 DEF ModelInv
  <2> QED BY <2>1, <2>2
<1> QED BY <1>1, <1>2, <1>3, <1>4 DEF ModelInv

(* The benchmark moves, with its tally. *)
LEMMA BenchMoves ==
    ASSUME ModelInv, NEW call, calls' = [calls EXCEPT ![Bench] = call], BenchKept',
           UNCHANGED <<settings, settingsFile, editors>>,
           benchmark' \in [running : BOOLEAN, asked : Nat, results : Nat, minimum : Nat],
           benchmark'.results <= benchmark'.asked,
           tally' \in [cases : Nat, grounded : Nat, errors : Nat],
           tally'.grounded + tally'.errors <= tally'.cases, tally'.cases <= Cases,
           \/ call.pc # "asking" /\ semaphore' = semaphore
           \/ call.pc # "asking" /\ semaphore' = semaphore \ {Bench}
           \/ call.pc = "asking" /\ semaphore = {} /\ semaphore' = {Bench}
    PROVE  ModelInv'
<1>1. /\ Bench \in A!Callers
      /\ \A c \in A!Callers : c # Bench => calls'[c] = calls[c]
      /\ calls'[Bench] = call /\ DOMAIN calls' = A!Callers /\ calls' = [c \in A!Callers |-> calls'[c]]
  BY ModelBounds DEF ModelInv
<1>2. \A b \in Analyses : CallKept(b)'
  <2> TAKE b \in Analyses
  <2>1. b # Bench /\ b \in A!Callers
    BY ModelBounds
  <2> QED BY <1>1, <2>1 DEF ModelInv, CallKept
<1>4. \A c \in A!Callers : calls'[c].pc = "asking" => semaphore' = {c}
  <2> TAKE c \in A!Callers
  <2> HAVE calls'[c].pc = "asking"
  <2>1. CASE c = Bench
    BY <1>1, <2>1
  <2>2. CASE c # Bench
    BY <1>1, <2>2 DEF ModelInv
  <2> QED BY <2>1, <2>2
<1> QED BY <1>1, <1>2, <1>4 DEF ModelInv

LEMMA AnalysisKeeps ==
    ASSUME ModelInv, NEW a \in Analyses,
           \/ A!GiveUp(a) \/ A!Deliver(a) \/ A!CallFails(a) \/ A!Acquire(a)
           \/ \E seen \in A!Observations : A!Analyze(a, seen)
           \/ \E raw \in A!Answers : A!Answer(a, raw)
    PROVE  ModelInv'
<1>1. A!Idle.pc = "idle"
  BY DEF A!Idle
<1>2. a \in DOMAIN calls
  BY ModelBounds DEF ModelInv
<1>3. CASE A!GiveUp(a) \/ A!Deliver(a) \/ A!CallFails(a)
  <2>1. /\ calls' = [calls EXCEPT ![a] = A!Idle] /\ (semaphore' = semaphore \/ semaphore' = semaphore \ {a})
        /\ UNCHANGED <<settings, settingsFile, editors, benchmark, tally>>
    BY <1>3 DEF A!GiveUp, A!Deliver, A!CallFails
  <2>2. CallKept(a)'
    BY <1>2, <2>1 DEF CallKept, A!Idle
  <2> QED BY <1>1, <2>1, <2>2, AnalysisMoves
<1>4. ASSUME NEW seen \in A!Observations, A!Analyze(a, seen) PROVE ModelInv'
  <2> DEFINE call == [pc |-> "waiting", seen |-> seen, minimum |-> settings.minimum]
  <2>1. /\ calls' = [calls EXCEPT ![a] = call] /\ semaphore' = semaphore
        /\ UNCHANGED <<settings, settingsFile, editors, benchmark, tally>>
    BY <1>4 DEF A!Analyze
  <2>2. settings.minimum \in Nat
    BY ModelBounds DEF ModelInv, A!Settings
  <2>3. call \in Asked /\ call.pc = "waiting"
    BY <2>2 DEF Asked
  <2> HIDE DEF call
  <2>4. CallKept(a)'
    BY <1>2, <2>1, <2>3 DEF CallKept, Asked
  <2> QED BY <2>1, <2>3, <2>4, AnalysisMoves
<1>5. CASE A!Acquire(a)
  <2> DEFINE call == [calls[a] EXCEPT !.pc = "asking"]
  <2>1. /\ calls[a].pc = "waiting" /\ semaphore = {} /\ semaphore' = {a}
        /\ calls' = [calls EXCEPT ![a] = call] /\ UNCHANGED <<settings, settingsFile, editors, benchmark, tally>>
    BY <1>5 DEF A!Acquire
  <2>2. calls[a] \in Asked
    BY <1>1, <2>1 DEF ModelInv, CallKept, Answered
  <2>3. call \in Asked /\ call.pc = "asking"
    BY <2>2 DEF Asked
  <2> HIDE DEF call
  <2>4. CallKept(a)'
    BY <1>2, <2>1, <2>3 DEF CallKept, Asked
  <2> QED BY <2>1, <2>3, <2>4, AnalysisMoves
<1>6. ASSUME NEW raw \in A!Answers, A!Answer(a, raw) PROVE ModelInv'
  <2> DEFINE kept == A!Kept(raw, calls[a].seen, calls[a].minimum)
             call == [pc |-> "done", seen |-> calls[a].seen, minimum |-> calls[a].minimum, raw |-> raw, answer |-> kept]
  <2>1. /\ calls[a].pc = "asking" /\ semaphore' = semaphore \ {a}
        /\ calls' = [calls EXCEPT ![a] = call] /\ UNCHANGED <<settings, settingsFile, editors, benchmark, tally>>
    BY <1>6 DEF A!Answer
  <2>2. calls[a] \in Asked
    BY <1>1, <2>1 DEF ModelInv, CallKept, Answered
  <2>3. calls[a].seen \in A!Observations /\ calls[a].minimum \in Nat
    BY <2>2 DEF Asked
  <2>4. kept \in [band : Bands \cup {A!NoBand}, modulation : Modulations \cup {A!Unknown}, confidence : Nat]
    BY <2>3, KeptGrounded
  <2>5. call \in Answered /\ call.pc = "done" /\ call.answer = A!Kept(call.raw, call.seen, call.minimum)
    <3>1. call.answer = A!Kept(call.raw, call.seen, call.minimum)
      OBVIOUS
    <3> HIDE DEF kept
    <3> QED BY <2>3, <2>4, <3>1 DEF Answered
  <2>6. PICK whole : whole = call
    OBVIOUS
  <2> HIDE DEF call
  <2>7. CallKept(a)'
    BY <1>2, <2>1, <2>5, <2>6 DEF CallKept, A!Kept, A!Named, A!Measured, A!Banded, A!LesserOf, A!NoBand, A!Unknown, A!Capped, Answered
  <2> QED BY <2>1, <2>5, <2>7, AnalysisMoves
<1> QED BY <1>3, <1>4, <1>5, <1>6

LEMMA BenchKeeps ==
    ASSUME ModelInv,
           \/ A!BenchWork \/ A!Acquire(Bench) \/ A!CaseFails
           \/ (\E raw \in A!Answers : A!CaseAnswered(raw)) \/ (\E n \in 1..MaxModels : A!StartBenchmark(n))
    PROVE  ModelInv'
<1>1. /\ A!Idle.pc = "idle" /\ "pc" \in DOMAIN A!Idle /\ Bench \in DOMAIN calls
      /\ A!Untried \in [cases : Nat, grounded : Nat, errors : Nat]
      /\ A!Untried.cases = 0 /\ A!Untried.grounded = 0 /\ A!Untried.errors = 0
  BY ModelBounds DEF ModelInv, A!Idle, A!Untried
<1>2. /\ benchmark.asked \in Nat /\ benchmark.results \in Nat /\ benchmark.minimum \in Nat
      /\ tally.cases \in Nat /\ tally.grounded \in Nat /\ tally.errors \in Nat /\ Cases \in Nat
  BY ModelBounds DEF ModelInv
<1>3. CASE A!NextCase
  <2>1. PICK minimum \in Nat : /\ benchmark' = [benchmark EXCEPT !.minimum = minimum]
                               /\ calls' = [calls EXCEPT ![Bench] =
                                    [pc |-> "waiting", seen |-> MCCaseOf(tally.cases + 1), minimum |-> minimum]]
    <3>1. settings.minimum \in Nat
      BY ModelBounds DEF ModelInv, A!Settings
    <3> QED BY <1>2, <1>3, <3>1 DEF A!NextCase
  <2> DEFINE call == [pc |-> "waiting", seen |-> MCCaseOf(tally.cases + 1), minimum |-> minimum]
  <2>2. /\ tally.cases < Cases /\ tally' = [tally EXCEPT !.cases = @ + 1] /\ calls' = [calls EXCEPT ![Bench] = call]
        /\ UNCHANGED <<settings, settingsFile, editors, semaphore>>
    BY <1>3, <2>1 DEF A!NextCase
  <2>3. call.pc = "waiting" /\ "pc" \in DOMAIN call
    OBVIOUS
  <2> HIDE DEF call
  <2>4. /\ benchmark' \in [running : BOOLEAN, asked : Nat, results : Nat, minimum : Nat]
        /\ benchmark'.results <= benchmark'.asked
    BY <2>1 DEF ModelInv
  <2>5. /\ tally' \in [cases : Nat, grounded : Nat, errors : Nat] /\ tally'.cases <= Cases
        /\ tally'.cases = tally.cases + 1 /\ tally'.grounded = tally.grounded /\ tally'.errors = tally.errors
    BY <1>2, <2>2 DEF ModelInv
  <2>6. tally'.grounded + tally'.errors < tally'.cases
    BY <1>2, <2>5 DEF ModelInv
  <2>7. BenchKept'
    BY <1>1, <2>2, <2>3, <2>6 DEF BenchKept
  <2>8. tally'.grounded + tally'.errors <= tally'.cases
    BY <1>2, <2>5, <2>6
  <2> QED BY <2>2, <2>3, <2>4, <2>5, <2>7, <2>8, BenchMoves
<1>4. CASE A!ModelTried
  <2>1. /\ benchmark.results < benchmark.asked /\ calls[Bench].pc = "idle"
        /\ benchmark' = [benchmark EXCEPT !.results = @ + 1] /\ tally' = A!Untried
        /\ UNCHANGED <<settings, settingsFile, editors, calls, semaphore>>
    BY <1>4 DEF A!ModelTried
  <2>2. /\ benchmark' \in [running : BOOLEAN, asked : Nat, results : Nat, minimum : Nat]
        /\ benchmark'.results = benchmark.results + 1 /\ benchmark'.asked = benchmark.asked
    BY <1>2, <2>1 DEF ModelInv
  <2>3. benchmark'.results <= benchmark'.asked
    BY <1>2, <2>1, <2>2
  <2>4. tally'.grounded + tally'.errors <= tally'.cases /\ tally'.cases <= Cases
    BY <1>1, <1>2, <2>1
  <2> QED BY <1>1, <2>1, <2>2, <2>3, <2>4 DEF ModelInv, CallKept, BenchKept
<1>5. CASE A!BenchmarkOver
  <2>1. /\ benchmark' = [benchmark EXCEPT !.running = FALSE]
        /\ UNCHANGED <<settings, settingsFile, editors, calls, semaphore, tally>>
    BY <1>5 DEF A!BenchmarkOver
  <2>2. /\ benchmark' \in [running : BOOLEAN, asked : Nat, results : Nat, minimum : Nat]
        /\ benchmark'.results = benchmark.results /\ benchmark'.asked = benchmark.asked
    BY <2>1 DEF ModelInv
  <2> QED BY <2>1, <2>2 DEF ModelInv, CallKept, BenchKept
<1>6. CASE A!Acquire(Bench)
  <2> DEFINE call == [calls[Bench] EXCEPT !.pc = "asking"]
  <2>1. /\ calls[Bench].pc = "waiting" /\ semaphore = {} /\ semaphore' = {Bench}
        /\ calls' = [calls EXCEPT ![Bench] = call] /\ UNCHANGED <<settings, settingsFile, editors, benchmark, tally>>
    BY <1>6 DEF A!Acquire
  <2>2. BenchKept'
    BY <1>1, <2>1 DEF ModelInv, BenchKept
  <2>4. call.pc = "asking"
    BY <1>1, <2>1 DEF ModelInv, BenchKept
  <2> HIDE DEF call
  <2> QED BY <2>1, <2>2, <2>4, BenchMoves DEF ModelInv
<1>7. ASSUME NEW outcome \in [cases : Nat, grounded : Nat, errors : Nat], A!CaseEnds(outcome),
             outcome.cases = tally.cases, outcome.grounded + outcome.errors <= tally.cases
      PROVE  ModelInv'
  <2>1. /\ calls' = [calls EXCEPT ![Bench] = A!Idle] /\ semaphore' = semaphore \ {Bench} /\ tally' = outcome
        /\ UNCHANGED <<settings, settingsFile, editors, benchmark>>
    BY <1>7 DEF A!CaseEnds
  <2>2. BenchKept'
    BY <1>1, <2>1 DEF BenchKept
  <2> QED BY <1>1, <1>7, <2>1, <2>2, BenchMoves DEF ModelInv
<1>8. calls[Bench].pc = "asking" => tally.grounded + tally.errors < tally.cases
  BY DEF ModelInv, BenchKept
<1>9. CASE A!CaseFails
  <2> DEFINE outcome == [tally EXCEPT !.errors = @ + 1]
  <2>1. A!CaseEnds(outcome) /\ calls[Bench].pc = "asking"
    BY <1>9 DEF A!CaseFails, A!CaseEnds
  <2>2. /\ outcome \in [cases : Nat, grounded : Nat, errors : Nat] /\ outcome.cases = tally.cases
        /\ outcome.grounded = tally.grounded /\ outcome.errors = tally.errors + 1
    BY <1>2 DEF ModelInv
  <2> HIDE DEF outcome
  <2> QED BY <1>2, <1>7, <1>8, <2>1, <2>2
<1>10. ASSUME NEW raw \in A!Answers, A!CaseAnswered(raw) PROVE ModelInv'
  <2>1. PICK outcome \in {tally, [tally EXCEPT !.grounded = @ + 1]} : A!CaseEnds(outcome)
    BY <1>10 DEF A!CaseAnswered
  <2>2. calls[Bench].pc = "asking"
    BY <2>1 DEF A!CaseEnds
  <2>3. /\ outcome \in [cases : Nat, grounded : Nat, errors : Nat] /\ outcome.cases = tally.cases
        /\ outcome.grounded \in {tally.grounded, tally.grounded + 1} /\ outcome.errors = tally.errors
    BY <1>2, <2>1 DEF ModelInv
  <2> QED BY <1>2, <1>7, <1>8, <2>1, <2>2, <2>3
<1>11. ASSUME NEW n \in 1..MaxModels, A!StartBenchmark(n) PROVE ModelInv'
  <2>1. /\ calls[Bench].pc = "idle"
        /\ benchmark' = [running |-> TRUE, asked |-> n, results |-> 0, minimum |-> 0] /\ tally' = A!Untried
        /\ UNCHANGED <<settings, settingsFile, editors, calls, semaphore>>
    BY <1>11 DEF A!StartBenchmark
  <2>2. /\ benchmark' \in [running : BOOLEAN, asked : Nat, results : Nat, minimum : Nat]
        /\ benchmark'.results <= benchmark'.asked
    BY <1>11, <2>1, ModelBounds
  <2> QED BY <1>1, <1>2, <2>1, <2>2 DEF ModelInv, CallKept, BenchKept
<1> QED BY <1>3, <1>4, <1>5, <1>6, <1>9, <1>10, <1>11 DEF A!BenchWork

LEMMA ModelStays == ASSUME ModelInv, [A!LocalModelNext]_avars PROVE ModelInv'
<1>1. CASE UNCHANGED avars
  BY <1>1 DEF avars, ModelInv, CallKept, BenchKept
<1>2. ASSUME NEW c \in A!Settings, A!WriteSettings(c) \/ A!KeepSettings(c) PROVE ModelInv'
  BY <1>2 DEF A!WriteSettings, A!KeepSettings, ModelInv, CallKept, BenchKept
<1>3. ASSUME NEW c \in A!Callers, A!Acquire(c) \/ A!EndOf(c) PROVE ModelInv'
  <2>1. CASE c = Bench
    BY <1>3, <2>1, BenchKeeps DEF A!EndOf
  <2>2. CASE c \in Analyses
    BY <1>3, <2>2, ModelBounds, AnalysisKeeps DEF A!EndOf
  <2> QED BY <2>1, <2>2, ModelBounds
<1> QED BY <1>1, <1>2, <1>3, BenchKeeps, AnalysisKeeps DEF A!LocalModelNext

LEMMA ModelMeans ==
    ASSUME ModelInv PROVE A!OneCall /\ A!AnswerGrounded /\ A!ContradictionDoubted /\ A!LocalModelTypeOK
<1>1. A!OneCall
  <2>1. \A c, d \in A!Callers : calls[c].pc = "asking" /\ calls[d].pc = "asking" => {c} = {d}
    BY DEF ModelInv
  <2> QED BY <2>1 DEF A!OneCall
<1>2. ASSUME NEW a \in Analyses, calls[a].pc = "done"
      PROVE  /\ calls[a] \in Answered /\ calls[a].raw \in A!Answers /\ calls[a].seen \in A!Observations
             /\ calls[a].minimum \in Nat
             /\ calls[a].answer = A!Kept(calls[a].raw, calls[a].seen, calls[a].minimum)
  <2>1. CallKept(a)
    BY DEF ModelInv
  <2>2. calls[a] \in Answered
    BY <1>2, <2>1 DEF CallKept, A!Idle, Asked
  <2>3. calls[a].answer = A!Kept(calls[a].raw, calls[a].seen, calls[a].minimum)
    BY <1>2, <2>1 DEF CallKept, A!Idle, Asked
  <2> QED BY <2>2, <2>3 DEF Answered
<1>3. A!AnswerGrounded
  BY <1>2, KeptGrounded DEF A!AnswerGrounded
<1>4. A!ContradictionDoubted
  BY <1>2, KeptGrounded DEF A!ContradictionDoubted
<1>5. ASSUME NEW c \in A!Callers, calls[c].pc = "done"
      PROVE  calls[c].answer.confidence \in Confidences \cup {A!Capped}
  <2>1. c \in Analyses
    BY <1>5, ModelBounds DEF ModelInv, BenchKept
  <2> QED BY <1>2, <1>5, <2>1, KeptGrounded
<1>6. A!LocalModelTypeOK
  BY <1>5 DEF ModelInv, A!LocalModelTypeOK
<1> QED BY <1>1, <1>3, <1>4, <1>6

-----------------------------------------------------------------------------
(* The profiles (ProfileStore), which range sync and local database share.  *)

Ids == FactoryIds \cup SheetIds \cup UserIds \cup LibraryIds
FromProgram == [builtIn |-> TRUE, content |-> Factory]
FromFile(content) == [builtIn |-> FALSE, content |-> content]

(* Apart from the sheets' IDs, memory has the profiles of the program and   *)
(* those of the files, and no file has the ID of a profile of the program.  *)
StoreInv ==
    /\ edits \in 0..MaxEdits /\ faults \in 0..MaxFaults
    /\ profiles = [id \in DOMAIN profiles |-> profiles[id]]
    /\ DOMAIN profiles \subseteq Ids
    /\ \A id \in DOMAIN profiles : profiles[id].builtIn \in BOOLEAN
    /\ DOMAIN files \subseteq DOMAIN profiles \cup SheetIds
    /\ DOMAIN files \cap FactoryIds = {}
    /\ \A id \in FactoryIds : id \in DOMAIN profiles /\ profiles[id] = FromProgram
    /\ \A id \in Ids \ (SheetIds \cup FactoryIds) :
         /\ id \in DOMAIN profiles <=> id \in DOMAIN files
         /\ id \in DOMAIN files => profiles[id] = FromFile(files[id])

LEMMA StoreBounds ==
    /\ MaxEdits \in Nat /\ MaxFaults \in Nat /\ FactoryIds \cap SheetIds = {} /\ UserIds \cap LibraryIds = {}
BY ServicesAssumption DEF R!ProfileStoreAssumption

LEMMA LoadedIs ==
    ASSUME NEW directory
    PROVE  /\ DOMAIN R!Loaded(directory) = FactoryIds \cup DOMAIN directory
           /\ \A id \in FactoryIds \cup DOMAIN directory :
                R!Loaded(directory)[id] = IF id \in DOMAIN directory THEN FromFile(directory[id]) ELSE FromProgram
           /\ D!Loaded(directory) = R!Loaded(directory)
BY DEF R!Loaded, D!Loaded, FromFile, FromProgram

LEMMA MadeOf ==
    /\ FromProgram.builtIn = TRUE /\ FromProgram.content = Factory
    /\ \A content : FromFile(content).builtIn = FALSE /\ FromFile(content).content = content
BY DEF FromProgram, FromFile

LEMMA StoreBegins == R!ProfilesInit => StoreInv
<1> SUFFICES ASSUME R!ProfilesInit PROVE StoreInv
  OBVIOUS
<1>1. DOMAIN files = {} /\ profiles = R!Loaded(files) /\ edits = 0 /\ faults = 0
  BY DEF R!ProfilesInit
<1>2. DOMAIN profiles = FactoryIds /\ \A id \in FactoryIds : profiles[id] = FromProgram
  BY <1>1, LoadedIs
<1>3. profiles = [id \in DOMAIN profiles |-> profiles[id]]
  BY <1>1 DEF R!Loaded
<1>4. \A id \in DOMAIN profiles : profiles[id].builtIn \in BOOLEAN
  BY <1>2, MadeOf
<1>5. \A id \in Ids \ (SheetIds \cup FactoryIds) : id \notin DOMAIN profiles /\ id \notin DOMAIN files
  BY <1>1, <1>2
<1>6. edits \in 0..MaxEdits /\ faults \in 0..MaxFaults
  BY <1>1, StoreBounds
<1>7. DOMAIN profiles \subseteq Ids /\ DOMAIN files \subseteq DOMAIN profiles /\ DOMAIN files \cap FactoryIds = {}
  BY <1>1, <1>2 DEF Ids
<1> QED BY <1>2, <1>3, <1>4, <1>5, <1>6, <1>7 DEF StoreInv

(* One ID is written or removed; the program's are neither. *)
Touches(id) ==
    \A o \in Ids \ {id} :
        /\ o \in DOMAIN profiles' <=> o \in DOMAIN profiles
        /\ o \in DOMAIN profiles => profiles'[o] = profiles[o]
        /\ o \in DOMAIN files' <=> o \in DOMAIN files
        /\ o \in DOMAIN files => files'[o] = files[o]

LEMMA TouchKeeps ==
    ASSUME StoreInv, NEW id \in Ids, ~R!BuiltIn(id), Touches(id),
           profiles' = [o \in DOMAIN profiles' |-> profiles'[o]],
           DOMAIN profiles' \subseteq Ids, DOMAIN files' \subseteq Ids,
           edits' \in 0..MaxEdits, faults' \in 0..MaxFaults,
           \/ id \in DOMAIN profiles' /\ id \in DOMAIN files' /\ profiles'[id] = FromFile(files'[id])
           \/ id \notin DOMAIN profiles' /\ id \notin DOMAIN files'
    PROVE  StoreInv'
<1>1. id \notin FactoryIds
  BY MadeOf DEF StoreInv, R!BuiltIn, R!Known
<1>2. DOMAIN files \subseteq Ids
  BY DEF StoreInv, Ids
<1>3. \A o \in DOMAIN profiles' : profiles'[o].builtIn \in BOOLEAN
  <2> TAKE o \in DOMAIN profiles'
  <2>1. CASE o = id
    BY <2>1, MadeOf
  <2>2. CASE o # id
    BY <2>2 DEF StoreInv, Touches
  <2> QED BY <2>1, <2>2
<1>4. DOMAIN files' \subseteq DOMAIN profiles' \cup SheetIds
  BY <1>2 DEF StoreInv, Touches
<1>5. DOMAIN files' \cap FactoryIds = {}
  BY <1>1, <1>2 DEF StoreInv, Touches
<1>6. \A o \in FactoryIds : o \in DOMAIN profiles' /\ profiles'[o] = FromProgram
  BY <1>1 DEF StoreInv, Touches, Ids
<1>7. ASSUME NEW o \in Ids \ (SheetIds \cup FactoryIds)
      PROVE  /\ o \in DOMAIN profiles' <=> o \in DOMAIN files'
             /\ o \in DOMAIN files' => profiles'[o] = FromFile(files'[o])
  <2>1. CASE o = id
    BY <2>1
  <2>2. CASE o # id
    BY <2>2 DEF StoreInv, Touches
  <2> QED BY <2>1, <2>2
<1> QED BY <1>3, <1>4, <1>5, <1>6, <1>7 DEF StoreInv

(* A profile that is not built in is stored, in file and memory or not at   *)
(* all.                                                                     *)
LEMMA StoredKeeps ==
    ASSUME StoreInv, NEW id \in Ids, ~R!BuiltIn(id), NEW content, R!Stored(id, content), edits' \in 0..MaxEdits
    PROVE  /\ StoreInv' /\ Touches(id)
           /\ faults' = faults => id \in DOMAIN profiles' /\ profiles'[id] = FromFile(content)
           /\ faults' # faults => UNCHANGED profiles
<1>1. CASE /\ files' = R!With(files, id, content)
           /\ profiles' = R!With(profiles, id, [builtIn |-> FALSE, content |-> content])
           /\ UNCHANGED faults
  <2>1. /\ DOMAIN files' = DOMAIN files \cup {id} /\ files'[id] = content
        /\ \A o \in DOMAIN files : o # id => files'[o] = files[o]
        /\ DOMAIN profiles' = DOMAIN profiles \cup {id} /\ profiles'[id] = FromFile(content)
        /\ \A o \in DOMAIN profiles : o # id => profiles'[o] = profiles[o]
        /\ profiles' = [o \in DOMAIN profiles' |-> profiles'[o]]
    BY <1>1 DEF R!With, FromFile
  <2>2. DOMAIN files \subseteq Ids /\ DOMAIN profiles \subseteq Ids /\ faults' \in 0..MaxFaults
    BY <1>1 DEF StoreInv, Ids
  <2>3. Touches(id)
    BY <2>1 DEF Touches
  <2>4. StoreInv'
    BY <2>1, <2>2, <2>3, TouchKeeps
  <2> QED BY <1>1, <2>1, <2>3, <2>4
<1>2. CASE faults < MaxFaults /\ faults' = faults + 1 /\ UNCHANGED <<profiles, files>>
  <2>1. faults' \in 0..MaxFaults /\ faults' # faults
    BY <1>2, StoreBounds DEF StoreInv
  <2> QED BY <1>2, <2>1 DEF StoreInv, Touches
<1> QED BY <1>1, <1>2 DEF R!Stored

LEMMA SaveKeeps ==
    ASSUME StoreInv, NEW id \in Ids, NEW content, R!Save(id, content), edits' \in 0..MaxEdits
    PROVE  /\ StoreInv' /\ Touches(id) /\ ~R!BuiltIn(id)
           /\ faults' = faults => id \in DOMAIN profiles' /\ profiles'[id] = FromFile(content)
           /\ faults' # faults => UNCHANGED profiles
BY StoredKeeps DEF R!Save

(* What users do touches one profile that is not built in; it is left with  *)
(* what they gave it, unless it is a copy, which has an ID of its own.      *)
LEMMA EditsTouch ==
    ASSUME StoreInv, R!UserEdits
    PROVE  /\ StoreInv'
           /\ \E id \in Ids :
                /\ ~R!BuiltIn(id) /\ Touches(id)
                /\ id \in DOMAIN profiles' =>
                     \/ id \in DOMAIN profiles /\ profiles'[id] = profiles[id]
                     \/ ~profiles'[id].builtIn /\ (id \in LibraryIds => profiles'[id].content \in 1..MaxEdits)
<1>1. ASSUME edits < MaxEdits, edits' = edits + 1
      PROVE  edits' \in 0..MaxEdits /\ edits' \in 1..MaxEdits
  BY <1>1, StoreBounds DEF StoreInv
<1>2. ASSUME NEW id \in Ids, NEW content, ~R!BuiltIn(id), R!Stored(id, content), edits < MaxEdits, edits' = edits + 1,
             id \in LibraryIds => content \in 1..MaxEdits
      PROVE  /\ StoreInv' /\ Touches(id)
             /\ id \in DOMAIN profiles' =>
                  \/ id \in DOMAIN profiles /\ profiles'[id] = profiles[id]
                  \/ ~profiles'[id].builtIn /\ (id \in LibraryIds => profiles'[id].content \in 1..MaxEdits)
  <2>1. /\ StoreInv' /\ Touches(id)
        /\ faults' = faults => id \in DOMAIN profiles' /\ profiles'[id] = FromFile(content)
        /\ faults' # faults => UNCHANGED profiles
    BY <1>1, <1>2, StoredKeeps
  <2> QED BY <1>2, <2>1, MadeOf
<1>3. ASSUME NEW u \in UserIds, NEW content, R!Stored(u, content), ~R!Known(u), edits < MaxEdits, edits' = edits + 1
      PROVE  /\ StoreInv' /\ Touches(u) /\ ~R!BuiltIn(u) /\ u \in Ids
             /\ u \in DOMAIN profiles' =>
                  \/ u \in DOMAIN profiles /\ profiles'[u] = profiles[u]
                  \/ ~profiles'[u].builtIn /\ (u \in LibraryIds => profiles'[u].content \in 1..MaxEdits)
  <2>1. u \in Ids /\ u \notin LibraryIds /\ ~R!BuiltIn(u)
    BY <1>3, StoreBounds DEF Ids, R!BuiltIn
  <2> QED BY <1>2, <1>3, <2>1
<1>4. ASSUME NEW id \in DOMAIN profiles \cup UserIds \cup SheetIds, R!Edit(R!Save(id, edits')) PROVE id \in Ids /\
             /\ StoreInv' /\ Touches(id) /\ ~R!BuiltIn(id)
             /\ id \in DOMAIN profiles' =>
                  \/ id \in DOMAIN profiles /\ profiles'[id] = profiles[id]
                  \/ ~profiles'[id].builtIn /\ (id \in LibraryIds => profiles'[id].content \in 1..MaxEdits)
  <2>1. id \in Ids
    BY DEF StoreInv, Ids
  <2>2. edits < MaxEdits /\ edits' = edits + 1 /\ ~R!BuiltIn(id) /\ R!Stored(id, edits')
    BY <1>4 DEF R!Edit, R!Save
  <2>3. PICK content : content = edits'
    OBVIOUS
  <2> QED BY <1>1, <1>2, <2>1, <2>2, <2>3
<1>5. ASSUME NEW id \in UserIds, NEW builtIn \in BOOLEAN, R!Edit(R!Import(id, builtIn, edits'))
      PROVE  \E u \in UserIds : \E content : R!Stored(u, content) /\ ~R!Known(u) /\ edits < MaxEdits /\ edits' = edits + 1
  BY <1>5 DEF R!Edit, R!Import, R!Fresh
<1>6. ASSUME NEW id \in DOMAIN profiles, R!Edit(R!Duplicate(id) \/ R!Delete(id)), ~R!Delete(id)
      PROVE  \E u \in UserIds : \E content : R!Stored(u, content) /\ ~R!Known(u) /\ edits < MaxEdits /\ edits' = edits + 1
  BY <1>6 DEF R!Edit, R!Duplicate, R!Fresh
<1>7. ASSUME NEW id \in DOMAIN profiles, R!Edit(R!Duplicate(id) \/ R!Delete(id)), R!Delete(id)
      PROVE  /\ StoreInv' /\ Touches(id) /\ ~R!BuiltIn(id) /\ id \in Ids
             /\ id \in DOMAIN profiles' => id \in DOMAIN profiles /\ profiles'[id] = profiles[id]
  <2>1. id \in Ids /\ ~R!BuiltIn(id) /\ edits' \in 0..MaxEdits
    BY <1>1, <1>7 DEF R!Edit, R!Delete, StoreInv
  <2>2. CASE files' = R!Without(files, {id}) /\ profiles' = R!Without(profiles, {id}) /\ UNCHANGED faults
    <3>1. /\ DOMAIN files' = DOMAIN files \ {id} /\ \A o \in DOMAIN files' : files'[o] = files[o]
          /\ DOMAIN profiles' = DOMAIN profiles \ {id} /\ \A o \in DOMAIN profiles' : profiles'[o] = profiles[o]
          /\ profiles' = [o \in DOMAIN profiles' |-> profiles'[o]]
      BY <2>2 DEF R!Without
    <3>2. DOMAIN files \subseteq Ids /\ DOMAIN profiles \subseteq Ids /\ faults' \in 0..MaxFaults
      BY <2>2 DEF StoreInv, Ids
    <3>3. Touches(id)
      BY <3>1 DEF Touches
    <3>4. StoreInv'
      BY <2>1, <3>1, <3>2, <3>3, TouchKeeps
    <3> QED BY <2>1, <3>1, <3>3, <3>4
  <2>3. CASE faults < MaxFaults /\ faults' = faults + 1 /\ UNCHANGED <<profiles, files>>
    <3>1. faults' \in 0..MaxFaults
      BY <2>3, StoreBounds DEF StoreInv
    <3> QED BY <2>1, <2>3, <3>1 DEF StoreInv, Touches
  <2> QED BY <1>7, <2>2, <2>3 DEF R!Delete
<1>8. ASSUME NEW u \in UserIds, NEW content,
             R!Stored(u, content) /\ ~R!Known(u) /\ edits < MaxEdits /\ edits' = edits + 1
      PROVE  /\ StoreInv'
             /\ \E id \in Ids :
                /\ ~R!BuiltIn(id) /\ Touches(id)
                /\ id \in DOMAIN profiles' =>
                     \/ id \in DOMAIN profiles /\ profiles'[id] = profiles[id]
                     \/ ~profiles'[id].builtIn /\ (id \in LibraryIds => profiles'[id].content \in 1..MaxEdits)
  BY <1>3, <1>8
<1> QED BY <1>4, <1>5, <1>6, <1>7, <1>8 DEF R!UserEdits

LEMMA ReloadKeeps ==
    ASSUME StoreInv, profiles' = R!Loaded(files), UNCHANGED <<files, edits>>, faults' \in 0..MaxFaults
    PROVE  StoreInv'
<1>1. /\ DOMAIN profiles' = FactoryIds \cup DOMAIN files
      /\ \A id \in FactoryIds \cup DOMAIN files :
            profiles'[id] = IF id \in DOMAIN files THEN FromFile(files[id]) ELSE FromProgram
  BY LoadedIs
<1>2. profiles' = [id \in DOMAIN profiles' |-> profiles'[id]]
  BY DEF R!Loaded
<1>3. \A id \in DOMAIN profiles' : profiles'[id].builtIn \in BOOLEAN
  BY <1>1, MadeOf
<1>4. DOMAIN profiles' \subseteq Ids /\ DOMAIN files \subseteq DOMAIN profiles'
  BY <1>1 DEF StoreInv, Ids
<1>5. \A id \in Ids \ (SheetIds \cup FactoryIds) :
         /\ id \in DOMAIN profiles' <=> id \in DOMAIN files
         /\ id \in DOMAIN files => profiles'[id] = FromFile(files[id])
  BY <1>1
<1>6. \A id \in FactoryIds : id \in DOMAIN profiles' /\ profiles'[id] = FromProgram
  BY <1>1 DEF StoreInv
<1> QED BY <1>2, <1>3, <1>4, <1>5, <1>6 DEF StoreInv

LEMMA StoreMeans == ASSUME StoreInv PROVE R!ReloadAgrees /\ R!FactoryKept /\ R!ProfilesTypeOK /\ D!ProfilesTypeOK
<1>1. R!FactoryKept
  BY DEF StoreInv, FromProgram, R!FactoryKept, R!BuiltIn, R!Known
<1>2. R!ReloadAgrees
  <2> DEFINE l == R!Loaded(files)
  <2>1. /\ DOMAIN l = FactoryIds \cup DOMAIN files
        /\ \A id \in FactoryIds \cup DOMAIN files :
             l[id] = IF id \in DOMAIN files THEN FromFile(files[id]) ELSE FromProgram
    BY LoadedIs
  <2> HIDE DEF l
  <2>2. DOMAIN l \ SheetIds = DOMAIN profiles \ SheetIds
    BY <2>1 DEF StoreInv, Ids
  <2>3. \A id \in DOMAIN profiles \ SheetIds : l[id] = profiles[id]
    BY <2>1 DEF StoreInv, Ids
  <2>4. [id \in DOMAIN l \ SheetIds |-> l[id]] = [id \in DOMAIN profiles \ SheetIds |-> profiles[id]]
    BY <2>2, <2>3
  <2> QED BY <2>4 DEF R!ReloadAgrees, R!Without, l
<1>3. R!ProfilesTypeOK /\ D!ProfilesTypeOK
  BY DEF StoreInv, Ids, R!ProfilesTypeOK, D!ProfilesTypeOK
<1> QED BY <1>1, <1>2, <1>3

-----------------------------------------------------------------------------
(* The local database (LocalDatabase).                                      *)

(* The local database: one scan, whose profiles are of its folder or as a   *)
(* user left them.                                                          *)
Fits(id, f) == id \in DOMAIN profiles => profiles[id].content \in {f} \cup 1..MaxEdits
ScanPlaces == {"idle", "chosen", "scan", "import"}

DatabaseInv ==
    /\ requests \in 0..MaxScans /\ scanning \in BOOLEAN /\ missed \in BOOLEAN /\ crossed \in BOOLEAN
    /\ {folder, folderFile, report.folder} \subseteq Folders \cup {NoFolder}
    /\ scans \in [Scanners -> [pc : ScanPlaces, folder : Folders \cup {NoFolder}, left : SUBSET LibraryIds,
                               imported : SUBSET LibraryIds, skipped : SUBSET LibraryIds]]
    /\ report.imported \subseteq LibraryIds
    /\ \A s \in Scanners : D!On(s, "import") =>
         /\ scanning
         /\ scans[s].left \cup scans[s].imported \cup scans[s].skipped \subseteq MCFilesIn(scans[s].folder)
         /\ \A id \in scans[s].imported : Fits(id, scans[s].folder)
    /\ \A s, o \in Scanners : D!On(s, "import") /\ D!On(o, "import") => s = o
    /\ ~scanning => \A id \in report.imported : Fits(id, report.folder)
    /\ ~crossed => \A s, o \in Scanners : D!On(s, "chosen") /\ D!On(o, "chosen") => s = o
    /\ ~crossed => \A s \in Scanners : D!On(s, "chosen") => scans[s].folder = folderFile
    /\ ~crossed /\ (\A s \in Scanners : ~D!On(s, "chosen")) => folder = folderFile

(* No scan has been asked for. *)
DatabaseStill == report = D!Unscanned /\ scans = [s \in Scanners |-> D!Waiting]

LEMMA DatabaseBounds == MaxScans \in Nat
BY ServicesAssumption DEF D!LocalDatabaseAssumption

LEMMA RequestsBound ==
    ASSUME DatabaseInv PROVE requests \in 0..MaxScans /\ (requests < MaxScans => requests + 1 \in 0..MaxScans)
<1>1. requests \in 0..MaxScans
  BY DEF DatabaseInv
<1> QED BY <1>1, DatabaseBounds

LEMMA FilesAreLibrary == ASSUME NEW f \in Folders PROVE MCFilesIn(f) \subseteq LibraryIds
BY ServicesAssumption DEF D!LocalDatabaseAssumption

LEMMA DatabaseBegins == D!LocalDatabaseInit => DatabaseInv /\ DatabaseStill
<1> SUFFICES ASSUME D!LocalDatabaseInit PROVE DatabaseInv /\ DatabaseStill
  OBVIOUS
<1>1. DatabaseStill /\ requests = 0 /\ folder = NoFolder /\ folderFile = NoFolder /\ scanning = FALSE
      /\ missed = FALSE /\ crossed = FALSE
  BY DEF D!LocalDatabaseInit, DatabaseStill
<1>2. \A s \in Scanners : ~D!On(s, "import") /\ ~D!On(s, "chosen")
  BY <1>1 DEF DatabaseStill, D!Waiting, D!On
<1>3. scans \in [Scanners -> [pc : ScanPlaces, folder : Folders \cup {NoFolder}, left : SUBSET LibraryIds,
                               imported : SUBSET LibraryIds, skipped : SUBSET LibraryIds]]
  BY <1>1 DEF DatabaseStill, D!Waiting, ScanPlaces
<1>4. report.folder = NoFolder /\ report.imported = {}
  BY <1>1 DEF DatabaseStill, D!Unscanned
<1>7. requests = 0
  BY <1>1
<1>8. requests \in 0..MaxScans
  BY <1>7, DatabaseBounds
<1>5. requests \in 0..MaxScans /\ scanning \in BOOLEAN /\ missed \in BOOLEAN /\ crossed \in BOOLEAN
  BY <1>1, <1>8
<1>6. {folder, folderFile, report.folder} \subseteq Folders \cup {NoFolder} /\ report.imported \subseteq LibraryIds
  BY <1>1, <1>4
<1> QED BY <1>1, <1>2, <1>3, <1>4, <1>5, <1>6 DEF DatabaseInv

(* A profile that fits goes on to when only one other is touched, or a user  *)
(* touched it.                                                               *)
LEMMA EditsFit ==
    ASSUME StoreInv, R!UserEdits, NEW id \in LibraryIds, NEW f, Fits(id, f)
    PROVE  Fits(id, f)'
<1>1. PICK o \in Ids :
        /\ Touches(o)
        /\ o \in DOMAIN profiles' =>
             \/ o \in DOMAIN profiles /\ profiles'[o] = profiles[o]
             \/ ~profiles'[o].builtIn /\ (o \in LibraryIds => profiles'[o].content \in 1..MaxEdits)
  BY EditsTouch
<1>2. id \in Ids
  BY DEF Ids
<1>3. CASE id = o
  BY <1>1, <1>3 DEF Fits
<1>4. CASE id # o
  BY <1>1, <1>2, <1>4 DEF Fits, Touches
<1> QED BY <1>3, <1>4

LEMMA Same ==
    /\ D!UserEdits <=> R!UserEdits
    /\ \A id, content : D!Save(id, content) <=> R!Save(id, content)
BY DEF D!UserEdits, D!Save, D!Stored, D!Edit, D!Import, D!Duplicate, D!Delete, D!With, D!Without, D!Known, D!BuiltIn,
   D!Fresh, R!UserEdits, R!Save, R!Stored, R!Edit, R!Import, R!Duplicate, R!Delete, R!With, R!Without, R!Known,
   R!BuiltIn, R!Fresh

(* Scanner s goes on with next. *)
Turns(s, next) == scans' = [scans EXCEPT ![s] = next]

LEMMA TurnsMeans ==
    ASSUME DatabaseInv, NEW s \in Scanners, NEW next, Turns(s, next)
    PROVE  /\ scans'[s] = next /\ \A o \in Scanners : o # s => scans'[o] = scans[o]
           /\ \A pc : D!On(s, pc)' <=> next.pc = pc
           /\ \A o \in Scanners : \A pc : o # s => (D!On(o, pc)' <=> D!On(o, pc))
           /\ next \in [pc : ScanPlaces, folder : Folders \cup {NoFolder}, left : SUBSET LibraryIds,
                        imported : SUBSET LibraryIds, skipped : SUBSET LibraryIds] =>
                scans' \in [Scanners -> [pc : ScanPlaces, folder : Folders \cup {NoFolder}, left : SUBSET LibraryIds,
                               imported : SUBSET LibraryIds, skipped : SUBSET LibraryIds]]
BY DEF DatabaseInv, Turns, D!On

LEMMA ChoosingKeeps ==
    ASSUME DatabaseInv, NEW s \in Scanners, UNCHANGED pvars,
           (\E f \in Folders : D!WriteFolder(s, f)) \/ D!KeepFolder(s) \/ D!AskScan(s)
    PROVE  DatabaseInv'
<1>1. CASE \E f \in Folders : D!WriteFolder(s, f)
  <2>1. PICK f \in Folders : D!WriteFolder(s, f)
    BY <1>1
  <2> DEFINE next == [D!Waiting EXCEPT !.pc = "chosen", !.folder = f]
  <2>2. next.pc = "chosen" /\ next.folder = f
        /\ next \in [pc : ScanPlaces, folder : Folders \cup {NoFolder}, left : SUBSET LibraryIds,
                     imported : SUBSET LibraryIds, skipped : SUBSET LibraryIds]
    BY DEF D!Waiting, ScanPlaces
  <2>8. requests' \in 0..MaxScans
    BY <2>1, RequestsBound DEF D!WriteFolder
  <2>3. Turns(s, next) /\ D!On(s, "idle") /\ requests' \in 0..MaxScans /\ folderFile' = f
        /\ crossed' = (D!Choosing # {}) /\ UNCHANGED <<folder, scanning, report, missed>>
    BY <2>1, <2>8 DEF D!WriteFolder, D!Becomes, Turns
  <2> HIDE DEF next
  <2>4. crossed' <=> \E o \in Scanners : D!On(o, "chosen")
    BY <2>3 DEF D!Choosing, D!On
  <2>5. crossed' \in BOOLEAN
    BY <2>3
  <2>6. ~D!On(s, "chosen") /\ ~D!On(s, "import")
    BY <2>3 DEF D!On
  <2>7. UNCHANGED <<profiles, files, edits, faults>>
    BY DEF pvars
  <2> QED BY <2>2, <2>3, <2>4, <2>5, <2>6, <2>7, TurnsMeans DEF DatabaseInv, Fits
<1>2. CASE D!KeepFolder(s) \/ D!AskScan(s)
  <2> DEFINE next == [D!Waiting EXCEPT !.pc = "scan"]
  <2>1. next.pc = "scan"
        /\ next \in [pc : ScanPlaces, folder : Folders \cup {NoFolder}, left : SUBSET LibraryIds,
                     imported : SUBSET LibraryIds, skipped : SUBSET LibraryIds]
    BY DEF D!Waiting, ScanPlaces
  <2>2. Turns(s, next) /\ requests' \in 0..MaxScans
        /\ UNCHANGED <<folderFile, scanning, report, missed, crossed>>
        /\ \/ D!On(s, "chosen") /\ folder' = scans[s].folder
           \/ D!On(s, "idle") /\ folder' = folder
    BY <1>2, RequestsBound DEF D!KeepFolder, D!AskScan, D!Becomes, Turns
  <2> HIDE DEF next
  <2>3. UNCHANGED <<profiles, files, edits, faults>>
    BY DEF pvars
  <2>4. folder' \in Folders \cup {NoFolder}
    BY <2>2 DEF DatabaseInv
  <2>5. CASE D!On(s, "chosen") /\ folder' = scans[s].folder
    <3>1. ~crossed => folder' = folderFile /\ \A o \in Scanners : o # s => ~D!On(o, "chosen")
      BY <2>5 DEF DatabaseInv
    <3>2. ~D!On(s, "import")
      BY <2>5 DEF D!On
    <3> QED BY <2>1, <2>2, <2>3, <2>4, <2>5, <3>1, <3>2, TurnsMeans DEF DatabaseInv, Fits
  <2>6. CASE D!On(s, "idle") /\ folder' = folder
    <3>1. ~D!On(s, "import") /\ ~D!On(s, "chosen")
      BY <2>6 DEF D!On
    <3> QED BY <2>1, <2>2, <2>3, <2>4, <2>6, <3>1, TurnsMeans DEF DatabaseInv, Fits
  <2> QED BY <2>2, <2>5, <2>6
<1> QED BY <1>1, <1>2

LEMMA ScanKeeps ==
    ASSUME DatabaseInv, NEW s \in Scanners, UNCHANGED pvars, D!BeginScan(s) \/ D!ScanRefused(s) \/ D!EndScan(s)
    PROVE  DatabaseInv'
<1>0. UNCHANGED <<profiles, files, edits, faults>>
  BY DEF pvars
<1>1. CASE D!BeginScan(s)
  <2> DEFINE left == IF folder = NoFolder THEN {} ELSE MCFilesIn(folder)
             next == [D!Waiting EXCEPT !.pc = "import", !.folder = folder, !.left = left]
  <2>1. folder \in Folders \cup {NoFolder}
    BY DEF DatabaseInv
  <2>2. left \subseteq LibraryIds /\ left \subseteq MCFilesIn(folder)
    BY <2>1, FilesAreLibrary
  <2>3. Turns(s, next) /\ scanning' = TRUE /\ missed' = FALSE /\ D!On(s, "scan") /\ ~scanning
        /\ UNCHANGED <<folder, folderFile, report, requests, crossed>>
    BY <1>1 DEF D!BeginScan, D!Becomes, Turns
  <2>4. next.pc = "import" /\ next.folder = folder /\ next.left = left /\ next.imported = {} /\ next.skipped = {}
    BY DEF D!Waiting
  <2>5. next \in [pc : ScanPlaces, folder : Folders \cup {NoFolder}, left : SUBSET LibraryIds,
                     imported : SUBSET LibraryIds, skipped : SUBSET LibraryIds]
    BY <2>1, <2>2 DEF D!Waiting, ScanPlaces
  <2>6. ~D!On(s, "chosen") /\ \A o \in Scanners : ~D!On(o, "import")
    BY <2>3 DEF D!On, DatabaseInv
  <2> HIDE DEF next, left
  <2>20. scanning' \in BOOLEAN /\ missed' \in BOOLEAN /\ crossed' \in BOOLEAN
    BY <2>2, <2>3 DEF DatabaseInv
  <2>21. requests' \in 0..MaxScans /\ {folder', folderFile', report'.folder} \subseteq Folders \cup {NoFolder}
         /\ report'.imported \subseteq LibraryIds
    BY <2>2, <2>3, <2>1 DEF DatabaseInv
  <2>22. \A o \in Scanners : (D!On(o, "chosen")' <=> D!On(o, "chosen")) /\ (D!On(o, "chosen")' => scans'[o] = scans[o])
    BY <2>3, <2>4, <2>6, TurnsMeans
  <2>23. /\ ~crossed' => \A t, o \in Scanners : D!On(t, "chosen")' /\ D!On(o, "chosen")' => t = o
         /\ ~crossed' => \A t \in Scanners : D!On(t, "chosen")' => scans'[t].folder = folderFile'
         /\ ~crossed' /\ (\A t \in Scanners : ~D!On(t, "chosen")') => folder' = folderFile'
    BY <2>2, <2>3, <2>22 DEF DatabaseInv
  <2>24. \A o \in Scanners : D!On(o, "import")' <=> o = s
    BY <2>3, <2>4, <2>6, TurnsMeans
  <2>25. scans'[s] = next
    BY <2>3, TurnsMeans
  <2>26. scans' \in [Scanners -> [pc : ScanPlaces, folder : Folders \cup {NoFolder}, left : SUBSET LibraryIds,
                               imported : SUBSET LibraryIds, skipped : SUBSET LibraryIds]]
    BY <2>3, <2>5, TurnsMeans
  <2>27. \A o \in Scanners : D!On(o, "import")' =>
         /\ scans'[o].left \cup scans'[o].imported \cup scans'[o].skipped \subseteq MCFilesIn(scans'[o].folder)
         /\ scans'[o].imported = {}
    BY <2>2, <2>4, <2>24, <2>25
  <2> QED BY <2>3, <2>20, <2>21, <2>23, <2>24, <2>26, <2>27 DEF DatabaseInv
<1>2. CASE D!ScanRefused(s)
  <2> DEFINE next == D!Waiting
  <2>1. next.pc = "idle"
        /\ next \in [pc : ScanPlaces, folder : Folders \cup {NoFolder}, left : SUBSET LibraryIds,
                     imported : SUBSET LibraryIds, skipped : SUBSET LibraryIds]
    BY DEF D!Waiting, ScanPlaces
  <2>2. Turns(s, next) /\ D!On(s, "scan") /\ UNCHANGED <<folder, folderFile, scanning, report, requests, crossed>>
    BY <1>2 DEF D!ScanRefused, D!Becomes, Turns
  <2>3. missed' \in BOOLEAN
    BY <1>2 DEF D!ScanRefused
  <2>4. ~D!On(s, "chosen") /\ ~D!On(s, "import")
    BY <2>2 DEF D!On
  <2> HIDE DEF next
  <2> QED BY <1>0, <2>1, <2>2, <2>3, <2>4, TurnsMeans DEF DatabaseInv, Fits
<1>3. CASE D!EndScan(s)
  <2> DEFINE next == D!Waiting
  <2>1. next.pc = "idle"
        /\ next \in [pc : ScanPlaces, folder : Folders \cup {NoFolder}, left : SUBSET LibraryIds,
                     imported : SUBSET LibraryIds, skipped : SUBSET LibraryIds]
    BY DEF D!Waiting, ScanPlaces
  <2>2. Turns(s, next) /\ D!On(s, "import") /\ scanning' = FALSE
        /\ UNCHANGED <<folder, folderFile, requests, missed, crossed>>
    BY <1>3 DEF D!EndScan, D!Becomes, Turns
  <2>3. report'.folder = scans[s].folder /\ report'.imported = scans[s].imported
    BY <1>3 DEF D!EndScan
  <2>4. report'.folder \in Folders \cup {NoFolder} /\ report'.imported \subseteq LibraryIds
    BY <2>3 DEF DatabaseInv
  <2>5. ~D!On(s, "chosen") /\ \A o \in Scanners : D!On(o, "import") => o = s
    BY <2>2 DEF D!On, DatabaseInv
  <2> HIDE DEF next
  <2>20. scanning' \in BOOLEAN /\ missed' \in BOOLEAN /\ crossed' \in BOOLEAN
    BY <2>2, <2>3 DEF DatabaseInv
  <2>21. requests' \in 0..MaxScans /\ {folder', folderFile', report'.folder} \subseteq Folders \cup {NoFolder}
         /\ report'.imported \subseteq LibraryIds
    BY <2>2, <2>3, <2>4 DEF DatabaseInv
  <2>22. \A o \in Scanners : (D!On(o, "chosen")' <=> D!On(o, "chosen")) /\ (D!On(o, "chosen")' => scans'[o] = scans[o])
    BY <2>1, <2>2, <2>5, TurnsMeans
  <2>23. /\ ~crossed' => \A t, o \in Scanners : D!On(t, "chosen")' /\ D!On(o, "chosen")' => t = o
         /\ ~crossed' => \A t \in Scanners : D!On(t, "chosen")' => scans'[t].folder = folderFile'
         /\ ~crossed' /\ (\A t \in Scanners : ~D!On(t, "chosen")') => folder' = folderFile'
    BY <2>2, <2>3, <2>22 DEF DatabaseInv
  <2>24. \A o \in Scanners : ~D!On(o, "import")'
    BY <2>1, <2>2, <2>5, TurnsMeans
  <2>26. scans' \in [Scanners -> [pc : ScanPlaces, folder : Folders \cup {NoFolder}, left : SUBSET LibraryIds,
                               imported : SUBSET LibraryIds, skipped : SUBSET LibraryIds]]
    BY <2>1, <2>2, TurnsMeans
  <2>27. \A id \in report'.imported : Fits(id, report.folder)'
    BY <1>0, <2>2, <2>3 DEF DatabaseInv, Fits
  <2> QED BY <2>20, <2>21, <2>23, <2>24, <2>26, <2>27 DEF DatabaseInv
<1> QED BY <1>1, <1>2, <1>3

LEMMA ImportKeeps ==
    ASSUME StoreInv, DatabaseInv, NEW s \in Scanners, NEW id \in LibraryIds, D!ImportFile(s, id)
    PROVE  StoreInv' /\ DatabaseInv'
<1>1. R!Save(id, scans[s].folder) /\ D!On(s, "import") /\ id \in scans[s].left
      /\ UNCHANGED <<edits, folder, folderFile, scanning, report, requests, missed, crossed>>
  BY Same DEF D!ImportFile
<1>2. PICK f : f = scans[s].folder
  OBVIOUS
<1>3. edits' \in 0..MaxEdits /\ id \in Ids
  BY <1>1 DEF StoreInv, Ids
<1>4. /\ StoreInv' /\ Touches(id) /\ ~R!BuiltIn(id)
      /\ faults' = faults => id \in DOMAIN profiles' /\ profiles'[id] = FromFile(f)
      /\ faults' # faults => UNCHANGED profiles
  BY <1>1, <1>2, <1>3, SaveKeeps
<1>5. scanning /\ f \in Folders \cup {NoFolder} /\ \A o \in Scanners : D!On(o, "import") => o = s
  BY <1>1, <1>2 DEF DatabaseInv
<1>6. \A o \in LibraryIds : Fits(o, f) => Fits(o, f)'
  <2> TAKE o \in LibraryIds
  <2>1. o \in Ids
    BY DEF Ids
  <2>2. CASE o # id
    BY <1>4, <2>1, <2>2 DEF Fits, Touches
  <2>3. CASE o = id /\ faults' = faults
    BY <1>4, <2>3, MadeOf DEF Fits
  <2>4. CASE faults' # faults
    BY <1>4, <2>4 DEF Fits
  <2> QED BY <2>2, <2>3, <2>4
<1>7. CASE faults' = faults
  <2> DEFINE next == [scans[s] EXCEPT !.left = @ \ {id}, !.imported = @ \cup {id}]
  <2>1. Turns(s, next)
    BY <1>7 DEF D!ImportFile, D!Becomes, Turns
  <2>2. scans[s] \in [pc : ScanPlaces, folder : Folders \cup {NoFolder}, left : SUBSET LibraryIds,
                     imported : SUBSET LibraryIds, skipped : SUBSET LibraryIds]
    BY DEF DatabaseInv
  <2>3. next.pc = "import" /\ next.folder = f /\ next.left = scans[s].left \ {id}
        /\ next.imported = scans[s].imported \cup {id} /\ next.skipped = scans[s].skipped
        /\ next \in [pc : ScanPlaces, folder : Folders \cup {NoFolder}, left : SUBSET LibraryIds,
                     imported : SUBSET LibraryIds, skipped : SUBSET LibraryIds]
    BY <1>1, <1>2, <2>2 DEF D!On
  <2> HIDE DEF next
  <2>4. Fits(id, f)'
    BY <1>4, <1>7, MadeOf DEF Fits
  <2>5. next.left \cup next.imported \cup next.skipped \subseteq MCFilesIn(f)
    BY <1>1, <1>2, <2>3 DEF DatabaseInv
  <2>6. \A o \in next.imported : Fits(o, f)'
    BY <1>1, <1>2, <1>6, <2>2, <2>3, <2>4 DEF DatabaseInv
  <2>7. ~D!On(s, "chosen")
    BY <1>1 DEF D!On
  <2>8. DatabaseInv'
    BY <1>1, <1>5, <2>1, <2>3, <2>5, <2>6, <2>7, TurnsMeans DEF DatabaseInv
  <2> QED BY <1>4, <2>8
<1>8. CASE faults' # faults
  <2> DEFINE next == [scans[s] EXCEPT !.left = @ \ {id}, !.skipped = @ \cup {id}]
  <2>1. Turns(s, next)
    BY <1>8 DEF D!ImportFile, D!Becomes, Turns
  <2>2. scans[s] \in [pc : ScanPlaces, folder : Folders \cup {NoFolder}, left : SUBSET LibraryIds,
                     imported : SUBSET LibraryIds, skipped : SUBSET LibraryIds]
    BY DEF DatabaseInv
  <2>3. next.pc = "import" /\ next.folder = f /\ next.left = scans[s].left \ {id}
        /\ next.imported = scans[s].imported /\ next.skipped = scans[s].skipped \cup {id}
        /\ next \in [pc : ScanPlaces, folder : Folders \cup {NoFolder}, left : SUBSET LibraryIds,
                     imported : SUBSET LibraryIds, skipped : SUBSET LibraryIds]
    BY <1>1, <1>2, <2>2 DEF D!On
  <2> HIDE DEF next
  <2>5. next.left \cup next.imported \cup next.skipped \subseteq MCFilesIn(f)
    BY <1>1, <1>2, <2>3 DEF DatabaseInv
  <2>6. \A o \in next.imported : Fits(o, f)'
    BY <1>1, <1>2, <1>6, <2>2, <2>3 DEF DatabaseInv
  <2>7. ~D!On(s, "chosen")
    BY <1>1 DEF D!On
  <2>8. DatabaseInv'
    BY <1>1, <1>5, <2>1, <2>3, <2>5, <2>6, <2>7, TurnsMeans DEF DatabaseInv
  <2> QED BY <1>4, <2>8
<1> QED BY <1>7, <1>8

LEMMA RestartScansKeep ==
    ASSUME StoreInv, DatabaseInv, NEW s \in Scanners, D!RestartDatabase(s)
    PROVE  StoreInv' /\ DatabaseInv'
<1>12. faults \in 0..MaxFaults /\ faults < MaxFaults /\ faults' = faults + 1
  BY DEF D!RestartDatabase, StoreInv
<1>13. faults' \in 0..MaxFaults
  BY <1>12, StoreBounds
<1>1. profiles' = R!Loaded(files) /\ UNCHANGED <<files, edits, requests>> /\ faults' \in 0..MaxFaults
  BY <1>13, LoadedIs DEF D!RestartDatabase
<1>2. StoreInv'
  BY <1>1, ReloadKeeps
<1>3. folderFile' \in Folders \cup {NoFolder} /\ folder' = folderFile'
  BY DEF D!RestartDatabase, DatabaseInv
<1>4. scanning' = FALSE /\ missed' = FALSE /\ crossed' = FALSE
  BY DEF D!RestartDatabase
<1>5. report'.folder = NoFolder /\ report'.imported = {}
  BY DEF D!RestartDatabase, D!Unscanned
<1>6. \A o \in Scanners : scans'[o] \in {D!Waiting, [D!Waiting EXCEPT !.pc = "scan"]}
  BY DEF D!RestartDatabase
<1>7. {D!Waiting, [D!Waiting EXCEPT !.pc = "scan"]}
        \subseteq [pc : {"idle", "scan"}, folder : Folders \cup {NoFolder}, left : SUBSET LibraryIds,
                   imported : SUBSET LibraryIds, skipped : SUBSET LibraryIds]
  BY DEF D!Waiting
<1>8. scans' \in [Scanners -> [pc : {"idle", "scan"}, folder : Folders \cup {NoFolder}, left : SUBSET LibraryIds,
                   imported : SUBSET LibraryIds, skipped : SUBSET LibraryIds]]
  BY <1>6, <1>7 DEF D!RestartDatabase
<1>9. scans' \in [Scanners -> [pc : ScanPlaces, folder : Folders \cup {NoFolder}, left : SUBSET LibraryIds,
                   imported : SUBSET LibraryIds, skipped : SUBSET LibraryIds]]
  BY <1>8 DEF ScanPlaces
<1>10. \A o \in Scanners : ~D!On(o, "import")' /\ ~D!On(o, "chosen")'
  BY <1>8 DEF D!On
<1>11. requests' \in 0..MaxScans
  BY <1>1 DEF DatabaseInv
<1> QED BY <1>2, <1>3, <1>4, <1>5, <1>9, <1>10, <1>11 DEF DatabaseInv

LEMMA DatabaseStays ==
    ASSUME StoreInv, DatabaseInv, [D!LocalDatabaseNext]_<<pvars, dvars>>
    PROVE  StoreInv' /\ DatabaseInv'
<1>1. CASE UNCHANGED <<pvars, dvars>>
  BY <1>1 DEF pvars, dvars, StoreInv, DatabaseInv, D!On, Fits
<1>2. ASSUME UNCHANGED pvars PROVE StoreInv'
  BY <1>2 DEF pvars, StoreInv
<1>3. ASSUME NEW s \in Scanners, (\E f \in Folders : D!WriteFolder(s, f)) \/ D!KeepFolder(s) \/ D!AskScan(s)
      PROVE StoreInv' /\ DatabaseInv'
  <2>1. UNCHANGED pvars
    BY <1>3 DEF D!WriteFolder, D!KeepFolder, D!AskScan, D!profilevars, pvars
  <2> QED BY <1>2, <1>3, <2>1, ChoosingKeeps
<1>4. ASSUME NEW s \in Scanners, D!BeginScan(s) \/ D!ScanRefused(s) \/ D!EndScan(s) PROVE StoreInv' /\ DatabaseInv'
  <2>1. UNCHANGED pvars
    BY <1>4 DEF D!BeginScan, D!ScanRefused, D!EndScan, D!profilevars, pvars
  <2> QED BY <1>2, <1>4, <2>1, ScanKeeps
<1>5. CASE D!EditLibrary
  <2>1. R!UserEdits /\ UNCHANGED <<folder, folderFile, scanning, report, scans, requests, missed, crossed>>
    BY <1>5, Same DEF D!EditLibrary, D!scanvars
  <2>2. StoreInv'
    BY <2>1, EditsTouch
  <2>3. \A id \in LibraryIds : \A f : Fits(id, f) => Fits(id, f)'
    BY <2>1, EditsFit
  <2>4. \A s \in Scanners : scans[s].imported \subseteq LibraryIds /\ report.imported \subseteq LibraryIds
    BY DEF DatabaseInv
  <2> QED BY <2>1, <2>2, <2>3, <2>4 DEF DatabaseInv, D!On
<1> QED BY <1>1, <1>3, <1>4, <1>5, ImportKeeps, RestartScansKeep DEF D!LocalDatabaseNext, D!ContinueScan

LEMMA DatabaseStaysStill == ASSUME DatabaseInv, DatabaseStill, UNCHANGED dvars PROVE DatabaseInv' /\ DatabaseStill'
<1>1. report.imported = {} /\ \A s \in Scanners : ~D!On(s, "import")
  BY DEF DatabaseStill, D!Unscanned, D!Waiting, D!On
<1>2. UNCHANGED <<folder, folderFile, scanning, report, scans, requests, missed, crossed>>
  BY DEF dvars
<1> QED BY <1>1, <1>2 DEF DatabaseInv, DatabaseStill, D!On

LEMMA DatabaseMeans ==
    ASSUME DatabaseInv, D!ProfilesTypeOK PROVE D!LocalDatabaseTypeOK /\ D!OneScan /\ D!ReportedImported /\ D!FolderSaved
<1>1. D!LocalDatabaseTypeOK
  BY DEF DatabaseInv, D!LocalDatabaseTypeOK, D!On
<1>2. D!OneScan
  BY DEF DatabaseInv, D!OneScan
<1>3. D!ReportedImported
  BY DEF DatabaseInv, D!ReportedImported, Fits, D!Known
<1>4. D!FolderSaved
  BY DEF DatabaseInv, D!FolderSaved, D!Choosing, D!On
<1> QED BY <1>1, <1>2, <1>3, <1>4

-----------------------------------------------------------------------------
(* Range sync (RangeSync).                                                  *)

(* Range sync: what goroutine p is at, the configuration it goes by, and    *)
(* whether no other syncs, or writes, beside it.                            *)
Pc(p) == runs[p].pc
Of(p) == runs[p].with
Alone(p) == runs[p].alone
SyncPlaces == {"idle", "persist", "write", "fetch", "replace", "cache", "report"}
Syncing(p) == Pc(p) \in {"fetch", "replace", "cache", "report"}
Replaced(p) == Pc(p) \in {"cache", "report"}
Given == MCConfigs \cup {R!Off}
RunType == [pc : SyncPlaces, with : Given, wakes : BOOLEAN, alone : BOOLEAN]

(* The built-in profiles with sheet IDs are the ones of sheet c.            *)
SheetsAre(c) ==
    /\ \A id \in SheetIds : R!BuiltIn(id) => profiles[id].content = c
    /\ (\E id \in SheetIds : R!BuiltIn(id)) <=> c # NoSheet

SyncTyped ==
    /\ config \in Given /\ configFile \in Given
    /\ cache \in Sheets \cup {NoSheet} /\ shown.from \in Sheets \cup {NoSheet}
    /\ shown = [from |-> shown.from, error |-> shown.error]
    /\ runs \in [R!Syncers -> RunType]
    /\ \A p \in R!Syncers : Syncing(p) => Of(p).url \in Sheets

SyncsApart ==
    /\ \A p, q \in R!Syncers : Syncing(p) /\ Alone(p) /\ Syncing(q) => p = q
    /\ ~unsettled => \A p \in R!Syncers : Syncing(p) => Alone(p)

WritesApart ==
    /\ \A p, q \in R!Syncers : Pc(p) = "write" /\ Alone(p) /\ Pc(q) = "write" => p = q
    /\ ~unsaved => \A p \in R!Syncers : Pc(p) = "write" => Alone(p)
    /\ (\A p \in R!Syncers : Pc(p) # "persist") =>
         /\ \A p \in R!Syncers : Pc(p) = "write" /\ Alone(p) => Of(p) = config
         /\ ~unsaved /\ (\A p \in R!Syncers : Pc(p) # "write") => configFile = config

FetchesApart ==
    faults = 0 => \A p \in R!Syncers : Pc(p) = "fetch" =>
        syncing /\ \A q \in R!Syncers : Pc(q) = "fetch" => q = p

SheetsFollow ==
    /\ ~unsettled /\ (\A p \in R!Syncers : ~Replaced(p)) => SheetsAre(cache) /\ cache = shown.from
    /\ \A p \in R!Syncers : Alone(p) /\ Replaced(p) => SheetsAre(Of(p).url)
    /\ \A p \in R!Syncers : Alone(p) /\ Pc(p) = "report" => cache = Of(p).url

SyncInv == SyncTyped /\ SyncsApart /\ WritesApart /\ FetchesApart /\ SheetsFollow

(* No configuration was given and no sync began. *)
SyncStill ==
    /\ runs = [p \in R!Syncers |-> R!Still]
    /\ config = R!Off /\ configFile = R!Off
    /\ cache = NoSheet /\ shown.from = NoSheet /\ shown = [from |-> shown.from, error |-> shown.error]
    /\ SheetsAre(NoSheet)

LEMMA SheetsKnown ==
    /\ NoSheet \notin Sheets
    /\ \A s \in Sheets : MCRows(s) # {} /\ MCRows(s) \subseteq SheetIds
    /\ \A c \in Given : c \in [enabled : BOOLEAN, url : Sheets \cup {NoSheet}]
<1>1. /\ NoSheet \notin Sheets
      /\ \A s \in Sheets : MCRows(s) # {} /\ MCRows(s) \subseteq SheetIds
      /\ \A c \in MCConfigs : c \in [enabled : BOOLEAN, url : Sheets \cup {NoSheet}]
  BY ServicesAssumption DEF R!RangeSyncAssumption
<1>2. R!Off \in [enabled : BOOLEAN, url : Sheets \cup {NoSheet}]
  BY DEF R!Off
<1> QED BY <1>1, <1>2 DEF Given

LEMMA StillIs ==
    /\ R!Still \in RunType /\ R!Still.pc = "idle" /\ R!Still.with = R!Off
    /\ R!Off.url = NoSheet
BY DEF R!Still, RunType, Given, R!Off, SyncPlaces

-----------------------------------------------------------------------------
(* How goroutines move.                                                     *)
LEMMA ToMeans ==
    ASSUME runs \in [R!Syncers -> RunType], NEW p \in R!Syncers, NEW pc \in SyncPlaces, R!To(p, pc)
    PROVE  /\ runs' \in [R!Syncers -> RunType]
           /\ Pc(p)' = pc /\ Of(p)' = Of(p) /\ (Alone(p)' <=> Alone(p))
           /\ \A q \in R!Syncers : q # p => Pc(q)' = Pc(q) /\ Of(q)' = Of(q) /\ (Alone(q)' <=> Alone(q))
<1>1. runs' = [runs EXCEPT ![p].pc = pc]
  BY DEF R!To
<1>2. runs' \in [R!Syncers -> RunType]
  BY <1>1 DEF RunType
<1>3. runs[p] \in RunType
  OBVIOUS
<1>4. runs'[p].pc = pc /\ runs'[p].with = runs[p].with /\ runs'[p].alone = runs[p].alone
  BY <1>1, <1>3 DEF RunType
<1>5. \A q \in R!Syncers : q # p => runs'[q] = runs[q]
  BY <1>1
<1> QED BY <1>2, <1>4, <1>5 DEF Pc, Of, Alone

LEMMA SetMeans ==
    ASSUME runs \in [R!Syncers -> RunType], NEW p \in R!Syncers, NEW next \in RunType, runs' = [runs EXCEPT ![p] = next]
    PROVE  /\ runs' \in [R!Syncers -> RunType]
           /\ Pc(p)' = next.pc /\ Of(p)' = next.with
           /\ \A q \in R!Syncers : q # p => Pc(q)' = Pc(q) /\ Of(q)' = Of(q) /\ (Alone(q)' <=> Alone(q))
BY DEF Pc, Of, Alone

LEMMA JoinsMeans ==
    ASSUME runs \in [R!Syncers -> RunType], NEW p \in R!Syncers, NEW next \in RunType, NEW others \in SUBSET R!Syncers,
           p \notin others, R!Joins(p, next, others)
    PROVE  /\ runs' \in [R!Syncers -> RunType]
           /\ Pc(p)' = next.pc /\ Of(p)' = next.with /\ (Alone(p)' <=> others = {})
           /\ \A q \in R!Syncers : q # p => Pc(q)' = Pc(q) /\ Of(q)' = Of(q)
           /\ \A q \in R!Syncers : q # p => (Alone(q)' <=> Alone(q) /\ q \notin others)
<1>1. runs' = [q \in R!Syncers |->
        CASE q = p -> [next EXCEPT !.alone = (others = {})]
          [] q \in others -> [runs[q] EXCEPT !.alone = FALSE]
          [] OTHER -> runs[q]]
  BY DEF R!Joins
<1>2. PICK none \in BOOLEAN : none = (others = {})
  OBVIOUS
<1>3. runs'[p] = [next EXCEPT !.alone = none]
  BY <1>1, <1>2
<1>4. \A q \in others : runs'[q] = [runs[q] EXCEPT !.alone = FALSE]
  BY <1>1
<1>5. \A q \in R!Syncers \ others : q # p => runs'[q] = runs[q]
  BY <1>1
<1>6. runs'[p] \in RunType /\ runs'[p].pc = next.pc /\ runs'[p].with = next.with /\ runs'[p].alone = none
  BY <1>3 DEF RunType
<1>7. \A q \in others : runs'[q] \in RunType /\ runs'[q].pc = runs[q].pc /\ runs'[q].with = runs[q].with
                        /\ runs'[q].alone = FALSE
  <2> TAKE q \in others
  <2>1. runs[q] \in RunType
    OBVIOUS
  <2> QED BY <1>4, <2>1 DEF RunType
<1>8. \A q \in R!Syncers : runs'[q] \in RunType
  BY <1>5, <1>6, <1>7
<1>9. runs' \in [R!Syncers -> RunType]
  BY <1>1, <1>8
<1> QED BY <1>2, <1>5, <1>6, <1>7, <1>9 DEF Pc, Of, Alone

LEMMA SyncsAre ==
    /\ R!Syncs = {p \in R!Syncers : Syncing(p)} /\ R!Writes = {p \in R!Syncers : Pc(p) = "write"}
    /\ \A p, pc : R!At(p, pc) <=> Pc(p) = pc
BY DEF R!Syncs, R!Writes, Syncing, Pc, R!At

-----------------------------------------------------------------------------
(* Which sheet the profiles are of.                                         *)
LEMMA TouchedSheets ==
    ASSUME NEW id \in Ids, ~R!BuiltIn(id), Touches(id), NEW c, SheetsAre(c),
           id \in DOMAIN profiles' =>
             (id \in DOMAIN profiles /\ profiles'[id] = profiles[id]) \/ ~profiles'[id].builtIn
    PROVE  SheetsAre(c)'
<1>1. \A o \in SheetIds : R!BuiltIn(o)' <=> R!BuiltIn(o)
  <2> TAKE o \in SheetIds
  <2>1. CASE o = id
    BY <2>1 DEF R!BuiltIn, R!Known
  <2>2. CASE o # id
    BY <2>2 DEF R!BuiltIn, R!Known, Touches, Ids
  <2> QED BY <2>1, <2>2
<1>2. \A o \in SheetIds : R!BuiltIn(o) => profiles'[o] = profiles[o]
  BY DEF R!BuiltIn, R!Known, Touches, Ids
<1> QED BY <1>1, <1>2 DEF SheetsAre

LEMMA EditedSheets == ASSUME StoreInv, R!UserEdits, NEW c, SheetsAre(c) PROVE SheetsAre(c)'
BY EditsTouch, TouchedSheets

LEMMA LoadedSheets ==
    ASSUME StoreInv, profiles' = R!Loaded(files) PROVE SheetsAre(NoSheet)'
<1>1. \A id \in SheetIds : ~R!BuiltIn(id)'
  <2> TAKE id \in SheetIds
  <2>1. id \in DOMAIN profiles' => profiles'[id] = FromFile(files[id])
    BY LoadedIs, StoreBounds
  <2> QED BY <2>1, MadeOf DEF R!BuiltIn, R!Known
<1> QED BY <1>1 DEF SheetsAre

LEMMA ReplacedSheets ==
    ASSUME StoreInv, NEW store, NEW s \in Sheets, profiles' = R!Replaced(store, MCRows(s), s),
           store \in {profiles, R!Loaded(files)}, UNCHANGED <<files, edits>>, faults' \in 0..MaxFaults
    PROVE  StoreInv' /\ SheetsAre(s)'
<1>1. MCRows(s) # {} /\ MCRows(s) \subseteq SheetIds /\ s # NoSheet
  BY SheetsKnown
<1>2. /\ DOMAIN profiles' = (DOMAIN store \ SheetIds) \cup MCRows(s)
      /\ \A id \in MCRows(s) : profiles'[id] = [builtIn |-> TRUE, content |-> s]
      /\ \A id \in DOMAIN store \ SheetIds : profiles'[id] = store[id]
      /\ profiles' = [id \in DOMAIN profiles' |-> profiles'[id]]
  BY <1>1 DEF R!Replaced
<1>3. /\ DOMAIN store \subseteq Ids
      /\ \A id \in DOMAIN store \ SheetIds : id \in DOMAIN profiles /\ store[id] = profiles[id]
      /\ \A id \in DOMAIN profiles \ SheetIds : id \in DOMAIN store
  <2>1. CASE store = profiles
    BY <2>1 DEF StoreInv
  <2>2. CASE store = R!Loaded(files)
    <3>1. /\ DOMAIN store = FactoryIds \cup DOMAIN files
          /\ \A id \in FactoryIds \cup DOMAIN files :
                store[id] = IF id \in DOMAIN files THEN FromFile(files[id]) ELSE FromProgram
      BY <2>2, LoadedIs
    <3>2. \A id \in DOMAIN profiles \ SheetIds : id \in DOMAIN store
      BY <3>1 DEF StoreInv
    <3>3. DOMAIN store \subseteq Ids
      BY <3>1 DEF StoreInv, Ids
    <3>4. \A id \in DOMAIN store \ SheetIds : id \in DOMAIN profiles /\ store[id] = profiles[id]
      BY <3>1, <3>3 DEF StoreInv
    <3> QED BY <3>2, <3>3, <3>4
  <2> QED BY <2>1, <2>2
<1>4. \A id \in MCRows(s) : profiles'[id].builtIn = TRUE /\ profiles'[id].content = s
  BY <1>2
<1>5. \A id \in DOMAIN profiles' : profiles'[id].builtIn \in BOOLEAN
  <2> TAKE id \in DOMAIN profiles'
  <2>1. CASE id \in MCRows(s)
    BY <1>4, <2>1
  <2>2. CASE id \notin MCRows(s)
    BY <1>2, <1>3, <2>2 DEF StoreInv
  <2> QED BY <2>1, <2>2
<1>6. DOMAIN profiles' \subseteq Ids
  BY <1>1, <1>2, <1>3 DEF Ids
<1>7. DOMAIN files \subseteq DOMAIN profiles' \cup SheetIds
  BY <1>2, <1>3 DEF StoreInv
<1>8. \A id \in FactoryIds : id \in DOMAIN profiles' /\ profiles'[id] = FromProgram
  BY <1>2, <1>3, StoreBounds DEF StoreInv
<1>9. \A id \in Ids \ (SheetIds \cup FactoryIds) :
         /\ id \in DOMAIN profiles' <=> id \in DOMAIN files
         /\ id \in DOMAIN files => profiles'[id] = FromFile(files[id])
  <2> TAKE id \in Ids \ (SheetIds \cup FactoryIds)
  <2>1. id \in DOMAIN profiles' <=> id \in DOMAIN profiles
    BY <1>1, <1>2, <1>3
  <2>2. id \in DOMAIN profiles => profiles'[id] = profiles[id]
    BY <1>2, <1>3
  <2> QED BY <2>1, <2>2 DEF StoreInv
<1>10. StoreInv'
  BY <1>2, <1>5, <1>6, <1>7, <1>8, <1>9 DEF StoreInv
<1>11. \A id \in SheetIds : R!BuiltIn(id)' <=> id \in MCRows(s)
  BY <1>1, <1>2, <1>4 DEF R!BuiltIn, R!Known
<1>12. SheetsAre(s)'
  BY <1>1, <1>4, <1>11 DEF SheetsAre
<1> QED BY <1>10, <1>12
-----------------------------------------------------------------------------
(* What the steps of a sync and of an update keep.                          *)
LEMMA BeginKeeps ==
    ASSUME SyncInv, NEW p \in R!Syncers, R!At(p, "idle"), R!Begin(p),
           UNCHANGED <<profiles, files, edits, faults, config, configFile, cache, unsaved>>
    PROVE  SyncInv'
<1>1. CASE UNCHANGED <<syncing, runs, unsettled>> /\ (shown' = shown \/ shown' = [shown EXCEPT !.error = TRUE])
  <2>1. shown'.from = shown.from /\ shown' = [from |-> shown'.from, error |-> shown'.error]
    BY <1>1 DEF SyncInv, SyncTyped
  <2> QED BY <1>1, <2>1 DEF SyncInv, SyncTyped, SyncsApart, WritesApart, FetchesApart, SheetsFollow, SheetsAre,
            R!BuiltIn, R!Known, Pc, Of, Alone, Syncing, Replaced
<1>2. CASE /\ ~syncing /\ config.url # NoSheet /\ syncing' = TRUE
           /\ R!Joins(p, [R!Still EXCEPT !.pc = "fetch", !.with = config], R!Syncs)
           /\ unsettled' = (unsettled \/ R!Syncs # {})
           /\ UNCHANGED shown
  <2> DEFINE next == [R!Still EXCEPT !.pc = "fetch", !.with = config]
  <2>1. config \in Given /\ config.url \in Sheets
    BY <1>2, SheetsKnown DEF SyncInv, SyncTyped
  <2>2. next \in RunType /\ next.pc = "fetch" /\ next.with = config
    BY <2>1 DEF R!Still, RunType, SyncPlaces
  <2> HIDE DEF next
  <2>3. R!Joins(p, next, R!Syncs)
    BY <1>2 DEF next
  <2>4. Pc(p) = "idle" /\ p \notin R!Syncs /\ runs \in [R!Syncers -> RunType]
    BY SyncsAre DEF SyncInv, SyncTyped, Syncing
  <2>5. R!Syncs \in SUBSET R!Syncers
    BY SyncsAre
  <2>6. /\ runs' \in [R!Syncers -> RunType]
        /\ Pc(p)' = "fetch" /\ Of(p)' = config /\ (Alone(p)' <=> R!Syncs = {})
        /\ \A q \in R!Syncers : q # p => Pc(q)' = Pc(q) /\ Of(q)' = Of(q)
        /\ \A q \in R!Syncers : q # p => (Alone(q)' <=> Alone(q) /\ q \notin R!Syncs)
    BY <2>2, <2>3, <2>4, <2>5, JoinsMeans
  <2>7. \A q \in R!Syncers : Syncing(q) <=> q \in R!Syncs
    BY SyncsAre
  <2>8. \A q \in R!Syncers : q # p => (Syncing(q)' <=> Syncing(q))
    BY <2>6 DEF Syncing
  <2>9. Syncing(p)' /\ ~Syncing(p)
    BY <2>4, <2>6 DEF Syncing
  <2>10. SyncTyped'
    BY <1>2, <2>1, <2>6, <2>8 DEF SyncInv, SyncTyped
  <2>11. unsettled' <=> unsettled \/ R!Syncs # {}
    BY <1>2
  <2>12. SyncsApart'
    BY <2>6, <2>7, <2>8, <2>9, <2>11 DEF SyncInv, SyncsApart
  <2>13. \A q \in R!Syncers : Pc(q)' = "write" <=> Pc(q) = "write"
    BY <2>4, <2>6
  <2>14. \A q \in R!Syncers : Pc(q)' = "persist" <=> Pc(q) = "persist"
    BY <2>4, <2>6
  <2>15. \A q \in R!Syncers : Pc(q) = "write" => Of(q)' = Of(q) /\ (Alone(q)' <=> Alone(q))
    BY <2>4, <2>6, <2>7 DEF Syncing
  <2>16. WritesApart'
    BY <2>13, <2>14, <2>15 DEF SyncInv, WritesApart
  <2>17. FetchesApart'
    BY <1>2, <2>6 DEF SyncInv, FetchesApart
  <2>18. \A q \in R!Syncers : (Replaced(q)' <=> Replaced(q)) /\ (Replaced(q) => Syncing(q) /\ q # p)
    BY <2>4, <2>6 DEF Replaced, Syncing
  <2>19. \A q \in R!Syncers : Replaced(q) => ~Alone(q)' /\ Of(q)' = Of(q)
    BY <2>6, <2>7, <2>18
  <2>20. \A c : SheetsAre(c)' <=> SheetsAre(c)
    BY DEF SheetsAre, R!BuiltIn, R!Known
  <2>21. \A q \in R!Syncers : Pc(q)' = "report" => Replaced(q)'
    BY DEF Replaced
  <2>22. SheetsFollow'
    BY <1>2, <2>11, <2>18, <2>19, <2>20, <2>21 DEF SyncInv, SheetsFollow
  <2> QED BY <2>10, <2>12, <2>16, <2>17, <2>22 DEF SyncInv
<1> QED BY <1>1, <1>2 DEF R!Begin

LEMMA UpdateKeeps ==
    ASSUME SyncInv, NEW p \in R!Syncers, NEW c \in MCConfigs, R!Update(p, c)
    PROVE  SyncInv'
<1>1. Pc(p) = "idle" /\ config' = c /\ UNCHANGED <<profiles, files, edits, faults, configFile, cache, syncing, unsettled, unsaved>>
  BY SyncsAre DEF R!Update, R!profilevars
<1> DEFINE next == [R!Still EXCEPT !.pc = "persist", !.with = c, !.wakes = c.enabled]
<1>2. c \in Given /\ c.enabled \in BOOLEAN
  BY SheetsKnown DEF Given
<1>3. next \in RunType /\ next.pc = "persist" /\ next.with = c
  BY <1>2 DEF R!Still, RunType, SyncPlaces
<1>4. runs' = [runs EXCEPT ![p] = next]
  BY DEF R!Update
<1> HIDE DEF next
<1>5. /\ runs' \in [R!Syncers -> RunType]
      /\ Pc(p)' = "persist"
      /\ \A q \in R!Syncers : q # p => Pc(q)' = Pc(q) /\ Of(q)' = Of(q) /\ (Alone(q)' <=> Alone(q))
  BY <1>3, <1>4, SetMeans DEF SyncInv, SyncTyped
<1>6. shown'.from = shown.from /\ shown' = [from |-> shown'.from, error |-> shown'.error]
  BY DEF R!Update, SyncInv, SyncTyped
<1>7. \A q \in R!Syncers : (Syncing(q)' <=> Syncing(q)) /\ (Replaced(q)' <=> Replaced(q)) /\ (Syncing(q) => q # p)
        /\ (Pc(q)' = "write" <=> Pc(q) = "write") /\ (Pc(q)' = "fetch" <=> Pc(q) = "fetch")
        /\ (Pc(q)' = "report" <=> Pc(q) = "report")
        /\ (Replaced(q) => q # p) /\ (Pc(q) = "write" => q # p) /\ (Pc(q) = "report" => q # p)
  BY <1>1, <1>5 DEF Syncing, Replaced
<1>8. \A s : SheetsAre(s)' <=> SheetsAre(s)
  BY <1>1 DEF SheetsAre, R!BuiltIn, R!Known
<1>9. SyncTyped'
  BY <1>1, <1>2, <1>5, <1>6, <1>7 DEF SyncInv, SyncTyped
<1>10. SyncsApart'
  BY <1>1, <1>5, <1>7 DEF SyncInv, SyncsApart
<1>11. WritesApart'
  BY <1>1, <1>5, <1>7 DEF SyncInv, WritesApart
<1>12. FetchesApart'
  BY <1>1, <1>7 DEF SyncInv, FetchesApart
<1>13. SheetsFollow'
  BY <1>1, <1>5, <1>6, <1>7, <1>8 DEF SyncInv, SheetsFollow
<1> QED BY <1>9, <1>10, <1>11, <1>12, <1>13 DEF SyncInv
LEMMA ReadConfigKeeps ==
    ASSUME SyncInv, NEW p \in R!Syncers, R!ReadConfig(p)
    PROVE  SyncInv'
<1>1. Pc(p) = "persist"
      /\ UNCHANGED <<profiles, files, edits, faults, config, configFile, cache, syncing, shown, unsettled>>
  BY SyncsAre DEF R!ReadConfig, R!profilevars
<1> DEFINE next == [runs[p] EXCEPT !.pc = "write", !.with = config]
<1>2. runs[p] \in RunType /\ config \in Given
  BY DEF SyncInv, SyncTyped
<1>3. next \in RunType /\ next.pc = "write" /\ next.with = config
  BY <1>2 DEF RunType, SyncPlaces
<1> HIDE DEF next
<1>4. R!Joins(p, next, R!Writes) /\ unsaved' = (unsaved \/ R!Writes # {})
  BY DEF R!ReadConfig, next
<1>5. p \notin R!Writes /\ R!Writes \in SUBSET R!Syncers /\ \A q \in R!Syncers : q \in R!Writes <=> Pc(q) = "write"
  BY <1>1, SyncsAre
<1>6. /\ runs' \in [R!Syncers -> RunType]
      /\ Pc(p)' = "write" /\ Of(p)' = config /\ (Alone(p)' <=> R!Writes = {})
      /\ \A q \in R!Syncers : q # p => Pc(q)' = Pc(q) /\ Of(q)' = Of(q)
      /\ \A q \in R!Syncers : q # p => (Alone(q)' <=> Alone(q) /\ q \notin R!Writes)
  BY <1>3, <1>4, <1>5, JoinsMeans DEF SyncInv, SyncTyped
<1>7. \A q \in R!Syncers : (Syncing(q)' <=> Syncing(q)) /\ (Replaced(q)' <=> Replaced(q))
        /\ (Pc(q)' = "fetch" <=> Pc(q) = "fetch") /\ (Pc(q)' = "report" <=> Pc(q) = "report")
        /\ (Syncing(q) => q # p /\ q \notin R!Writes) /\ (Replaced(q) => Syncing(q)) /\ (Pc(q) = "report" => Syncing(q))
  BY <1>1, <1>5, <1>6 DEF Syncing, Replaced
<1>8. \A q \in R!Syncers : Syncing(q) => Of(q)' = Of(q) /\ (Alone(q)' <=> Alone(q))
  BY <1>6, <1>7
<1>9. \A s : SheetsAre(s)' <=> SheetsAre(s)
  BY <1>1 DEF SheetsAre, R!BuiltIn, R!Known
<1>10. SyncTyped'
  BY <1>1, <1>6, <1>7, <1>8 DEF SyncInv, SyncTyped
<1>11. SyncsApart'
  BY <1>1, <1>7, <1>8 DEF SyncInv, SyncsApart
<1>12. unsaved' <=> unsaved \/ R!Writes # {}
  BY <1>4
<1>13. WritesApart'
  BY <1>1, <1>5, <1>6, <1>12 DEF SyncInv, WritesApart
<1>14. FetchesApart'
  BY <1>1, <1>7 DEF SyncInv, FetchesApart
<1>15. SheetsFollow'
  BY <1>1, <1>7, <1>8, <1>9 DEF SyncInv, SheetsFollow
<1> QED BY <1>10, <1>11, <1>13, <1>14, <1>15 DEF SyncInv

LEMMA EndMeans ==
    ASSUME SyncInv, NEW p \in R!Syncers, R!Ends(p)
    PROVE  /\ runs' \in [R!Syncers -> RunType] /\ Pc(p)' = "idle"
           /\ \A q \in R!Syncers : q # p => Pc(q)' = Pc(q) /\ Of(q)' = Of(q) /\ (Alone(q)' <=> Alone(q))
           /\ ~Syncing(p)' /\ ~Replaced(p)'
           /\ \A q \in R!Syncers : q # p => (Syncing(q)' <=> Syncing(q)) /\ (Replaced(q)' <=> Replaced(q))
<1>1. runs' = [runs EXCEPT ![p] = R!Still]
  BY DEF R!Ends
<1>2. /\ runs' \in [R!Syncers -> RunType] /\ Pc(p)' = "idle"
      /\ \A q \in R!Syncers : q # p => Pc(q)' = Pc(q) /\ Of(q)' = Of(q) /\ (Alone(q)' <=> Alone(q))
  BY <1>1, StillIs, SetMeans DEF SyncInv, SyncTyped
<1> QED BY <1>2 DEF Syncing, Replaced

LEMMA WriteConfigKeeps ==
    ASSUME StoreInv, SyncInv, NEW p \in R!Syncers, R!WriteConfig(p) \/ R!WriteConfigFails(p)
    PROVE  SyncInv'
<1>1. Pc(p) = "write" /\ R!Ends(p)
      /\ UNCHANGED <<profiles, files, edits, config, cache, syncing, shown, unsettled>>
  BY SyncsAre DEF R!WriteConfig, R!WriteConfigFails, R!profilevars
<1>2. /\ runs' \in [R!Syncers -> RunType] /\ Pc(p)' = "idle"
      /\ \A q \in R!Syncers : q # p => Pc(q)' = Pc(q) /\ Of(q)' = Of(q) /\ (Alone(q)' <=> Alone(q))
      /\ ~Syncing(p)' /\ ~Replaced(p)'
      /\ \A q \in R!Syncers : q # p => (Syncing(q)' <=> Syncing(q)) /\ (Replaced(q)' <=> Replaced(q))
  BY <1>1, EndMeans
<1>3. ~Syncing(p) /\ ~Replaced(p)
  BY <1>1 DEF Syncing, Replaced
<1>4. \A q \in R!Syncers : (Syncing(q)' <=> Syncing(q)) /\ (Replaced(q)' <=> Replaced(q)) /\ (Syncing(q) => q # p)
        /\ (Pc(q)' = "fetch" <=> Pc(q) = "fetch") /\ (Pc(q)' = "report" <=> Pc(q) = "report")
        /\ (Replaced(q) => q # p) /\ (Pc(q) = "report" => q # p)
  BY <1>1, <1>2, <1>3
<1>5. \A s : SheetsAre(s)' <=> SheetsAre(s)
  BY <1>1 DEF SheetsAre, R!BuiltIn, R!Known
<1>6. faults' = 0 => faults = 0
  <2>1. CASE R!WriteConfig(p)
    BY <2>1 DEF R!WriteConfig, R!profilevars
  <2>2. CASE R!WriteConfigFails(p)
    <3>1. faults \in 0..MaxFaults /\ faults' = faults + 1
      BY <2>2 DEF R!WriteConfigFails, StoreInv
    <3> QED BY <3>1, StoreBounds
  <2> QED BY <2>1, <2>2
<1>7. configFile' \in Given
  BY <1>1 DEF R!WriteConfig, R!WriteConfigFails, SyncInv, SyncTyped, RunType
<1>8. SyncTyped'
  BY <1>1, <1>2, <1>4, <1>7 DEF SyncInv, SyncTyped
<1>9. SyncsApart'
  BY <1>1, <1>2, <1>4 DEF SyncInv, SyncsApart
<1>10. WritesApart'
  <2>1. CASE R!WriteConfig(p)
    <3>1. configFile' = Of(p) /\ (unsaved' <=> unsaved /\ ~Alone(p))
      BY <2>1 DEF R!WriteConfig, Of, Alone
    <3>2. Alone(p) => \A q \in R!Syncers : Pc(q)' # "write"
      BY <1>1, <1>2 DEF SyncInv, WritesApart
    <3>3. ~unsaved => Alone(p)
      BY <1>1 DEF SyncInv, WritesApart
    <3>4. Alone(p) /\ (\A q \in R!Syncers : Pc(q)' # "persist") => configFile' = config
      BY <1>1, <1>2, <3>1 DEF SyncInv, WritesApart
    <3> QED BY <1>1, <1>2, <3>1, <3>2, <3>3, <3>4 DEF SyncInv, WritesApart
  <2>2. CASE R!WriteConfigFails(p)
    <3>1. unsaved' = TRUE
      BY <2>2 DEF R!WriteConfigFails
    <3> QED BY <1>1, <1>2, <3>1 DEF SyncInv, WritesApart
  <2> QED BY <2>1, <2>2
<1>11. FetchesApart'
  BY <1>1, <1>4, <1>6 DEF SyncInv, FetchesApart
<1>12. SheetsFollow'
  BY <1>1, <1>2, <1>4, <1>5 DEF SyncInv, SheetsFollow
<1> QED BY <1>8, <1>9, <1>10, <1>11, <1>12 DEF SyncInv

(* A sync neither reads nor writes the configuration's file.                *)
LEMMA OthersWrite ==
    ASSUME SyncInv, NEW p \in R!Syncers, Pc(p) \notin {"persist", "write"}, Pc(p)' \notin {"persist", "write"},
           \A q \in R!Syncers : q # p => Pc(q)' = Pc(q) /\ Of(q)' = Of(q) /\ (Alone(q)' <=> Alone(q)),
           UNCHANGED <<config, configFile, unsaved>>
    PROVE  WritesApart'
<1>1. \A q \in R!Syncers : (Pc(q)' = "write" <=> Pc(q) = "write") /\ (Pc(q)' = "persist" <=> Pc(q) = "persist")
        /\ (Pc(q) = "write" => q # p)
  OBVIOUS
<1> QED BY <1>1 DEF SyncInv, WritesApart

LEMMA FetchedKeeps ==
    ASSUME SyncInv, NEW p \in R!Syncers, R!Fetched(p)
    PROVE  SyncInv'
<1>1. Pc(p) = "fetch" /\ R!To(p, "replace") /\ syncing' = FALSE
      /\ UNCHANGED <<profiles, files, edits, faults, config, configFile, cache, shown, unsettled, unsaved>>
  BY SyncsAre DEF R!Fetched, R!profilevars
<1>2. /\ runs' \in [R!Syncers -> RunType]
      /\ Pc(p)' = "replace" /\ Of(p)' = Of(p) /\ (Alone(p)' <=> Alone(p))
      /\ \A q \in R!Syncers : q # p => Pc(q)' = Pc(q) /\ Of(q)' = Of(q) /\ (Alone(q)' <=> Alone(q))
  BY <1>1, ToMeans DEF SyncInv, SyncTyped, SyncPlaces
<1>3. \A q \in R!Syncers : (Syncing(q)' <=> Syncing(q)) /\ (Replaced(q)' <=> Replaced(q))
        /\ (Pc(q)' = "report" <=> Pc(q) = "report")
        /\ Of(q)' = Of(q) /\ (Alone(q)' <=> Alone(q))
  BY <1>1, <1>2 DEF Syncing, Replaced
<1>4. \A s : SheetsAre(s)' <=> SheetsAre(s)
  BY <1>1 DEF SheetsAre, R!BuiltIn, R!Known
<1>5. SyncTyped'
  BY <1>1, <1>2, <1>3 DEF SyncInv, SyncTyped
<1>6. SyncsApart'
  BY <1>1, <1>3 DEF SyncInv, SyncsApart
<1>7. WritesApart'
  BY <1>1, <1>2, OthersWrite
<1>8. FetchesApart'
  BY <1>1, <1>2 DEF SyncInv, FetchesApart
<1>9. SheetsFollow'
  BY <1>1, <1>3, <1>4 DEF SyncInv, SheetsFollow
<1> QED BY <1>5, <1>6, <1>7, <1>8, <1>9 DEF SyncInv

LEMMA FetchFailsKeeps ==
    ASSUME StoreInv, SyncInv, NEW p \in R!Syncers, R!FetchFails(p)
    PROVE  SyncInv'
<1>1. Pc(p) = "fetch" /\ R!Ends(p)
      /\ UNCHANGED <<profiles, files, edits, config, configFile, cache, unsettled, unsaved>>
  BY SyncsAre DEF R!FetchFails
<1>2. /\ runs' \in [R!Syncers -> RunType] /\ Pc(p)' = "idle"
      /\ \A q \in R!Syncers : q # p => Pc(q)' = Pc(q) /\ Of(q)' = Of(q) /\ (Alone(q)' <=> Alone(q))
      /\ ~Syncing(p)' /\ ~Replaced(p)'
      /\ \A q \in R!Syncers : q # p => (Syncing(q)' <=> Syncing(q)) /\ (Replaced(q)' <=> Replaced(q))
  BY <1>1, EndMeans
<1>3. shown'.from = shown.from /\ shown' = [from |-> shown'.from, error |-> shown'.error]
  BY DEF R!FetchFails, SyncInv, SyncTyped
<1>4. faults' # 0
  <2>1. faults \in 0..MaxFaults /\ faults' = faults + 1
    BY DEF R!FetchFails, StoreInv
  <2> QED BY <2>1, StoreBounds
<1>5. \A s : SheetsAre(s)' <=> SheetsAre(s)
  BY <1>1 DEF SheetsAre, R!BuiltIn, R!Known
<1>6. ~Replaced(p)
  BY <1>1 DEF Replaced
<1>7. SyncTyped'
  BY <1>1, <1>2, <1>3 DEF SyncInv, SyncTyped
<1>8. SyncsApart'
  BY <1>1, <1>2 DEF SyncInv, SyncsApart
<1>9. WritesApart'
  BY <1>1, <1>2, OthersWrite
<1>10. FetchesApart'
  BY <1>4 DEF FetchesApart
<1>11. SheetsFollow'
  BY <1>1, <1>2, <1>3, <1>5, <1>6 DEF SyncInv, SheetsFollow
<1> QED BY <1>7, <1>8, <1>9, <1>10, <1>11 DEF SyncInv

LEMMA ReplaceKeeps ==
    ASSUME StoreInv, SyncInv, NEW p \in R!Syncers, R!Replace(p)
    PROVE  StoreInv' /\ SyncInv'
<1>1. Pc(p) = "replace" /\ R!To(p, "cache")
      /\ UNCHANGED <<files, edits, faults, config, configFile, cache, syncing, shown, unsettled, unsaved>>
  BY SyncsAre DEF R!Replace
<1>2. /\ runs' \in [R!Syncers -> RunType]
      /\ Pc(p)' = "cache" /\ Of(p)' = Of(p) /\ (Alone(p)' <=> Alone(p))
      /\ \A q \in R!Syncers : q # p => Pc(q)' = Pc(q) /\ Of(q)' = Of(q) /\ (Alone(q)' <=> Alone(q))
  BY <1>1, ToMeans DEF SyncInv, SyncTyped, SyncPlaces
<1>3. Syncing(p)
  BY <1>1 DEF Syncing
<1>4. PICK s \in Sheets : s = Of(p).url
  BY <1>3 DEF SyncInv, SyncTyped
<1>5. profiles' = R!Replaced(profiles, MCRows(s), s) /\ faults' \in 0..MaxFaults
  BY <1>1, <1>4 DEF R!Replace, Of, StoreInv
<1>6. StoreInv' /\ SheetsAre(s)'
  BY <1>1, <1>5, ReplacedSheets
<1>7. \A q \in R!Syncers : (Syncing(q)' <=> Syncing(q)) /\ Of(q)' = Of(q) /\ (Alone(q)' <=> Alone(q))
        /\ (Pc(q)' = "fetch" <=> Pc(q) = "fetch") /\ (Pc(q)' = "report" <=> Pc(q) = "report")
  BY <1>1, <1>2 DEF Syncing
<1>8. \A q \in R!Syncers : Replaced(q)' => Syncing(q)
  BY <1>7 DEF Syncing, Replaced
<1>9. Replaced(p)'
  BY <1>2 DEF Replaced
<1>10. SyncTyped'
  BY <1>1, <1>2, <1>7 DEF SyncInv, SyncTyped
<1>11. SyncsApart'
  BY <1>1, <1>7 DEF SyncInv, SyncsApart
<1>12. WritesApart'
  BY <1>1, <1>2, OthersWrite
<1>13. FetchesApart'
  BY <1>1, <1>7 DEF SyncInv, FetchesApart
<1>14. \A q \in R!Syncers : Alone(q)' /\ Replaced(q)' => q = p
  BY <1>3, <1>7, <1>8 DEF SyncInv, SyncsApart
<1>15. Pc(p)' # "report"
  BY <1>2
<1>16. \A q \in R!Syncers : Pc(q)' = "report" => Replaced(q)'
  BY DEF Replaced
<1>17. SheetsFollow'
  BY <1>2, <1>4, <1>6, <1>9, <1>14, <1>15, <1>16 DEF SheetsFollow
<1> QED BY <1>6, <1>10, <1>11, <1>12, <1>13, <1>17 DEF SyncInv

LEMMA WriteCacheKeeps ==
    ASSUME SyncInv, NEW p \in R!Syncers, R!WriteCache(p)
    PROVE  SyncInv'
<1>1. Pc(p) = "cache" /\ R!To(p, "report") /\ cache' = Of(p).url
      /\ UNCHANGED <<profiles, files, edits, faults, config, configFile, syncing, shown, unsettled, unsaved>>
  BY SyncsAre DEF R!WriteCache, R!profilevars, Of
<1>2. /\ runs' \in [R!Syncers -> RunType]
      /\ Pc(p)' = "report" /\ Of(p)' = Of(p) /\ (Alone(p)' <=> Alone(p))
      /\ \A q \in R!Syncers : q # p => Pc(q)' = Pc(q) /\ Of(q)' = Of(q) /\ (Alone(q)' <=> Alone(q))
  BY <1>1, ToMeans DEF SyncInv, SyncTyped, SyncPlaces
<1>3. \A q \in R!Syncers : (Syncing(q)' <=> Syncing(q)) /\ (Replaced(q)' <=> Replaced(q))
        /\ Of(q)' = Of(q) /\ (Alone(q)' <=> Alone(q)) /\ (Pc(q)' = "fetch" <=> Pc(q) = "fetch")
        /\ (Replaced(q) => Syncing(q)) /\ (Pc(q)' = "report" => Replaced(q))
  BY <1>1, <1>2 DEF Syncing, Replaced
<1>4. \A s : SheetsAre(s)' <=> SheetsAre(s)
  BY <1>1 DEF SheetsAre, R!BuiltIn, R!Known
<1>5. Syncing(p) /\ Replaced(p)
  BY <1>1 DEF Syncing, Replaced
<1>6. SyncTyped'
  BY <1>1, <1>2, <1>3, <1>5 DEF SyncInv, SyncTyped
<1>7. SyncsApart'
  BY <1>1, <1>3 DEF SyncInv, SyncsApart
<1>8. WritesApart'
  BY <1>1, <1>2, OthersWrite
<1>9. FetchesApart'
  BY <1>1, <1>3 DEF SyncInv, FetchesApart
<1>10. \A q \in R!Syncers : Alone(q)' /\ Pc(q)' = "report" => q = p
  BY <1>3, <1>5 DEF SyncInv, SyncsApart
<1>11. SheetsFollow'
  BY <1>1, <1>3, <1>4, <1>5, <1>10 DEF SyncInv, SheetsFollow
<1> QED BY <1>6, <1>7, <1>8, <1>9, <1>11 DEF SyncInv

LEMMA WriteCacheFailsKeeps ==
    ASSUME StoreInv, SyncInv, NEW p \in R!Syncers, R!WriteCacheFails(p)
    PROVE  SyncInv'
<1>1. Pc(p) = "cache" /\ R!Ends(p) /\ unsettled' = TRUE
      /\ UNCHANGED <<profiles, files, edits, config, configFile, cache, unsaved>>
  BY SyncsAre DEF R!WriteCacheFails
<1>2. /\ runs' \in [R!Syncers -> RunType] /\ Pc(p)' = "idle"
      /\ \A q \in R!Syncers : q # p => Pc(q)' = Pc(q) /\ Of(q)' = Of(q) /\ (Alone(q)' <=> Alone(q))
      /\ ~Syncing(p)' /\ ~Replaced(p)'
      /\ \A q \in R!Syncers : q # p => (Syncing(q)' <=> Syncing(q)) /\ (Replaced(q)' <=> Replaced(q))
  BY <1>1, EndMeans
<1>3. shown'.from = shown.from /\ shown' = [from |-> shown'.from, error |-> shown'.error]
  BY DEF R!WriteCacheFails, SyncInv, SyncTyped
<1>4. faults' # 0
  <2>1. faults \in 0..MaxFaults /\ faults' = faults + 1
    BY DEF R!WriteCacheFails, StoreInv
  <2> QED BY <2>1, StoreBounds
<1>5. \A s : SheetsAre(s)' <=> SheetsAre(s)
  BY <1>1 DEF SheetsAre, R!BuiltIn, R!Known
<1>7. SyncTyped'
  BY <1>1, <1>2, <1>3 DEF SyncInv, SyncTyped
<1>8. SyncsApart'
  BY <1>1, <1>2 DEF SyncInv, SyncsApart
<1>9. WritesApart'
  BY <1>1, <1>2, OthersWrite
<1>10. FetchesApart'
  BY <1>4 DEF FetchesApart
<1>11. SheetsFollow'
  BY <1>1, <1>2, <1>3, <1>5 DEF SyncInv, SheetsFollow
<1> QED BY <1>7, <1>8, <1>9, <1>10, <1>11 DEF SyncInv

LEMMA ReportKeeps ==
    ASSUME SyncInv, NEW p \in R!Syncers, R!Report(p)
    PROVE  SyncInv'
<1>1. Pc(p) = "report" /\ R!Ends(p) /\ (unsettled' <=> unsettled /\ ~Alone(p))
      /\ UNCHANGED <<profiles, files, edits, faults, config, configFile, cache, syncing, unsaved>>
  BY SyncsAre DEF R!Report, R!profilevars, Alone
<1>2. /\ runs' \in [R!Syncers -> RunType] /\ Pc(p)' = "idle"
      /\ \A q \in R!Syncers : q # p => Pc(q)' = Pc(q) /\ Of(q)' = Of(q) /\ (Alone(q)' <=> Alone(q))
      /\ ~Syncing(p)' /\ ~Replaced(p)'
      /\ \A q \in R!Syncers : q # p => (Syncing(q)' <=> Syncing(q)) /\ (Replaced(q)' <=> Replaced(q))
  BY <1>1, EndMeans
<1>3. Syncing(p) /\ Replaced(p)
  BY <1>1 DEF Syncing, Replaced
<1>4. shown'.from = Of(p).url /\ shown' = [from |-> shown'.from, error |-> shown'.error] /\ Of(p).url \in Sheets
  BY <1>3 DEF R!Report, SyncInv, SyncTyped, Of
<1>5. \A s : SheetsAre(s)' <=> SheetsAre(s)
  BY <1>1 DEF SheetsAre, R!BuiltIn, R!Known
<1>6. Alone(p) => SheetsAre(Of(p).url) /\ cache = Of(p).url /\ \A q \in R!Syncers : ~Syncing(q)'
  BY <1>1, <1>2, <1>3 DEF SyncInv, SyncsApart, SheetsFollow
<1>7. ~unsettled' => Alone(p)
  BY <1>1, <1>3 DEF SyncInv, SyncsApart
<1>8. SyncTyped'
  BY <1>1, <1>2, <1>4 DEF SyncInv, SyncTyped
<1>9. SyncsApart'
  BY <1>1, <1>2, <1>6, <1>7 DEF SyncInv, SyncsApart
<1>10. WritesApart'
  BY <1>1, <1>2, OthersWrite
<1>11. FetchesApart'
  BY <1>1, <1>2 DEF SyncInv, FetchesApart
<1>12. ~unsettled' => SheetsAre(cache)' /\ cache' = shown'.from
  BY <1>1, <1>4, <1>5, <1>6, <1>7
<1>13. SheetsFollow'
  BY <1>1, <1>2, <1>5, <1>12 DEF SyncInv, SheetsFollow
<1> QED BY <1>8, <1>9, <1>10, <1>11, <1>13 DEF SyncInv

LEMMA RestartSyncKeeps ==
    ASSUME StoreInv, SyncInv, R!RestartSync
    PROVE  StoreInv' /\ SyncInv'
<1>1. /\ config' = configFile /\ syncing' = FALSE /\ shown' = [from |-> cache, error |-> FALSE]
      /\ runs' = [p \in R!Syncers |-> R!Still] /\ unsettled' = FALSE /\ unsaved' = FALSE
      /\ UNCHANGED <<files, edits, configFile, cache>>
  BY DEF R!RestartSync
<1>2. faults' \in 0..MaxFaults
  <2>1. faults \in 0..MaxFaults /\ faults < MaxFaults /\ faults' = faults + 1
    BY DEF R!RestartSync, StoreInv
  <2> QED BY <2>1, StoreBounds
<1>3. cache \in Sheets \cup {NoSheet} /\ configFile \in Given
  BY DEF SyncInv, SyncTyped
<1>4. StoreInv' /\ SheetsAre(cache)'
  <2>1. CASE cache = NoSheet
    <3>1. profiles' = R!Loaded(files)
      BY <2>1 DEF R!RestartSync
    <3>2. StoreInv' /\ SheetsAre(NoSheet)'
      BY <1>1, <1>2, <3>1, ReloadKeeps, LoadedSheets
    <3> QED BY <1>1, <2>1, <3>2
  <2>2. CASE cache # NoSheet
    <3>1. PICK s \in Sheets : s = cache
      BY <1>3, <2>2
    <3>2. profiles' = R!Replaced(R!Loaded(files), MCRows(s), s)
      BY <2>2, <3>1 DEF R!RestartSync
    <3>3. StoreInv' /\ SheetsAre(s)'
      BY <1>1, <1>2, <3>2, ReplacedSheets
    <3> QED BY <1>1, <3>1, <3>3
  <2> QED BY <2>1, <2>2
<1>5. \A p \in R!Syncers : Pc(p)' = "idle"
  BY <1>1, StillIs DEF Pc
<1>6. \A p \in R!Syncers : ~Syncing(p)' /\ ~Replaced(p)' /\ Pc(p)' # "write" /\ Pc(p)' # "fetch" /\ Pc(p)' # "report"
  BY <1>5 DEF Syncing, Replaced
<1>7. shown'.from = cache' /\ shown' = [from |-> shown'.from, error |-> shown'.error]
  BY <1>1
<1>8. runs' \in [R!Syncers -> RunType]
  BY <1>1, StillIs
<1>9. SyncTyped'
  BY <1>1, <1>3, <1>6, <1>7, <1>8 DEF SyncTyped
<1>10. SyncsApart' /\ WritesApart' /\ FetchesApart'
  BY <1>1, <1>6 DEF SyncsApart, WritesApart, FetchesApart
<1>11. SheetsFollow'
  BY <1>1, <1>4, <1>6, <1>7 DEF SheetsFollow
<1> QED BY <1>4, <1>9, <1>10, <1>11 DEF SyncInv

LEMMA FaultsGrow == ASSUME StoreInv, R!UserEdits PROVE faults' = 0 => faults = 0
<1>1. faults' = faults \/ faults' = faults + 1
  BY DEF R!UserEdits, R!Edit, R!Save, R!Import, R!Duplicate, R!Delete, R!Stored
<1>2. faults \in 0..MaxFaults
  BY DEF StoreInv
<1> QED BY <1>1, <1>2, StoreBounds

LEMMA EditSyncedKeeps ==
    ASSUME StoreInv, SyncInv, R!EditSynced
    PROVE  StoreInv' /\ SyncInv'
<1>1. R!UserEdits /\ UNCHANGED <<config, configFile, cache, syncing, shown, wake, runs, asked, unsettled, unsaved>>
  BY DEF R!EditSynced, R!syncvars
<1>2. StoreInv' /\ \A c : SheetsAre(c) => SheetsAre(c)'
  BY <1>1, EditsTouch, EditedSheets
<1>3. faults' = 0 => faults = 0
  BY <1>1, FaultsGrow
<1>4. \A p \in R!Syncers : Pc(p)' = Pc(p) /\ Of(p)' = Of(p) /\ (Alone(p)' <=> Alone(p))
        /\ (Syncing(p)' <=> Syncing(p)) /\ (Replaced(p)' <=> Replaced(p))
  BY <1>1 DEF Pc, Of, Alone, Syncing, Replaced
<1>5. SyncTyped' /\ SyncsApart' /\ WritesApart' /\ FetchesApart'
  BY <1>1, <1>3, <1>4 DEF SyncInv, SyncTyped, SyncsApart, WritesApart, FetchesApart
<1>6. SheetsFollow'
  BY <1>1, <1>2, <1>4 DEF SyncInv, SheetsFollow
<1> QED BY <1>2, <1>5, <1>6 DEF SyncInv
-----------------------------------------------------------------------------
(* Range sync while another part of the program runs.                       *)
LEMMA StillMeans == ASSUME SyncStill PROVE SyncInv
<1>1. \A p \in R!Syncers : Pc(p) = "idle"
  BY StillIs DEF Pc, SyncStill
<1>2. \A p \in R!Syncers : ~Syncing(p) /\ ~Replaced(p) /\ Pc(p) # "write" /\ Pc(p) # "fetch" /\ Pc(p) # "report"
  BY <1>1 DEF Syncing, Replaced
<1>3. runs \in [R!Syncers -> RunType]
  BY StillIs DEF SyncStill
<1>4. SyncTyped
  BY <1>2, <1>3 DEF SyncTyped, SyncStill, Given
<1> QED BY <1>2, <1>4 DEF SyncStill, SyncInv, SyncsApart, WritesApart, FetchesApart, SheetsFollow

LEMMA SyncBegins == R!RangeSyncInit => SyncInv /\ SyncStill
<1> SUFFICES ASSUME R!RangeSyncInit PROVE SyncInv /\ SyncStill
  OBVIOUS
<1>1. /\ runs = [p \in R!Syncers |-> R!Still] /\ config = R!Off /\ configFile = R!Off /\ cache = NoSheet
      /\ shown = [from |-> NoSheet, error |-> FALSE] /\ profiles = R!Loaded(files) /\ DOMAIN files = {}
  BY DEF R!RangeSyncInit, R!ProfilesInit
<1>2. \A id \in SheetIds : ~R!BuiltIn(id)
  BY <1>1, LoadedIs, StoreBounds DEF R!BuiltIn, R!Known
<1>3. SyncStill
  BY <1>1, <1>2 DEF SyncStill, SheetsAre
<1> QED BY <1>3, StillMeans

LEMMA SyncStays ==
    ASSUME StoreInv, SyncInv, [R!RangeSyncNext]_<<pvars, rvars>>
    PROVE  StoreInv' /\ SyncInv'
<1>1. CASE UNCHANGED <<pvars, rvars>>
  <2>1. \A p \in R!Syncers : Pc(p)' = Pc(p) /\ Of(p)' = Of(p) /\ (Alone(p)' <=> Alone(p))
        /\ (Syncing(p)' <=> Syncing(p)) /\ (Replaced(p)' <=> Replaced(p))
    BY <1>1 DEF rvars, Pc, Of, Alone, Syncing, Replaced
  <2>2. \A c : SheetsAre(c)' <=> SheetsAre(c)
    BY <1>1 DEF pvars, SheetsAre, R!BuiltIn, R!Known
  <2>3. StoreInv'
    BY <1>1 DEF pvars, StoreInv
  <2> QED BY <1>1, <2>1, <2>2, <2>3
        DEF pvars, rvars, SyncInv, SyncTyped, SyncsApart, WritesApart, FetchesApart, SheetsFollow
<1>2. ASSUME NEW p \in R!Syncers, R!At(p, "idle"), R!Begin(p),
             UNCHANGED <<profiles, files, edits, faults, config, configFile, cache, unsaved>>
      PROVE  StoreInv' /\ SyncInv'
  <2>1. StoreInv'
    BY <1>2 DEF StoreInv
  <2> QED BY <1>2, <2>1, BeginKeeps
<1>3. Loop \in R!Syncers /\ Askers \subseteq R!Syncers
  BY DEF R!Syncers
<1>4. ASSUME R!Woken \/ R!Tick PROVE StoreInv' /\ SyncInv'
  BY <1>2, <1>3, <1>4 DEF R!Woken, R!Tick, R!profilevars
<1>5. ASSUME NEW p \in Askers, R!SyncNow(p) PROVE StoreInv' /\ SyncInv'
  BY <1>2, <1>3, <1>5 DEF R!SyncNow, R!profilevars
<1>6. ASSUME NEW p \in Askers, NEW c \in MCConfigs, R!Update(p, c) PROVE StoreInv' /\ SyncInv'
  <2>1. StoreInv'
    BY <1>6 DEF R!Update, R!profilevars, StoreInv
  <2> QED BY <1>3, <1>6, <2>1, UpdateKeeps
<1>7. ASSUME NEW p \in R!Syncers,
             R!ReadConfig(p) \/ R!WriteConfig(p) \/ R!Fetched(p) \/ R!WriteCache(p) \/ R!Report(p)
      PROVE  StoreInv' /\ SyncInv'
  <2>1. UNCHANGED <<profiles, files, edits, faults>>
    BY <1>7 DEF R!ReadConfig, R!WriteConfig, R!Fetched, R!WriteCache, R!Report, R!profilevars
  <2>2. StoreInv'
    BY <2>1 DEF StoreInv
  <2> QED BY <1>7, <2>2, ReadConfigKeeps, WriteConfigKeeps, FetchedKeeps, WriteCacheKeeps, ReportKeeps
<1>8. ASSUME NEW p \in R!Syncers, R!WriteConfigFails(p) \/ R!FetchFails(p) \/ R!WriteCacheFails(p)
      PROVE  StoreInv' /\ SyncInv'
  <2>1. UNCHANGED <<profiles, files, edits>> /\ faults < MaxFaults /\ faults' = faults + 1
    BY <1>8 DEF R!WriteConfigFails, R!FetchFails, R!WriteCacheFails
  <2>2. faults \in 0..MaxFaults
    BY DEF StoreInv
  <2>3. faults' \in 0..MaxFaults
    BY <2>1, <2>2, StoreBounds
  <2>4. StoreInv'
    BY <2>1, <2>3 DEF StoreInv
  <2> QED BY <1>8, <2>4, WriteConfigKeeps, FetchFailsKeeps, WriteCacheFailsKeeps
<1> QED BY <1>1, <1>4, <1>5, <1>6, <1>7, <1>8, ReplaceKeeps, RestartSyncKeeps, EditSyncedKeeps
        DEF R!RangeSyncNext, R!Continue

LEMMA DatabaseSheets ==
    ASSUME StoreInv, DatabaseInv, D!LocalDatabaseNext, SheetsAre(NoSheet)
    PROVE  SheetsAre(NoSheet)'
<1>1. ASSUME UNCHANGED profiles PROVE SheetsAre(NoSheet)'
  BY <1>1 DEF SheetsAre, R!BuiltIn, R!Known
<1>2. ASSUME NEW s \in Scanners, NEW id \in LibraryIds, D!ImportFile(s, id) PROVE SheetsAre(NoSheet)'
  <2>1. R!Save(id, scans[s].folder) /\ edits' \in 0..MaxEdits /\ id \in Ids
    BY <1>2, Same DEF D!ImportFile, StoreInv, Ids
  <2>2. PICK f : f = scans[s].folder
    OBVIOUS
  <2>3. /\ Touches(id) /\ ~R!BuiltIn(id)
        /\ faults' = faults => id \in DOMAIN profiles' /\ profiles'[id] = FromFile(f)
        /\ faults' # faults => UNCHANGED profiles
    BY <2>1, <2>2, SaveKeeps
  <2>4. faults' = faults => ~profiles'[id].builtIn
    BY <2>3, MadeOf
  <2> QED BY <1>1, <2>1, <2>3, <2>4, TouchedSheets
<1>3. ASSUME NEW s \in Scanners, D!RestartDatabase(s) PROVE SheetsAre(NoSheet)'
  <2>1. profiles' = R!Loaded(files)
    BY <1>3, LoadedIs DEF D!RestartDatabase
  <2> QED BY <2>1, LoadedSheets
<1>4. ASSUME NEW s \in Scanners,
             D!AskScan(s) \/ (\E f \in Folders : D!WriteFolder(s, f)) \/ D!KeepFolder(s) \/ D!BeginScan(s)
             \/ D!ScanRefused(s) \/ D!EndScan(s)
      PROVE  SheetsAre(NoSheet)'
  <2>1. UNCHANGED profiles
    BY <1>4 DEF D!AskScan, D!WriteFolder, D!KeepFolder, D!BeginScan, D!ScanRefused, D!EndScan, D!profilevars
  <2> QED BY <1>1, <2>1
<1>5. CASE D!EditLibrary
  BY <1>5, Same, EditedSheets DEF D!EditLibrary
<1> QED BY <1>2, <1>3, <1>4, <1>5 DEF D!LocalDatabaseNext, D!ContinueScan

LEMMA SyncMeans ==
    ASSUME SyncInv, R!ProfilesTypeOK
    PROVE  R!RangeSyncTypeOK /\ R!SyncAgrees /\ R!OneDownload /\ R!ConfigSaved
<1>1. R!RangeSyncTypeOK
  <2>1. \A p \in R!Syncs : runs[p].with.url # NoSheet
    BY SyncsAre, SheetsKnown DEF SyncInv, SyncTyped, Of
  <2> QED BY <2>1 DEF SyncInv, SyncTyped, R!RangeSyncTypeOK, Given
<1>2. R!SyncAgrees
  <2>1. SUFFICES ASSUME R!Syncs = {}, ~unsettled PROVE R!Served = cache /\ cache = shown.from
    BY DEF R!SyncAgrees
  <2>2. \A p \in R!Syncers : ~Replaced(p)
    BY <2>1, SyncsAre DEF Syncing, Replaced
  <2>3. SheetsAre(cache) /\ cache = shown.from
    BY <2>1, <2>2 DEF SyncInv, SheetsFollow
  <2> DEFINE synced == {id \in SheetIds : R!BuiltIn(id)}
  <2>4. \A id \in synced : profiles[id].content = cache
    BY <2>3 DEF SheetsAre
  <2>5. synced = {} <=> cache = NoSheet
    BY <2>3 DEF SheetsAre
  <2>6. R!Served = IF synced = {} THEN NoSheet ELSE profiles[CHOOSE id \in synced : TRUE].content
    BY DEF R!Served
  <2> HIDE DEF synced
  <2>7. synced # {} => (CHOOSE id \in synced : TRUE) \in synced
    OBVIOUS
  <2>8. R!Served = cache
    BY <2>4, <2>5, <2>6, <2>7
  <2> QED BY <2>3, <2>8
<1>3. R!OneDownload
  <2>1. SUFFICES ASSUME faults = 0 PROVE R!Cardinality({p \in R!Syncers : R!At(p, "fetch")}) <= 1
    BY DEF R!OneDownload
  <2> DEFINE fetching == {p \in R!Syncers : R!At(p, "fetch")}
  <2>2. \A p, q \in fetching : p = q
    BY <2>1, SyncsAre DEF SyncInv, FetchesApart
  <2>3. Cardinality(fetching) <= 1
    <3>1. CASE fetching = {}
      BY <3>1, FS_EmptySet
    <3>2. CASE fetching # {}
      <4>1. PICK p : p \in fetching
        BY <3>2
      <4>2. fetching = {p}
        BY <2>2, <4>1
      <4>3. Cardinality({p}) = 1
        BY FS_Singleton
      <4> HIDE DEF fetching
      <4> QED BY <4>2, <4>3
    <3> QED BY <3>1, <3>2
  <2> QED BY <2>3 DEF R!Cardinality, Cardinality
<1>4. R!ConfigSaved
  BY SyncsAre DEF SyncInv, WritesApart, R!ConfigSaved
<1> QED BY <1>1, <1>2, <1>3, <1>4

-----------------------------------------------------------------------------
(* The services together.                                                   *)
ServicesInv ==
    /\ StoreInv /\ DatabaseInv
    /\ part # "database" => DatabaseStill
    /\ IF part = "sync" THEN SyncInv ELSE SyncStill
    /\ ModelInv /\ InstallInv /\ SamplesInv /\ RemotesInv

LEMMA ServicesBegin == MCInit => ServicesInv
<1>1. MCInit => R!ProfilesInit /\ R!RangeSyncInit /\ D!LocalDatabaseInit /\ C!SamplesInit /\ N!RemotesInit
                /\ A!LocalModelInit /\ I!InstallerInit
  BY DEF MCInit, R!RangeSyncInit
<1> QED BY <1>1, StoreBegins, DatabaseBegins, SyncBegins, ModelBegins, InstallBegins, SamplesBegin, RemotesBegin
        DEF ServicesInv

(* The profiles are of range sync or of the local database.                 *)
LEMMA ProfilesStay ==
    ASSUME ServicesInv,
           \/ part = "sync" /\ [R!RangeSyncNext]_<<pvars, rvars>> /\ UNCHANGED <<part, dvars>>
           \/ part = "database" /\ D!LocalDatabaseNext /\ UNCHANGED <<part, rvars>>
           \/ UNCHANGED <<part, pvars, rvars, dvars>>
    PROVE  /\ StoreInv' /\ DatabaseInv'
           /\ part' # "database" => DatabaseStill'
           /\ IF part' = "sync" THEN SyncInv' ELSE SyncStill'
<1>1. CASE part = "sync" /\ [R!RangeSyncNext]_<<pvars, rvars>> /\ UNCHANGED <<part, dvars>>
  <2>1. StoreInv' /\ SyncInv'
    BY <1>1, SyncStays DEF ServicesInv
  <2>2. DatabaseInv' /\ DatabaseStill'
    BY <1>1, DatabaseStaysStill DEF ServicesInv
  <2> QED BY <1>1, <2>1, <2>2
<1>2. CASE part = "database" /\ D!LocalDatabaseNext /\ UNCHANGED <<part, rvars>>
  <2>1. StoreInv' /\ DatabaseInv'
    BY <1>2, DatabaseStays DEF ServicesInv
  <2>2. SyncStill
    BY <1>2 DEF ServicesInv
  <2>3. SheetsAre(NoSheet)'
    BY <1>2, <2>2, DatabaseSheets DEF ServicesInv, SyncStill
  <2>4. SyncStill'
    BY <1>2, <2>2, <2>3 DEF SyncStill, rvars
  <2> QED BY <1>2, <2>1, <2>4
<1>3. CASE UNCHANGED <<part, pvars, rvars, dvars>>
  <2>1. StoreInv' /\ DatabaseInv'
    BY <1>3, DatabaseStays DEF ServicesInv
  <2>2. part # "database" => DatabaseStill'
    BY <1>3, DatabaseStaysStill DEF ServicesInv
  <2>3. part = "sync" => SyncInv'
    BY <1>3, SyncStays DEF ServicesInv
  <2>4. part # "sync" => SyncStill'
    BY <1>3 DEF ServicesInv, SyncStill, SheetsAre, R!BuiltIn, R!Known, pvars, rvars
  <2> QED BY <1>3, <2>1, <2>2, <2>3, <2>4
<1> QED BY <1>1, <1>2, <1>3

LEMMA ServicesStay == ServicesInv /\ [MCNext]_allvars => ServicesInv'
<1> SUFFICES ASSUME ServicesInv, [MCNext]_allvars PROVE ServicesInv'
  OBVIOUS
<1>1. /\ \/ part = "sync" /\ [R!RangeSyncNext]_<<pvars, rvars>> /\ UNCHANGED <<part, dvars>>
         \/ part = "database" /\ D!LocalDatabaseNext /\ UNCHANGED <<part, rvars>>
         \/ UNCHANGED <<part, pvars, rvars, dvars>>
      /\ [A!LocalModelNext]_avars /\ [I!InstallerNext]_ivars /\ [C!SamplesNext]_cvars /\ [N!RemotesNext]_nvars
  BY DEF MCNext, Sync, Scan, Ask, Install, Confirm, Remote, allvars
<1>2. /\ StoreInv' /\ DatabaseInv'
      /\ part' # "database" => DatabaseStill'
      /\ IF part' = "sync" THEN SyncInv' ELSE SyncStill'
  BY <1>1, ProfilesStay
<1>3. ModelInv' /\ InstallInv' /\ SamplesInv' /\ RemotesInv'
  BY <1>1, ModelStays, InstallStays, SamplesStay, RemotesStay DEF ServicesInv
<1> QED BY <1>2, <1>3 DEF ServicesInv

LEMMA ServicesMean == ServicesInv => ServicesTypeOK /\ ProfilesAgree /\ ServicesTruthful
<1> SUFFICES ASSUME ServicesInv PROVE ServicesTypeOK /\ ProfilesAgree /\ ServicesTruthful
  OBVIOUS
<1>1. SyncInv
  BY StillMeans DEF ServicesInv
<1>2. R!ReloadAgrees /\ R!FactoryKept /\ R!ProfilesTypeOK /\ D!ProfilesTypeOK
  BY StoreMeans DEF ServicesInv
<1>3. R!RangeSyncTypeOK /\ R!SyncAgrees /\ R!OneDownload /\ R!ConfigSaved
  BY <1>1, <1>2, SyncMeans
<1>4. D!LocalDatabaseTypeOK /\ D!OneScan /\ D!ReportedImported /\ D!FolderSaved
  BY <1>2, DatabaseMeans DEF ServicesInv
<1>5. A!OneCall /\ A!AnswerGrounded /\ A!ContradictionDoubted /\ A!LocalModelTypeOK
  BY ModelMeans DEF ServicesInv
<1>6. I!OneInstallation /\ I!ReadyWorks /\ I!InstalledFound /\ I!InstallerTypeOK
  BY InstallMeans DEF ServicesInv
<1>7. C!ConfirmedKept /\ C!OneSamplePerEvent /\ C!SamplesTypeOK /\ N!RemotesListed /\ N!RemotesTypeOK
  BY SamplesMean, RemotesMean DEF ServicesInv
<1> QED BY <1>2, <1>3, <1>4, <1>5, <1>6, <1>7 DEF ServicesTypeOK, ProfilesAgree, ServicesTruthful

(* Every part of the services keeps its types, the profiles included that   *)
(* range sync and local database both change.                               *)
THEOREM ServicesTyped == MCSpec => []ServicesTypeOK
BY ServicesBegin, ServicesStay, ServicesMean, PTL DEF MCSpec

(* A restart serves the profiles served now, no profile of the program is   *)
(* replaced, and at rest profiles, cache and status are of one sheet and    *)
(* config.json is the configuration in force (ProfileStore,                 *)
(* RangeSyncManager).                                                       *)
THEOREM ProfilesAlwaysAgree == MCSpec => []ProfilesAgree
BY ServicesBegin, ServicesStay, ServicesMean, PTL DEF MCSpec

(* One scan, one call of the model and one installation at a time, and what *)
(* they reported is there (LocalDatabase, LocalModel, Installer, the        *)
(* library of confirmed samples, the list of remote receivers).             *)
THEOREM ServicesStayTruthful == MCSpec => []ServicesTruthful
BY ServicesBegin, ServicesStay, ServicesMean, PTL DEF MCSpec
=============================================================================
