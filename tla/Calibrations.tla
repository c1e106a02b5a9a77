------------------------------ MODULE Calibrations ------------------------------
(***************************************************************************)
(* Calibrations of the receivers (calibration.go; attachCalibrations and   *)
(* Refresh in runtime.go): a store in memory, its file, replaced as one,   *)
(* and the copies attached to the receivers that captures use.             *)
(***************************************************************************)
EXTENDS Naturals

CONSTANTS
    Callers,   \* requests in progress
    Receivers, \* receivers that are connected
    MaxEdits,  \* bound: calibrations saved and deleted
    MaxFaults  \* bound: writes that fail, and restarts

CalibrationsAssumption == {MaxEdits, MaxFaults} \subseteq Nat

VARIABLES
    items,    \* CalibrationStore.items: per receiver the last edit, 0 for none
    disk,     \* the calibration file
    attached, \* Device.Calibration of each receiver
    editors,  \* per caller: what it does
    edits,    \* edits so far, saves and deletions, in the order of the store
    acked,    \* per receiver: the newest edit that was acknowledged
    losses,   \* failed writes and restarts so far
    behind    \* a write failed after items changed, and nothing was attached since

calvars == <<items, disk, attached, editors, edits, acked, losses, behind>>

Gone == [pc |-> "idle", receiver |-> 0, edit |-> 0]

TypeOK ==
    /\ edits \in 0..MaxEdits
    /\ \A r \in Receivers : {items[r], disk[r], attached[r], acked[r]} \subseteq 0..edits
    /\ \A c \in Callers : editors[c].pc = "attach" /\ editors[c].edit # 0 =>
         items[editors[c].receiver] >= editors[c].edit

Init ==
    /\ items = [r \in Receivers |-> 0]
    /\ disk = items /\ attached = items /\ acked = items
    /\ editors = [c \in Callers |-> Gone]
    /\ edits = 0 /\ losses = 0 /\ behind = FALSE

Step(c, next) == editors' = [editors EXCEPT ![c] = next]

-----------------------------------------------------------------------------
(* AutoCalibrate finds the receiver unused, and measures without reserving  *)
(* it.                                                                      *)
Measure(c, r) ==
    /\ editors[c].pc = "idle" /\ edits < MaxEdits
    /\ Step(c, [Gone EXCEPT !.pc = "save", !.receiver = r])
    /\ UNCHANGED <<items, disk, attached, edits, acked, losses, behind>>

MeasureFails(c) ==
    /\ editors[c].pc = "save"
    /\ Step(c, Gone)
    /\ UNCHANGED <<items, disk, attached, edits, acked, losses, behind>>

\* Faulty variant: a receiver that was calibrated before keeps its entry on disk.
EditStale(c, r) ==
    /\ edits < MaxEdits /\ edits' = edits + 1
    /\ items' = [items EXCEPT ![r] = edits']
    /\ \/ /\ disk' = [items EXCEPT ![r] = IF @ = 0 THEN edits' ELSE @]
          /\ Step(c, [pc |-> "attach", receiver |-> r, edit |-> edits'])
          /\ UNCHANGED <<losses, behind>>
       \/ /\ losses < MaxFaults /\ losses' = losses + 1
          /\ Step(c, Gone) /\ behind' = TRUE
          /\ UNCHANGED disk
    /\ UNCHANGED <<attached, acked>>

\* Faulty variant: the change reaches the file only.
EditDisk(c, r) ==
    /\ edits < MaxEdits /\ edits' = edits + 1
    /\ disk' = [items EXCEPT ![r] = edits']
    /\ Step(c, [pc |-> "attach", receiver |-> r, edit |-> edits'])
    /\ UNCHANGED <<items, attached, acked, losses, behind>>

(* Save and Delete change the store and write all of it; one that could not *)
(* write reports the error, and keeps the change in memory.                 *)
Edit(c, r) ==
    /\ edits < MaxEdits /\ edits' = edits + 1
    /\ items' = [items EXCEPT ![r] = edits']
    /\ \/ /\ disk' = items'
          /\ Step(c, [pc |-> "attach", receiver |-> r, edit |-> edits'])
          /\ UNCHANGED <<losses, behind>>
       \/ /\ losses < MaxFaults /\ losses' = losses + 1
          /\ Step(c, Gone) /\ behind' = TRUE
          /\ UNCHANGED disk
    /\ UNCHANGED <<attached, acked>>

SaveMeasured(c) == editors[c].pc = "save" /\ Edit(c, editors[c].receiver)
SaveOrDelete(c, r) == editors[c].pc = "idle" /\ Edit(c, r)

\* Faulty variant: a caller attaches the calibration it made.
AttachOwn(c) ==
    /\ editors[c].pc = "attach"
    /\ attached' = IF editors[c].edit = 0 THEN items
                   ELSE [attached EXCEPT ![editors[c].receiver] = editors[c].edit]
    /\ acked' = IF editors[c].edit = 0 \/ editors[c].edit <= acked[editors[c].receiver] THEN acked
                ELSE [acked EXCEPT ![editors[c].receiver] = editors[c].edit]
    /\ behind' = FALSE
    /\ Step(c, Gone)
    /\ UNCHANGED <<items, disk, edits, losses>>

(* All receivers get what the store holds now; the edit is acknowledged. *)
Attach(c) ==
    /\ editors[c].pc = "attach"
    /\ attached' = items
    /\ acked' = IF editors[c].edit = 0 \/ editors[c].edit <= acked[editors[c].receiver] THEN acked
                ELSE [acked EXCEPT ![editors[c].receiver] = editors[c].edit]
    /\ behind' = FALSE
    /\ Step(c, Gone)
    /\ UNCHANGED <<items, disk, edits, losses>>

(* A hardware refresh installs receivers without calibration, then attaches. *)
Refresh(c) ==
    /\ editors[c].pc = "idle"
    /\ attached' = [r \in Receivers |-> 0]
    /\ Step(c, [Gone EXCEPT !.pc = "attach"])
    /\ UNCHANGED <<items, disk, edits, acked, losses, behind>>

(* The program is killed and reads its file. *)
Restart ==
    /\ losses < MaxFaults /\ losses' = losses + 1
    /\ items' = disk /\ attached' = disk
    /\ editors' = [c \in Callers |-> Gone]
    /\ behind' = FALSE
    /\ UNCHANGED <<disk, edits, acked>>

Next ==
    \/ \E c \in Callers :
         \/ \E r \in Receivers : Measure(c, r) \/ SaveOrDelete(c, r)
         \/ MeasureFails(c) \/ SaveMeasured(c) \/ Attach(c) \/ Refresh(c)
    \/ Restart

Spec == Init /\ [][Next]_calvars

-----------------------------------------------------------------------------
(* When no request is in progress every receiver carries what the store     *)
(* holds, whatever order saves, deletions and refreshes attached in, unless *)
(* a write failed since (attachCalibrations, SaveCalibration).              *)
AttachedAgree ==
    (\A c \in Callers : editors[c].pc = "idle") /\ ~behind => attached = items

(* The file never falls behind an acknowledged edit, so a restart loses     *)
(* none, also when writes of other edits failed (writeLocked).              *)
AckedOnDisk == \A r \in Receivers : disk[r] >= acked[r]
=============================================================================
