---------------------------- MODULE MapperRecords ----------------------------
(***************************************************************************)
(* What Mapper knows of each frequency (mapper.go), its file, and the      *)
(* sheet the rows are sent to.  Observations create and refresh records,   *)
(* decoders, references and the local model add evidence, a loop saves and *)
(* uploads every 15 s, and requests upload, clear and configure meanwhile. *)
(*                                                                         *)
(* Time counts observations.  A record's evidence is its decoder verdict,  *)
(* who verified it, and whether its protocol is known; every activity      *)
(* brings a name with it.                                                  *)
(***************************************************************************)
EXTENDS Naturals, FiniteSets

CONSTANTS
    Keys,          \* frequencies, rounded to 1 Hz
    Uploaders,     \* goroutines that may be uploading: the loop and requests
    LoopUploader,  \* the uploader that is the 15 s loop
    Clearer,       \* the request that clears the records
    MapperConfigs, \* settings a client may save: webhook, upload, identified only
    MaxTime,       \* bound: observations
    MaxEvents      \* bound: pieces of evidence, requests, failures and crashes

MapperRecordsAssumption ==
    /\ LoopUploader \in Uploaders /\ Clearer \notin Uploaders /\ "none" \notin Uploaders \cup {Clearer}
    /\ MapperConfigs \subseteq [hook : BOOLEAN, auto : BOOLEAN, verifiedOnly : BOOLEAN]
    /\ \A c \in MapperConfigs : c.auto => c.hook
    /\ {MaxTime, MaxEvents} \subseteq Nat

VARIABLES
    records,     \* MapperManager.records
    watermark,   \* MapperManager.lastSeen, 0 when absent
    config,      \* MapperManager.config
    configFile,  \* mapper.json, or Torn
    recordsFile, \* mapper-records.json
    saving,      \* the holder of persistMu and what it is about to write
    uploads,     \* uploads in progress
    frames,      \* frequencies whose decoded frames the event history holds
    sheet,       \* external: newest row and whether an unidentified one arrived
    clearing,    \* the clear request
    ghost,       \* owed and cleared, consent: for the properties only
    spent        \* time and events so far

vars == <<records, watermark, config, configFile, recordsFile, saving, uploads, frames, sheet,
          clearing, ghost, spent>>

Absent == [first |-> 0, seen |-> 0, status |-> "none", voice |-> FALSE,
           verified |-> "no", classified |-> FALSE]
Torn == [hook |-> FALSE, auto |-> FALSE, verifiedOnly |-> TRUE]
Unlocked == [by |-> "none", data |-> [k \in Keys |-> Absent]]
NoClear == [pc |-> "idle", at |-> 0]
NoRow == [sent |-> FALSE, seen |-> 0, identified |-> FALSE]
NoUpload == [pc |-> "idle", config |-> Torn, rows |-> [k \in Keys |-> NoRow], failed |-> FALSE]

Present(k) == records[k].first # 0
FullyIdentified(r) == r.verified # "no" /\ r.classified
Allowed(c, r) == c.verifiedOnly => FullyIdentified(r)
Row(r) == [sent |-> TRUE, seen |-> r.seen, identified |-> FullyIdentified(r)]

TypeOK ==
    /\ \A k \in Keys :
         /\ records[k].first \in 0..MaxTime /\ records[k].seen \in 0..MaxTime
         /\ records[k].status \in {"none", "candidate", "confirmed"}
         /\ records[k].verified \in {"no", "frames", "reference"}
         /\ records[k].seen # 0 => Present(k) /\ records[k].first <= records[k].seen
         /\ records[k].status # "none" => Present(k)
    /\ watermark \in [Keys -> 0..MaxTime]
    /\ {config, configFile} \subseteq MapperConfigs \cup {Torn}
    /\ saving.by \in {"none", LoopUploader, Clearer}
    /\ \A u \in Uploaders : uploads[u].pc \in {"idle", "config", "rows", "post", "finish", "save"}
    /\ frames \subseteq Keys

Init ==
    /\ records = [k \in Keys |-> Absent]
    /\ watermark = [k \in Keys |-> 0]
    /\ config \in {c \in MapperConfigs : c.verifiedOnly}
    /\ configFile = config
    /\ recordsFile = records
    /\ saving = Unlocked
    /\ uploads = [u \in Uploaders |-> NoUpload]
    /\ frames = {}
    /\ sheet = [k \in Keys |-> [seen |-> 0, unidentified |-> FALSE]]
    /\ clearing = NoClear
    /\ ghost = [owed |-> {}, cleared |-> 0, consent |-> FALSE]
    /\ spent = [time |-> 0, events |-> 0]

Spend(what, limit) == spent[what] < limit /\ spent' = [spent EXCEPT ![what] = @ + 1]

-----------------------------------------------------------------------------
\* Observations and evidence

\* Faulty variant: a check that dates a record by its activity only.
ObserveUndated(k, active, classified) ==
    /\ Spend("time", MaxTime)
    /\ classified => active
    /\ records' = [records EXCEPT ![k] =
            [@ EXCEPT !.seen = IF active THEN spent'.time ELSE @, !.classified = @ \/ classified]]
    /\ UNCHANGED <<watermark, config, configFile, recordsFile, saving, uploads, frames, sheet, clearing, ghost>>

(* One check of a frequency; an active one names it and may bring a protocol. *)
Observe(k, active, classified) ==
    /\ Spend("time", MaxTime)
    /\ classified => active
    /\ LET now == spent'.time
           r == records[k]
       IN records' = [records EXCEPT ![k] =
            [r EXCEPT !.first = IF @ = 0 THEN now ELSE @,
                      !.seen = IF active THEN now ELSE @,
                      !.classified = @ \/ classified]]
    /\ UNCHANGED <<watermark, config, configFile, recordsFile, saving, uploads, frames, sheet, clearing, ghost>>

Revise(k, r) ==
    /\ Present(k)
    /\ Spend("events", MaxEvents)
    /\ records' = [records EXCEPT ![k] = r]
    /\ UNCHANGED <<watermark, config, configFile, recordsFile, saving, uploads, frames, sheet, clearing>>

(* A guess does not replace what an authoritative reference verified; it    *)
(* changes the source and the confidence, which no property reads.          *)
SetIdentificationEvidence(k) ==
    /\ Revise(k, [records[k] EXCEPT !.verified = "reference"])
    /\ UNCHANGED ghost

\* Faulty variant: a nomination displaces confirmed frames.
SetDecoderEvidenceAlways(k) ==
    /\ Revise(k, [records[k] EXCEPT !.status = "candidate"])
    /\ UNCHANGED ghost

(* A band heuristic nominates a decoder; voice, that it is dsd-fme, matters *)
(* for confirmed frames only.                                               *)
SetDecoderEvidence(k) ==
    /\ records[k].status # "confirmed"
    /\ Revise(k, [records[k] EXCEPT !.status = "candidate"])
    /\ UNCHANGED ghost

(* The local model classifies a frequency nobody named a mode for. *)
SetSignalIntelligence(k) ==
    /\ ~records[k].classified
    /\ Revise(k, [records[k] EXCEPT !.classified = TRUE])
    /\ UNCHANGED ghost

(* Decoded frames are stored with their event first. *)
UpdateDecoderMessages(k) ==
    /\ Spend("events", MaxEvents)
    /\ k \notin frames
    /\ frames' = frames \cup {k}
    /\ UNCHANGED <<records, watermark, config, configFile, recordsFile, saving, uploads, sheet, clearing, ghost>>

Confirmed(r, voice) ==
    [r EXCEPT !.status = "confirmed", !.voice = voice, !.verified = "frames",
              !.classified = TRUE]

SetDecodedMessages(k, voice) ==
    /\ k \in frames
    /\ Revise(k, Confirmed(records[k], voice))
    /\ ghost' = [ghost EXCEPT !.owed = @ \cup {k}]

-----------------------------------------------------------------------------
\* The records file

(* persistRecords copies the records once it holds persistMu. *)
TakeSnapshot(p, data) ==
    /\ saving.by = "none"
    /\ saving' = [by |-> p, data |-> data]

Save(p) == saving.by = p /\ recordsFile' = saving.data /\ saving' = Unlocked
SaveFails(p) == saving.by = p /\ saving' = Unlocked /\ UNCHANGED recordsFile

LoopSnapshot ==
    /\ uploads[LoopUploader].pc = "save" /\ saving.by # LoopUploader
    /\ TakeSnapshot(LoopUploader, records)
    /\ UNCHANGED <<records, watermark, config, configFile, recordsFile, uploads, frames, sheet, clearing, ghost, spent>>

LoopWrite ==
    /\ uploads[LoopUploader].pc = "save"
    /\ \/ Save(LoopUploader) /\ UNCHANGED spent
       \/ SaveFails(LoopUploader) /\ Spend("events", MaxEvents)
    /\ uploads' = [uploads EXCEPT ![LoopUploader] = NoUpload]
    /\ UNCHANGED <<records, watermark, config, configFile, frames, sheet, clearing, ghost>>

ClearRecords ==
    /\ clearing.pc = "idle"
    /\ Spend("events", MaxEvents)
    /\ clearing' = [pc |-> "lock", at |-> spent.time]
    /\ records' = [k \in Keys |-> Absent]
    /\ watermark' = [k \in Keys |-> 0]
    /\ ghost' = [ghost EXCEPT !.owed = {}]
    /\ UNCHANGED <<config, configFile, recordsFile, saving, uploads, frames, sheet>>

\* Faulty variant: a clear is saved only while nobody else was saving.
ClearSnapshotSkipped ==
    /\ clearing.pc = "lock"
    /\ IF saving.by = "none"
       THEN /\ TakeSnapshot(Clearer, records)
            /\ clearing' = [clearing EXCEPT !.pc = "write"]
            /\ UNCHANGED ghost
       ELSE /\ clearing' = NoClear
            /\ ghost' = [ghost EXCEPT !.cleared = clearing.at]
            /\ UNCHANGED saving
    /\ UNCHANGED <<records, watermark, config, configFile, recordsFile, uploads, frames, sheet, spent>>

ClearSnapshot ==
    /\ clearing.pc = "lock"
    /\ TakeSnapshot(Clearer, records)
    /\ clearing' = [clearing EXCEPT !.pc = "write"]
    /\ UNCHANGED <<records, watermark, config, configFile, recordsFile, uploads, frames, sheet, ghost, spent>>

(* A failed write shows in the status the request answers with. *)
ClearWrite ==
    /\ clearing.pc = "write"
    /\ \/ /\ Save(Clearer)
          /\ ghost' = [ghost EXCEPT !.cleared = clearing.at]
          /\ UNCHANGED spent
       \/ SaveFails(Clearer) /\ Spend("events", MaxEvents) /\ UNCHANGED ghost
    /\ clearing' = NoClear
    /\ UNCHANGED <<records, watermark, config, configFile, uploads, frames, sheet>>

(* New settings: memory first, then mapper.json in place. *)
Update(c) ==
    /\ Spend("events", MaxEvents)
    /\ config' = c
    /\ configFile' \in {c, Torn}
    /\ ghost' = [ghost EXCEPT !.consent = @ \/ ~c.verifiedOnly]
    /\ UNCHANGED <<records, watermark, recordsFile, saving, uploads, frames, sheet, clearing>>

-----------------------------------------------------------------------------
\* Uploads

Advance(u, upload) == uploads' = [uploads EXCEPT ![u] = upload]

(* The loop uploads when enabled and always saves; UploadNow needs a webhook. *)
Tick ==
    /\ uploads[LoopUploader].pc = "idle"
    /\ Advance(LoopUploader, [NoUpload EXCEPT !.pc = IF config.auto THEN "config" ELSE "save"])
    /\ UNCHANGED <<records, watermark, config, configFile, recordsFile, saving, frames, sheet, clearing, ghost, spent>>

UploadNow(u) ==
    /\ u # LoopUploader /\ uploads[u].pc = "idle" /\ config.hook
    /\ Spend("events", MaxEvents)
    /\ Advance(u, [NoUpload EXCEPT !.pc = "config"])
    /\ UNCHANGED <<records, watermark, config, configFile, recordsFile, saving, frames, sheet, clearing, ghost>>

\* Faulty variant: one row on request, whatever the settings say.
UploadFrequencyUnchecked(u, k) ==
    /\ u # LoopUploader /\ uploads[u].pc = "idle" /\ Present(k) /\ config.hook
    /\ Spend("events", MaxEvents)
    /\ Advance(u, [NoUpload EXCEPT !.pc = "post", !.rows[k] = Row(records[k])])
    /\ UNCHANGED <<records, watermark, config, configFile, recordsFile, saving, frames, sheet, clearing, ghost>>

(* One row on request, however often it was sent already. *)
UploadFrequency(u, k) ==
    /\ Allowed(config, records[k])
    /\ UploadFrequencyUnchecked(u, k)

Done(u) == IF u = LoopUploader THEN [NoUpload EXCEPT !.pc = "save"] ELSE NoUpload

ReadConfig(u) ==
    /\ uploads[u].pc = "config"
    /\ Advance(u, IF config.hook THEN [NoUpload EXCEPT !.pc = "rows", !.config = config] ELSE Done(u))
    /\ UNCHANGED <<records, watermark, config, configFile, recordsFile, saving, frames, sheet, clearing, ghost, spent>>

\* Faulty variant: identified rows only, whatever the settings say.
NewRowsIdentified(c) ==
    [k \in Keys |-> IF records[k].seen > watermark[k] /\ FullyIdentified(records[k])
                    THEN Row(records[k]) ELSE NoRow]

(* Rows seen after the watermark and allowed by the settings read before. *)
NewRows(c) ==
    [k \in Keys |-> IF records[k].seen > watermark[k] /\ Allowed(c, records[k])
                    THEN Row(records[k]) ELSE NoRow]

TakeRows(u) ==
    /\ uploads[u].pc = "rows"
    /\ LET rows == NewRows(uploads[u].config)
       IN Advance(u, IF rows = NoUpload.rows THEN Done(u)
                     ELSE [NoUpload EXCEPT !.pc = "post", !.rows = rows])
    /\ UNCHANGED <<records, watermark, config, configFile, recordsFile, saving, frames, sheet, clearing, ghost, spent>>

Later(a, b) == IF a > b THEN a ELSE b

Arrive(rows) ==
    sheet' = [k \in Keys |->
        IF rows[k] = NoRow THEN sheet[k]
        ELSE [seen |-> Later(sheet[k].seen, rows[k].seen),
              unidentified |-> sheet[k].unidentified \/ ~rows[k].identified]]

(* The sheet confirms, or the rows arrive and the answer is lost, or not.   *)
Post(u) ==
    /\ uploads[u].pc = "post"
    /\ Arrive(uploads[u].rows)
    /\ Advance(u, [uploads[u] EXCEPT !.pc = "finish"])
    /\ UNCHANGED <<records, watermark, config, configFile, recordsFile, saving, frames, clearing, ghost, spent>>

PostFails(u) ==
    /\ uploads[u].pc = "post"
    /\ Spend("events", MaxEvents)
    /\ Arrive(uploads[u].rows) \/ UNCHANGED sheet
    /\ Advance(u, [uploads[u] EXCEPT !.pc = "finish", !.failed = TRUE])
    /\ UNCHANGED <<records, watermark, config, configFile, recordsFile, saving, frames, clearing, ghost>>

Mark(rows) ==
    watermark' = [k \in Keys |-> IF rows[k] = NoRow THEN watermark[k] ELSE rows[k].seen]

\* Faulty variant: a failed post counts as sent.
FinishAnyway(u) ==
    /\ uploads[u].pc = "finish"
    /\ Mark(uploads[u].rows)
    /\ Advance(u, Done(u))
    /\ UNCHANGED <<records, config, configFile, recordsFile, saving, frames, sheet, clearing, ghost, spent>>

(* The watermark becomes the time of the row sent, earlier or later. *)
FinishUpload(u) ==
    /\ uploads[u].pc = "finish"
    /\ IF uploads[u].failed THEN UNCHANGED watermark ELSE Mark(uploads[u].rows)
    /\ Advance(u, Done(u))
    /\ UNCHANGED <<records, config, configFile, recordsFile, saving, frames, sheet, clearing, ghost, spent>>

-----------------------------------------------------------------------------
\* Restart

(* A dsd-fme verdict whose saved text is no decoded line becomes a candidate. *)
Downgraded(r) ==
    [r EXCEPT !.status = "candidate", !.verified = IF @ = "frames" THEN "no" ELSE @]
Suspect(r) == r.voice /\ (r.status = "confirmed" \/ r.verified # "no")

Loaded(banners) ==
    [k \in Keys |->
        LET r == IF k \in banners THEN Downgraded(recordsFile[k]) ELSE recordsFile[k]
        IN IF k \in frames /\ r.first # 0 THEN Confirmed(r, r.voice) ELSE r]

(* The program dies and starts again; the frames of the history count again. *)
Restart ==
    /\ Spend("events", MaxEvents)
    /\ \E banners \in SUBSET {k \in Keys : Suspect(recordsFile[k])} : records' = Loaded(banners)
    /\ recordsFile' = records'
    /\ watermark' = [k \in Keys |-> 0]
    /\ config' = configFile
    /\ saving' = Unlocked
    /\ uploads' = [u \in Uploaders |-> NoUpload]
    /\ clearing' = NoClear
    /\ ghost' = [ghost EXCEPT !.owed = {k \in frames : recordsFile[k].first # 0}]
    /\ UNCHANGED <<configFile, frames, sheet>>

-----------------------------------------------------------------------------
Next ==
    \/ \E k \in Keys :
         \/ \E active, classified \in BOOLEAN : Observe(k, active, classified)
         \/ SetIdentificationEvidence(k)
         \/ SetSignalIntelligence(k)
         \/ UpdateDecoderMessages(k)
         \/ SetDecoderEvidence(k)
         \/ \E voice \in BOOLEAN : SetDecodedMessages(k, voice)
         \/ \E u \in Uploaders : UploadFrequency(u, k)
    \/ \E u \in Uploaders :
         UploadNow(u) \/ ReadConfig(u) \/ TakeRows(u) \/ Post(u) \/ PostFails(u) \/ FinishUpload(u)
    \/ Tick \/ LoopSnapshot \/ LoopWrite
    \/ ClearRecords \/ ClearSnapshot \/ ClearWrite
    \/ \E c \in MapperConfigs : Update(c)
    \/ Restart

LoopStep ==
    \/ Tick \/ LoopSnapshot \/ LoopWrite \/ ReadConfig(LoopUploader) \/ TakeRows(LoopUploader)
    \/ Post(LoopUploader) \/ FinishUpload(LoopUploader)
ClearStep == ClearSnapshot \/ ClearWrite

-----------------------------------------------------------------------------
(* An upload only moves the watermark over rows the sheet holds, whichever  *)
(* of two overlapping uploads finishes last, so that a failed or cleared    *)
(* upload never makes an observation look sent (finishUpload).              *)
WatermarkDelivered == \A k \in Keys : watermark[k] <= sheet[k].seen

(* A frequency with decoded frames stays confirmed: later band guesses do   *)
(* not displace them, and a record saved before the frames, or taken for a  *)
(* banner, is confirmed again at the next start (SetDecoderEvidence,        *)
(* reconcileMapperDecoderFrames).                                           *)
FramesKept == \A k \in ghost.owed : Present(k) => records[k].status = "confirmed"

(* What a saved clear removed does not return, neither from a save that was *)
(* under way nor from the file of a restarted program (ClearRecords).       *)
ClearSticks == \A k \in Keys : Present(k) => records[k].first > ghost.cleared

(* Without the user's consent the sheet gets fully identified rows only,    *)
(* also after settings were torn by a crash (upload, UploadFrequency).      *)
ConsentedRows == \A k \in Keys : sheet[k].unidentified => ghost.consent

(* What automatic upload still owes the sheet. *)
Pending(k) ==
    config.auto /\ Present(k) /\ Allowed(config, records[k]) /\ records[k].seen > sheet[k].seen
=============================================================================
