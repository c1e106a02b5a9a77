---------------------------- MODULE MapperTuning ----------------------------
(* The gains of one Mapper job (mapper_tuning.go).  They are applied before a *)
(* capture, and the levels of its samples may change them after it.  Gains   *)
(* are in tenths of a dB for the RTL tuner, in dB for the HackRF's stages.   *)
EXTENDS Integers, Sequences

CONSTANTS SavedLNA, SavedVGA    \* gains of jobs and calibrations; 0 where none was set

TuningAssumption == SavedLNA \subseteq {8 * i : i \in 0..5} /\ SavedVGA \subseteq {2 * i : i \in 0..31}

VARIABLES
    device,     \* kind of the receiver and its calibration
    mode,       \* gain mode and amplifier mode of the job
    gains,      \* rtlGainDB, lnaGainDB, vgaGainDB, ampEnabled
    quiet,      \* quietCaptures
    readings    \* history: what the last two captures were like

tuningvars == <<device, mode, gains, quiet, readings>>

(* Clipped or without headroom; well below the target of the sensitivity;    *)
(* between the two.  The limits of a kind of receiver do not overlap.        *)
Readings == {"overloaded", "quiet", "fair"}
(* rtlAutoGainSteps *)
Steps == <<15, 90, 140, 190, 240, 290, 340, 420>>
Hack == device.kind = "HackRF"

(* Every value is one that the receivers accept: the LNA has steps of 8 up to *)
(* 40, the VGA steps of 2 up to 62.                                         *)
TuningTypeOK ==
    /\ device.kind \in {"HackRF", "RTL-SDR"}
    /\ mode \in [gain : {"auto", "manual", "saved"}, amp : {"auto", "on", "off"}]
    /\ gains.rtl \in {Steps[i] : i \in DOMAIN Steps} \cup {10 * v : v \in SavedVGA}
    /\ gains.lna \in {8 * i : i \in 0..5} /\ gains.vga \in {2 * i : i \in 0..31}
    /\ gains.amp \in BOOLEAN
    /\ quiet \in 0..1
    /\ readings \in Seq(Readings) /\ Len(readings) <= 2

Saved(value, otherwise) == IF device.calibrated /\ value > 0 THEN value ELSE otherwise

(* newMapperAdaptiveTuning: the job's own gains in manual mode, otherwise     *)
(* those of the calibration, or middle values.                               *)
TuningInit ==
    /\ device \in [kind : {"HackRF", "RTL-SDR"}, calibrated : BOOLEAN, lna : SavedLNA, vga : SavedVGA,
                   amp : BOOLEAN]
    /\ mode \in [gain : {"auto", "manual", "saved"}, amp : {"auto", "on", "off"}]
    /\ \E lna \in SavedLNA, vga \in SavedVGA :
          gains = [rtl |-> IF ~Hack /\ mode.gain = "saved" THEN Saved(10 * device.vga, Steps[1]) ELSE Steps[1],
                   lna |-> IF Hack /\ mode.gain # "manual" THEN Saved(device.lna, 16) ELSE lna,
                   vga |-> IF Hack /\ mode.gain # "manual" THEN Saved(device.vga, 16) ELSE vga,
                   amp |-> Hack /\ \/ mode.amp = "on"
                                   \/ mode = [gain |-> "saved", amp |-> "auto"] /\ device.calibrated /\ device.amp]
    /\ quiet = 0
    /\ readings = <<>>

(* apply: what a capture is configured with.  With saved gains a HackRF keeps *)
(* what the capture had from its calibration, or its defaults; the manual    *)
(* gain of an RTL tuner is the job's.                                       *)
Applied ==
    IF ~Hack THEN (IF mode.gain = "manual" THEN <<"job">> ELSE <<gains.rtl>>)
    ELSE IF mode.gain = "saved" /\ device.calibrated THEN <<device.lna, device.vga, gains.amp>>
    ELSE IF mode.gain = "saved" THEN <<24, 20, gains.amp>>
    ELSE <<gains.lna, gains.vga, gains.amp>>

---------------------------------------------------------------------------
(* After a capture.  A second quiet one in a row raises a gain; on the RTL   *)
(* tuner an overload between the two does not count as an interruption.      *)

Second == quiet = 1
Counted == quiet' = IF Second THEN 0 ELSE 1

LowerRTL ==
    LET above == {i \in 2..Len(Steps) : gains.rtl >= Steps[i]} IN
    gains' = [gains EXCEPT !.rtl =
        IF above = {} THEN Steps[1] ELSE Steps[(CHOOSE i \in above : \A j \in above : j <= i) - 1]]

RaiseRTL ==
    LET above == {i \in DOMAIN Steps : gains.rtl < Steps[i]} IN
    gains' = [gains EXCEPT !.rtl = IF above = {} THEN @ ELSE Steps[CHOOSE i \in above : \A j \in above : i <= j]]

AdjustRTL(reading) ==
    CASE reading = "overloaded" -> LowerRTL /\ UNCHANGED quiet
      [] reading = "quiet" -> Counted /\ (IF Second THEN RaiseRTL ELSE UNCHANGED gains)
      [] OTHER -> quiet' = 0 /\ UNCHANGED gains

(* The amplifier is the first stage to go and the first to come. *)
LowerHackRF ==
    gains' = IF mode.amp = "auto" /\ gains.amp THEN [gains EXCEPT !.amp = FALSE]
             ELSE IF gains.vga >= 4 THEN [gains EXCEPT !.vga = @ - 4]
             ELSE IF gains.lna >= 8 THEN [gains EXCEPT !.lna = @ - 8]
             ELSE gains

(* Faulty variant: LNA and VGA are compared the wrong way round. *)
RaiseSwapped ==
    gains' = IF mode.amp = "auto" /\ ~gains.amp THEN [gains EXCEPT !.amp = TRUE]
             ELSE IF gains.lna < 40 /\ gains.vga <= gains.lna + 8 THEN [gains EXCEPT !.lna = @ + 8]
             ELSE IF gains.vga < 62 THEN [gains EXCEPT !.vga = IF @ < 58 THEN @ + 4 ELSE 62]
             ELSE gains

(* LNA and VGA rise in turn. *)
RaiseHackRF ==
    gains' = IF mode.amp = "auto" /\ ~gains.amp THEN [gains EXCEPT !.amp = TRUE]
             ELSE IF gains.lna < 40 /\ gains.lna <= gains.vga + 8 THEN [gains EXCEPT !.lna = @ + 8]
             ELSE IF gains.vga < 62 THEN [gains EXCEPT !.vga = IF @ < 58 THEN @ + 4 ELSE 62]
             ELSE gains

(* Faulty variant: an overload does not end a run of quiet captures. *)
AdjustForgetful(reading) ==
    CASE reading = "overloaded" -> LowerHackRF /\ UNCHANGED quiet
      [] reading = "quiet" -> Counted /\ (IF Second THEN RaiseHackRF ELSE UNCHANGED gains)
      [] OTHER -> quiet' = 0 /\ UNCHANGED gains

AdjustHackRF(reading) ==
    CASE reading = "overloaded" -> LowerHackRF /\ quiet' = 0
      [] reading = "quiet" -> Counted /\ (IF Second THEN RaiseHackRF ELSE UNCHANGED gains)
      [] OTHER -> quiet' = 0 /\ UNCHANGED gains

Noted(reading) == readings' = IF Len(readings) < 2 THEN Append(readings, reading) ELSE <<readings[2], reading>>

(* Faulty variant: every mode adapts. *)
ObserveAlways(reading) ==
    /\ IF Hack THEN AdjustHackRF(reading) ELSE AdjustRTL(reading)
    /\ Noted(reading)
    /\ UNCHANGED <<device, mode>>

Observe(reading) ==
    /\ IF mode.gain # "auto" THEN UNCHANGED <<gains, quiet>>
       ELSE IF Hack THEN AdjustHackRF(reading) ELSE AdjustRTL(reading)
    /\ Noted(reading)
    /\ UNCHANGED <<device, mode>>

TuningNext == \E reading \in Readings : Observe(reading)

---------------------------------------------------------------------------
Last(reading) == readings # <<>> /\ readings[Len(readings)] = reading
Louder ==
    gains'.rtl > gains.rtl \/ gains'.lna > gains.lna \/ gains'.vga > gains.vga \/ (gains'.amp /\ ~gains.amp)
Softer ==
    gains'.rtl < gains.rtl \/ gains'.lna < gains.lna \/ gains'.vga < gains.vga \/ (gains.amp /\ ~gains'.amp)
Least ==
    IF Hack THEN gains.vga < 4 /\ gains.lna < 8 /\ (mode.amp = "auto" => ~gains.amp) ELSE gains.rtl = Steps[1]
Most ==
    IF Hack THEN gains.vga = 62 /\ gains.lna = 40 /\ (mode.amp = "auto" => gains.amp)
    ELSE gains.rtl = Steps[Len(Steps)]

(* "Requiring two quiet captures avoids enabling the ~11 dB RF stage for a    *)
(* momentary lull": a HackRF's gain rises only after two in a row, an RTL's  *)
(* only on a quiet one.                                                     *)
RaisedWhenQuiet ==
    [][Louder => IF Hack THEN readings' = <<"quiet", "quiet">> ELSE Last("quiet")']_tuningvars

(* Each overloaded capture takes gain away as long as there is any to take.  *)
OverloadLowers ==
    [][mode.gain = "auto" /\ Last("overloaded")' => (Softer /\ ~Louder) \/ Least]_tuningvars

(* Manual and saved gains stay as they were asked for. *)
AskedGainsKept == [][mode.gain # "auto" => Applied' = Applied]_tuningvars

(* A receiver that stays quiet is brought to its full sensitivity, whatever   *)
(* the calibration began with: a second quiet capture in a row finds a stage *)
(* to raise until there is none.                                            *)
QuietReachesMost ==
    [][mode.gain = "auto" /\ Second /\ Last("quiet")' => Louder \/ Most]_tuningvars
=============================================================================
