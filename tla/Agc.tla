-------------------------------- MODULE Agc --------------------------------
(***************************************************************************)
(* The automatic gain control of one receive chain: the state machine      *)
(* AutomaticGainControl of agc_fsm_iris.py, driven by agc_thread of        *)
(* AGC_SIM_DEMO.py, which emulates the reception of frames sample by       *)
(* sample.                                                                 *)
(*                                                                         *)
(* What the radio measures is external: a packet of an unknown level       *)
(* begins at an unknown sample of the frame, and a reading is the level    *)
(* plus the gain of the chain, clipped by the range of the RSSI register.  *)
(* Readings are not whole decibels: levels are in steps, Unit to a         *)
(* decibel.  Gains are in decibels.  The control counts in rows of the     *)
(* gain table, which are a decibel apart but for a few at its top.  The    *)
(* state "wait" is left in the callback that enters it (waitTimeout fires  *)
(* gainDone), so no step ends there.                                       *)
(***************************************************************************)
EXTENDS Integers

CONSTANTS
  MaxGain,       \* maxGain, also the last row of the gain table
  Table,         \* gainTable: per row, the gain LNA + TIA + PGA
  Knee,          \* the last row up to which a row is a decibel
  Unit,          \* steps of a decibel
  Samples,       \* samples the thread reads of a frame
  SampThresh,    \* numSampThresh: samples spent on looking for saturation
  NumAbove,      \* numSampAboveThresh: saturated samples that count
  MaxSat,        \* maxNumSatAdjust
  MaxFine,       \* maxNumFineAdjust
  Drops,         \* setSatGain: what the gain drops by, per stage
  Target,        \* targetRSSI
  SatThresh,     \* rssiSatThresh
  Floor,         \* least and greatest reading of getDigitalRSSI
  Ceiling,
  Frames,        \* maxNumFrames
  Levels,        \* levels a packet may have at the antenna
  Noise,         \* level while there is no packet
  StartGains     \* gains of the chain after the thread's first setGain

ASSUME AgcAssumption ==
  /\ MaxGain \in Nat /\ Samples \in Nat /\ SampThresh \in Nat
  /\ 0 < SampThresh /\ SampThresh + MaxFine < Samples
  /\ NumAbove \in Nat \ {0} /\ MaxSat \in Nat \ {0} /\ MaxFine \in Nat \ {0}
  /\ Drops \in [0 .. MaxSat - 1 -> Nat]
  /\ Unit \in Nat \ {0}
  /\ Target \in Int /\ SatThresh \in Int /\ Target < 0
  /\ Floor \in Int /\ Ceiling \in Int /\ Floor <= Ceiling
  /\ Frames \in Nat
  /\ Levels \subseteq Int /\ Noise \in Int
  /\ StartGains \subseteq Int

\* A row is at least a decibel above the one before, and up to Knee just one.
ASSUME TableAssumption ==
  /\ Knee \in 0 .. MaxGain
  /\ Table \in [0 .. MaxGain -> Int]
  /\ \A r, q \in 0 .. MaxGain : r <= q => q - r <= Table[q] - Table[r]
  /\ \A r \in 0 .. Knee : Table[r] = Table[0] + r

VARIABLES
  fsm,          \* state of the machine: "idle", "satDet" or "measPwrWait"
  enabled,      \* enableAGCflag
  numSat,       \* numSatSamps
  satDetected,  \* satDetectedFlag
  satGood,      \* satDetGoodFlag
  stage,        \* gainAdjustStage
  fine,         \* fineAdjustCount
  cumulative,   \* cumulativeGainAdjust
  gain,         \* gain of LNA, TIA and PGA together
  frame,        \* frames begun
  i,            \* samples read of this frame
  alive,        \* the thread has not died of an exception
  level,        \* level and first sample of this frame's packet
  start,
  base,         \* history: gain at the start of the frame
  carried,      \* history: fsm was not idle at the start of the frame
  tunes,        \* history: fine adjustments in this frame
  firstTune,    \* history: sample of the first of them
  lastDrop      \* history: sample of the last coarse adjustment

machine == <<fsm, enabled, stage, fine, cumulative, gain>>
flags   == <<numSat, satDetected, satGood>>
packet  == <<frame, level, start, base, carried>>
history == <<tunes, firstTune, lastDrop>>
vars    == <<machine, flags, packet, history, i, alive>>

Never == -1

Init ==
  /\ fsm = "idle" /\ enabled = FALSE
  /\ numSat = 0 /\ satDetected = FALSE /\ satGood = FALSE
  /\ stage = 0 /\ fine = 0 /\ cumulative = 0 /\ gain = Table[MaxGain]
  /\ frame = 0 /\ i = Samples /\ alive = TRUE
  /\ level = Noise /\ start = 0 /\ base = Table[MaxGain] /\ carried = FALSE
  /\ tunes = 0 /\ firstTune = Never /\ lastDrop = Never
-----------------------------------------------------------------------------
(* The thread: a frame begins, a sample is read *)

\* The flags are reset and the control enabled; its state, its stage and its
\* counters stay as the last frame left them.
StartFrame ==
  /\ alive /\ i = Samples /\ frame < Frames
  /\ frame' = frame + 1 /\ i' = 0
  /\ numSat' = 0 /\ satDetected' = FALSE /\ satGood' = FALSE
  /\ enabled' = TRUE
  /\ gain' \in StartGains /\ base' = gain'
  /\ level' \in Levels /\ start' \in 0 .. Samples
  /\ carried' = (fsm # "idle")
  /\ tunes' = 0 /\ firstTune' = Never /\ lastDrop' = Never
  /\ UNCHANGED <<fsm, stage, fine, cumulative, alive>>

\* What the radio measures with gain g, with and without the packet.
Clip(r)  == IF r > Ceiling THEN Ceiling ELSE IF r < Floor THEN Floor ELSE r
Reading  == Clip((IF i >= start THEN level ELSE Noise) + Unit * gain)

\* The flags as the thread leaves them for newSample.
Above    == numSat + (IF Reading > SatThresh THEN 1 ELSE 0)
Detected == satDetected \/ Above >= NumAbove
GoodOff  == satGood \/ i = SampThresh   \* Mutant: off by one
Good     == satGood \/ i = SampThresh - 1

Count(detected) ==
  /\ numSat' = IF Above >= NumAbove THEN 0 ELSE Above
  /\ satDetected' = detected
  /\ satGood' = Good

\* A sample is read while the thread is in a frame.
Sample ==
  /\ alive /\ i < Samples
  /\ i' = i + 1
  /\ UNCHANGED packet
-----------------------------------------------------------------------------
(* The machine: what newSample does, one action per rule *)

\* The row the table is asked for, and the gain it gives.
Adjusted(c) ==
  IF MaxGain - c < 0 THEN 0 ELSE IF MaxGain - c > MaxGain THEN MaxGain
                                 ELSE MaxGain - c
Setting(c) == Table[Adjusted(c)]

\* No rule applies: the control is off, or still listens for saturation.
Ignore ==
  /\ Sample /\ Count(Detected)
  /\ \/ fsm = "idle" /\ ~enabled
     \/ fsm = "satDet" /\ ~Detected /\ ~Good
  /\ UNCHANGED <<machine, history, alive>>

Wake ==
  /\ Sample /\ Count(Detected)
  /\ fsm = "idle" /\ enabled
  /\ fsm' = "satDet"
  /\ UNCHANGED <<enabled, stage, fine, cumulative, gain, history, alive>>

\* Saturation: the gain drops, and the wait ends in the same call.
SatGain ==
  /\ Sample /\ Count(FALSE)
  /\ fsm = "satDet" /\ Detected
  /\ cumulative' = cumulative + (IF stage < MaxSat THEN Drops[stage] ELSE 0)
  /\ gain' = Setting(cumulative')
  /\ stage' = stage + 1
  /\ fsm' = IF stage' >= MaxSat THEN "measPwrWait" ELSE "satDet"
  /\ lastDrop' = i
  /\ UNCHANGED <<enabled, fine, tunes, firstTune, alive>>

SatDone ==
  /\ Sample /\ Count(FALSE)
  /\ fsm = "satDet" /\ ~Detected /\ Good
  /\ fsm' = "measPwrWait"
  /\ UNCHANGED <<enabled, stage, fine, cumulative, gain, history, alive>>

Abs(r) == IF r < 0 THEN -r ELSE r

\* Mutant: rounds away from zero.
TruncateUp(d) == IF d < 0 THEN -((-d) \div Unit) - 1 ELSE (d \div Unit) + 1

\* int of a difference in steps: whole decibels, toward zero.
Truncate(d) == IF d < 0 THEN -((-d) \div Unit) ELSE d \div Unit

\* The row moves by the whole decibels of the distance from the target.
FineTune ==
  /\ Sample /\ Count(Detected)
  /\ fsm = "measPwrWait" /\ fine < MaxFine /\ Reading < 0
  /\ stage' = MaxSat
  /\ cumulative' = cumulative + Truncate(Abs(Target) - Abs(Reading))
  /\ gain' = Setting(cumulative')
  /\ fine' = fine + 1
  /\ tunes' = tunes + 1 /\ firstTune' = IF tunes = 0 THEN i ELSE firstTune
  /\ UNCHANGED <<fsm, enabled, lastDrop, alive>>

\* A reading that is not negative: rssiDiff has no value, and the exception
\* ends the thread.
StillSaturated ==
  /\ Sample /\ Count(Detected)
  /\ fsm = "measPwrWait" /\ fine < MaxFine /\ Reading >= 0
  /\ stage' = MaxSat
  /\ alive' = FALSE
  /\ UNCHANGED <<fsm, enabled, fine, cumulative, gain, history>>

\* Mutant: the counters of the fine adjustment are forgotten.
FullResetPart ==
  /\ Sample
  /\ fsm = "measPwrWait" /\ fine >= MaxFine
  /\ fsm' = "idle" /\ enabled' = FALSE
  /\ numSat' = 0 /\ satDetected' = FALSE /\ satGood' = FALSE
  /\ stage' = 0
  /\ UNCHANGED <<fine, cumulative, gain, history, alive>>

\* Fine tuning is done: everything is reset and the control disabled.
FullReset ==
  /\ Sample
  /\ fsm = "measPwrWait" /\ fine >= MaxFine
  /\ fsm' = "idle" /\ enabled' = FALSE
  /\ numSat' = 0 /\ satDetected' = FALSE /\ satGood' = FALSE
  /\ stage' = 0 /\ fine' = 0 /\ cumulative' = 0
  /\ UNCHANGED <<gain, history, alive>>

NewSample ==
  Ignore \/ Wake \/ SatGain \/ SatDone \/ FineTune \/ StillSaturated \/ FullReset

Next == StartFrame \/ NewSample

Spec == Init /\ [][Next]_vars
-----------------------------------------------------------------------------
(* Properties *)

\* The gain is the one the thread starts a frame with or that of a row of the
\* table, the coarse drops are those of a stage that exists ("INVALID!" is never
\* printed), and an idle control has nothing left of an earlier frame.
GainTableFits ==
  /\ gain \in StartGains \cup {Table[r] : r \in 0 .. MaxGain}
  /\ fsm = "satDet" => stage < MaxSat
  /\ fsm = "idle" => stage = 0 /\ fine = 0 /\ cumulative = 0

\* A frame is over, and the thread reads the next one.
FrameOver == alive /\ frame > 0 /\ i = Samples

\* A frame the control leaves unfinished is one whose last coarse drop was
\* triggered by the very sample that ends the search for saturation.  Its end
\* is caught up in the next frame, which is then received without control;
\* every other frame is fine-tuned to the end.
LeftOverExplained ==
  FrameOver =>
    /\ fsm # "idle" => fsm = "measPwrWait" /\ lastDrop = SampThresh - 1
    /\ tunes = IF carried THEN 0 ELSE MaxFine

\* Steps the packet is above the target at the gain of the chain, and the
\* decibels by which the table rises more than one per row.
Off    == level + Unit * gain - Target
Spread == Table[MaxGain] - Table[0] - MaxGain

\* When the packet was there before the fine adjustment, and the chain started
\* at the gain the control assumes, the frame ends near the target, or at the
\* end of the range of gains that is nearest to it.  Near is within a decibel
\* and the rise of the table beyond its rows, as the control takes a row for a
\* decibel (agc_fsm_iris.py:199-213).  After two fine adjustments it is within
\* a decibel, if the gain that is needed is one of the even part of the table.
Settles ==
  FrameOver /\ base = Table[MaxGain] /\ tunes > 0 /\ start <= firstTune =>
    /\ \/ Abs(Off) < Unit * (Spread + 1)
       \/ gain = Table[MaxGain] /\ Off < 0
       \/ gain = Table[0] /\ Off > 0
    /\ /\ tunes > 1
       /\ Unit * Table[0] <= Target - level
       /\ Target - level <= Unit * Table[Knee]
       => Abs(Off) < Unit
=============================================================================
