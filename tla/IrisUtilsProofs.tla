-------------------------- MODULE IrisUtilsProofs --------------------------
(***************************************************************************)
(* Proofs about the tools of IrisUtils that keep a state of their own.     *)
(* Agc: the gain table always has a row, the frames the control leaves     *)
(* unfinished are those LeftOverExplained names, and a frame that is tuned *)
(* settles, for any sizes, tables and levels.  HealthMonitor: for any      *)
(* radios, boards, ranges of gains and command lines, every channel gets   *)
(* one verdict and what is plotted of a radio was measured of it.          *)
(***************************************************************************)
EXTENDS Agc, HealthMonitor, FiniteSetTheorems, SequenceTheorems, WellFoundedInduction, TLAPS
-----------------------------------------------------------------------------
(* Agc *)

\* The numbers stay in their ranges.
TypeInv ==
  /\ fsm \in {"idle", "satDet", "measPwrWait"}
  /\ numSat \in Nat /\ stage \in 0 .. MaxSat /\ fine \in 0 .. MaxFine
  /\ cumulative \in Int /\ base \in Int
  /\ gain \in StartGains \cup {Table[r] : r \in 0 .. MaxGain}
  /\ frame \in Nat /\ i \in 0 .. Samples /\ level \in Int /\ start \in Nat
  /\ tunes \in Nat /\ firstTune \in Int /\ lastDrop \in Int

\* Nothing is left of an earlier frame when the control is idle.
IdleInv ==
  /\ fsm = "satDet" => stage < MaxSat
  /\ fsm = "idle" => stage = 0 /\ fine = 0 /\ cumulative = 0

\* Gains and readings are numbers, and what the control sets is in the table.
LEMMA GainIsInt == TypeInv => gain \in Int
  BY AgcAssumption, TableAssumption DEF TypeInv

LEMMA ReadingIsInt == TypeInv => Reading \in Int
<1> SUFFICES ASSUME TypeInv PROVE Reading \in Int
  OBVIOUS
<1>1. Unit * gain \in Int /\ level \in Int
  BY GainIsInt, AgcAssumption DEF TypeInv
<1> DEFINE lift == Unit * gain
<1>2. Reading = Clip((IF i >= start THEN level ELSE Noise) + lift)
  BY DEF Reading
<1>3. lift \in Int
  BY <1>1
<1> HIDE DEF lift
<1>4. QED
  BY <1>1, <1>2, <1>3, AgcAssumption DEF Clip

LEMMA AdjustedFits == ASSUME NEW c \in Int PROVE Adjusted(c) \in 0 .. MaxGain
  BY AgcAssumption DEF Adjusted

LEMMA SettingFits ==
  ASSUME NEW c \in Int
  PROVE  Setting(c) \in {Table[r] : r \in 0 .. MaxGain}
  BY AdjustedFits DEF Setting

\* What is left of a difference is less than a decibel, on the same side of zero.
Rounds(t, d) ==
  /\ t \in Int
  /\ d >= 0 => t >= 0 /\ Unit * t <= d /\ d < Unit * t + Unit
  /\ d < 0 => t <= 0 /\ d <= Unit * t /\ Unit * t < d + Unit

\* int of a difference rounds it toward zero.
LEMMA TruncateIs == ASSUME NEW d \in Int PROVE Rounds(Truncate(d), d)
<1>1. Unit \in Nat /\ Unit > 0
  BY AgcAssumption
<1>2. CASE d >= 0
  BY <1>1, <1>2 DEF Truncate, Rounds
<1>3. CASE d < 0
  <2> DEFINE q == (-d) \div Unit
  <2>1. q \in Nat /\ Unit * q <= -d /\ -d < Unit * q + Unit
    BY <1>1, <1>3
  <2>2. Truncate(d) = -q
    BY <1>3 DEF Truncate
  <2>3. Unit * (-q) = -(Unit * q)
    BY <1>1, <2>1
  <2> HIDE DEF q
  <2>4. QED
    BY <1>1, <1>3, <2>1, <2>2, <2>3 DEF Rounds
<1>4. QED
  BY <1>2, <1>3

LEMMA InitType == Init => TypeInv /\ IdleInv
  BY AgcAssumption, TableAssumption DEF Init, TypeInv, IdleInv, Never

LEMMA TypeStep == TypeInv /\ IdleInv /\ [Next]_vars => TypeInv' /\ IdleInv'
<1> SUFFICES ASSUME TypeInv, IdleInv, [Next]_vars PROVE TypeInv' /\ IdleInv'
  OBVIOUS
<1>1. Reading \in Int
  BY ReadingIsInt
<1>2. CASE StartFrame
  BY <1>2, AgcAssumption DEF StartFrame, TypeInv, IdleInv, Never
<1>3. ASSUME Sample, NEW d, Count(d)
      PROVE  /\ i' \in 0 .. Samples /\ numSat' \in Nat
             /\ UNCHANGED <<frame, level, start, base>>
  BY <1>3, AgcAssumption DEF Sample, Count, Above, Good, TypeInv, packet
<1>5. CASE Ignore
  <2>1. Sample /\ Count(Detected) /\ UNCHANGED <<machine, history, alive>>
    BY <1>5 DEF Ignore
  <2>2. QED
    BY <2>1, <1>3 DEF TypeInv, IdleInv, machine, history
<1>6. CASE Wake
  BY <1>6, <1>3, AgcAssumption DEF Wake, TypeInv, IdleInv, history
<1>7. CASE SatGain
  <2>1. stage < MaxSat /\ Drops[stage] \in Nat
    BY <1>7, AgcAssumption DEF SatGain, IdleInv, TypeInv
  <2>2. cumulative' \in Int
    BY <1>7, <2>1 DEF SatGain, TypeInv
  <2>3. gain' \in {Table[r] : r \in 0 .. MaxGain}
    BY <1>7, <2>2, SettingFits DEF SatGain
  <2>4. stage' = stage + 1 /\ fsm' = IF stage' >= MaxSat THEN "measPwrWait" ELSE "satDet"
    BY <1>7 DEF SatGain
  <2>5. lastDrop' \in Int
    BY <1>7 DEF SatGain, TypeInv
  <2>6. /\ fsm' \in {"satDet", "measPwrWait"} /\ stage' \in 0 .. MaxSat
        /\ fsm' = "satDet" => stage' < MaxSat
    BY <2>1, <2>4, AgcAssumption DEF TypeInv
  <2>7. /\ i' \in 0 .. Samples /\ numSat' \in Nat
        /\ UNCHANGED <<frame, level, start, base>>
    BY <1>7, <1>3 DEF SatGain
  <2>8. UNCHANGED <<fine, tunes, firstTune>>
    BY <1>7 DEF SatGain
  <2>9. QED
    BY <2>2, <2>3, <2>5, <2>6, <2>7, <2>8 DEF TypeInv, IdleInv
<1>8. CASE SatDone
  BY <1>8, <1>3 DEF SatDone, TypeInv, IdleInv, history
<1>9. CASE FineTune
  <2>0. Abs(Target) - Abs(Reading) \in Int
    BY <1>1, AgcAssumption DEF Abs
  <2>1. cumulative' \in Int
    BY <1>9, <2>0, TruncateIs DEF FineTune, Rounds, TypeInv
  <2>2. gain' \in {Table[r] : r \in 0 .. MaxGain}
    BY <1>9, <2>1, SettingFits DEF FineTune
  <2>3. QED
    BY <1>9, <1>3, <2>1, <2>2, AgcAssumption DEF FineTune, TypeInv, IdleInv
<1>10. CASE StillSaturated
  BY <1>10, <1>3, AgcAssumption DEF StillSaturated, TypeInv, IdleInv, history
<1>11. CASE FullReset
  BY <1>11, AgcAssumption DEF FullReset, Sample, TypeInv, IdleInv, history, packet
<1>12. CASE UNCHANGED vars
  BY <1>12 DEF vars, machine, flags, packet, history, TypeInv, IdleInv
<1>13. QED
  BY <1>2, <1>5, <1>6, <1>7, <1>8, <1>9, <1>10, <1>11, <1>12 DEF Next, NewSample

\* The control never asks for a gain the table has no row for, and an idle
\* control has nothing left of an earlier frame.
THEOREM TableFits == Spec => []GainTableFits
<1>1. TypeInv /\ IdleInv => GainTableFits
  BY DEF TypeInv, IdleInv, GainTableFits
<1>2. QED
  BY <1>1, InitType, TypeStep, PTL DEF Spec
-----------------------------------------------------------------------------
(***************************************************************************)
(* A frame goes through these phases when the search for saturation is     *)
(* longer than a sample and one sample does not count as saturation.       *)
(***************************************************************************)
SearchIsLong == SampThresh > 1 /\ NumAbove > 1

Quiet     == satDetected = FALSE
Fresh     == frame = 0 /\ fsm = "idle" /\ i = Samples
Waking    == /\ fsm = "idle" /\ enabled = TRUE /\ i = 0 /\ fine = 0 /\ tunes = 0
             /\ Quiet /\ satGood = FALSE /\ numSat = 0
Searching == /\ fsm = "satDet" /\ fine = 0 /\ tunes = 0
             /\ Quiet /\ satGood = FALSE /\ 1 <= i /\ i < SampThresh
LastLook  == /\ fsm = "satDet" /\ fine = 0 /\ tunes = 0
             /\ Quiet /\ satGood = TRUE /\ i = SampThresh /\ numSat = 0
             /\ lastDrop = SampThresh - 1
Tuning    == /\ fsm = "measPwrWait" /\ tunes = fine
             /\ i - fine <= IF lastDrop = SampThresh - 1 THEN SampThresh + 1
                                                         ELSE SampThresh
Done      == fsm = "idle" /\ enabled = FALSE /\ tunes = MaxFine
CatchUp   == fsm = "measPwrWait" /\ i = 0 /\ fine = MaxFine /\ tunes = 0
Idles     == fsm = "idle" /\ enabled = FALSE /\ tunes = 0 /\ i > 0

Controlled == Waking \/ Searching \/ LastLook \/ Tuning \/ Done
Uncontrolled == CatchUp \/ Idles
Phase == \/ Fresh
         \/ frame > 0 /\ carried = FALSE /\ Controlled
         \/ frame > 0 /\ carried = TRUE /\ Uncontrolled

Progress == alive = TRUE => Phase

\* At the end of a frame the control is idle, or it has only the reset to do.
LEMMA FrameEnds ==
  ASSUME TypeInv, frame > 0, i = Samples, Phase
  PROVE  /\ fsm # "idle" => fsm = "measPwrWait" /\ lastDrop = SampThresh - 1 /\ fine = MaxFine
         /\ tunes = IF carried THEN 0 ELSE MaxFine
<1>1. ~Fresh /\ ~Waking /\ ~Searching /\ ~LastLook /\ ~CatchUp
  BY AgcAssumption DEF Fresh, Waking, Searching, LastLook, CatchUp, TypeInv
<1>2. CASE carried = FALSE /\ Tuning
  <2>1. fine >= MaxFine /\ lastDrop = SampThresh - 1
    BY <1>2, AgcAssumption DEF Tuning, TypeInv
  <2>2. fine = MaxFine
    BY <2>1, AgcAssumption DEF TypeInv
  <2>3. QED
    BY <1>2, <2>1, <2>2 DEF Tuning
<1>3. CASE carried = FALSE /\ Done
  BY <1>3 DEF Done
<1>4. CASE carried = TRUE /\ Idles
  BY <1>4 DEF Idles
<1>5. QED
  BY <1>1, <1>2, <1>3, <1>4 DEF Phase, Controlled, Uncontrolled

LEMMA FrameStarts ==
  ASSUME TypeInv, IdleInv, Progress, StartFrame
  PROVE  Phase'
<1>0. alive = TRUE /\ Phase /\ i = Samples
  BY DEF StartFrame, Progress
<1>1. frame' > 0 /\ i' = 0 /\ tunes' = 0
  BY DEF StartFrame, TypeInv
<1>2. CASE fsm = "idle"
  <2>1. Waking'
    BY <1>2, <1>1 DEF StartFrame, Waking, Quiet, IdleInv
  <2>2. carried' = FALSE
    BY <1>2 DEF StartFrame
  <2>3. QED
    BY <1>1, <2>1, <2>2 DEF Phase, Controlled
<1>3. CASE fsm # "idle"
  <2>1. fsm = "measPwrWait" /\ fine = MaxFine
    <3>1. frame > 0
      BY <1>0, <1>3 DEF Phase, Fresh
    <3>2. QED
      BY <1>0, <1>3, <3>1, FrameEnds
  <2>2. CatchUp'
    BY <2>1, <1>1 DEF StartFrame, CatchUp
  <2>3. carried' = TRUE
    BY <1>3 DEF StartFrame
  <2>4. QED
    BY <1>1, <2>2, <2>3 DEF Phase, Uncontrolled
<1>4. QED
  BY <1>2, <1>3

\* What every rule but the reset does to the flags and the packet.
LEMMA SampleFacts ==
  ASSUME TypeInv, NEW d, Sample, Count(d)
  PROVE  /\ i < Samples /\ i' = i + 1
         /\ frame' = frame /\ carried' = carried
         /\ satDetected' = d /\ satGood' = Good
         /\ Above < NumAbove => numSat' = Above
         /\ Above >= NumAbove => numSat' = 0
         /\ Above \in Nat /\ Above <= numSat + 1
<1>1. numSat \in Nat
  BY DEF TypeInv
<1>2. Above \in Nat /\ Above <= numSat + 1
  BY <1>1 DEF Above
<1>3. QED
  BY <1>2, AgcAssumption DEF Sample, Count, packet

\* A sample leads from one phase to the same or a later one.
LEMMA FromWaking ==
  ASSUME TypeInv, SearchIsLong, Waking, NewSample
  PROVE  Searching' /\ UNCHANGED <<frame, carried>>
<1>1. Wake
  BY DEF NewSample, Waking, Ignore, SatGain, SatDone, FineTune, StillSaturated, FullReset
<1>2. fsm' = "satDet" /\ UNCHANGED <<fine, tunes>>
  BY <1>1 DEF Wake, history
<1>3. Above <= 1 /\ Above \in Nat
  BY <1>1, SampleFacts DEF Wake, Waking
<1>4. ~Detected /\ ~Good
  BY <1>3, AgcAssumption DEF Detected, Good, Waking, Quiet, SearchIsLong
<1>5. satDetected' = Detected /\ satGood' = Good /\ i' = i + 1 /\ UNCHANGED <<frame, carried>>
  BY <1>1, SampleFacts DEF Wake
<1>6. satDetected' = FALSE /\ satGood' = FALSE
  BY <1>4, <1>5
<1>7. QED
  BY <1>2, <1>5, <1>6, AgcAssumption DEF Waking, Searching, Quiet, SearchIsLong

LEMMA FromSearching ==
  ASSUME TypeInv, Searching, NewSample
  PROVE  (Searching \/ LastLook \/ Tuning)' /\ UNCHANGED <<frame, carried>>
<1>1. SatGain \/ SatDone \/ (Ignore /\ ~Detected /\ ~Good)
  BY DEF NewSample, Searching, Ignore, Wake, FineTune, StillSaturated, FullReset
<1>2. CASE SatGain
  <2>1. Above >= NumAbove
    BY <1>2 DEF SatGain, Detected, Searching, Quiet
  <2>2. /\ i' = i + 1 /\ satDetected' = FALSE /\ satGood' = Good /\ numSat' = 0
        /\ UNCHANGED <<frame, carried>>
    BY <1>2, <2>1, SampleFacts DEF SatGain
  <2>3. lastDrop' = i /\ fine' = 0 /\ tunes' = 0 /\ fsm' \in {"satDet", "measPwrWait"}
    BY <1>2 DEF SatGain, Searching
  <2>4. i \in Int /\ 1 <= i /\ i < SampThresh /\ SampThresh \in Int
    BY AgcAssumption DEF Searching, TypeInv
  <2>5. CASE fsm' = "measPwrWait"
    BY <2>2, <2>3, <2>4, <2>5 DEF Tuning
  <2>6. CASE fsm' = "satDet" /\ i = SampThresh - 1
    <3>1. satGood' = TRUE
      BY <2>2, <2>6 DEF Good
    <3>2. QED
      BY <2>2, <2>3, <2>4, <2>6, <3>1 DEF LastLook, Quiet
  <2>7. CASE fsm' = "satDet" /\ i # SampThresh - 1
    <3>1. satGood' = FALSE
      BY <2>2, <2>7 DEF Good, Searching
    <3>2. QED
      BY <2>2, <2>3, <2>4, <2>7, <3>1 DEF Searching, Quiet
  <2>8. QED
    BY <2>2, <2>3, <2>5, <2>6, <2>7
<1>3. CASE SatDone
  <2>1. i' = i + 1 /\ UNCHANGED <<frame, carried>>
    BY <1>3, SampleFacts DEF SatDone
  <2>2. fsm' = "measPwrWait" /\ UNCHANGED <<fine, tunes, lastDrop>>
    BY <1>3 DEF SatDone, history
  <2>3. i \in Int /\ i < SampThresh /\ SampThresh \in Int
    BY AgcAssumption DEF Searching, TypeInv
  <2>4. Tuning'
    BY <2>1, <2>2, <2>3 DEF Searching, Tuning
  <2>5. QED
    BY <2>1, <2>4
<1>4. CASE Ignore /\ ~Detected /\ ~Good
  <2>1. /\ satDetected' = Detected /\ satGood' = Good /\ i' = i + 1
        /\ UNCHANGED <<frame, carried>>
    BY <1>4, SampleFacts DEF Ignore
  <2>2. satDetected' = FALSE /\ satGood' = FALSE
    BY <1>4, <2>1
  <2>3. UNCHANGED <<fsm, fine, tunes>>
    BY <1>4 DEF Ignore, machine, history
  <2>4. i # SampThresh - 1 /\ i \in Int /\ SampThresh \in Int
    BY <1>4, AgcAssumption DEF Good, TypeInv
  <2>5. Searching'
    BY <2>1, <2>2, <2>3, <2>4 DEF Searching, Quiet
  <2>6. QED
    BY <2>1, <2>5
<1>5. QED
  BY <1>1, <1>2, <1>3, <1>4

LEMMA FromLastLook ==
  ASSUME TypeInv, SearchIsLong, LastLook, NewSample
  PROVE  Tuning' /\ UNCHANGED <<frame, carried>>
<1>1. numSat \in Nat /\ Above \in Nat
  BY DEF TypeInv, Above
<1>2. Above <= 1
  BY <1>1 DEF Above, LastLook
<1>3. ~Detected
  BY <1>1, <1>2, AgcAssumption DEF Detected, LastLook, Quiet, SearchIsLong
<1>4. Good
  BY DEF Good, LastLook
<1>5. SatDone
  BY <1>3, <1>4 DEF NewSample, LastLook, Ignore, Wake, SatGain, FineTune, StillSaturated,
                    FullReset
<1>6. i' = i + 1 /\ UNCHANGED <<frame, carried>>
  BY <1>5, SampleFacts DEF SatDone
<1>7. fsm' = "measPwrWait" /\ UNCHANGED <<fine, tunes, lastDrop>>
  BY <1>5 DEF SatDone, history
<1>8. QED
  BY <1>6, <1>7, AgcAssumption DEF LastLook, Tuning

LEMMA FromTuning ==
  ASSUME TypeInv, Tuning, NewSample
  PROVE  (alive' = TRUE => (Tuning \/ Done)') /\ UNCHANGED <<frame, carried>>
<1>1. FineTune \/ StillSaturated \/ FullReset
  BY DEF NewSample, Tuning, Ignore, Wake, SatGain, SatDone
<1>2. CASE FineTune
  <2>1. i' = i + 1 /\ UNCHANGED <<frame, carried>>
    BY <1>2, SampleFacts DEF FineTune
  <2>2. fine' = fine + 1 /\ tunes' = tunes + 1 /\ UNCHANGED <<fsm, lastDrop>>
    BY <1>2 DEF FineTune
  <2>3. i \in Int /\ fine \in Int /\ SampThresh \in Int
    BY AgcAssumption DEF TypeInv
  <2>4. Tuning'
    BY <2>1, <2>2, <2>3 DEF Tuning
  <2>5. QED
    BY <2>1, <2>4
<1>3. CASE StillSaturated
  <2>1. alive' = FALSE
    BY <1>3 DEF StillSaturated
  <2>2. UNCHANGED <<frame, carried>>
    BY <1>3 DEF StillSaturated, Sample, packet
  <2>3. QED
    BY <2>1, <2>2
<1>4. CASE FullReset
  <2>1. fsm' = "idle" /\ enabled' = FALSE /\ tunes' = tunes /\ UNCHANGED <<frame, carried>>
    BY <1>4 DEF FullReset, Sample, packet, history
  <2>2. tunes = MaxFine
    BY <1>4, AgcAssumption DEF FullReset, Tuning, TypeInv
  <2>3. Done'
    BY <2>1, <2>2 DEF Done
  <2>4. QED
    BY <2>1, <2>3
<1>5. QED
  BY <1>1, <1>2, <1>3, <1>4

\* Once the control is disabled, samples change nothing but the flags.
LEMMA FromIdle ==
  ASSUME TypeInv, fsm = "idle", enabled = FALSE, NewSample
  PROVE  /\ fsm' = "idle" /\ enabled' = FALSE /\ i' = i + 1 /\ UNCHANGED tunes
         /\ UNCHANGED <<frame, carried>>
<1>1. Ignore
  BY DEF NewSample, Wake, SatGain, SatDone, FineTune, StillSaturated, FullReset
<1>2. QED
  BY <1>1, SampleFacts DEF Ignore, machine, history

LEMMA FromCatchUp ==
  ASSUME TypeInv, CatchUp, NewSample
  PROVE  Idles' /\ UNCHANGED <<frame, carried>>
<1>1. FullReset
  BY AgcAssumption DEF NewSample, CatchUp, Ignore, Wake, SatGain, SatDone, FineTune, StillSaturated
<1>2. QED
  BY <1>1 DEF FullReset, Sample, packet, history, CatchUp, Idles

LEMMA PhaseStep ==
  ASSUME TypeInv, IdleInv, Progress, SearchIsLong, [Next]_vars
  PROVE  Progress'
<1>1. CASE StartFrame
  BY <1>1, FrameStarts DEF Progress
<1>2. CASE NewSample
  <2>1. alive = TRUE /\ i < Samples
    BY <1>2 DEF NewSample, Ignore, Wake, SatGain, SatDone, FineTune, StillSaturated,
                FullReset, Sample
  <2>2. Phase /\ ~Fresh
    BY <2>1, AgcAssumption DEF Progress, Fresh, TypeInv
  <2>3. frame > 0 /\ frame \in Nat /\ i \in Nat
    BY <2>2 DEF Phase, TypeInv
  <2>4. CASE carried = FALSE /\ Controlled
    <3>1. CASE Done
      <4>1. Done' /\ UNCHANGED <<frame, carried>>
        BY <1>2, <3>1, FromIdle DEF Done
      <4>2. QED
        BY <2>3, <2>4, <4>1 DEF Progress, Phase, Controlled
    <3>2. CASE Waking \/ Searching \/ LastLook \/ Tuning
      <4>1. (alive' = TRUE => Controlled') /\ UNCHANGED <<frame, carried>>
        BY <1>2, <3>2, FromWaking, FromSearching, FromLastLook, FromTuning DEF Controlled
      <4>2. QED
        BY <2>3, <2>4, <4>1 DEF Progress, Phase
    <3>3. QED
      BY <2>4, <3>1, <3>2 DEF Controlled
  <2>5. CASE carried = TRUE /\ Uncontrolled
    <3>1. Uncontrolled' /\ UNCHANGED <<frame, carried>>
      <4>1. CASE CatchUp
        BY <1>2, <4>1, FromCatchUp DEF Uncontrolled
      <4>2. CASE Idles
        <5>1. /\ fsm' = "idle" /\ enabled' = FALSE /\ i' = i + 1 /\ tunes' = tunes
              /\ UNCHANGED <<frame, carried>>
          BY <1>2, <4>2, FromIdle DEF Idles
        <5>2. QED
          BY <2>3, <4>2, <5>1 DEF Uncontrolled, Idles
      <4>3. QED
        BY <2>5, <4>1, <4>2 DEF Uncontrolled
    <3>2. QED
      BY <2>3, <2>5, <3>1 DEF Progress, Phase
  <2>6. QED
    BY <2>2, <2>4, <2>5 DEF Phase
<1>3. CASE UNCHANGED vars
  BY <1>3 DEF vars, machine, flags, packet, history, Progress, Phase, Fresh, Controlled,
              Uncontrolled, Waking, Searching, LastLook, Tuning, Done, CatchUp, Idles, Quiet
<1>4. QED
  BY <1>1, <1>2, <1>3 DEF Next

\* A frame is left unfinished only when its last coarse drop was triggered by
\* the sample that ends the search; a frame that is not catching up is
\* fine-tuned to the end.
THEOREM UnfinishedIsLate ==
  ASSUME SearchIsLong
  PROVE  Spec => []LeftOverExplained
<1>1. Init => Progress
  BY DEF Init, Progress, Phase, Fresh
<1>2. TypeInv /\ Progress => LeftOverExplained
  BY FrameEnds DEF Progress, LeftOverExplained, FrameOver
<1>3. TypeInv /\ IdleInv /\ Progress /\ [Next]_vars => Progress'
  BY PhaseStep
<1>4. QED
  BY <1>1, <1>2, <1>3, InitType, TypeStep, PTL DEF Spec
-----------------------------------------------------------------------------
(***************************************************************************)
(* The gain, when the coarse drops never exceed the rows of the table and  *)
(* the register can tell that a reading is not negative.  What the control *)
(* asks for is a virtual row MaxGain - cumulative, which may be beyond the *)
(* table.                                                                  *)
(***************************************************************************)
Span(x) == Unit * x
Lift(r) == Unit * Table[r]
RowAt(v) == IF v < 0 THEN 0 ELSE IF v > MaxGain THEN MaxGain ELSE v
Virtual == MaxGain - cumulative
Rise    == Span(Spread)

IsSum(Sum) ==
  /\ Sum \in [0 .. MaxSat -> 0 .. MaxGain] /\ Sum[0] = 0
  /\ \A s \in 0 .. MaxSat - 1 : Sum[s + 1] = Sum[s] + Drops[s]

\* The register covers the range of gains below the target and tells that a
\* reading is not negative, and the target is within the even part of the table.
Readable ==
  /\ Ceiling >= 0
  /\ Lift(MaxGain) - Lift(0) <= Target - Floor
  /\ -Target <= Span(Knee)

\* Near the target at row v, off steps above it.
Near(v, off) ==
  /\ v \in 0 .. MaxGain => \/ -(Rise + Unit) < off /\ off < Rise + Unit
                           \/ v = MaxGain /\ off < 0
                           \/ v = 0 /\ off > 0
  /\ v > MaxGain => off < 0 \/ Span(v) - Span(MaxGain) + off < Rise + Unit
  /\ v < 0 => off > 0 \/ Span(v) + off > -(Rise + Unit)

\* Rows to decibels: differences and order are kept.
LEMMA Spans ==
  ASSUME NEW x \in Int, NEW y \in Int
  PROVE  /\ Span(x) \in Int /\ Span(x - y) = Span(x) - Span(y)
         /\ x <= y => Span(x) <= Span(y)
         /\ x < y => Span(x) + Unit <= Span(y)
<1>1. Unit \in Nat /\ Unit > 0
  BY AgcAssumption
<1>2. Span(x) \in Int /\ Span(x - y) = Span(x) - Span(y)
  BY <1>1 DEF Span
<1>3. ASSUME NEW k \in Nat PROVE Unit * k >= 0 /\ (k > 0 => Unit * k >= Unit)
  BY <1>1, <1>3
<1>4. x <= y => y - x \in Nat /\ Unit * y - Unit * x = Unit * (y - x)
  BY <1>1
<1>5. Unit * y \in Int /\ Unit * x \in Int
  BY <1>1
<1>6. QED
  BY <1>1, <1>2, <1>3, <1>4, <1>5 DEF Span

\* The same, one fact at a time.
LEMMA SpanIs == ASSUME NEW x \in Int PROVE Span(x) \in Int
  BY AgcAssumption DEF Span

LEMMA SpanMinus == ASSUME NEW x \in Int, NEW y \in Int PROVE Span(x - y) = Span(x) - Span(y)
  BY Spans

LEMMA SpanGrows == ASSUME NEW x \in Int, NEW y \in Int, x <= y PROVE Span(x) <= Span(y)
  BY Spans

LEMMA SpanZero == Span(0) = 0 /\ Unit \in Int /\ Unit > 0 /\ MaxGain \in Int /\ MaxGain >= 0
  BY AgcAssumption DEF Span

\* Between two rows the gain rises by a decibel a row, and by no more than the
\* table's whole rise beyond that.
LEMMA Lifts ==
  ASSUME NEW a \in 0 .. MaxGain, NEW b \in 0 .. MaxGain, a <= b
  PROVE  /\ Lift(a) \in Int /\ Lift(b) \in Int /\ Rise \in Int /\ Rise >= 0
         /\ Span(b) - Span(a) <= Lift(b) - Lift(a)
         /\ Lift(b) - Lift(a) <= Span(b) - Span(a) + Rise
<1>0. MaxGain \in Nat /\ 0 \in 0 .. MaxGain /\ MaxGain \in 0 .. MaxGain
  BY AgcAssumption
<1>1. Table[a] \in Int /\ Table[b] \in Int /\ Table[0] \in Int /\ Table[MaxGain] \in Int
  BY <1>0, TableAssumption
<1>2. /\ b - a <= Table[b] - Table[a]
      /\ a - 0 <= Table[a] - Table[0]
      /\ MaxGain - b <= Table[MaxGain] - Table[b]
  <2>1. a \in 0 .. MaxGain /\ b \in 0 .. MaxGain /\ a <= b
    OBVIOUS
  <2>2. b - a <= Table[b] - Table[a]
    BY <2>1, TableAssumption
  <2>3. a - 0 <= Table[a] - Table[0]
    BY <2>1, <1>0, TableAssumption
  <2>4. MaxGain - b <= Table[MaxGain] - Table[b]
    BY <2>1, <1>0, TableAssumption
  <2>5. QED
    BY <2>2, <2>3, <2>4
<1>3. Spread \in Int /\ 0 <= Spread /\ Table[b] - Table[a] <= b - a + Spread
  BY <1>0, <1>1, <1>2 DEF Spread
<1>4. Rise \in Int /\ Rise >= 0
  BY <1>3, Spans, SpanZero DEF Rise
<1>5. Lift(a) = Span(Table[a]) /\ Lift(b) = Span(Table[b])
  BY DEF Lift, Span
<1>6. Lift(b) - Lift(a) = Span(Table[b] - Table[a]) /\ Span(b) - Span(a) = Span(b - a)
  <2>1. Span(Table[b] - Table[a]) = Span(Table[b]) - Span(Table[a])
    BY <1>1, SpanMinus
  <2>2. Span(b - a) = Span(b) - Span(a)
    BY <1>0, SpanMinus
  <2>3. QED
    BY <1>5, <2>1, <2>2
<1>7. Span(b - a) <= Span(Table[b] - Table[a])
  <2>1. b - a \in Int /\ Table[b] - Table[a] \in Int
    BY <1>0, <1>1
  <2>2. QED
    BY <1>2, <2>1, SpanGrows
<1>8. Span(Table[b] - Table[a]) <= Span(b - a + Spread)
  <2>1. b - a + Spread \in Int /\ Table[b] - Table[a] \in Int
    BY <1>0, <1>1, <1>3
  <2>2. QED
    BY <1>3, <2>1, SpanGrows
<1>9. Span(b - a + Spread) = Span(b - a) + Rise
  <2>1. b - a \in Int /\ Unit \in Int
    BY <1>0, SpanZero
  <2>2. Unit * (b - a + Spread) = Unit * (b - a) + Unit * Spread
    BY <2>1, <1>3
  <2>3. QED
    BY <2>2 DEF Span, Rise
<1>10. Lift(a) \in Int /\ Lift(b) \in Int
  BY <1>1, <1>5, Spans
<1>11. QED
  BY <1>4, <1>6, <1>7, <1>8, <1>9, <1>10

\* The table has the row.
LEMMA RowFits == ASSUME NEW v \in Int PROVE RowAt(v) \in 0 .. MaxGain
  BY AgcAssumption DEF RowAt

\* An adjustment by t rows, off steps above the target at row v, leads near
\* the target.
LEMMA StepNear ==
  ASSUME NEW v \in Int, NEW t \in Int, NEW off \in Int,
         v \in 0 .. MaxGain \/ Near(v, off), Rounds(t, off)
  PROVE  Near(v - t, off + Lift(RowAt(v - t)) - Lift(RowAt(v)))
<1> DEFINE w  == v - t
           sv == Span(v)
           sw == Span(w)
           st == Span(t)
           sm == Span(MaxGain)
           rise == Rise
           lv == Lift(RowAt(v))
           lw == Lift(RowAt(w))
           far == off + lw - lv
<1>0. /\ MaxGain \in Nat /\ Unit \in Int /\ Unit > 0 /\ w \in Int
      /\ 0 \in 0 .. MaxGain /\ MaxGain \in 0 .. MaxGain
  BY AgcAssumption
<1>1. /\ sv \in Int /\ sw \in Int /\ st \in Int /\ sm \in Int /\ sw = sv - st
      /\ (v <= 0 => sv <= 0) /\ (v < 0 => sv <= -Unit) /\ (v >= 0 => sv >= 0)
      /\ (v <= MaxGain => sv <= sm) /\ (v >= MaxGain => sm <= sv)
      /\ (w <= 0 => sw <= 0) /\ (w >= 0 => sw >= 0)
      /\ (w <= MaxGain => sw <= sm) /\ (w >= MaxGain => sm <= sw)
      /\ (t <= 0 => st <= 0) /\ (t >= 0 => st >= 0)
      /\ (t < 0 => st <= -Unit) /\ (t > 0 => st >= Unit)
  <2>1. ASSUME NEW x \in Int
        PROVE  /\ Span(x) \in Int /\ (x <= 0 => Span(x) <= 0) /\ (x >= 0 => Span(x) >= 0)
               /\ (x < 0 => Span(x) <= -Unit) /\ (x > 0 => Span(x) >= Unit)
               /\ (x <= MaxGain => Span(x) <= sm) /\ (x >= MaxGain => sm <= Span(x))
    <3>0. 0 \in Int /\ MaxGain \in Int
      BY <1>0
    <3>1. Span(x) \in Int /\ (x <= 0 => Span(x) <= Span(0)) /\ (x < 0 => Span(x) + Unit <= Span(0))
      BY <3>0, Spans
    <3>2. (0 <= x => Span(0) <= Span(x)) /\ (0 < x => Span(0) + Unit <= Span(x))
      BY <3>0, Spans
    <3>4. (x <= MaxGain => Span(x) <= sm) /\ (MaxGain <= x => sm <= Span(x))
      BY <3>0, SpanGrows
    <3>3. QED
      BY <3>1, <3>2, <3>4, SpanZero
  <2>2. sw = sv - st
    BY Spans
  <2>3. QED
    BY <1>0, <2>1, <2>2
<1>2. rise \in Int /\ rise >= 0 /\ lv \in Int /\ lw \in Int
  BY <1>0, RowFits, Lifts
<1>3. /\ v < 0 => RowAt(v) = 0
      /\ v > MaxGain => RowAt(v) = MaxGain
      /\ v \in 0 .. MaxGain => RowAt(v) = v
      /\ w < 0 => RowAt(w) = 0
      /\ w > MaxGain => RowAt(w) = MaxGain
      /\ w \in 0 .. MaxGain => RowAt(w) = w
  BY <1>0 DEF RowAt
<1> DEFINE cv == Span(RowAt(v))
           cw == Span(RowAt(w))
<1>4. /\ cv \in Int /\ cw \in Int
      /\ v < 0 => cv = 0
      /\ v > MaxGain => cv = sm
      /\ v \in 0 .. MaxGain => cv = sv
      /\ w < 0 => cw = 0
      /\ w > MaxGain => cw = sm
      /\ w \in 0 .. MaxGain => cw = sw
  <2>0. RowAt(v) \in Int /\ RowAt(w) \in Int
    BY <1>0, RowFits
  <2>1. cv \in Int /\ cw \in Int
    BY <2>0, SpanIs
  <2>2. QED
    BY <2>1, <1>3, SpanZero
<1>5. /\ v <= w => cw - cv <= lw - lv /\ lw - lv <= cw - cv + rise
      /\ w <= v => cv - cw <= lv - lw /\ lv - lw <= cv - cw + rise
  <2>1. /\ RowAt(v) \in 0 .. MaxGain /\ RowAt(w) \in 0 .. MaxGain
        /\ v <= w => RowAt(v) <= RowAt(w)
        /\ w <= v => RowAt(w) <= RowAt(v)
    BY <1>0 DEF RowAt
  <2>2. QED
    BY <2>1, Lifts
<1>6. /\ off >= 0 => t >= 0 /\ st <= off /\ off < st + Unit
      /\ off < 0 => t <= 0 /\ off <= st /\ st < off + Unit
  BY DEF Rounds, Span
<1>7. \/ v \in 0 .. MaxGain
      \/ v > MaxGain /\ (off < 0 \/ sv - sm + off < rise + Unit)
      \/ v < 0 /\ (off > 0 \/ sv + off > -(rise + Unit))
  <2>1. v \in 0 .. MaxGain \/ v > MaxGain \/ v < 0
    BY <1>0
  <2>2. QED
    BY <1>0, <2>1 DEF Near
<1>8. w = v - t /\ far = off + lw - lv
  OBVIOUS
<1> HIDE DEF w, sv, sw, st, sm, rise, lv, lw, far, cv, cw
<1>9. w \in 0 .. MaxGain => \/ -(rise + Unit) < far /\ far < rise + Unit
                            \/ w = MaxGain /\ far < 0
                            \/ w = 0 /\ far > 0
  <2> SUFFICES ASSUME w \in 0 .. MaxGain PROVE -(rise + Unit) < far /\ far < rise + Unit
    OBVIOUS
  <2>1. cw = sw
    BY <1>4
  <2>2. CASE v \in 0 .. MaxGain
    <3>1. cv = sv
      BY <1>4, <2>2
    <3>2. QED
      BY <1>0, <1>1, <1>2, <1>5, <1>6, <1>8, <2>1, <3>1
  <2>3. CASE v > MaxGain /\ (off < 0 \/ sv - sm + off < rise + Unit)
    <3>1. cv = sm
      BY <1>4, <2>3
    <3>2. w <= v /\ t > 0 /\ off >= 0
      BY <1>0, <1>6, <1>8, <2>3
    <3>3. QED
      BY <1>0, <1>1, <1>2, <1>5, <1>6, <1>8, <2>1, <2>3, <3>1, <3>2
  <2>4. CASE v < 0 /\ (off > 0 \/ sv + off > -(rise + Unit))
    <3>1. cv = 0
      BY <1>4, <2>4
    <3>2. v <= w /\ t < 0 /\ off < 0
      BY <1>0, <1>6, <1>8, <2>4
    <3>3. QED
      BY <1>0, <1>1, <1>2, <1>5, <1>6, <1>8, <2>1, <2>4, <3>1, <3>2
  <2>5. QED
    BY <1>7, <2>2, <2>3, <2>4
<1>10. w > MaxGain => far < 0 \/ sw - sm + far < rise + Unit
  <2> SUFFICES ASSUME w > MaxGain, far >= 0 PROVE sw - sm + far < rise + Unit
    BY <1>0, <1>2, <1>8
  <2>1. cw = sm
    BY <1>4
  <2>2. CASE v \in 0 .. MaxGain
    <3>1. cv = sv /\ v <= w /\ t < 0
      BY <1>0, <1>4, <1>8, <2>2
    <3>2. QED
      BY <1>0, <1>1, <1>2, <1>5, <1>6, <1>8, <2>1, <3>1
  <2>3. CASE v > MaxGain /\ (off < 0 \/ sv - sm + off < rise + Unit)
    <3>1. RowAt(v) = RowAt(w)
      BY <1>3, <2>3
    <3>2. lv = lw
      BY <3>1 DEF lv, lw
    <3>3. QED
      BY <1>0, <1>1, <1>2, <1>6, <1>8, <2>3, <3>2
  <2>4. CASE v < 0 /\ (off > 0 \/ sv + off > -(rise + Unit))
    <3>1. cv = 0 /\ v <= w /\ t < 0
      BY <1>0, <1>4, <1>8, <2>4
    <3>2. QED
      BY <1>0, <1>1, <1>2, <1>5, <1>6, <1>8, <2>1, <2>4, <3>1
  <2>5. QED
    BY <1>7, <2>2, <2>3, <2>4
<1>11. w < 0 => far > 0 \/ sw + far > -(rise + Unit)
  <2> SUFFICES ASSUME w < 0, far <= 0 PROVE sw + far > -(rise + Unit)
    BY <1>0, <1>2, <1>8
  <2>1. cw = 0
    BY <1>4
  <2>2. CASE v \in 0 .. MaxGain
    <3>1. cv = sv /\ w <= v /\ t > 0
      BY <1>0, <1>4, <1>8, <2>2
    <3>2. QED
      BY <1>0, <1>1, <1>2, <1>5, <1>6, <1>8, <2>1, <3>1
  <2>3. CASE v > MaxGain /\ (off < 0 \/ sv - sm + off < rise + Unit)
    <3>1. cv = sm /\ w <= v /\ t > 0
      BY <1>0, <1>4, <1>8, <2>3
    <3>2. QED
      BY <1>0, <1>1, <1>2, <1>5, <1>6, <1>8, <2>1, <2>3, <3>1
  <2>4. CASE v < 0 /\ (off > 0 \/ sv + off > -(rise + Unit))
    <3>1. RowAt(v) = RowAt(w)
      BY <1>3, <2>4
    <3>2. lv = lw
      BY <3>1 DEF lv, lw
    <3>3. QED
      BY <1>0, <1>1, <1>2, <1>6, <1>8, <2>4, <3>2
  <2>5. QED
    BY <1>7, <2>2, <2>3, <2>4
<1>12. Near(w, far)
  BY <1>9, <1>10, <1>11 DEF Near, sw, sm, rise
<1>13. QED
  BY <1>12 DEF w, far, lw, lv

\* Where rows are a decibel, one adjustment leads to such a row and the next
\* within a decibel.
LEMMA StepEven ==
  ASSUME NEW v \in 0 .. MaxGain, NEW t \in Int, NEW need \in Int,
         Rounds(t, Lift(v) - need), Lift(v) - need <= Span(Knee),
         Lift(0) <= need, need <= Lift(Knee)
  PROVE  /\ v - t \in 0 .. Knee
         /\ v \in 0 .. Knee => /\ -Unit < Lift(v - t) - need
                               /\ Lift(v - t) - need < Unit
<1> DEFINE w   == v - t
           sv  == Span(v)
           sw  == Span(w)
           st  == Span(t)
           sk  == Span(Knee)
           lv  == Lift(v)
           lk  == Lift(Knee)
           l0  == Lift(0)
           off == lv - need
<1>0. /\ MaxGain \in Nat /\ Unit \in Int /\ Unit > 0 /\ w \in Int /\ v \in Int
      /\ Knee \in 0 .. MaxGain /\ 0 \in 0 .. MaxGain /\ 0 \in 0 .. Knee /\ Knee \in 0 .. Knee
  BY AgcAssumption, TableAssumption
<1>1. ASSUME NEW r \in 0 .. Knee
      PROVE  Lift(r) = l0 + Span(r)
  <2>0. r \in Int /\ r \in 0 .. MaxGain
    BY <1>0, <1>1
  <2>1. r \in Int /\ Table[r] = Table[0] + r /\ Table[0] \in Int /\ Table[r] \in Int
    BY <1>0, <1>1, <2>0, TableAssumption
  <2>2. Table[r] - Table[0] = r
    BY <2>1
  <2>3. Span(Table[r] - Table[0]) = Span(Table[r]) - Span(Table[0])
    BY <2>1, SpanMinus
  <2>4. Span(Table[r]) \in Int /\ Span(Table[0]) \in Int
    BY <2>1, SpanIs
  <2>5. QED
    BY <2>2, <2>3, <2>4 DEF Lift, Span
<1>2. /\ sv \in Int /\ sw \in Int /\ st \in Int /\ sk \in Int /\ sw = sv - st
      /\ lv \in Int /\ lk \in Int /\ l0 \in Int
  <2>1. lv \in Int /\ lk \in Int /\ l0 \in Int
    BY <1>0, Lifts
  <2>2. Knee \in Int
    BY <1>0
  <2>3. QED
    BY <1>0, <2>1, <2>2, SpanIs, SpanMinus
<1>3. (v >= 0 => sv >= 0) /\ (w < 0 => sw <= -Unit) /\ (w > Knee => sk + Unit <= sw)
  <2>1. v >= 0 => sv >= Span(0)
    BY <1>0, Spans
  <2>2. w < 0 => sw + Unit <= Span(0)
    BY <1>0, Spans
  <2>3. w > Knee => sk + Unit <= sw
    BY <1>0, Spans
  <2>4. QED
    BY <1>0, <1>2, <2>1, <2>2, <2>3, SpanZero
<1>4. lk = l0 + sk /\ (v \in 0 .. Knee => lv = l0 + sv) /\ (w \in 0 .. Knee => Lift(w) = l0 + sw)
  BY <1>0, <1>1
<1>5. v > Knee => sv - sk <= lv - lk /\ sk <= sv
  <2>1. v > Knee => sv - sk <= lv - lk
    BY <1>0, Lifts
  <2>2. v > Knee => sk <= sv
    BY <1>0, SpanGrows
  <2>3. QED
    BY <2>1, <2>2
<1>6. /\ off >= 0 => t >= 0 /\ st <= off /\ off < st + Unit
      /\ off < 0 => t <= 0 /\ off <= st /\ st < off + Unit
  BY DEF Rounds, Span
<1>7. off <= sk /\ l0 <= need /\ need <= lk /\ off = lv - need /\ w = v - t
  OBVIOUS
<1>8. v \in 0 .. Knee \/ (v > Knee /\ ~(v \in 0 .. Knee))
  BY <1>0
<1> HIDE DEF w, sv, sw, st, sk, lv, lk, l0, off
<1>9. w >= 0
  <2>1. CASE v \in 0 .. Knee
    <3>1. lv = l0 + sv
      BY <1>4, <2>1
    <3>2. QED
      BY <1>0, <1>2, <1>3, <1>6, <1>7, <2>1, <3>1
  <2>2. CASE v > Knee
    <3>1. sv - sk <= lv - lk /\ sk <= sv
      BY <1>5, <2>2
    <3>2. QED
      BY <1>0, <1>2, <1>3, <1>4, <1>6, <1>7, <2>2, <3>1
  <2>3. QED
    BY <1>8, <2>1, <2>2
<1>10. w <= Knee
  <2>1. CASE v \in 0 .. Knee
    <3>1. lv = l0 + sv
      BY <1>4, <2>1
    <3>2. QED
      BY <1>0, <1>2, <1>3, <1>4, <1>6, <1>7, <2>1, <3>1
  <2>2. CASE v > Knee
    <3>1. sv - sk <= lv - lk
      BY <1>5, <2>2
    <3>2. QED
      BY <1>0, <1>2, <1>3, <1>4, <1>6, <1>7, <2>2, <3>1
  <2>3. QED
    BY <1>8, <2>1, <2>2
<1>11. w \in 0 .. Knee
  BY <1>0, <1>9, <1>10
<1>12. ASSUME v \in 0 .. Knee PROVE -Unit < Lift(w) - need /\ Lift(w) - need < Unit
  <2>1. lv = l0 + sv /\ Lift(w) = l0 + sw
    BY <1>4, <1>11, <1>12
  <2>2. QED
    BY <1>0, <1>2, <1>6, <1>7, <2>1
<1>13. QED
  BY <1>11, <1>12 DEF w

\* The gain that is needed is one of the even part of the table.
EvenNeed == Lift(0) <= Target - level /\ Target - level <= Lift(Knee)

Settled == \/ Abs(Off) < Unit * (Spread + 1)
           \/ gain = Table[MaxGain] /\ Off < 0
           \/ gain = Table[0] /\ Off > 0
Landed  == Settled /\ (tunes > 1 /\ EvenNeed => Abs(Off) < Unit)
Tracks  == Near(Virtual, Off) /\ (EvenNeed => Virtual \in 0 .. Knee)

\* The machine follows the gain from the start of the frame to the reset.
Controls == fsm # "idle" \/ enabled = TRUE
GainInv(Sum) ==
  alive = TRUE /\ frame > 0 /\ base = Table[MaxGain] /\ carried = FALSE =>
    /\ Controls => gain = Setting(cumulative)
    /\ Controls /\ tunes = 0 => cumulative = Sum[stage]
    /\ tunes > 0 => /\ firstTune < i
                    /\ start <= firstTune => Landed /\ (Controls => Tracks)

\* The gain for an adjustment by c is that of the row at MaxGain - c.
LEMMA SettingIs ==
  ASSUME NEW c \in Int
  PROVE  LET v == MaxGain - c IN
         /\ v \in Int /\ Setting(c) = Table[RowAt(v)]
         /\ Unit * Setting(c) = Lift(RowAt(v)) /\ Lift(RowAt(v)) \in Int
<1> DEFINE v == MaxGain - c
<1>1. Adjusted(c) = RowAt(v)
  BY DEF Adjusted, RowAt
<1>2. v \in Int
  BY AgcAssumption
<1>3. Lift(RowAt(v)) \in Int
  BY <1>2, RowFits, Lifts
<1>4. QED
  BY <1>1, <1>2, <1>3 DEF Lift, Setting

\* Near the target at a virtual row is settled at the row the table has for it.
LEMMA NearIsSettled ==
  ASSUME NEW c \in Int, NEW off \in Int, Near(MaxGain - c, off)
  PROVE  \/ Abs(off) < Unit * (Spread + 1)
         \/ Setting(c) = Table[MaxGain] /\ off < 0
         \/ Setting(c) = Table[0] /\ off > 0
<1>1. MaxGain - c \in Int /\ Setting(c) = Table[RowAt(MaxGain - c)]
  BY SettingIs
<1>2. Rise \in Int /\ Rise >= 0 /\ Unit * (Spread + 1) = Rise + Unit
  <2>1. MaxGain \in 0 .. MaxGain /\ 0 \in 0 .. MaxGain
    BY AgcAssumption
  <2>2. Table[MaxGain] \in Int /\ Table[0] \in Int /\ MaxGain \in Int /\ Unit \in Int
    BY <2>1, AgcAssumption, TableAssumption
  <2>3. Spread \in Int
    BY <2>2 DEF Spread
  <2>4. Unit * (Spread + 1) = Unit * Spread + Unit
    BY <2>2, <2>3
  <2>5. Rise \in Int /\ Rise >= 0
    BY <2>1, Lifts
  <2>6. QED
    BY <2>4, <2>5 DEF Rise, Span
<1> DEFINE bound == Unit * (Spread + 1)
           row == MaxGain - c
           g == Setting(c)
           rise == Rise
<1>3. Near(row, off) /\ row \in Int /\ off \in Int /\ rise \in Int /\ bound = rise + Unit
  BY <1>1, <1>2
<1>4. MaxGain \in Int /\ MaxGain >= 0 /\ Unit \in Int /\ Unit > 0
  BY SpanZero
<1> DEFINE Goal == \/ Abs(off) < bound
                   \/ g = Table[MaxGain] /\ off < 0
                   \/ g = Table[0] /\ off > 0
<1> SUFFICES Goal
  OBVIOUS
<1>9. g = Table[RowAt(row)]
  BY <1>1
<1> HIDE DEF row, rise, bound, g
<1>5. CASE row \in 0 .. MaxGain
  <2>1. RowAt(row) = row
    BY <1>3, <1>4, <1>5 DEF RowAt
  <2>2. \/ -bound < off /\ off < bound
        \/ row = MaxGain /\ off < 0
        \/ row = 0 /\ off > 0
    BY <1>3, <1>5 DEF Near, rise
  <2>3. Goal \/ (-bound < off /\ off < bound)
    BY <1>9, <2>1, <2>2 
  <2>4. -bound < off /\ off < bound => Abs(off) < bound
    BY <1>3, <1>4 DEF Abs
  <2>5. QED
    BY <2>3, <2>4 
<1>6. CASE row > MaxGain
  <2>1. RowAt(row) = MaxGain
    BY <1>3, <1>4, <1>6 DEF RowAt
  <2>2. Span(row) \in Int /\ Span(MaxGain) \in Int /\ Span(MaxGain) <= Span(row)
    BY <1>3, <1>4, <1>6, SpanIs, SpanGrows
  <2>3. off < 0 \/ Span(row) - Span(MaxGain) + off < rise + Unit
    BY <1>3, <1>6 DEF Near, rise
  <2>4. CASE off < 0
    BY <1>9, <2>1, <2>4 
  <2>5. CASE off >= 0
    <3>1. off < bound
      BY <1>3, <1>4, <2>2, <2>3, <2>5
    <3>2. Abs(off) < bound
      BY <1>3, <2>5, <3>1 DEF Abs
    <3>3. QED
      BY <3>2 
  <2>6. QED
    BY <1>3, <2>4, <2>5
<1>7. CASE row < 0
  <2>1. RowAt(row) = 0
    BY <1>3, <1>4, <1>7 DEF RowAt
  <2>2. Span(row) \in Int /\ Span(row) <= 0
    BY <1>3, <1>7, SpanIs, SpanGrows, SpanZero
  <2>3. off > 0 \/ Span(row) + off > -(rise + Unit)
    BY <1>3, <1>4, <1>7 DEF Near, rise
  <2>4. CASE off > 0
    BY <1>9, <2>1, <2>4 
  <2>5. CASE off <= 0
    <3>1. off > -bound
      BY <1>3, <1>4, <2>2, <2>3, <2>5
    <3>2. Abs(off) < bound
      BY <1>3, <1>4, <2>5, <3>1 DEF Abs
    <3>3. QED
      BY <3>2 
  <2>6. QED
    BY <1>3, <2>4, <2>5
<1>8. QED
  BY <1>3, <1>4, <1>5, <1>6, <1>7

\* A reading that is not negative apart, the register tells the level of a
\* packet, unless it is below its range.
LEMMA ReadingIs ==
  ASSUME TypeInv, Readable, start <= i, Reading < 0
  PROVE  /\ Reading \in Int
         /\ \/ Reading = level + Unit * gain
            \/ Reading = Floor /\ level + Unit * gain < Floor
<1>1. Unit * gain \in Int /\ level \in Int /\ Ceiling >= 0
  BY GainIsInt, AgcAssumption DEF TypeInv, Readable
<1> DEFINE lift == Unit * gain
<1>2. Reading = Clip(level + lift)
  BY DEF Reading
<1>3. lift \in Int
  BY <1>1
<1> HIDE DEF lift
<1>4. Reading = level + lift \/ (Reading = Floor /\ level + lift < Floor)
  BY <1>1, <1>2, <1>3, AgcAssumption DEF Clip
<1>5. QED
  BY <1>4, ReadingIsInt DEF lift

\* A fine adjustment while the packet is there leads near the target, and where
\* the table is even, nearer with the next one.
LEMMA TuneTracks ==
  ASSUME TypeInv, Readable, start <= i, Reading < 0, gain = Setting(cumulative),
         Virtual \in 0 .. MaxGain \/ Near(Virtual, Off), TypeInv',
         cumulative' = cumulative + Truncate(Abs(Target) - Abs(Reading)),
         gain' = Setting(cumulative'), level' = level
  PROVE  /\ Near(Virtual', Off')
         /\ EvenNeed /\ Virtual \in 0 .. MaxGain => Virtual' \in 0 .. Knee
         /\ EvenNeed /\ Virtual \in 0 .. Knee => Abs(Off') < Unit
<1> DEFINE d == Abs(Target) - Abs(Reading)
           t == Truncate(d)
           v == Virtual
           w == v - t
           lv == Lift(RowAt(v))
           lw == Lift(RowAt(w))
           l0 == Lift(0)
           lm == Lift(MaxGain)
           lift == Unit * gain
<1>0. /\ MaxGain \in Nat /\ 0 \in 0 .. MaxGain /\ MaxGain \in 0 .. MaxGain /\ Knee \in 0 .. MaxGain
      /\ Unit \in Int /\ Unit > 0 /\ Target \in Int /\ Target < 0 /\ Floor \in Int /\ level \in Int
      /\ cumulative \in Int
  BY AgcAssumption, TableAssumption DEF TypeInv
<1>1. Reading \in Int /\ (Reading = level + lift \/ (Reading = Floor /\ level + lift < Floor))
  BY ReadingIs
<1>2. v \in Int /\ Off \in Int /\ Off = level + lv - Target /\ lift = lv
  <2>1. v \in Int /\ lift = lv /\ lv \in Int
    BY <1>0, SettingIs DEF Virtual
  <2> HIDE DEF lv
  <2>2. QED
    BY <1>0, <2>1 DEF Off
<1>3. d \in Int /\ d = Reading - Target
  BY <1>0, <1>1 DEF Abs
<1>4. Rounds(t, d) /\ t \in Int
  BY <1>3, TruncateIs DEF Rounds
<1>5. Virtual' = w
  <2>1. cumulative' = cumulative + t
    OBVIOUS
  <2>2. Virtual' = MaxGain - cumulative'
    BY DEF Virtual
  <2> HIDE DEF t
  <2>3. QED
    BY <1>0, <1>4, <2>1, <2>2 DEF Virtual
<1>6. w \in Int
  BY <1>2, <1>4
<1>7. lv \in Int /\ lw \in Int /\ l0 \in Int /\ lm \in Int
  BY <1>0, <1>2, <1>6, RowFits, Lifts
<1>8. Off' = level + lw - Target
  <2>1. cumulative' \in Int
    BY DEF TypeInv
  <2>2. Unit * gain' = Lift(RowAt(MaxGain - cumulative'))
    BY <2>1, SettingIs
  <2>3. Unit * gain' = lw
    BY <1>5, <2>2 DEF Virtual
  <2>4. QED
    BY <2>3 DEF Off
<1>9. /\ Readable => lm - l0 <= Target - Floor /\ -Target <= Span(Knee)
      /\ Span(Knee) \in Int
  <2>1. Knee \in Int
    BY <1>0
  <2>2. QED
    BY <2>1, SpanIs DEF Readable
<1>10. CASE Reading = level + lift
  <2>1. d = Off
    <3> HIDE DEF d, lv, lift
    <3>1. QED
      BY <1>0, <1>1, <1>2, <1>3, <1>7, <1>10
  <2>2. Rounds(t, Off)
    BY <1>4, <2>1
  <2>3. Near(w, Off + lw - lv)
    BY <1>2, <1>4, <2>2, StepNear
  <2>4. Off + lw - lv = level + lw - Target
    <3> HIDE DEF lv, lw
    <3>1. QED
      BY <1>0, <1>2, <1>7
  <2>5. Near(Virtual', Off')
    BY <1>5, <1>8, <2>3, <2>4
  <2>6. ASSUME EvenNeed, Virtual \in 0 .. MaxGain
        PROVE  /\ Virtual' \in 0 .. Knee
               /\ Virtual \in 0 .. Knee => Abs(Off') < Unit
    <3> DEFINE need == Target - level
    <3>1. need \in Int /\ l0 <= need /\ need <= Lift(Knee)
      BY <1>0, <2>6 DEF EvenNeed
    <3>2. RowAt(v) = v
      BY <1>0, <2>6 DEF RowAt
    <3>3. lv = Lift(v)
      BY <3>2
    <3>4. Lift(v) - need = Off
      <4> HIDE DEF lv
      <4>1. QED
        BY <1>0, <1>2, <1>7, <3>3
    <3>5. Off <= Span(Knee)
      <4>1. Off < -Target
        BY <1>0, <1>1, <1>3, <2>1
      <4>2. QED
        BY <1>0, <1>2, <1>9, <4>1
    <3> HIDE DEF need, t
    <3>6. /\ w \in 0 .. Knee
          /\ v \in 0 .. Knee => -Unit < Lift(w) - need /\ Lift(w) - need < Unit
      BY <1>4, <2>2, <2>6, <3>1, <3>4, <3>5, StepEven
    <3>7. ASSUME Virtual \in 0 .. Knee PROVE Abs(Off') < Unit
      <4>1. RowAt(w) = w
        BY <1>0, <3>6 DEF RowAt
      <4>2. lw = Lift(w)
        BY <4>1
      <4>3. Off' = Lift(w) - need /\ Off' \in Int
        <5>1. Off' = level + Lift(w) - Target /\ Lift(w) \in Int
          BY <1>7, <1>8, <4>2
        <5>2. QED
          BY <1>0, <5>1 DEF need
      <4>4. -Unit < Off' /\ Off' < Unit
        BY <3>6, <3>7, <4>3
      <4>5. QED
        BY <1>0, <4>3, <4>4 DEF Abs
    <3>8. QED
      BY <1>5, <3>6, <3>7
  <2>7. Knee <= MaxGain /\ 0 .. Knee \subseteq 0 .. MaxGain
    BY <1>0
  <2>8. QED
    BY <2>5, <2>6, <2>7
<1>11. CASE Reading = Floor /\ level + lift < Floor
  <2>1. d = Floor - Target /\ d <= -(lm - l0) /\ Off < d
    <3> HIDE DEF d, lv, lift, lm, l0
    <3>1. QED
      BY <1>0, <1>1, <1>2, <1>3, <1>7, <1>9, <1>11
  <2>2. Span(MaxGain) <= lm - l0 /\ lm - l0 <= Span(MaxGain) + Rise
        /\ Span(MaxGain) \in Int /\ Span(MaxGain) >= 0 /\ Rise \in Int /\ Rise >= 0
    <3>1. Span(MaxGain) - Span(0) <= lm - l0 /\ lm - l0 <= Span(MaxGain) - Span(0) + Rise
          /\ Rise \in Int /\ Rise >= 0
      BY <1>0, Lifts
    <3>2. Span(MaxGain) \in Int /\ Span(0) = 0 /\ Span(MaxGain) >= Span(0)
      BY <1>0, SpanIs, SpanGrows, SpanZero
    <3>3. QED
      BY <3>1, <3>2
  <2>3. v >= 0
    <3> SUFFICES ASSUME v < 0 PROVE FALSE
      BY <1>2
    <3>1. Near(v, Off)
      BY <1>0, <1>2
    <3>2. Off > 0 \/ Span(v) + Off > -(Rise + Unit)
      BY <3>1 DEF Near
    <3>3. Span(v) \in Int /\ Span(v) + Unit <= 0
      BY <1>2, Spans, SpanZero
    <3>4. Rise <= lm - l0
      <4>1. Table[MaxGain] \in Int /\ Table[0] \in Int
        BY <1>0, TableAssumption
      <4>2. Table[MaxGain] - Table[0] \in Int
        BY <4>1
      <4>3. Rise = Span(Table[MaxGain] - Table[0]) - Span(MaxGain)
        BY <1>0, <4>2, SpanMinus DEF Rise, Spread
      <4>4. Span(Table[MaxGain] - Table[0]) = lm - l0
        BY <4>1, SpanMinus DEF Lift, Span
      <4> HIDE DEF lm, l0
      <4>5. QED
        BY <1>7, <2>2, <4>3, <4>4
    <3> HIDE DEF d, v, lm, l0
    <3>5. QED
      BY <1>0, <1>2, <1>3, <1>7, <2>1, <2>2, <3>2, <3>3, <3>4
  <2>4. Span(t) \in Int /\ Span(w) = Span(v) - Span(t) /\ Span(v) \in Int /\ Span(v) >= 0
        /\ Span(w) \in Int
    <3>1. Span(v) >= Span(0) /\ Span(v) \in Int
      BY <1>2, <2>3, Spans
    <3>2. Span(t) \in Int /\ Span(w) = Span(v) - Span(t)
      BY <1>2, <1>4, Spans
    <3>3. Span(w) \in Int
      BY <1>6, SpanIs
    <3>4. QED
      BY <3>1, <3>2, <3>3, SpanZero
  <2>5. w >= MaxGain
    <3> SUFFICES ASSUME w < MaxGain PROVE FALSE
      BY <1>0, <1>6
    <3>1. Span(w) + Unit <= Span(MaxGain)
      <4> HIDE DEF w
      <4>1. QED
        BY <1>0, <1>6, Spans
    <3>2. /\ d >= 0 => Span(t) <= d
          /\ d < 0 => Span(t) < d + Unit
      BY <1>4 DEF Rounds, Span
    <3> DEFINE sm == Span(MaxGain)
               st == Span(t)
               sv == Span(v)
               sw == Span(w)
    <3>3. /\ d \in Int /\ Unit \in Int /\ Unit > 0 /\ lm \in Int /\ l0 \in Int
          /\ d <= -(lm - l0) /\ sm <= lm - l0 /\ sm \in Int /\ sm >= 0
          /\ st \in Int /\ sv \in Int /\ sw \in Int /\ sw = sv - st /\ sv >= 0
      BY <1>0, <1>3, <1>7, <2>1, <2>2, <2>4
    <3>4. /\ sw + Unit <= sm
          /\ d >= 0 => st <= d
          /\ d < 0 => st < d + Unit
      BY <3>1, <3>2
    <3> HIDE DEF d, lm, l0, sm, st, sv, sw
    <3>5. QED
      BY <3>3, <3>4
  <2>6. RowAt(w) = MaxGain
    BY <1>0, <1>6, <2>5 DEF RowAt
  <2>7. lw = lm
    BY <2>6
  <2>8. l0 <= lv
    <3>1. RowAt(v) \in 0 .. MaxGain
      BY <1>2, RowFits
    <3>2. Span(RowAt(v)) - Span(0) <= lv - l0 /\ Span(RowAt(v)) \in Int
      BY <1>0, <3>1, Lifts, SpanIs
    <3>3. Span(RowAt(v)) >= Span(0)
      BY <1>0, <3>1, SpanGrows
    <3> HIDE DEF lv, l0
    <3>4. QED
      BY <1>7, <3>2, <3>3, SpanZero
  <2>9. Off' < 0
    <3> HIDE DEF d, lv, lw, lm, l0
    <3>1. QED
      BY <1>0, <1>2, <1>3, <1>7, <1>8, <2>1, <2>7, <2>8
  <2>10. Near(Virtual', Off')
    BY <1>0, <1>5, <1>6, <2>5, <2>9 DEF Near
  <2>11. ~EvenNeed
    <3>1. Lift(Knee) <= lm /\ Lift(Knee) \in Int
      <4>1. Span(MaxGain) - Span(Knee) <= lm - Lift(Knee) /\ Lift(Knee) \in Int
        BY <1>0, Lifts
      <4>2. Span(Knee) <= Span(MaxGain) /\ Span(Knee) \in Int /\ Span(MaxGain) \in Int
        BY <1>0, SpanIs, SpanGrows
      <4> HIDE DEF lm
      <4>3. QED
        BY <1>7, <4>1, <4>2
    <3> HIDE DEF d, lv, lm, l0
    <3>2. ~(Target - level <= Lift(Knee))
      BY <1>0, <1>2, <1>3, <1>7, <2>1, <2>8, <3>1
    <3>3. QED
      BY <3>2 DEF EvenNeed
  <2>12. QED
    BY <2>10, <2>11
<1>12. QED
  BY <1>1, <1>10, <1>11

\* Every step keeps the control near the target once it has tuned.
LEMMA GainStep ==
  ASSUME NEW Sum, IsSum(Sum), SearchIsLong, Readable,
         TypeInv, IdleInv, Progress, GainInv(Sum), [Next]_vars, TypeInv'
  PROVE  GainInv(Sum)'
<1> SUFFICES ASSUME alive' = TRUE, frame' > 0, base' = Table[MaxGain], carried' = FALSE
             PROVE  /\ Controls' => gain' = Setting(cumulative')
                    /\ Controls' /\ tunes' = 0 => cumulative' = Sum[stage']
                    /\ tunes' > 0 => /\ firstTune' < i'
                                     /\ start' <= firstTune' => Landed' /\ (Controls' => Tracks')
  BY DEF GainInv
<1>1. CASE StartFrame
  <2>1. fsm = "idle" /\ gain' = Table[MaxGain] /\ tunes' = 0 /\ UNCHANGED <<stage, cumulative>>
    BY <1>1 DEF StartFrame
  <2>2. Setting(0) = Table[MaxGain]
    BY AgcAssumption DEF Setting, Adjusted
  <2>3. QED
    BY <2>1, <2>2 DEF IdleInv, IsSum
<1>2. CASE UNCHANGED vars
  BY <1>2 DEF vars, machine, flags, packet, history, GainInv, Controls, Landed, Settled, Tracks,
              Off, Virtual, EvenNeed
<1>3. CASE NewSample
  <2>1. alive = TRUE /\ i \in Nat /\ i < Samples /\ i' = i + 1 /\ UNCHANGED packet
    <3>1. Sample
      BY <1>3 DEF NewSample, Ignore, Wake, SatGain, SatDone, FineTune, StillSaturated,
                  FullReset
    <3>2. QED
      BY <3>1 DEF Sample, TypeInv
  <2>2. frame > 0 /\ base = Table[MaxGain] /\ carried = FALSE /\ UNCHANGED <<level, start>>
    BY <2>1 DEF packet
  <2>3. /\ Controls => gain = Setting(cumulative)
        /\ Controls /\ tunes = 0 => cumulative = Sum[stage]
        /\ tunes > 0 => /\ firstTune < i
                        /\ start <= firstTune => Landed /\ (Controls => Tracks)
    BY <2>1, <2>2 DEF GainInv
  <2>4. Controlled
    BY <2>1, <2>2, AgcAssumption DEF Progress, Phase, Fresh, TypeInv
  <2>5. firstTune \in Int /\ tunes \in Nat /\ stage \in 0 .. MaxSat /\ start \in Nat
    BY DEF TypeInv
  <2>6. CASE UNCHANGED <<gain, stage, cumulative, history>> /\ (Controls' => Controls)
    <3>1. UNCHANGED <<tunes, firstTune>> /\ (Landed' <=> Landed) /\ (Tracks' <=> Tracks)
      BY <2>2, <2>6 DEF history, Landed, Settled, Tracks, Off, Virtual, EvenNeed
    <3>2. QED
      BY <2>1, <2>2, <2>3, <2>5, <2>6, <3>1
  <2>7. CASE Ignore \/ Wake \/ SatDone
    BY <2>6, <2>7 DEF Ignore, Wake, SatDone, machine, Controls
  <2>8. CASE SatGain
    <3>1. tunes = 0 /\ fsm = "satDet" /\ stage < MaxSat
      BY <2>4, <2>8 DEF SatGain, IdleInv, Controlled, Waking, Searching, LastLook, Tuning, Done
    <3>2. cumulative' = Sum[stage] + Drops[stage] /\ stage' = stage + 1 /\ tunes' = 0
          /\ gain' = Setting(cumulative')
      BY <2>3, <2>8, <3>1 DEF SatGain, Controls
    <3>3. stage \in 0 .. MaxSat - 1
      BY <2>5, <3>1, AgcAssumption
    <3>4. cumulative' = Sum[stage']
      BY <3>2, <3>3 DEF IsSum
    <3>5. QED
      BY <3>2, <3>4
  <2>9. CASE FineTune
    <3>1. fsm = "measPwrWait" /\ Controls
      BY <2>9 DEF FineTune, Controls
    <3>2. tunes = 0 => Virtual \in 0 .. MaxGain
      <4>1. tunes = 0 => cumulative \in 0 .. MaxGain
        BY <2>3, <2>5, <3>1 DEF IsSum
      <4>2. QED
        BY <4>1, AgcAssumption DEF Virtual
    <3>3. tunes' = tunes + 1 /\ firstTune' = IF tunes = 0 THEN i ELSE firstTune
      BY <2>9 DEF FineTune
    <3>4. firstTune' < i' /\ tunes' > 0
      BY <2>1, <2>3, <2>5, <3>3
    <3>5. ASSUME start <= firstTune' PROVE Landed' /\ Tracks'
      <4>1. start <= i /\ (tunes > 0 => start <= firstTune)
        BY <2>1, <2>3, <2>5, <3>3, <3>5
      <4>2. tunes > 0 => Tracks
        BY <2>3, <3>1, <4>1
      <4>3. Virtual \in 0 .. MaxGain \/ Near(Virtual, Off)
        BY <2>5, <3>2, <4>2 DEF Tracks
      <4>4. /\ Reading < 0
            /\ cumulative' = cumulative + Truncate(Abs(Target) - Abs(Reading))
            /\ gain' = Setting(cumulative')
        BY <2>9 DEF FineTune
      <4>5. /\ Near(Virtual', Off')
            /\ EvenNeed /\ Virtual \in 0 .. MaxGain => Virtual' \in 0 .. Knee
            /\ EvenNeed /\ Virtual \in 0 .. Knee => Abs(Off') < Unit
        BY <2>2, <2>3, <3>1, <4>1, <4>3, <4>4, TuneTracks
      <4>6. EvenNeed' <=> EvenNeed
        BY <2>2 DEF EvenNeed
      <4>7. 0 .. Knee \subseteq 0 .. MaxGain
        BY TableAssumption, AgcAssumption
      <4>8. EvenNeed => Virtual \in 0 .. MaxGain /\ (tunes > 0 => Virtual \in 0 .. Knee)
        BY <2>5, <3>2, <4>2, <4>7 DEF Tracks
      <4>9. Settled'
        <5>1. cumulative' \in Int /\ gain' \in Int
          BY AgcAssumption, TableAssumption DEF TypeInv
        <5>2. Off' \in Int
          <6>0. level' \in Int
            BY DEF TypeInv
          <6>1. Unit * gain' \in Int /\ level' \in Int /\ Target \in Int
            <7>1. gain' \in Int /\ Unit \in Int /\ Target \in Int
              BY <5>1, AgcAssumption
            <7>2. QED
              BY <6>0, <7>1
          <6> DEFINE lift == Unit * gain'
          <6>2. Off' = level' + lift - Target
            BY DEF Off
          <6>3. lift \in Int
            BY <6>1
          <6> HIDE DEF lift
          <6>4. QED
            BY <6>1, <6>2, <6>3
        <5>3. Near(MaxGain - cumulative', Off')
          BY <4>5 DEF Virtual
        <5>4. \/ Abs(Off') < Unit * (Spread + 1)
              \/ Setting(cumulative') = Table[MaxGain] /\ Off' < 0
              \/ Setting(cumulative') = Table[0] /\ Off' > 0
          BY <5>1, <5>2, <5>3, NearIsSettled
        <5>5. Settled' <=> \/ Abs(Off') < Unit * (Spread + 1)
                           \/ gain' = Table[MaxGain] /\ Off' < 0
                           \/ gain' = Table[0] /\ Off' > 0
          BY DEF Settled, Abs
        <5>6. QED
          BY <4>4, <5>4, <5>5
      <4>10. tunes' > 1 => tunes > 0
        BY <2>5, <3>3
      <4>11. QED
        BY <4>5, <4>6, <4>8, <4>9, <4>10 DEF Landed, Tracks
    <3>6. gain' = Setting(cumulative')
      BY <2>9 DEF FineTune
    <3>7. QED
      BY <2>2, <2>5, <3>3, <3>4, <3>5, <3>6
  <2>10. CASE StillSaturated
    BY <2>10 DEF StillSaturated
  <2>11. CASE FullReset
    <3>1. ~Controls' /\ UNCHANGED <<gain, tunes, firstTune>>
      BY <2>11 DEF FullReset, Controls, history
    <3>2. Landed' <=> Landed
      BY <2>2, <3>1 DEF Landed, Settled, Off, EvenNeed
    <3>3. QED
      BY <2>1, <2>2, <2>3, <2>5, <3>1, <3>2
  <2>12. QED
    BY <1>3, <2>7, <2>8, <2>9, <2>10, <2>11 DEF NewSample
<1>4. QED
  BY <1>1, <1>2, <1>3 DEF Next

\* A frame with a fine adjustment while the packet is there ends near the
\* target, or at the end of the range of gains nearest to it, and within a
\* decibel after two of them where the table is even; when the coarse drops do
\* not exceed the table, the register covers its range below the target, and the
\* target is within its even part.
THEOREM TunedFramesSettle ==
  ASSUME SearchIsLong, Readable, NEW Sum, IsSum(Sum)
  PROVE  Spec => []Settles
<1>1. Init => Progress /\ GainInv(Sum)
  BY DEF Init, Progress, Phase, Fresh, GainInv
<1>2. TypeInv /\ Progress /\ GainInv(Sum) => Settles
  <2> SUFFICES ASSUME TypeInv, Progress, GainInv(Sum), FrameOver, base = Table[MaxGain],
                      tunes > 0, start <= firstTune
               PROVE  Landed
    BY DEF Settles, Landed, Settled, EvenNeed, Lift
  <2>1. alive = TRUE /\ frame > 0 /\ i = Samples
    BY DEF FrameOver
  <2>2. carried = FALSE
    BY <2>1, AgcAssumption DEF Progress, Phase, Fresh, Uncontrolled, CatchUp, Idles
  <2>3. QED
    BY <2>1, <2>2 DEF GainInv
<1>3. TypeInv /\ IdleInv /\ Progress /\ GainInv(Sum) /\ [Next]_vars /\ TypeInv'
         => Progress' /\ GainInv(Sum)'
  BY PhaseStep, GainStep
<1>4. QED
  BY <1>1, <1>2, <1>3, InitType, TypeStep, PTL DEF Spec
-----------------------------------------------------------------------------
(* HealthMonitor *)

\* What there is of numbers, there is a least of.
LEMMA Least ==
  ASSUME NEW S \in SUBSET Nat, S # {}
  PROVE  \E m \in S : \A x \in S : m <= x
<1>1. PICK m \in S : \A x \in S : ~ (<<x, m>> \in OpToRel(<, Nat))
  BY NatLessThanWellFounded, WFMin
<1>2. \A x \in S : ~ (x < m)
  BY <1>1 DEF OpToRel
<1>3. QED
  BY <1>2

\* There is an e-th number in a set of positions, and it is one of them.
LEMMA NthIs ==
  ASSUME NEW n \in Nat, NEW S \in SUBSET (1 .. n)
  PROVE  /\ IsFiniteSet(S) /\ Cardinality(S) \in Nat /\ Cardinality(S) <= n
         /\ \A e \in 1 .. Cardinality(S) :
              Nth(S, e) \in S /\ Cardinality({j \in S : j <= Nth(S, e)}) = e
<1> DEFINE C(k) == Cardinality({j \in S : j <= k})
<1>0. \A j \in S : j \in Int /\ 1 <= j /\ j <= n
  OBVIOUS
<1>1. IsFiniteSet(S) /\ Cardinality(S) \in Nat /\ Cardinality(S) <= n
  <2>1. IsFiniteSet(1 .. n) /\ Cardinality(1 .. n) = n
    BY FS_Interval
  <2>2. QED
    BY <2>1, FS_Subset, FS_CardinalityType
<1>2. ASSUME NEW e \in 1 .. Cardinality(S)
      PROVE  \E k \in S : C(k) = e
  <2> DEFINE Far == {k \in Nat : e <= C(k)}
  <2>1. {j \in S : j <= n} = S
    BY <1>0
  <2>2. n \in Far
    BY <2>1, <1>1
  <2>3. PICK m \in Far : \A x \in Far : m <= x
    <3> HIDE DEF C
    <3>1. Far \in SUBSET Nat /\ Far # {}
      BY <2>2
    <3> HIDE DEF Far
    <3>2. QED
      BY <3>1, Least
  <2>4. {j \in S : j <= 0} = {} /\ C(0) = 0
    <3>1. \A j \in S : ~(j <= 0)
      BY <1>0
    <3>2. {j \in S : j <= 0} = {}
      BY <3>1
    <3>3. QED
      BY <3>2, FS_EmptySet
  <2>5. m # 0 /\ m \in Nat /\ e <= C(m)
    BY <2>3, <2>4
  <2>6. m - 1 \in Nat /\ ~(e <= C(m - 1))
    <3> HIDE DEF C
    <3>1. m - 1 \in Nat /\ ~(m <= m - 1)
      BY <2>5
    <3>2. QED
      BY <2>3, <3>1
  <2>7. IsFiniteSet({j \in S : j <= m - 1})
    BY <1>1, FS_Subset
  <2>8. C(m - 1) \in Nat
    BY <2>7, FS_CardinalityType
  <2>9. m \in S
    <3>1. CASE m \notin S
      <4>1. {j \in S : j <= m} = {j \in S : j <= m - 1}
        <5>1. \A j \in S : j <= m <=> j <= m - 1
          BY <3>1, <2>5, <1>0
        <5>2. QED
          BY <5>1
      <4>2. QED
        BY <4>1, <2>5, <2>6
    <3>2. QED
      BY <3>1
  <2>10. {j \in S : j <= m} = {j \in S : j <= m - 1} \cup {m}
    <3>1. \A j \in S : j <= m <=> j <= m - 1 \/ j = m
      BY <2>5, <1>0
    <3>2. QED
      BY <2>9, <3>1
  <2>11. m \notin {j \in S : j <= m - 1}
    BY <2>5
  <2>12. C(m) = C(m - 1) + 1
    BY <2>7, <2>10, <2>11, FS_AddElement
  <2>13. C(m) = e
    <3> HIDE DEF C
    <3>1. QED
      BY <2>5, <2>6, <2>8, <2>12
  <2>14. QED
    BY <2>9, <2>13
<1>3. QED
  BY <1>1, <1>2 DEF Nth

\* The list of the positions: no position occurs twice.
LEMMA InOrderIs ==
  ASSUME NEW n \in Nat, NEW S \in SUBSET (1 .. n)
  PROVE  /\ InOrder(S) \in Seq(S) /\ Len(InOrder(S)) = Cardinality(S)
         /\ DOMAIN InOrder(S) = 1 .. Cardinality(S)
         /\ \A e, j \in 1 .. Cardinality(S) : InOrder(S)[e] = InOrder(S)[j] => e = j
<1>1. /\ Cardinality(S) \in Nat
      /\ \A e \in 1 .. Cardinality(S) :
           Nth(S, e) \in S /\ Cardinality({j \in S : j <= Nth(S, e)}) = e
  BY NthIs
<1>2. InOrder(S) \in [1 .. Cardinality(S) -> S]
  BY <1>1 DEF InOrder
<1>3. InOrder(S) \in Seq(S) /\ Len(InOrder(S)) = Cardinality(S)
  BY <1>1, <1>2
<1>4. ASSUME NEW e \in 1 .. Cardinality(S), NEW j \in 1 .. Cardinality(S),
             InOrder(S)[e] = InOrder(S)[j]
      PROVE  e = j
  <2>1. Nth(S, e) = Nth(S, j)
    BY <1>4 DEF InOrder
  <2>2. QED
    BY <2>1, <1>1
<1>5. QED
  BY <1>2, <1>3, <1>4

\* A list without some of its places is a list of the rest of its entries.
LEMMA WithoutIs ==
  ASSUME NEW X, NEW s \in Seq(X), NEW P
  PROVE  /\ Without(s, P) \in Seq(X)
         /\ Len(Without(s, P)) = Cardinality(DOMAIN s \ P)
         /\ \A e \in DOMAIN Without(s, P) :
              \E k \in DOMAIN s \ P : Without(s, P)[e] = s[k]
         /\ IsInjective(s) => IsInjective(Without(s, P))
<1> DEFINE K == DOMAIN s \ P
<1> DEFINE kept == InOrder(K)
<1>1. Len(s) \in Nat /\ K \in SUBSET (1 .. Len(s)) /\ DOMAIN s = 1 .. Len(s)
  OBVIOUS
<1>2. /\ kept \in Seq(K) /\ Len(kept) = Cardinality(K)
      /\ DOMAIN kept = 1 .. Cardinality(K)
      /\ \A e, j \in 1 .. Cardinality(K) : kept[e] = kept[j] => e = j
  <2> HIDE DEF K
  <2>1. QED
    BY <1>1, InOrderIs
<1>3. Cardinality(K) \in Nat
  BY <1>1, NthIs
<1>4. Without(s, P) = [k \in DOMAIN kept |-> s[kept[k]]]
  BY DEF Without
<1>5. \A k \in DOMAIN kept : kept[k] \in K /\ s[kept[k]] \in X
  BY <1>1, <1>2
<1>6. Without(s, P) \in [1 .. Cardinality(K) -> X]
  BY <1>2, <1>4, <1>5
<1>7. Without(s, P) \in Seq(X) /\ Len(Without(s, P)) = Cardinality(K)
  <2> HIDE DEF K
  <2>1. QED
    BY <1>3, <1>6
<1>8. \A e \in DOMAIN Without(s, P) : \E k \in K : Without(s, P)[e] = s[k]
  BY <1>4, <1>5
<1>9. ASSUME IsInjective(s) PROVE IsInjective(Without(s, P))
  <2>1. SUFFICES ASSUME NEW a \in DOMAIN Without(s, P), NEW b \in DOMAIN Without(s, P),
                        Without(s, P)[a] = Without(s, P)[b]
                 PROVE  a = b
    BY Zenon DEF IsInjective
  <2>2. a \in DOMAIN kept /\ b \in DOMAIN kept /\ s[kept[a]] = s[kept[b]]
    BY <1>4, <2>1
  <2>3. kept[a] = kept[b]
    BY <1>5, <1>9, <2>2 DEF IsInjective
  <2>4. QED
    BY <1>2, <2>2, <2>3
<1>10. QED
  BY <1>7, <1>8, <1>9
-----------------------------------------------------------------------------
Results == {"Passed", "Failed", ""}
Told(p) == p # ""
Rows == [pf : Results, uut : Irises, ch : {"A", "B", "AB"},
         gain : Int, high : SUBSET {"A", "B"}]

\* The results a row can hold; told apart from "" by Told only.
LEMMA ResultsAre ==
  /\ {"Passed", "Failed", ""} \subseteq Results
  /\ Told("Passed") /\ Told("Failed") /\ ~Told("")
BY DEF Results, Told

\* Every radio under test is an Iris and occurs once, and has a front end.
HealthType ==
  /\ command \in Commands
  /\ phase \in {"prepare", "rx", "tx", "report", "end", "unbound"}
  /\ uuts \in Seq(Irises) /\ IsInjective(uuts)
  /\ frontends \in Seq(Boards) /\ Len(uuts) <= Len(frontends)
  /\ at \in 1 .. Len(uuts) + 1 /\ ch \in {"A", "B"} /\ uut_gain \in Int
  /\ logged \in SUBSET {"A", "B"} /\ high \in SUBSET {"A", "B"}
  /\ rows \in Seq(Rows) /\ pf \in [{"rx", "tx"} -> BOOLEAN]

\* What the assumption says of a command line, of the boards and of the step.
LEMMA CommandIs ==
  ASSUME NEW c \in Commands
  PROVE  /\ c.uuts \in Seq(Irises) /\ IsInjective(c.uuts) /\ c.golden \in Irises
         /\ c.golden \notin ToSet(c.uuts) /\ c.ant \in {"A", "B", "AB"}
         /\ c.txOnly \in BOOLEAN /\ c.rxOnly \in BOOLEAN /\ c.detailed \in BOOLEAN
BY HealthAssumption

LEMMA BoardsAre ==
  /\ Frontend \in [Irises -> Boards] /\ Lowest \in [Boards -> Nat]
  /\ Highest["rx"] \in [Boards -> Nat] /\ Highest["tx"] \in [Boards -> Nat]
BY HealthAssumption

LEMMA StepIs == Step \in Nat
BY HealthAssumption, Zenon

\* The radios to test are found on the network or named, each once, and each
\* place of their list has one in the list of the front ends.
LEMMA PrepareTypes ==
  ASSUME command \in Commands, Prepare
  PROVE  /\ uuts' \in Seq(Irises) /\ IsInjective(uuts')
         /\ frontends' \in Seq(Boards) /\ Len(uuts') <= Len(frontends')
<1> DEFINE all == IF command.uuts = <<>> THEN Network ELSE Append(command.uuts, command.golden)
<1> DEFINE gone == {k \in DOMAIN all : all[k] = command.golden}
<1> DEFINE rest == Without(all, gone)
<1> DEFINE taken == {k \in DOMAIN rest : rest[k] \in command.remove}
<1> DEFINE fronts == [k \in DOMAIN all |-> Frontend[all[k]]]
<1>1. uuts' = Without(rest, taken) /\ frontends' = Without(fronts, taken)
  BY DEF Prepare
<1>2. all \in Seq(Irises) /\ IsInjective(all)
  <2>1. CASE command.uuts = <<>>
    BY <2>1, HealthAssumption
  <2>2. CASE command.uuts # <<>>
    <3> DEFINE u == command.uuts
    <3>1. /\ u \in Seq(Irises) /\ IsInjective(u) /\ command.golden \in Irises
          /\ \A k \in 1 .. Len(u) : u[k] # command.golden
      BY CommandIs DEF ToSet
    <3>2. all = Append(u, command.golden)
      BY <2>2
    <3> HIDE DEF u, all
    <3>3. all \in Seq(Irises) /\ DOMAIN all = 1 .. Len(u) + 1 /\ Len(u) \in Nat
      BY <3>1, <3>2
    <3>4. \A k \in 1 .. Len(u) : all[k] = u[k]
      BY <3>1, <3>2
    <3>5. all[Len(u) + 1] = command.golden
      BY <3>1, <3>2
    <3>6. \A j, k \in 1 .. Len(u) : u[j] = u[k] => j = k
      BY <3>1 DEF IsInjective
    <3>7. \A j, k \in DOMAIN all : all[j] = all[k] => j = k
      BY <3>1, <3>3, <3>4, <3>5, <3>6
    <3>8. QED
      BY <3>3, <3>7 DEF IsInjective
  <2>3. QED
    BY <2>1, <2>2
<1> HIDE DEF all
<1>3. rest \in Seq(Irises) /\ IsInjective(rest) /\ Len(rest) = Cardinality(DOMAIN all \ gone)
  <2> HIDE DEF gone
  <2>1. QED
    BY <1>2, WithoutIs
<1>4. fronts \in Seq(Boards) /\ DOMAIN fronts = DOMAIN all
  <2>1. Len(all) \in Nat /\ \A k \in 1 .. Len(all) : Frontend[all[k]] \in Boards
    BY <1>2, BoardsAre
  <2>2. fronts \in [1 .. Len(all) -> Boards]
    BY <1>2, <2>1
  <2>3. QED
    BY <1>2, <2>1, <2>2
<1>5. DOMAIN rest \ taken \subseteq DOMAIN all \ taken
  <2>1. DOMAIN rest = 1 .. Len(rest) /\ DOMAIN all = 1 .. Len(all)
    BY <1>2, <1>3
  <2>2. DOMAIN all \ gone \in SUBSET (1 .. Len(all)) /\ Len(all) \in Nat
    BY <1>2, <2>1
  <2>3. Len(rest) <= Len(all) /\ Len(rest) \in Nat
    BY <1>3, <2>2, NthIs
  <2>4. 1 .. Len(rest) \subseteq 1 .. Len(all)
    <3> HIDE DEF rest, gone, taken
    <3>1. QED
      BY <2>2, <2>3
  <2>5. QED
    BY <2>1, <2>4, Zenon
<1> HIDE DEF gone, rest, taken, fronts
<1>6. /\ uuts' \in Seq(Irises) /\ IsInjective(uuts')
      /\ Len(uuts') = Cardinality(DOMAIN rest \ taken)
  <2>1. /\ Without(rest, taken) \in Seq(Irises) /\ IsInjective(Without(rest, taken))
        /\ Len(Without(rest, taken)) = Cardinality(DOMAIN rest \ taken)
    <3> DEFINE s == rest
    <3> DEFINE P == taken
    <3>1. s \in Seq(Irises) /\ IsInjective(s)
      BY <1>3
    <3> HIDE DEF s, P
    <3>2. /\ Without(s, P) \in Seq(Irises) /\ IsInjective(Without(s, P))
          /\ Len(Without(s, P)) = Cardinality(DOMAIN s \ P)
      BY <3>1, WithoutIs
    <3>3. QED
      BY <3>2 DEF s, P
  <2>2. QED
    BY <1>1, <2>1, Zenon
<1>7. frontends' \in Seq(Boards) /\ Len(frontends') = Cardinality(DOMAIN all \ taken)
  BY <1>1, <1>4, WithoutIs
<1>8. Cardinality(DOMAIN rest \ taken) <= Cardinality(DOMAIN all \ taken)
  <2>1. DOMAIN all = 1 .. Len(all) /\ Len(all) \in Nat
    BY <1>2
  <2>2. IsFiniteSet(DOMAIN all \ taken)
    <3>1. DOMAIN all \ taken \in SUBSET (1 .. Len(all))
      BY <2>1
    <3>2. QED
      BY <2>1, <3>1, NthIs
  <2>3. QED
    BY <1>5, <2>2, FS_Subset
<1>9. QED
  BY <1>6, <1>7, <1>8

\* The radio under test is one of the list.
LEMMA RadioIs ==
  ASSUME HealthType, Testing
  PROVE  at \in 1 .. Len(uuts) /\ Len(uuts) \in Nat /\ uuts[at] \in Irises
<1>1. uuts \in Seq(Irises) /\ at \in 1 .. Len(uuts) + 1 /\ at <= Len(uuts)
  BY Zenon DEF HealthType, Testing
<1>2. QED
  BY <1>1

\* The row of the radio under test.
LEMMA RowIs ==
  ASSUME HealthType, Testing, NEW p \in Results, NEW c \in {"A", "B", "AB"},
         NEW h \in SUBSET {"A", "B"}
  PROVE  Row(p, c, h) \in Rows
BY RadioIs DEF Row, Rows, HealthType

\* A log stays a log, and the ranges of gains are numbers.
LEMMA NotedIs ==
  ASSUME NEW log \in Seq(Rows), NEW due \in BOOLEAN, NEW row \in Rows
  PROVE  Noted(log, due, row) \in Seq(Rows)
BY DEF Noted

LEMMA GainsAreIntegers ==
  ASSUME HealthType, phase \in {"rx", "tx"}, NEW k \in 1 .. Len(uuts)
  PROVE  Highest[phase][frontends[k]] \in Int /\ Lowest[frontends[k]] \in Int
<1>1. frontends[k] \in Boards
  <2>1. frontends \in Seq(Boards) /\ Len(uuts) <= Len(frontends) /\ Len(uuts) \in Nat
    BY DEF HealthType
  <2>2. QED
    BY <2>1
<1>2. QED
  BY <1>1, BoardsAre
-----------------------------------------------------------------------------
\* The verdicts in a log; the radios and channels that have theirs.
VerdictsIn(log, u, c) ==
  {k \in 1 .. Len(log) : log[k].uut = u /\ log[k].ch = c /\ Told(log[k].pf)}
Only(S) == \E k \in S : S = {k}
Judged(j, c) ==
  \/ j < at
  \/ j = at /\ IF phase = "rx" THEN c \in logged
               ELSE (c = "A" /\ ch = "B") \/ (c = ch /\ logged # {})

\* One verdict for each radio and channel that was swept, and none before.
VerdictInv ==
  /\ phase = "rx" \/ (phase = "tx" /\ command.ant # "AB") =>
       \A j \in 1 .. Len(uuts), c \in {"A", "B"} :
         IF Judged(j, c) THEN Only(VerdictsIn(rows, uuts[j], c))
                         ELSE VerdictsIn(rows, uuts[j], c) = {}
  /\ phase = "tx" /\ Testing /\ logged # {} => ~InRange
  /\ phase = "tx" /\ ~Testing => ch = "A"

\* The result of a test is that of its rows.
PassedIn(log) == \A k \in 1 .. Len(log) : log[k].pf # "Failed"
ResultInv ==
  /\ phase \in {"rx", "tx"} => (pf[phase] <=> PassedIn(rows))
  /\ phase \in {"prepare", "rx"} => pf["tx"] = TRUE
  /\ phase = "prepare" => pf["rx"] = TRUE

\* The rows of a radio follow each other; those of a transmitter begin with
\* channel A.  Key numbers the blocks, and Now is the one that is written.
Place(us, u) == CHOOSE j \in 1 .. Len(us) : us[j] = u
Block(test, j, c) == IF test = "tx" THEN 2 * j - (IF c = "A" THEN 1 ELSE 0) ELSE j
Key(test, us, row) == Block(test, Place(us, row.uut), row.ch)
LastKey(test, us, log) == IF Len(log) = 0 THEN 0 ELSE Key(test, us, log[Len(log)])
InBlocks(test, us, log) ==
  \A k \in 1 .. Len(log) :
    /\ \E j \in 1 .. Len(us) : us[j] = log[k].uut
    /\ test = "tx" => log[k].ch \in {"A", "B"}
    /\ LET last == IF k = 1 THEN 0 ELSE Key(test, us, log[k - 1])
       IN  Key(test, us, log[k]) \in {last, last + 1}
Now == Block(phase, at, ch)
BlockInv ==
  phase \in {"rx", "tx"} =>
    /\ InBlocks(phase, uuts, rows)
    /\ IF phase = "tx" /\ command.ant = "AB" THEN rows = <<>>
       ELSE /\ LastKey(phase, uuts, rows) \in {Now - 1, Now}
            /\ logged # {} => LastKey(phase, uuts, rows) = Now

HealthInv == HealthType /\ VerdictInv /\ ResultInv /\ BlockInv

\* What a row does to the verdicts, the result and the blocks of a log.
LEMMA NotedVerdicts ==
  ASSUME NEW log \in Seq(Rows), NEW due \in BOOLEAN, NEW row \in Rows, NEW u, NEW c
  PROVE  /\ ~(due /\ row.uut = u /\ row.ch = c /\ Told(row.pf))
              => VerdictsIn(Noted(log, due, row), u, c) = VerdictsIn(log, u, c)
         /\ due /\ row.uut = u /\ row.ch = c /\ Told(row.pf) /\ VerdictsIn(log, u, c) = {}
              => Only(VerdictsIn(Noted(log, due, row), u, c))
<1> DEFINE hits == due /\ row.uut = u /\ row.ch = c /\ Told(row.pf)
<1>1. CASE due = FALSE
  BY <1>1 DEF Noted
<1>2. CASE due = TRUE
  <2> DEFINE new == Append(log, row)
  <2>1. Noted(log, due, row) = new
    BY <1>2 DEF Noted
  <2>2. /\ Len(log) \in Nat /\ Len(new) = Len(log) + 1 /\ new[Len(log) + 1] = row
        /\ \A k \in 1 .. Len(log) : new[k] = log[k]
    OBVIOUS
  <2> HIDE DEF new
  <2>3. VerdictsIn(new, u, c) = VerdictsIn(log, u, c) \cup (IF hits THEN {Len(log) + 1} ELSE {})
    <3>1. 1 .. Len(new) = (1 .. Len(log)) \cup {Len(log) + 1}
      BY <2>2
    <3>2. Len(log) + 1 \notin 1 .. Len(log)
      BY <2>2
    <3>3. QED
      BY <1>2, <2>2, <3>1, <3>2 DEF VerdictsIn
  <2>4. QED
    BY <2>1, <2>3 DEF Only
<1>3. QED
  BY <1>1, <1>2

\* A row spoils the result if and only if it says so.
LEMMA NotedResult ==
  ASSUME NEW log \in Seq(Rows), NEW due \in BOOLEAN, NEW row \in Rows
  PROVE  PassedIn(Noted(log, due, row)) <=> PassedIn(log) /\ ~(due /\ row.pf = "Failed")
<1>1. CASE due = FALSE
  BY <1>1 DEF Noted, PassedIn
<1>2. CASE due = TRUE
  <2> DEFINE new == Append(log, row)
  <2>1. Noted(log, due, row) = new
    BY <1>2 DEF Noted
  <2>2. /\ Len(log) \in Nat /\ Len(new) = Len(log) + 1 /\ new[Len(log) + 1] = row
        /\ \A k \in 1 .. Len(log) : new[k] = log[k]
    OBVIOUS
  <2> HIDE DEF new
  <2>3. PassedIn(new) <=> PassedIn(log) /\ row.pf # "Failed"
    <3>1. 1 .. Len(new) = (1 .. Len(log)) \cup {Len(log) + 1}
      BY <2>2
    <3>2. QED
      BY <2>2, <3>1 DEF PassedIn
  <2>4. QED
    BY <1>2, <2>1, <2>3 DEF PassedIn
<1>3. QED
  BY <1>1, <1>2

\* A radio has one place in the list.
LEMMA PlaceIs ==
  ASSUME NEW us \in Seq(Irises), IsInjective(us), NEW j \in 1 .. Len(us)
  PROVE  Place(us, us[j]) = j
<1>1. \A k \in 1 .. Len(us) : us[k] = us[j] => k = j
  BY DEF IsInjective
<1>2. QED
  BY <1>1 DEF Place

\* A row of the block that is written keeps the blocks in order.
LEMMA NotedBlocks ==
  ASSUME NEW us \in Seq(Irises), IsInjective(us), NEW test \in {"rx", "tx"},
         NEW log \in Seq(Rows), NEW due \in BOOLEAN, NEW row \in Rows,
         NEW j \in 1 .. Len(us), row.uut = us[j], test = "tx" => row.ch \in {"A", "B"},
         NEW n, n = Block(test, j, row.ch), InBlocks(test, us, log),
         LastKey(test, us, log) \in {n - 1, n}
  PROVE  /\ InBlocks(test, us, Noted(log, due, row))
         /\ LastKey(test, us, Noted(log, due, row)) \in {n - 1, n}
         /\ due \/ LastKey(test, us, log) = n => LastKey(test, us, Noted(log, due, row)) = n
<1>1. CASE due = FALSE
  BY <1>1 DEF Noted
<1>2. CASE due = TRUE
  <2> DEFINE new == Append(log, row)
  <2>1. Noted(log, due, row) = new
    BY <1>2 DEF Noted
  <2>2. /\ Len(log) \in Nat /\ Len(new) = Len(log) + 1 /\ new[Len(log) + 1] = row
        /\ \A k \in 1 .. Len(log) : new[k] = log[k]
    OBVIOUS
  <2> HIDE DEF new
  <2>3. Key(test, us, row) = n /\ n \in Int
    <3>1. Place(us, row.uut) = j
      BY PlaceIs
    <3>2. QED
      BY <3>1 DEF Key, Block
  <2>4. LastKey(test, us, new) = n
    BY <2>2, <2>3 DEF LastKey
  <2>5. ASSUME NEW k \in 1 .. Len(new)
        PROVE  /\ \E e \in 1 .. Len(us) : us[e] = new[k].uut
               /\ test = "tx" => new[k].ch \in {"A", "B"}
               /\ LET last == IF k = 1 THEN 0 ELSE Key(test, us, new[k - 1])
                  IN  Key(test, us, new[k]) \in {last, last + 1}
    <3>1. CASE k \in 1 .. Len(log)
      <4>1. new[k] = log[k] /\ (k # 1 => new[k - 1] = log[k - 1])
        BY <2>2, <3>1
      <4>2. QED
        BY <3>1, <4>1 DEF InBlocks
    <3>2. CASE k = Len(log) + 1
      <4>1. new[k] = row
        BY <2>2, <3>2
      <4>2. LastKey(test, us, log) = IF k = 1 THEN 0 ELSE Key(test, us, new[k - 1])
        BY <2>2, <3>2 DEF LastKey
      <4>3. LastKey(test, us, log) \in {n - 1, n}
        OBVIOUS
      <4>4. n \in {LastKey(test, us, log), LastKey(test, us, log) + 1}
        BY <4>3, <2>3
      <4>5. QED
        BY <2>3, <4>1, <4>2, <4>4
    <3>3. QED
      BY <2>2, <3>1, <3>2
  <2>6. InBlocks(test, us, new)
    BY <2>5 DEF InBlocks
  <2>7. QED
    BY <2>1, <2>3, <2>4, <2>6
<1>3. QED
  BY <1>1, <1>2
-----------------------------------------------------------------------------
\* A test begins without verdicts.
LEMMA BeginStep ==
  ASSUME NEW test \in {"rx", "tx"}, Begin(test), command' \in Commands,
         uuts' \in Seq(Irises), IsInjective(uuts'),
         frontends' \in Seq(Boards), Len(uuts') <= Len(frontends'),
         pf' \in [{"rx", "tx"} -> BOOLEAN], pf'[test] = TRUE,
         test = "rx" => pf'["tx"] = TRUE
  PROVE  HealthInv'
<1>1. /\ phase' = test /\ at' = 1 /\ ch' = "A" /\ logged' = {} /\ high' = {}
      /\ rows' = <<>> /\ Len(rows') = 0
      /\ uut_gain' = IF frontends' = <<>> THEN 0 ELSE Lowest[frontends'[1]]
  BY DEF Begin
<1>2. uut_gain' \in Int
  <2>1. frontends' # <<>> => frontends'[1] \in Boards
    BY ElementOfSeq, EmptySeq
  <2>2. QED
    BY <1>1, <2>1, BoardsAre
<1>3. HealthType'
  <2>1. rows' \in Seq(Rows)
    BY <1>1
  <2>2. at' \in 1 .. Len(uuts') + 1
    <3>1. Len(uuts') \in Nat
      BY LenProperties
    <3>2. QED
      BY <1>1, <3>1
  <2>3. /\ phase' \in {"prepare", "rx", "tx", "report", "end", "unbound"}
        /\ ch' \in {"A", "B"} /\ logged' \in SUBSET {"A", "B"} /\ high' \in SUBSET {"A", "B"}
    BY <1>1
  <2>4. QED
    BY <1>2, <2>1, <2>2, <2>3, Zenon DEF HealthType
<1>4. VerdictInv'
  <2>1. \A u, c : VerdictsIn(rows', u, c) = {}
    BY <1>1 DEF VerdictsIn
  <2>2. Len(uuts') \in Nat
    BY LenProperties
  <2>3. \A j \in 1 .. Len(uuts'), c \in {"A", "B"} : ~Judged(j, c)'
    BY <1>1, <2>2 DEF Judged
  <2>4. ASSUME NEW j \in 1 .. Len(uuts'), NEW c \in {"A", "B"}
        PROVE  IF Judged(j, c)' THEN Only(VerdictsIn(rows', uuts'[j], c))
                                ELSE VerdictsIn(rows', uuts'[j], c) = {}
    BY <2>1, <2>3
  <2>5. logged' = {} /\ ch' = "A"
    BY <1>1
  <2>6. QED
    <3>1. ~(phase' = "tx" /\ Testing' /\ logged' # {})
      BY <2>5
    <3>2. QED
      BY <2>4, <2>5, <3>1, Zenon DEF VerdictInv
<1>5. ResultInv'
  BY <1>1 DEF ResultInv, PassedIn
<1>6. BlockInv'
  <2>1. InBlocks(phase', uuts', rows')
    BY <1>1 DEF InBlocks
  <2>2. LastKey(phase', uuts', rows') = 0 /\ Now' = 1
    BY <1>1 DEF LastKey, Now, Block
  <2>3. QED
    BY <1>1, <2>1, <2>2 DEF BlockInv
<1>7. QED
  BY <1>3, <1>4, <1>5, <1>6 DEF HealthInv

\* The steps between the sweeps keep the invariant.
LEMMA StartStep == HealthInv /\ Start => HealthInv'
<1> SUFFICES ASSUME HealthInv, Start PROVE HealthInv'
  OBVIOUS
<1>1. /\ phase = "prepare" /\ Prepare /\ command' = command /\ pf' = pf
      /\ Begin(IF RunsRx THEN "rx" ELSE "tx")
  BY DEF Start
<1>2. /\ command' \in Commands /\ pf' \in [{"rx", "tx"} -> BOOLEAN]
      /\ pf'["rx"] = TRUE /\ pf'["tx"] = TRUE
  BY <1>1 DEF HealthInv, HealthType, ResultInv
<1>3. /\ uuts' \in Seq(Irises) /\ IsInjective(uuts')
      /\ frontends' \in Seq(Boards) /\ Len(uuts') <= Len(frontends')
  BY <1>1, <1>2, PrepareTypes
<1>4. QED
  BY <1>1, <1>2, <1>3, BeginStep

LEMMA EndTestStep == HealthInv /\ EndTest => HealthInv'
<1> SUFFICES ASSUME HealthInv, EndTest PROVE HealthInv'
  OBVIOUS
<1>1. /\ phase \in {"rx", "tx"} /\ UNCHANGED <<command, uuts, pf, frontends>>
      /\ \/ phase = "rx" /\ Begin("tx")
         \/ /\ phase' \in {"unbound", "report"}
            /\ UNCHANGED <<at, ch, uut_gain, logged, high, rows>>
  BY DEF EndTest
<1>2. CASE phase = "rx" /\ Begin("tx")
  <2>1. /\ command' \in Commands /\ pf' \in [{"rx", "tx"} -> BOOLEAN]
        /\ uuts' \in Seq(Irises) /\ IsInjective(uuts')
        /\ frontends' \in Seq(Boards) /\ Len(uuts') <= Len(frontends')
    BY <1>1 DEF HealthInv, HealthType
  <2>2. pf'["tx"] = TRUE
    BY <1>1, <1>2 DEF HealthInv, ResultInv
  <2>3. QED
    BY <1>2, <2>1, <2>2, BeginStep
<1>3. CASE /\ phase' \in {"unbound", "report"}
           /\ UNCHANGED <<at, ch, uut_gain, logged, high, rows>>
  <2>1. HealthType'
    BY <1>1, <1>3 DEF HealthInv, HealthType
  <2>2. VerdictInv' /\ ResultInv' /\ BlockInv'
    BY <1>3 DEF VerdictInv, ResultInv, BlockInv
  <2>3. QED
    BY <2>1, <2>2 DEF HealthInv
<1>4. QED
  BY <1>1, <1>2, <1>3

LEMMA ReportStep == HealthInv /\ Report => HealthInv'
<1> SUFFICES ASSUME HealthInv, Report PROVE HealthInv'
  OBVIOUS
<1>1. /\ phase' \in {"end", "unbound"}
      /\ UNCHANGED <<command, uuts, frontends, at, ch, uut_gain, logged, high, rows, pf>>
  BY DEF Report
<1>2. HealthType'
  BY <1>1 DEF HealthInv, HealthType
<1>3. VerdictInv' /\ ResultInv' /\ BlockInv'
  BY <1>1 DEF VerdictInv, ResultInv, BlockInv
<1>4. QED
  BY <1>2, <1>3 DEF HealthInv

\* The parts of the invariant that a sweep uses.
LEMMA SweepFacts ==
  ASSUME HealthInv, Testing, phase \in {"rx", "tx"}
  PROVE  /\ uuts \in Seq(Irises) /\ IsInjective(uuts) /\ rows \in Seq(Rows)
         /\ Len(uuts) \in Nat /\ at \in 1 .. Len(uuts) /\ uuts[at] \in Irises
         /\ \A j \in 1 .. Len(uuts) : uuts[j] = uuts[at] => j = at
         /\ InBlocks(phase, uuts, rows) /\ Highest[phase][frontends[at]] \in Int
         /\ Lowest[frontends[at]] \in Int
         /\ logged \in SUBSET {"A", "B"} /\ high \in SUBSET {"A", "B"}
         /\ (pf[phase] <=> PassedIn(rows)) /\ command \in Commands /\ ch \in {"A", "B"}
<1>1. HealthType /\ BlockInv /\ ResultInv
  BY DEF HealthInv
<1>2. uuts \in Seq(Irises) /\ IsInjective(uuts) /\ rows \in Seq(Rows)
  BY <1>1, Zenon DEF HealthType
<1>3. Len(uuts) \in Nat /\ at \in 1 .. Len(uuts) /\ uuts[at] \in Irises
  BY <1>1, RadioIs
<1>4. \A j \in 1 .. Len(uuts) : uuts[j] = uuts[at] => j = at
  BY <1>2, <1>3 DEF IsInjective
<1>5. Highest[phase][frontends[at]] \in Int /\ Lowest[frontends[at]] \in Int
  BY <1>1, <1>3, GainsAreIntegers
<1>6. InBlocks(phase, uuts, rows)
  BY <1>1 DEF BlockInv
<1>7. pf[phase] <=> PassedIn(rows)
  BY <1>1 DEF ResultInv
<1>8. logged \in SUBSET {"A", "B"} /\ high \in SUBSET {"A", "B"} /\ command \in Commands /\ ch \in {"A", "B"}
  BY <1>1, Zenon DEF HealthType
<1>9. QED
  BY <1>2, <1>3, <1>4, <1>5, <1>6, <1>7, <1>8

\* Where a sweep goes on.
LEMMA NextGain ==
  ASSUME HealthInv, Testing, phase \in {"rx", "tx"}, NEW stop \in BOOLEAN, Sweep(stop)
  PROVE  uut_gain' \in Int /\ (stop => ~(uut_gain' <= Highest[phase][frontends[at]]))
<1>1. Highest[phase][frontends[at]] \in Int
  BY SweepFacts
<1>2. uut_gain \in Int /\ Step \in Int
  <2>1. uut_gain \in Int
    BY Zenon DEF HealthInv, HealthType
  <2>2. Step \in Int
    BY StepIs
  <2>3. QED
    BY <2>1, <2>2
<1>3. QED
  BY <1>1, <1>2 DEF Sweep

\* The sweep goes on with the next radio, or past the last.
LEMMA NextRadioIs ==
  ASSUME HealthInv, Testing, phase \in {"rx", "tx"}, NextRadio
  PROVE  at' = at + 1 /\ at' \in 1 .. Len(uuts) + 1 /\ uut_gain' \in Int
<1>1. at \in 1 .. Len(uuts) /\ Len(uuts) \in Nat
  BY SweepFacts
<1>2. at < Len(uuts) => Lowest[frontends[at + 1]] \in Int
  <2>1. at < Len(uuts) => at + 1 \in 1 .. Len(uuts)
    BY <1>1
  <2>2. HealthType
    BY DEF HealthInv
  <2>3. QED
    BY <2>1, <2>2, GainsAreIntegers
<1>3. QED
  BY <1>1, <1>2 DEF NextRadio

\* A row of the radio under test, in all of these respects.
Adds(test, log, new, due, p, c) ==
  /\ new \in Seq(Rows)
  /\ PassedIn(new) <=> PassedIn(log) /\ ~(due /\ p = "Failed")
  /\ \A j \in 1 .. Len(uuts), d \in {"A", "B"} :
       ~(due /\ j = at /\ d = c /\ Told(p))
         => VerdictsIn(new, uuts[j], d) = VerdictsIn(log, uuts[j], d)
  /\ due /\ Told(p) /\ VerdictsIn(log, uuts[at], c) = {}
       => Only(VerdictsIn(new, uuts[at], c))
  /\ InBlocks(test, uuts, new)
  /\ LastKey(test, uuts, new) \in {Block(test, at, c) - 1, Block(test, at, c)}
  /\ due \/ LastKey(test, uuts, log) = Block(test, at, c)
       => LastKey(test, uuts, new) = Block(test, at, c)

\* A row of the radio under test does this to every log of this test.
LEMMA NotedRow ==
  ASSUME HealthInv, Testing, NEW test \in {"rx", "tx"}, phase = test,
         NEW log \in Seq(Rows), NEW due \in BOOLEAN,
         NEW p \in Results, NEW c \in {"A", "B", "AB"}, NEW h \in SUBSET {"A", "B"},
         test = "tx" => c \in {"A", "B"}, InBlocks(test, uuts, log),
         LastKey(test, uuts, log) \in {Block(test, at, c) - 1, Block(test, at, c)}
  PROVE  LET new == Noted(log, due, Row(p, c, h))
         IN  Adds(test, log, new, due, p, c)
<1> DEFINE row == Row(p, c, h)
<1> DEFINE new == Noted(log, due, row)
<1>1. /\ uuts \in Seq(Irises) /\ IsInjective(uuts) /\ at \in 1 .. Len(uuts)
      /\ \A j \in 1 .. Len(uuts) : uuts[j] = uuts[at] => j = at
  BY SweepFacts
<1>2. row \in Rows /\ row.pf = p /\ row.uut = uuts[at] /\ row.ch = c
  <2>1. row \in Rows
    BY RowIs DEF HealthInv
  <2>2. QED
    BY <2>1 DEF Row
<1> HIDE DEF row
<1>3. new \in Seq(Rows)
  BY <1>2, NotedIs
<1>4. PassedIn(new) <=> PassedIn(log) /\ ~(due /\ p = "Failed")
  BY <1>2, NotedResult
<1>5. ASSUME NEW j \in 1 .. Len(uuts), NEW d \in {"A", "B"}, ~(due /\ j = at /\ d = c /\ Told(p))
      PROVE  VerdictsIn(new, uuts[j], d) = VerdictsIn(log, uuts[j], d)
  <2>1. \A v, e : ~(due /\ row.uut = v /\ row.ch = e /\ Told(row.pf))
                    => VerdictsIn(new, v, e) = VerdictsIn(log, v, e)
    <3>1. row \in Rows
      BY <1>2
    <3>2. SUFFICES ASSUME NEW v, NEW e, ~(due /\ row.uut = v /\ row.ch = e /\ Told(row.pf))
                   PROVE  VerdictsIn(new, v, e) = VerdictsIn(log, v, e)
      OBVIOUS
    <3>3. QED
      BY <3>1, <3>2, NotedVerdicts
  <2> HIDE DEF new
  <2>2. ~(due /\ row.uut = uuts[j] /\ row.ch = d /\ Told(row.pf))
    BY <1>1, <1>2, <1>5
  <2>3. QED
    BY <2>1, <2>2, Zenon
<1>6. due /\ Told(p) /\ VerdictsIn(log, uuts[at], c) = {} => Only(VerdictsIn(new, uuts[at], c))
  BY <1>2, NotedVerdicts
<1>7. /\ InBlocks(test, uuts, new)
      /\ LastKey(test, uuts, new) \in {Block(test, at, c) - 1, Block(test, at, c)}
      /\ due \/ LastKey(test, uuts, log) = Block(test, at, c)
           => LastKey(test, uuts, new) = Block(test, at, c)
  <2> DEFINE n == Block(test, at, c)
  <2>1. test = "tx" => row.ch \in {"A", "B"}
    BY <1>2
  <2>2. n = Block(test, at, row.ch) /\ LastKey(test, uuts, log) \in {n - 1, n}
    BY <1>2
  <2> HIDE DEF n
  <2>3. /\ InBlocks(test, uuts, new)
        /\ LastKey(test, uuts, new) \in {n - 1, n}
        /\ due \/ LastKey(test, uuts, log) = n => LastKey(test, uuts, new) = n
    BY <1>1, <1>2, <2>1, <2>2, NotedBlocks
  <2>4. QED
    BY <2>3 DEF n
<1>8. QED
  BY <1>3, <1>4, <1>5, <1>6, <1>7 DEF row, Adds

\* A measurement of a receiver writes a row for a channel that passes the first
\* time, and for none that has passed before.
LEMMA RxPairStep ==
  ASSUME HealthInv, NEW pass \in SUBSET {"A", "B"}, RxPair(pass)
  PROVE  HealthInv'
<1> DEFINE dueA == "A" \in pass \ logged
<1> DEFINE dueB == "B" \in pass \ logged
<1> DEFINE dueM == command.detailed /\ pass \ logged = {} /\ pass # {"A", "B"}
<1> DEFINE log1 == Noted(rows, dueA, Row("Passed", "A", pass))
<1> DEFINE log2 == Noted(log1, dueB, Row("Passed", "B", pass))
<1> DEFINE log3 == Noted(log2, dueM, Row("", "AB", pass))
<1> DEFINE V(log, j, c) == VerdictsIn(log, uuts[j], c)
<1> DEFINE L(log) == LastKey("rx", uuts, log)
<1>1. /\ phase = "rx" /\ Testing /\ InRange
      /\ rows' = log3 /\ logged' = logged \cup pass /\ high' = pass
      /\ Sweep(pass = {"A", "B"})
      /\ UNCHANGED <<command, phase, uuts, frontends, at, ch, pf>>
  BY DEF RxPair
<1>2. /\ rows \in Seq(Rows) /\ at \in 1 .. Len(uuts) /\ InBlocks("rx", uuts, rows)
      /\ logged \in SUBSET {"A", "B"} /\ (pf["rx"] <=> PassedIn(rows))
  BY <1>1, SweepFacts
<1>3. dueA \in BOOLEAN /\ dueB \in BOOLEAN /\ dueM \in BOOLEAN
  OBVIOUS
<1>4. (dueA <=> "A" \in pass \ logged) /\ (dueB <=> "B" \in pass \ logged)
  OBVIOUS
<1>5. /\ Block("rx", at, "A") = at /\ Block("rx", at, "B") = at /\ Block("rx", at, "AB") = at
      /\ Now = at /\ Now' = at
  BY <1>1 DEF Block, Now
<1>6. /\ L(rows) \in {at - 1, at}
      /\ logged # {} => L(rows) = at
  BY <1>1, <1>5 DEF HealthInv, BlockInv
<1> HIDE DEF dueA, dueB, dueM
<1>7. /\ log1 \in Seq(Rows) /\ (PassedIn(log1) <=> PassedIn(rows))
      /\ \A j \in 1 .. Len(uuts), d \in {"A", "B"} :
           ~(dueA /\ j = at /\ d = "A") => V(log1, j, d) = V(rows, j, d)
      /\ dueA /\ V(rows, at, "A") = {} => Only(V(log1, at, "A"))
      /\ InBlocks("rx", uuts, log1) /\ L(log1) \in {at - 1, at}
      /\ dueA \/ L(rows) = at => L(log1) = at
  <2>1. Adds("rx", rows, log1, dueA, "Passed", "A")
    BY <1>1, <1>2, <1>3, <1>5, <1>6, NotedRow, ResultsAre
  <2> HIDE DEF log1
  <2>2. QED
    BY <1>5, <2>1, ResultsAre DEF Adds
<1> HIDE DEF log1
<1>8. /\ log2 \in Seq(Rows) /\ (PassedIn(log2) <=> PassedIn(log1))
      /\ \A j \in 1 .. Len(uuts), d \in {"A", "B"} :
           ~(dueB /\ j = at /\ d = "B") => V(log2, j, d) = V(log1, j, d)
      /\ dueB /\ V(log1, at, "B") = {} => Only(V(log2, at, "B"))
      /\ InBlocks("rx", uuts, log2) /\ L(log2) \in {at - 1, at}
      /\ dueB \/ L(log1) = at => L(log2) = at
  <2>1. Adds("rx", log1, log2, dueB, "Passed", "B")
    BY <1>1, <1>3, <1>5, <1>7, NotedRow, ResultsAre
  <2> HIDE DEF log2
  <2>2. QED
    BY <1>5, <2>1, ResultsAre DEF Adds
<1> HIDE DEF log2
<1>9. /\ log3 \in Seq(Rows) /\ (PassedIn(log3) <=> PassedIn(log2))
      /\ \A j \in 1 .. Len(uuts), d \in {"A", "B"} : V(log3, j, d) = V(log2, j, d)
      /\ InBlocks("rx", uuts, log3) /\ L(log3) \in {at - 1, at}
      /\ L(log2) = at => L(log3) = at
  <2>1. Adds("rx", log2, log3, dueM, "", "AB")
    BY <1>1, <1>3, <1>5, <1>8, NotedRow, ResultsAre
  <2> HIDE DEF log3
  <2>2. QED
    BY <1>5, <2>1, ResultsAre DEF Adds
<1> HIDE DEF log3
<1>10. HealthType'
  <2>1. uut_gain' \in Int
    BY <1>1, NextGain
  <2>2. logged' \in SUBSET {"A", "B"} /\ high' \in SUBSET {"A", "B"} /\ rows' \in Seq(Rows)
    BY <1>1, <1>2, <1>9
  <2>3. QED
    BY <1>1, <2>1, <2>2, Zenon DEF HealthInv, HealthType
<1>11. VerdictInv'
  <2>1. ASSUME NEW j \in 1 .. Len(uuts), NEW c \in {"A", "B"}
        PROVE  IF j < at \/ (j = at /\ c \in logged \cup pass)
               THEN Only(V(log3, j, c)) ELSE V(log3, j, c) = {}
    <3>1. IF j < at \/ (j = at /\ c \in logged) THEN Only(V(rows, j, c)) ELSE V(rows, j, c) = {}
      BY <1>1 DEF HealthInv, VerdictInv, Judged
    <3> HIDE DEF V
    <3>2. at \in Int /\ j \in Int
      BY <1>2
    <3>3. CASE c = "A"
      BY <1>4, <1>7, <1>8, <1>9, <3>1, <3>2, <3>3
    <3>4. CASE c = "B"
      BY <1>4, <1>7, <1>8, <1>9, <3>1, <3>2, <3>4
    <3>5. QED
      BY <3>3, <3>4
  <2>2. QED
    BY <1>1, <2>1 DEF VerdictInv, Judged
<1>12. ResultInv'
  BY <1>1, <1>2, <1>7, <1>8, <1>9 DEF HealthInv, ResultInv
<1>13. BlockInv'
  <2>1. logged' # {} => L(log3) = at
    BY <1>1, <1>2, <1>4, <1>6, <1>7, <1>8, <1>9
  <2>2. QED
    BY <1>1, <1>5, <1>9, <2>1 DEF BlockInv
<1>14. QED
  BY <1>10, <1>11, <1>12, <1>13 DEF HealthInv

\* The end of a sweep of a receiver writes the rows that are missing.
LEMMA RxVerdictStep ==
  ASSUME HealthInv, RxVerdict
  PROVE  HealthInv'
<1> DEFINE dueA == "A" \notin logged
<1> DEFINE dueB == "B" \notin logged
<1> DEFINE log1 == Noted(rows, dueA, Row("Failed", "A", high))
<1> DEFINE log2 == Noted(log1, dueB, Row("Failed", "B", high))
<1> DEFINE V(log, j, c) == VerdictsIn(log, uuts[j], c)
<1> DEFINE L(log) == LastKey("rx", uuts, log)
<1>1. /\ phase = "rx" /\ Testing /\ rows' = log2 /\ logged' = {} /\ high' = high
      /\ pf' = [pf EXCEPT !["rx"] = @ /\ logged = {"A", "B"}]
      /\ NextRadio /\ UNCHANGED <<command, phase, uuts, frontends, ch>>
  BY DEF RxVerdict
<1>2. /\ rows \in Seq(Rows) /\ at \in 1 .. Len(uuts) /\ InBlocks("rx", uuts, rows)
      /\ logged \in SUBSET {"A", "B"} /\ high \in SUBSET {"A", "B"}
      /\ (pf["rx"] <=> PassedIn(rows)) /\ Len(uuts) \in Nat
  BY <1>1, SweepFacts
<1>3. dueA \in BOOLEAN /\ dueB \in BOOLEAN
  OBVIOUS
<1>4. (dueA <=> "A" \notin logged) /\ (dueB <=> "B" \notin logged)
  OBVIOUS
<1>5. /\ Block("rx", at, "A") = at /\ Block("rx", at, "B") = at
      /\ at' = at + 1 /\ at' \in 1 .. Len(uuts) + 1 /\ uut_gain' \in Int
      /\ Now = at /\ Now' = at + 1
  BY <1>1, NextRadioIs DEF Block, Now
<1>6. /\ L(rows) \in {at - 1, at}
      /\ logged # {} => L(rows) = at
  BY <1>1, <1>5 DEF HealthInv, BlockInv
<1> HIDE DEF dueA, dueB
<1>7. /\ log1 \in Seq(Rows) /\ (PassedIn(log1) <=> PassedIn(rows) /\ ~dueA)
      /\ \A j \in 1 .. Len(uuts), d \in {"A", "B"} :
           ~(dueA /\ j = at /\ d = "A") => V(log1, j, d) = V(rows, j, d)
      /\ dueA /\ V(rows, at, "A") = {} => Only(V(log1, at, "A"))
      /\ InBlocks("rx", uuts, log1) /\ L(log1) \in {at - 1, at}
      /\ dueA \/ L(rows) = at => L(log1) = at
  <2>1. Adds("rx", rows, log1, dueA, "Failed", "A")
    BY <1>1, <1>2, <1>3, <1>5, <1>6, NotedRow, ResultsAre
  <2> HIDE DEF log1
  <2>2. QED
    BY <1>5, <2>1, ResultsAre DEF Adds
<1> HIDE DEF log1
<1>8. /\ log2 \in Seq(Rows) /\ (PassedIn(log2) <=> PassedIn(log1) /\ ~dueB)
      /\ \A j \in 1 .. Len(uuts), d \in {"A", "B"} :
           ~(dueB /\ j = at /\ d = "B") => V(log2, j, d) = V(log1, j, d)
      /\ dueB /\ V(log1, at, "B") = {} => Only(V(log2, at, "B"))
      /\ InBlocks("rx", uuts, log2) /\ L(log2) \in {at - 1, at}
      /\ dueB \/ L(log1) = at => L(log2) = at
  <2>1. Adds("rx", log1, log2, dueB, "Failed", "B")
    BY <1>1, <1>2, <1>3, <1>5, <1>7, NotedRow, ResultsAre
  <2> HIDE DEF log2
  <2>2. QED
    BY <1>5, <2>1, ResultsAre DEF Adds
<1> HIDE DEF log2
<1>9. pf \in [{"rx", "tx"} -> BOOLEAN]
  BY DEF HealthInv, HealthType
<1>10. HealthType'
  <2>1. logged' \in SUBSET {"A", "B"} /\ high' \in SUBSET {"A", "B"} /\ rows' \in Seq(Rows)
    BY <1>1, <1>2, <1>8
  <2>2. pf' \in [{"rx", "tx"} -> BOOLEAN]
    BY <1>1, <1>9
  <2>3. at' \in 1 .. Len(uuts') + 1
    BY <1>1, <1>5
  <2>4. QED
    BY <1>1, <1>5, <2>1, <2>2, <2>3, Zenon DEF HealthInv, HealthType
<1>11. VerdictInv'
  <2>1. ASSUME NEW j \in 1 .. Len(uuts), NEW c \in {"A", "B"}
        PROVE  IF j < at + 1 THEN Only(V(log2, j, c)) ELSE V(log2, j, c) = {}
    <3>1. IF j < at \/ (j = at /\ c \in logged) THEN Only(V(rows, j, c)) ELSE V(rows, j, c) = {}
      BY <1>1 DEF HealthInv, VerdictInv, Judged
    <3> HIDE DEF V
    <3>2. at \in Int /\ j \in Int
      BY <1>2
    <3>3. CASE c = "A"
      BY <1>4, <1>7, <1>8, <3>1, <3>2, <3>3
    <3>4. CASE c = "B"
      BY <1>4, <1>7, <1>8, <3>1, <3>2, <3>4
    <3>5. QED
      BY <3>3, <3>4
  <2>2. QED
    BY <1>1, <1>5, <2>1 DEF VerdictInv, Judged
<1>12. ResultInv'
  <2>1. pf'["rx"] <=> PassedIn(log2)
    <3>1. pf'["rx"] <=> pf["rx"] /\ logged = {"A", "B"}
      BY <1>1, <1>9
    <3>2. logged = {"A", "B"} <=> ~dueA /\ ~dueB
      BY <1>2, <1>4
    <3>3. QED
      BY <1>2, <1>7, <1>8, <3>1, <3>2
  <2>2. pf'["tx"] = TRUE
    BY <1>1, <1>9 DEF HealthInv, ResultInv
  <2>3. QED
    BY <1>1, <2>1, <2>2 DEF ResultInv
<1>13. BlockInv'
  <2>1. L(log2) = at
    BY <1>2, <1>4, <1>6, <1>7, <1>8
  <2>2. QED
    BY <1>1, <1>2, <1>5, <1>8, <2>1 DEF BlockInv
<1>14. QED
  BY <1>10, <1>11, <1>12, <1>13 DEF HealthInv

\* A measurement of a transmitter that passes ends its sweep.
LEMMA TxPairStep ==
  ASSUME HealthInv, NEW pass \in SUBSET {"A", "B"}, TxPair(pass)
  PROVE  HealthInv'
<1> DEFINE hit == command.ant \in pass
<1> DEFINE due == hit \/ (command.detailed /\ command.ant # "AB")
<1> DEFINE p == IF hit THEN "Passed" ELSE ""
<1> DEFINE log == Noted(rows, due, Row(p, ch, pass))
<1> DEFINE V(s, j, c) == VerdictsIn(s, uuts[j], c)
<1> DEFINE L(s) == LastKey("tx", uuts, s)
<1>1. /\ phase = "tx" /\ Testing /\ InRange
      /\ rows' = log /\ logged' = (IF hit THEN {command.ant} ELSE {}) /\ high' = pass
      /\ Sweep(hit)
      /\ UNCHANGED <<command, phase, uuts, frontends, at, ch, pf>>
  BY DEF TxPair
<1>2. /\ rows \in Seq(Rows) /\ at \in 1 .. Len(uuts) /\ InBlocks("tx", uuts, rows)
      /\ (pf["tx"] <=> PassedIn(rows)) /\ command \in Commands /\ ch \in {"A", "B"}
  BY <1>1, SweepFacts
<1>3. due \in BOOLEAN /\ hit \in BOOLEAN
  <2>1. command.detailed \in BOOLEAN
    BY <1>2, CommandIs
  <2>2. QED
    BY <2>1
<1>4. /\ command.ant = "AB" => ~hit /\ ~due
      /\ hit => due
      /\ hit => command.ant \in {"A", "B"}
  OBVIOUS
<1>5. p \in Results /\ p # "Failed" /\ (Told(p) <=> hit)
  BY ResultsAre
<1>6. logged = {}
  BY <1>1 DEF HealthInv, VerdictInv
<1>7. /\ Now = Block("tx", at, ch) /\ Now' = Now
      /\ IF command.ant = "AB" THEN rows = <<>> ELSE L(rows) \in {Now - 1, Now}
  BY <1>1 DEF Now, HealthInv, BlockInv
<1>8. uut_gain' \in Int /\ (hit => ~(uut_gain' <= Highest["tx"][frontends[at]]))
  BY <1>1, <1>3, NextGain
<1>9. logged' # {} <=> hit
  BY <1>1
<1>10. logged' \in SUBSET {"A", "B"}
  BY <1>1, <1>4
<1> HIDE DEF due, hit, p
<1>11. CASE command.ant = "AB"
  <2>1. rows' = rows /\ logged' = {}
    BY <1>1, <1>4, <1>11 DEF Noted
  <2>2. HealthType'
    BY <1>1, <1>8, <2>1, Zenon DEF HealthInv, HealthType
  <2>3. VerdictInv'
    BY <1>1, <1>11, <2>1 DEF HealthInv, VerdictInv, Testing
  <2>4. ResultInv'
    BY <1>1, <2>1 DEF HealthInv, ResultInv
  <2>5. BlockInv'
    BY <1>1, <1>2, <1>7, <1>11, <2>1 DEF BlockInv
  <2>6. QED
    BY <2>2, <2>3, <2>4, <2>5 DEF HealthInv
<1>12. CASE command.ant # "AB"
  <2>1. Adds("tx", rows, log, due, p, ch)
    BY <1>1, <1>2, <1>3, <1>5, <1>7, <1>12, NotedRow
  <2> HIDE DEF log
  <2>2. /\ log \in Seq(Rows) /\ (PassedIn(log) <=> PassedIn(rows))
        /\ \A j \in 1 .. Len(uuts), d \in {"A", "B"} :
             ~(hit /\ j = at /\ d = ch) => V(log, j, d) = V(rows, j, d)
        /\ hit /\ V(rows, at, ch) = {} => Only(V(log, at, ch))
        /\ InBlocks("tx", uuts, log) /\ L(log) \in {Now - 1, Now}
        /\ hit => L(log) = Now
    <3>1. hit => due /\ Told(p)
      BY <1>4, <1>5
    <3>2. due /\ Told(p) => hit
      BY <1>5
    <3>3. QED
      BY <1>5, <1>7, <2>1, <3>1, <3>2 DEF Adds
  <2>3. HealthType'
    <3>1. rows' \in Seq(Rows) /\ high' \in SUBSET {"A", "B"}
      BY <1>1, <2>2
    <3>2. QED
      BY <1>1, <1>8, <1>10, <3>1, Zenon DEF HealthInv, HealthType
  <2>4. VerdictInv'
    <3>1. ASSUME NEW j \in 1 .. Len(uuts), NEW c \in {"A", "B"}
          PROVE  IF \/ j < at
                    \/ j = at /\ ((c = "A" /\ ch = "B") \/ (c = ch /\ hit))
                 THEN Only(V(log, j, c)) ELSE V(log, j, c) = {}
      <4>1. IF \/ j < at
               \/ j = at /\ (c = "A" /\ ch = "B")
            THEN Only(V(rows, j, c)) ELSE V(rows, j, c) = {}
        BY <1>1, <1>6, <1>12 DEF HealthInv, VerdictInv, Judged
      <4> HIDE DEF V
      <4>2. at \in Int /\ j \in Int
        BY <1>2
      <4>3. QED
        BY <1>2, <2>2, <4>1, <4>2
    <3>2. \A j \in 1 .. Len(uuts), c \in {"A", "B"} :
            IF Judged(j, c)' THEN Only(VerdictsIn(rows, uuts[j], c)')
                             ELSE VerdictsIn(rows, uuts[j], c)' = {}
      BY <1>1, <1>9, <3>1 DEF Judged
    <3>3. phase' = "tx" /\ Testing' /\ logged' # {} => ~InRange'
      BY <1>1, <1>8, <1>9 DEF InRange
    <3>4. Testing'
      BY <1>1 DEF Testing
    <3>5. QED
      BY <1>1, <3>2, <3>3, <3>4 DEF VerdictInv
  <2>5. ResultInv'
    BY <1>1, <1>2, <2>2 DEF HealthInv, ResultInv
  <2>6. BlockInv'
    BY <1>1, <1>7, <1>9, <1>12, <2>2 DEF BlockInv
  <2>7. QED
    BY <2>3, <2>4, <2>5, <2>6 DEF HealthInv
<1>13. QED
  BY <1>11, <1>12

\* The end of a sweep of a transmitter goes on with its other channel, or with
\* the next radio.
LEMMA TxVerdictStep ==
  ASSUME HealthInv, TxVerdict
  PROVE  HealthInv'
<1> DEFINE failed == logged = {} /\ command.ant \in {"A", "B"}
<1> DEFINE log == Noted(rows, failed, Row("Failed", ch, high))
<1> DEFINE V(s, j, c) == VerdictsIn(s, uuts[j], c)
<1> DEFINE L(s) == LastKey("tx", uuts, s)
<1>1. /\ phase = "tx" /\ Testing /\ rows' = log /\ logged' = {} /\ high' = high
      /\ pf' = [pf EXCEPT !["tx"] = @ /\ ~failed]
      /\ UNCHANGED <<command, phase, uuts, frontends>>
  BY DEF TxVerdict
<1>2. \/ ch = "A" /\ ch' = "B" /\ uut_gain' = Lowest[frontends[at]] /\ at' = at
      \/ ch = "B" /\ ch' = "A" /\ NextRadio
  <2>1. ch \in {"A", "B"}
    BY <1>1, SweepFacts
  <2>2. QED
    BY <2>1 DEF TxVerdict
<1>3. /\ rows \in Seq(Rows) /\ at \in 1 .. Len(uuts) /\ InBlocks("tx", uuts, rows)
      /\ logged \in SUBSET {"A", "B"} /\ high \in SUBSET {"A", "B"}
      /\ (pf["tx"] <=> PassedIn(rows)) /\ Len(uuts) \in Nat
      /\ command \in Commands /\ ch \in {"A", "B"}
      /\ Lowest[frontends[at]] \in Int
  BY <1>1, SweepFacts
<1>4. /\ at' \in 1 .. Len(uuts) + 1 /\ uut_gain' \in Int
      /\ ch = "A" => ch' = "B" /\ at' = at
      /\ ch = "B" => ch' = "A" /\ at' = at + 1
  BY <1>1, <1>2, <1>3, NextRadioIs
<1>5. command.ant \in {"A", "B", "AB"} /\ failed \in BOOLEAN
  BY <1>3, CommandIs
<1>6. failed <=> logged = {} /\ command.ant # "AB"
  BY <1>5
<1>7. /\ Now = Block("tx", at, ch) /\ Now' = Now + 1 /\ Now \in Int
      /\ IF command.ant = "AB" THEN rows = <<>>
         ELSE L(rows) \in {Now - 1, Now} /\ (logged # {} => L(rows) = Now)
  <2>1. Now = Block("tx", at, ch) /\ Now' = Block("tx", at', ch')
    BY <1>1 DEF Now
  <2>2. Now' = Now + 1 /\ Now \in Int
    <3>1. at \in Int
      BY <1>3
    <3>2. CASE ch = "A"
      <4>1. ch' = "B" /\ at' = at
        BY <1>4, <3>2
      <4>2. Now = 2 * at - 1 /\ Now' = 2 * at - 0
        BY <2>1, <3>2, <4>1 DEF Block
      <4>3. QED
        BY <3>1, <4>2
    <3>3. CASE ch = "B"
      <4>1. ch' = "A" /\ at' = at + 1
        BY <1>4, <3>3
      <4>2. Now = 2 * at - 0 /\ Now' = 2 * (at + 1) - 1
        BY <2>1, <3>3, <4>1 DEF Block
      <4>3. QED
        BY <3>1, <4>2
    <3>4. QED
      BY <1>3, <3>2, <3>3
  <2>3. QED
    BY <1>1, <2>1, <2>2 DEF HealthInv, BlockInv
<1>8. pf \in [{"rx", "tx"} -> BOOLEAN]
  BY DEF HealthInv, HealthType
<1>9. pf' \in [{"rx", "tx"} -> BOOLEAN] /\ (pf'["tx"] <=> pf["tx"] /\ ~failed)
  BY <1>1, <1>8
<1> HIDE DEF failed
<1>10. CASE command.ant = "AB"
  <2>1. rows' = rows
    BY <1>1, <1>6, <1>10 DEF Noted
  <2>2. HealthType'
    BY <1>1, <1>2, <1>3, <1>4, <1>9, <2>1 DEF HealthInv, HealthType
  <2>3. VerdictInv'
    BY <1>1, <1>3, <1>4, <1>10 DEF VerdictInv, Testing
  <2>4. ResultInv'
    BY <1>1, <1>3, <1>6, <1>9, <1>10, <2>1 DEF ResultInv
  <2>5. BlockInv'
    BY <1>1, <1>3, <1>7, <1>10, <2>1 DEF BlockInv
  <2>6. QED
    BY <2>2, <2>3, <2>4, <2>5 DEF HealthInv
<1>11. CASE command.ant # "AB"
  <2>1. Adds("tx", rows, log, failed, "Failed", ch)
    BY <1>1, <1>3, <1>5, <1>7, <1>11, NotedRow, ResultsAre
  <2> HIDE DEF log
  <2>2. /\ log \in Seq(Rows) /\ (PassedIn(log) <=> PassedIn(rows) /\ ~failed)
        /\ \A j \in 1 .. Len(uuts), d \in {"A", "B"} :
             ~(failed /\ j = at /\ d = ch) => V(log, j, d) = V(rows, j, d)
        /\ failed /\ V(rows, at, ch) = {} => Only(V(log, at, ch))
        /\ InBlocks("tx", uuts, log) /\ L(log) = Now
    <3>1. failed \/ L(rows) = Now
      BY <1>6, <1>7, <1>11
    <3>2. QED
      BY <1>7, <2>1, <3>1, ResultsAre DEF Adds
  <2>3. HealthType'
    <3>1. rows' \in Seq(Rows) /\ ch' \in {"A", "B"} /\ logged' \in SUBSET {"A", "B"}
      BY <1>1, <1>3, <1>4, <2>2
    <3>2. at' \in 1 .. Len(uuts') + 1
      BY <1>1, <1>4
    <3>3. QED
      BY <1>1, <1>4, <1>9, <3>1, <3>2, Zenon DEF HealthInv, HealthType
  <2>4. VerdictInv'
    <3>1. ASSUME NEW j \in 1 .. Len(uuts), NEW c \in {"A", "B"}
          PROVE  IF j < at' \/ (j = at' /\ c = "A" /\ ch' = "B")
                 THEN Only(V(log, j, c)) ELSE V(log, j, c) = {}
      <4>1. IF j < at \/ (j = at /\ ((c = "A" /\ ch = "B") \/ (c = ch /\ logged # {})))
            THEN Only(V(rows, j, c)) ELSE V(rows, j, c) = {}
        BY <1>1, <1>11 DEF HealthInv, VerdictInv, Judged
      <4> HIDE DEF V
      <4>2. at \in Int /\ j \in Int
        BY <1>3
      <4>3. failed <=> logged = {}
        BY <1>6, <1>11
      <4>4. IF j < at \/ (j = at /\ (c = ch \/ (c = "A" /\ ch = "B")))
            THEN Only(V(log, j, c)) ELSE V(log, j, c) = {}
        <5>1. CASE j = at /\ c = ch
          BY <2>2, <4>1, <4>2, <4>3, <5>1
        <5>2. CASE ~(j = at /\ c = ch)
          <6>1. V(log, j, c) = V(rows, j, c)
            BY <2>2, <5>2
          <6>2. QED
            BY <4>1, <4>2, <5>2, <6>1
        <5>3. QED
          BY <5>1, <5>2
      <4>5. QED
        BY <1>3, <1>4, <4>2, <4>4
    <3>2. \A j \in 1 .. Len(uuts), c \in {"A", "B"} :
            IF Judged(j, c)' THEN Only(VerdictsIn(rows, uuts[j], c)')
                             ELSE VerdictsIn(rows, uuts[j], c)' = {}
      BY <1>1, <3>1 DEF Judged
    <3>3. Testing' \/ ch' = "A"
      BY <1>1, <1>3, <1>4 DEF Testing
    <3>4. QED
      BY <1>1, <3>2, <3>3 DEF VerdictInv
  <2>5. ResultInv'
    BY <1>1, <1>3, <1>9, <2>2 DEF ResultInv
  <2>6. BlockInv'
    BY <1>1, <1>7, <1>11, <2>2 DEF BlockInv
  <2>7. QED
    BY <2>3, <2>4, <2>5, <2>6 DEF HealthInv
<1>12. QED
  BY <1>10, <1>11

\* The invariant holds at first, and every step keeps it.
LEMMA HealthInitInv == HealthInit => HealthInv
<1> SUFFICES ASSUME HealthInit PROVE HealthInv
  OBVIOUS
<1>1. HealthType
  <2>1. /\ uuts \in Seq(Irises) /\ IsInjective(uuts) /\ Len(uuts) = 0
        /\ frontends \in Seq(Boards) /\ Len(frontends) = 0 /\ rows \in Seq(Rows)
    BY DEF HealthInit, IsInjective
  <2>2. QED
    BY <2>1 DEF HealthInit, HealthType
<1>2. VerdictInv /\ ResultInv /\ BlockInv
  BY DEF HealthInit, VerdictInv, ResultInv, BlockInv
<1>3. QED
  BY <1>1, <1>2 DEF HealthInv

LEMMA HealthInductive == HealthInv /\ [HealthNext]_healthVars => HealthInv'
<1> SUFFICES ASSUME HealthInv, [HealthNext]_healthVars PROVE HealthInv'
  OBVIOUS
<1>1. CASE Start
  BY <1>1, StartStep
<1>2. CASE Measure
  BY <1>2, RxPairStep, TxPairStep DEF Measure
<1>3. CASE RxVerdict
  BY <1>3, RxVerdictStep
<1>4. CASE TxVerdict
  BY <1>4, TxVerdictStep
<1>5. CASE EndTest
  BY <1>5, EndTestStep
<1>6. CASE Report
  BY <1>6, ReportStep
<1>7. CASE UNCHANGED healthVars
  <2>1. UNCHANGED <<command, phase, uuts, frontends, at, ch, uut_gain, logged, high, rows, pf>>
    BY <1>7 DEF healthVars
  <2>2. HealthType' /\ VerdictInv'
    BY <2>1 DEF HealthInv, HealthType, VerdictInv, Judged, Testing, InRange
  <2>3. ResultInv' /\ BlockInv'
    BY <2>1 DEF HealthInv, ResultInv, BlockInv, Now
  <2>4. QED
    BY <2>2, <2>3 DEF HealthInv
<1>8. QED
  BY <1>1, <1>2, <1>3, <1>4, <1>5, <1>6, <1>7 DEF HealthNext

\* of every test there is always exactly one verdict for each channel
\* swept so far and none for the others, the result is that of the rows, and
\* the rows of a radio (of a channel of a transmitter) follow each other.
THEOREM HealthAlways == HealthSpec => []HealthInv
BY HealthInitInv, HealthInductive, PTL DEF HealthSpec

\* when a test is over, every channel of every radio has exactly one
\* verdict, and the test has passed if and only if none is "Failed".
THEOREM OneVerdictAlways == HealthSpec => []OneVerdictEach
<1>1. HealthInv => OneVerdictEach
  <2> SUFFICES ASSUME HealthInv, NEW test \in {"rx", "tx"}, TestOver(test), command.ant # "AB"
               PROVE  /\ \A u \in ToSet(uuts), c \in {"A", "B"} : Cardinality(Verdicts(u, c)) = 1
                      /\ pf[test] = \A k \in DOMAIN rows : rows[k].pf # "Failed"
    BY DEF OneVerdictEach
  <2>1. /\ phase = test /\ uuts \in Seq(Irises) /\ rows \in Seq(Rows)
        /\ at \in 1 .. Len(uuts) + 1 /\ ~(at <= Len(uuts)) /\ pf[test] \in BOOLEAN
    BY Zenon DEF TestOver, Testing, HealthInv, HealthType
  <2>2. DOMAIN rows = 1 .. Len(rows) /\ Len(uuts) \in Nat
    BY <2>1
  <2>3. ASSUME NEW u \in ToSet(uuts), NEW c \in {"A", "B"}
        PROVE  Cardinality(Verdicts(u, c)) = 1
    <3>1. PICK j \in 1 .. Len(uuts) : u = uuts[j]
      BY <2>1, <2>3 DEF ToSet
    <3>2. Judged(j, c)
      BY <2>1, <2>2 DEF Judged
    <3>3. Only(VerdictsIn(rows, u, c))
      BY <2>1, <3>1, <3>2 DEF HealthInv, VerdictInv
    <3>4. Verdicts(u, c) = VerdictsIn(rows, u, c)
      BY <2>2 DEF Verdicts, VerdictsIn, Told
    <3>5. QED
      BY <3>3, <3>4, FS_Singleton DEF Only
  <2>4. pf[test] <=> \A k \in DOMAIN rows : rows[k].pf # "Failed"
    BY <2>1, <2>2 DEF HealthInv, ResultInv, PassedIn
  <2>5. QED
    BY <2>1, <2>3, <2>4
<1>2. QED
  BY <1>1, HealthAlways, PTL

-----------------------------------------------------------------------------
(* The plots *)

\* g takes the first n rows.
Taken(g, test, log, n) ==
  g = [k \in 0 .. n |->
         IF k = 0 THEN IF test = "rx" THEN RxEmpty ELSE TxEmpty
         ELSE IF test = "rx" THEN RxTake(g[k - 1], log[k])
         ELSE TxTake(g[k - 1], log[k])]

\* There is a function that takes the rows one by one, so TakenSoFar is one.
LEMMA TakenExists ==
  ASSUME NEW test, NEW log, NEW n \in Nat
  PROVE  \E g : Taken(g, test, log, n)
<1> DEFINE Next0(acc, k) == IF test = "rx" THEN RxTake(acc, log[k]) ELSE TxTake(acc, log[k])
<1> DEFINE Bad == {m \in Nat : ~ \E g : Taken(g, test, log, m)}
<1>1. SUFFICES ASSUME Bad # {} PROVE FALSE
  OBVIOUS
<1>2. PICK m \in Bad : \A x \in Bad : m <= x
  BY <1>1, Least
<1>3. m # 0
  <2>1. Taken([k \in 0 .. 0 |-> IF test = "rx" THEN RxEmpty ELSE TxEmpty], test, log, 0)
    BY DEF Taken
  <2>2. QED
    BY <1>2, <2>1
<1>4. m - 1 \in Nat /\ m \in Nat
  BY <1>2, <1>3
<1>5. PICK g : Taken(g, test, log, m - 1)
  BY <1>2, <1>4
<1> DEFINE h == [k \in 0 .. m |-> IF k = m THEN Next0(g[m - 1], m) ELSE g[k]]
<1>6. Taken(h, test, log, m)
  <2> SUFFICES ASSUME NEW k \in 0 .. m
               PROVE  h[k] = IF k = 0 THEN IF test = "rx" THEN RxEmpty ELSE TxEmpty
                             ELSE Next0(h[k - 1], k)
    BY DEF Taken
  <2>1. CASE k = m
    <3>1. h[k] = Next0(g[m - 1], m) /\ h[k - 1] = g[m - 1]
      BY <1>4, <2>1
    <3>2. QED
      BY <1>3, <2>1, <3>1
  <2>2. CASE k # m
    <3>1. k \in 0 .. m - 1 /\ (k # 0 => k - 1 \in 0 .. m - 1 /\ k - 1 # m)
      BY <1>4, <2>2
    <3>2. g[k] = IF k = 0 THEN IF test = "rx" THEN RxEmpty ELSE TxEmpty
                 ELSE Next0(g[k - 1], k)
      BY <1>5, <3>1 DEF Taken
    <3>3. h[k] = g[k] /\ (k # 0 => h[k - 1] = g[k - 1])
      BY <1>4, <2>2, <3>1
    <3>4. QED
      BY <3>2, <3>3
  <2>3. QED
    BY <2>1, <2>2
<1>7. QED
  BY <1>2, <1>6

\* What has been taken after k rows.
LEMMA TakenDef ==
  ASSUME NEW test, NEW log, Len(log) \in Nat, NEW k \in 0 .. Len(log)
  PROVE  TakenSoFar(test, log)[k] =
           IF k = 0 THEN IF test = "rx" THEN RxEmpty ELSE TxEmpty
           ELSE IF test = "rx" THEN RxTake(TakenSoFar(test, log)[k - 1], log[k])
           ELSE TxTake(TakenSoFar(test, log)[k - 1], log[k])
<1> DEFINE n == Len(log)
<1>1. \E g : Taken(g, test, log, n)
  BY TakenExists
<1>2. TakenSoFar(test, log) = CHOOSE g : Taken(g, test, log, n)
  BY DEF TakenSoFar, Taken
<1>3. Taken(TakenSoFar(test, log), test, log, n)
  BY <1>1, <1>2
<1>4. QED
  BY <1>3 DEF Taken

\* No serial, the first entry of the lists of serials.
NoSerial == ""
Serials == Irises \cup {NoSerial}
Lists == Seq(Seq(Rows))
\* A list holds rows of one radio.
Own(l, u) == l # <<>> /\ \A j \in DOMAIN l : l[j].uut = u
\* The lists after the first hold the rows of the first radios.
OwnUpTo(ls, us) == \A j \in 1 .. Len(ls) - 1 : Own(ls[j + 1], us[j])

\* A list of the rows of a radio grows by a row of that radio.
LEMMA OwnGrows ==
  ASSUME NEW l \in Seq(Rows), NEW row \in Rows, NEW u, row.uut = u, Own(l, u)
  PROVE  Append(l, row) \in Seq(Rows) /\ Own(Append(l, row), u)
<1>1. Append(l, row) \in Seq(Rows) /\ Len(Append(l, row)) = Len(l) + 1 /\ Len(l) \in Nat
  OBVIOUS
<1>2. \A j \in 1 .. Len(l) : Append(l, row)[j] = l[j]
  OBVIOUS
<1>3. Append(l, row)[Len(l) + 1] = row
  OBVIOUS
<1>4. DOMAIN l = 1 .. Len(l) /\ DOMAIN Append(l, row) = 1 .. Len(l) + 1
  BY <1>1
<1>5. QED
  BY <1>1, <1>2, <1>3, <1>4 DEF Own

LEMMA OwnOne ==
  ASSUME NEW row \in Rows, NEW u, row.uut = u
  PROVE  <<row>> \in Seq(Rows) /\ Own(<<row>>, u)
BY DEF Own

\* The lists of the first radios grow by the list of the next.
LEMMA OwnListGrows ==
  ASSUME NEW ls \in Lists, NEW us, OwnUpTo(ls, us), NEW l \in Seq(Rows),
         Len(ls) > 0 => Own(l, us[Len(ls)])
  PROVE  /\ Append(ls, l) \in Lists /\ Len(Append(ls, l)) = Len(ls) + 1
         /\ OwnUpTo(Append(ls, l), us)
<1> DEFINE new == Append(ls, l)
<1>1. new \in Lists /\ Len(new) = Len(ls) + 1 /\ Len(ls) \in Nat
  BY DEF Lists
<1>2. \A j \in 1 .. Len(ls) : new[j] = ls[j]
  BY DEF Lists
<1>3. new[Len(ls) + 1] = l
  BY DEF Lists
<1> HIDE DEF new
<1>4. ASSUME NEW j \in 1 .. Len(new) - 1 PROVE Own(new[j + 1], us[j])
  <2>1. CASE j + 1 = Len(ls) + 1
    <3>1. j = Len(ls) /\ Len(ls) > 0
      BY <1>1, <2>1
    <3>2. QED
      BY <1>3, <3>1
  <2>2. CASE j + 1 # Len(ls) + 1
    <3>1. j \in 1 .. Len(ls) - 1 /\ j + 1 \in 1 .. Len(ls)
      BY <1>1, <2>2
    <3>2. QED
      BY <1>2, <3>1 DEF OwnUpTo
  <2>3. QED
    BY <2>1, <2>2
<1>5. QED
  BY <1>1, <1>4 DEF new, OwnUpTo

\* A serial is added at the end.
LEMMA SerialAdded ==
  ASSUME NEW s \in Seq(Serials), NEW u \in Serials
  PROVE  /\ Append(s, u) \in Seq(Serials) /\ Len(Append(s, u)) = Len(s) + 1
         /\ \A j \in 1 .. Len(s) : Append(s, u)[j] = s[j]
         /\ Append(s, u)[Len(s) + 1] = u
OBVIOUS

\* What has been read when the last row was of block n.
Bufs == [list : Seq(Rows), done : BOOLEAN]
RxRight(acc, us, n) ==
  /\ acc \in [uut : Serials, serials : Seq(Serials), a : Lists, b : Lists,
              bufA : Bufs, bufB : Bufs]
  /\ n \in 0 .. Len(us) /\ acc.uut = (IF n = 0 THEN NoSerial ELSE us[n])
  /\ Len(acc.serials) = n + 1
  /\ \A j \in 1 .. n : acc.serials[j + 1] = us[j]
  /\ Len(acc.a) = n /\ OwnUpTo(acc.a, us)
  /\ Len(acc.b) = n /\ OwnUpTo(acc.b, us)
  /\ n > 0 => Own(acc.bufA.list, us[n]) /\ Own(acc.bufB.list, us[n])

\* Nothing is read at first.
LEMMA RxEmptyIs ==
  ASSUME NEW us \in Seq(Irises)
  PROVE  RxRight(RxEmpty, us, 0)
<1>1. Len(us) \in Nat
  OBVIOUS
<1>2. RxEmpty \in [uut : Serials, serials : Seq(Serials), a : Lists, b : Lists,
                   bufA : Bufs, bufB : Bufs]
  BY DEF RxEmpty, Serials, Lists, Bufs, NoSerial
<1>3. /\ RxEmpty.uut = NoSerial /\ Len(RxEmpty.serials) = 1
      /\ Len(RxEmpty.a) = 0 /\ Len(RxEmpty.b) = 0
  BY DEF RxEmpty, NoSerial
<1>4. QED
  BY <1>1, <1>2, <1>3 DEF RxRight, OwnUpTo

\* The block of a row.
LEMMA BlockOf ==
  ASSUME NEW us \in Seq(Irises), IsInjective(us), NEW test \in {"rx", "tx"}, NEW row \in Rows,
         NEW j \in 1 .. Len(us), us[j] = row.uut
  PROVE  Key(test, us, row) = Block(test, j, row.ch)
BY PlaceIs DEF Key

\* A row of the same radio grows its two lists, one of the next closes them.
LEMMA RxTakeIs ==
  ASSUME NEW us \in Seq(Irises), IsInjective(us), NEW acc, NEW n, RxRight(acc, us, n),
         NEW row \in Rows, NEW m \in 1 .. Len(us), row.uut = us[m], m \in {n, n + 1}
  PROVE  RxRight(RxTake(acc, row), us, m)
<1>1. /\ acc \in [uut : Serials, serials : Seq(Serials), a : Lists, b : Lists,
                  bufA : Bufs, bufB : Bufs]
      /\ n \in 0 .. Len(us) /\ acc.uut = (IF n = 0 THEN NoSerial ELSE us[n])
      /\ Len(acc.serials) = n + 1
      /\ \A j \in 1 .. n : acc.serials[j + 1] = us[j]
      /\ Len(acc.a) = n /\ OwnUpTo(acc.a, us)
      /\ Len(acc.b) = n /\ OwnUpTo(acc.b, us)
      /\ n > 0 => Own(acc.bufA.list, us[n]) /\ Own(acc.bufB.list, us[n])
  BY DEF RxRight
<1>2. row.uut \in Irises /\ row.uut # NoSerial /\ row.uut \in Serials
  BY HealthAssumption DEF Rows, Serials, NoSerial
<1>3. \A e, j \in 1 .. Len(us) : us[e] = us[j] => e = j
  BY DEF IsInjective
<1>4. Len(us) \in Nat
  OBVIOUS
<1> DEFINE new == RxTake(acc, row)
<1>5. CASE row.uut # acc.uut
  <2>1. m = n + 1
    BY <1>1, <1>5
  <2>2. new = [uut |-> row.uut, serials |-> Append(acc.serials, row.uut),
               a |-> Append(acc.a, acc.bufA.list), b |-> Append(acc.b, acc.bufB.list),
               bufA |-> NewBuf(row), bufB |-> NewBuf(row)]
    BY <1>5 DEF RxTake
  <2>3. /\ Append(acc.serials, row.uut) \in Seq(Serials)
        /\ Len(Append(acc.serials, row.uut)) = m + 1
        /\ \A j \in 1 .. m : Append(acc.serials, row.uut)[j + 1] = us[j]
    <3> DEFINE s == acc.serials
    <3> DEFINE u == row.uut
    <3>1. /\ Append(s, u) \in Seq(Serials) /\ Len(Append(s, u)) = Len(s) + 1
          /\ \A j \in 1 .. Len(s) : Append(s, u)[j] = s[j]
          /\ Append(s, u)[Len(s) + 1] = u
      BY <1>1, <1>2, SerialAdded
    <3>2. Len(s) = n + 1 /\ n \in Nat /\ u = us[m] /\ \A j \in 1 .. n : s[j + 1] = us[j]
      BY <1>1
    <3> HIDE DEF s, u
    <3>3. ASSUME NEW j \in 1 .. m PROVE Append(s, u)[j + 1] = us[j]
      <4>1. CASE j = m
        BY <2>1, <3>1, <3>2, <4>1
      <4>2. CASE j # m
        <5>1. j \in 1 .. n /\ j + 1 \in 1 .. Len(s)
          BY <2>1, <3>2, <4>2
        <5>2. QED
          BY <3>1, <3>2, <5>1
      <4>3. QED
        BY <4>1, <4>2
    <3>4. QED
      BY <2>1, <3>1, <3>2, <3>3 DEF s, u
  <2>4. /\ Append(acc.a, acc.bufA.list) \in Lists /\ Len(Append(acc.a, acc.bufA.list)) = m
        /\ OwnUpTo(Append(acc.a, acc.bufA.list), us)
    <3>1. acc.a \in Lists /\ acc.bufA.list \in Seq(Rows)
      BY <1>1 DEF Bufs
    <3>2. Len(acc.a) > 0 => Own(acc.bufA.list, us[Len(acc.a)])
      BY <1>1
    <3>3. QED
      BY <1>1, <2>1, <3>1, <3>2, OwnListGrows
  <2>5. /\ Append(acc.b, acc.bufB.list) \in Lists /\ Len(Append(acc.b, acc.bufB.list)) = m
        /\ OwnUpTo(Append(acc.b, acc.bufB.list), us)
    <3>1. acc.b \in Lists /\ acc.bufB.list \in Seq(Rows)
      BY <1>1 DEF Bufs
    <3>2. Len(acc.b) > 0 => Own(acc.bufB.list, us[Len(acc.b)])
      BY <1>1
    <3>3. QED
      BY <1>1, <2>1, <3>1, <3>2, OwnListGrows
  <2>6. NewBuf(row) \in Bufs /\ NewBuf(row).list = <<row>> /\ Own(<<row>>, us[m])
    BY OwnOne DEF NewBuf, Bufs
  <2>7. new \in [uut : Serials, serials : Seq(Serials), a : Lists, b : Lists,
                 bufA : Bufs, bufB : Bufs]
    BY <1>2, <2>2, <2>3, <2>4, <2>5, <2>6
  <2>8. m \in 0 .. Len(us) /\ m # 0
    BY <1>4
  <2>9. /\ new.uut = us[m] /\ new.serials = Append(acc.serials, row.uut)
        /\ new.a = Append(acc.a, acc.bufA.list) /\ new.b = Append(acc.b, acc.bufB.list)
        /\ new.bufA.list = <<row>> /\ new.bufB.list = <<row>>
    BY <2>2, <2>6
  <2> HIDE DEF new
  <2>10. QED
    BY <2>3, <2>4, <2>5, <2>6, <2>7, <2>8, <2>9, Zenon DEF RxRight, new
<1>6. CASE row.uut = acc.uut
  <2>1. n # 0 /\ m = n
    <3>1. n # 0
      BY <1>1, <1>2, <1>6
    <3>2. n \in 1 .. Len(us) /\ us[n] = us[m]
      BY <1>1, <1>6, <3>1
    <3>3. QED
      BY <1>3, <3>1, <3>2
  <2>2. new = [acc EXCEPT !.bufA = Grown(acc.bufA, row, "A"), !.bufB = Grown(acc.bufB, row, "B")]
    BY <1>6 DEF RxTake
  <2>3. ASSUME NEW b \in Bufs, Own(b.list, us[m]), NEW c
        PROVE  Grown(b, row, c) \in Bufs /\ Own(Grown(b, row, c).list, us[m])
    <3>1. b.list \in Seq(Rows) /\ b.done \in BOOLEAN
      BY DEF Bufs
    <3>2. Append(b.list, row) \in Seq(Rows) /\ Own(Append(b.list, row), us[m])
      BY <2>3, <3>1, OwnGrows
    <3>3. (b.done \/ c \in row.high) \in BOOLEAN
      OBVIOUS
    <3>4. QED
      BY <2>3, <3>1, <3>2, <3>3 DEF Grown, Bufs
  <2>4. /\ Grown(acc.bufA, row, "A") \in Bufs /\ Own(Grown(acc.bufA, row, "A").list, us[m])
        /\ Grown(acc.bufB, row, "B") \in Bufs /\ Own(Grown(acc.bufB, row, "B").list, us[m])
    BY <1>1, <2>1, <2>3
  <2>5. new \in [uut : Serials, serials : Seq(Serials), a : Lists, b : Lists,
                 bufA : Bufs, bufB : Bufs]
    BY <1>1, <2>2, <2>4
  <2>6. /\ new.uut = acc.uut /\ new.serials = acc.serials /\ new.a = acc.a /\ new.b = acc.b
        /\ new.bufA = Grown(acc.bufA, row, "A") /\ new.bufB = Grown(acc.bufB, row, "B")
    BY <1>1, <2>2
  <2> HIDE DEF new
  <2>7. RxRight(new, us, m)
    BY <1>1, <2>1, <2>4, <2>5, <2>6 DEF RxRight
  <2>8. QED
    BY <2>7 DEF new
<1>7. QED
  BY <1>5, <1>6

KeyAt(test, us, log, k) == IF k = 0 THEN 0 ELSE Key(test, us, log[k])

\* The row after the k-th belongs to the same block or to the next.
LEMMA NextBlock ==
  ASSUME NEW us \in Seq(Irises), IsInjective(us), NEW test \in {"rx", "tx"},
         NEW log \in Seq(Rows), InBlocks(test, us, log), NEW k \in 1 .. Len(log)
  PROVE  \E j \in 1 .. Len(us) :
           /\ us[j] = log[k].uut /\ (test = "tx" => log[k].ch \in {"A", "B"})
           /\ KeyAt(test, us, log, k) = Block(test, j, log[k].ch)
           /\ KeyAt(test, us, log, k)
                \in {KeyAt(test, us, log, k - 1), KeyAt(test, us, log, k - 1) + 1}
<1>1. PICK j \in 1 .. Len(us) : us[j] = log[k].uut
  BY DEF InBlocks
<1>2. log[k] \in Rows /\ k \in Int /\ k # 0
  OBVIOUS
<1>3. Key(test, us, log[k]) = Block(test, j, log[k].ch)
  BY <1>1, <1>2, BlockOf
<1>4. /\ test = "tx" => log[k].ch \in {"A", "B"}
      /\ LET last == IF k = 1 THEN 0 ELSE Key(test, us, log[k - 1])
         IN  Key(test, us, log[k]) \in {last, last + 1}
  BY DEF InBlocks
<1>5. (IF k = 1 THEN 0 ELSE Key(test, us, log[k - 1])) = KeyAt(test, us, log, k - 1)
  BY <1>2 DEF KeyAt
<1>6. QED
  BY <1>1, <1>2, <1>3, <1>4, <1>5 DEF KeyAt

\* The receivers' rows are taken in the order of the radios.
LEMMA RxTaken ==
  ASSUME NEW us \in Seq(Irises), IsInjective(us),
         NEW log \in Seq(Rows), InBlocks("rx", us, log), NEW k \in 0 .. Len(log)
  PROVE  RxRight(TakenSoFar("rx", log)[k], us, KeyAt("rx", us, log, k))
<1> DEFINE Right(m) == RxRight(TakenSoFar("rx", log)[m], us, KeyAt("rx", us, log, m))
<1> DEFINE Bad == {m \in 0 .. Len(log) : ~Right(m)}
<1>1. SUFFICES ASSUME Bad # {} PROVE FALSE
  OBVIOUS
<1>2. Len(log) \in Nat
  OBVIOUS
<1>3. PICK m \in Bad : \A x \in Bad : m <= x
  <2>1. Bad \in SUBSET Nat
    OBVIOUS
  <2> HIDE DEF Bad
  <2>2. QED
    BY <1>1, <2>1, Least
<1>4. m # 0
  <2>1. Right(0)
    BY <1>2, TakenDef, RxEmptyIs DEF KeyAt
  <2>2. QED
    BY <1>3, <2>1
<1>5. m \in 1 .. Len(log) /\ m - 1 \in 0 .. Len(log) /\ Right(m - 1)
  <2> HIDE DEF Right
  <2>1. QED
    BY <1>2, <1>3, <1>4
<1>6. TakenSoFar("rx", log)[m] = RxTake(TakenSoFar("rx", log)[m - 1], log[m])
  BY <1>2, <1>3, <1>4, TakenDef
<1>7. PICK j \in 1 .. Len(us) :
        /\ us[j] = log[m].uut
        /\ KeyAt("rx", us, log, m) = Block("rx", j, log[m].ch)
        /\ KeyAt("rx", us, log, m)
             \in {KeyAt("rx", us, log, m - 1), KeyAt("rx", us, log, m - 1) + 1}
  BY <1>5, NextBlock
<1>8. KeyAt("rx", us, log, m) = j
  BY <1>7 DEF Block
<1>9. Right(m)
  <2>1. log[m] \in Rows
    BY <1>5
  <2>2. j \in {KeyAt("rx", us, log, m - 1), KeyAt("rx", us, log, m - 1) + 1}
    BY <1>7, <1>8
  <2>3. RxRight(TakenSoFar("rx", log)[m - 1], us, KeyAt("rx", us, log, m - 1))
    BY <1>5
  <2>4. QED
    BY <1>6, <1>7, <1>8, <2>1, <2>2, <2>3, RxTakeIs
<1>10. QED
  BY <1>3, <1>9

\* What the property asks of the lists of a test.
OwnLists(lists, us) ==
  /\ Tail(lists.serials) = us
  /\ Len(lists.a) = Len(us) + 1 /\ Len(lists.b) = Len(us) + 1
  /\ OwnUpTo(lists.a, us) /\ OwnUpTo(lists.b, us)

\* The first serial is none.
LEMMA TailIs ==
  ASSUME NEW us \in Seq(Irises), NEW s \in Seq(Serials), Len(s) = Len(us) + 1,
         \A j \in 1 .. Len(us) : s[j + 1] = us[j]
  PROVE  Tail(s) = us
<1>1. Len(us) \in Nat /\ s # <<>>
  OBVIOUS
<1>2. Tail(s) \in Seq(Serials) /\ Len(Tail(s)) = Len(us)
  BY <1>1
<1>3. \A j \in 1 .. Len(us) : Tail(s)[j] = us[j]
  BY <1>1
<1>4. us \in Seq(Serials)
  BY DEF Serials
<1>5. QED
  BY <1>2, <1>3, <1>4, SeqEqual

\* The lists of the receivers are what the property asks for.
LEMMA RxListsAreOwn ==
  ASSUME NEW us \in Seq(Irises), IsInjective(us), NEW log \in Seq(Rows), log # <<>>,
         InBlocks("rx", us, log), LastKey("rx", us, log) = Len(us)
  PROVE  OwnLists(RxLists(log), us)
<1> DEFINE last == TakenSoFar("rx", log)[Len(log)]
<1> DEFINE n == Len(us)
<1>1. Len(log) \in Nat /\ Len(log) # 0 /\ n \in Nat
  BY EmptySeq
<1>2. RxRight(last, us, n) /\ n > 0
  <2>1. RxRight(last, us, KeyAt("rx", us, log, Len(log)))
    BY <1>1, RxTaken
  <2>2. KeyAt("rx", us, log, Len(log)) = n
    BY <1>1 DEF KeyAt, LastKey
  <2>3. n # 0
    <3>1. Len(log) \in 1 .. Len(log)
      BY <1>1
    <3>2. QED
      BY <3>1, NextBlock
  <2>4. QED
    BY <1>1, <2>1, <2>2, <2>3
<1>3. RxLists(log) = [serials |-> last.serials, a |-> Append(last.a, last.bufA.list),
                      b |-> Append(last.b, last.bufB.list)]
  BY DEF RxLists
<1> HIDE DEF last
<1>4. /\ last.serials \in Seq(Serials) /\ Len(last.serials) = n + 1
      /\ \A j \in 1 .. n : last.serials[j + 1] = us[j]
      /\ last.a \in Lists /\ Len(last.a) = n /\ OwnUpTo(last.a, us)
      /\ last.b \in Lists /\ Len(last.b) = n /\ OwnUpTo(last.b, us)
      /\ Own(last.bufA.list, us[n]) /\ Own(last.bufB.list, us[n])
      /\ last.bufA.list \in Seq(Rows) /\ last.bufB.list \in Seq(Rows)
  BY <1>2 DEF RxRight, Bufs
<1>5. Tail(last.serials) = us
  BY <1>4, TailIs
<1>6. /\ Len(Append(last.a, last.bufA.list)) = n + 1 /\ OwnUpTo(Append(last.a, last.bufA.list), us)
      /\ Len(Append(last.b, last.bufB.list)) = n + 1 /\ OwnUpTo(Append(last.b, last.bufB.list), us)
  BY <1>4, OwnListGrows
<1>7. QED
  BY <1>3, <1>5, <1>6 DEF OwnLists

\* The serials a transmitter's rows leave: each radio has two.
Twice(s, us, m) ==
  /\ s \in Seq(Serials) /\ Len(s) = m + 1 /\ s[1] = NoSerial
  /\ \A j \in 1 .. Len(us) :
       /\ 2 * j <= m + 1 => s[2 * j] = us[j]
       /\ 2 * j + 1 <= m + 1 => s[2 * j + 1] = us[j]

InA(acc, us, m, j) ==
  m = 2 * j - 1 /\ acc.ch = "A" /\ Len(acc.a) = j /\ Len(acc.b) = j /\ Own(acc.bufA, us[j])
InB(acc, us, m, j) ==
  m = 2 * j /\ acc.ch = "B" /\ Len(acc.a) = j + 1 /\ Len(acc.b) = j /\ Own(acc.bufB, us[j])
TxRight(acc, us, m) ==
  /\ acc \in [ch : {"A", "B", NoSerial}, serials : Seq(Serials), a : Lists, b : Lists,
              bufA : Seq(Rows), bufB : Seq(Rows)]
  /\ m \in Nat /\ Twice(acc.serials, us, m)
  /\ OwnUpTo(acc.a, us) /\ OwnUpTo(acc.b, us)
  /\ \/ m = 0 /\ acc.ch = NoSerial /\ Len(acc.a) = 1 /\ Len(acc.b) = 0
     \/ \E j \in 1 .. Len(us) : InA(acc, us, m, j) \/ InB(acc, us, m, j)

\* Nothing is read at first.
LEMMA TxEmptyIs ==
  ASSUME NEW us \in Seq(Irises)
  PROVE  TxRight(TxEmpty, us, 0)
<1>1. TxEmpty \in [ch : {"A", "B", NoSerial}, serials : Seq(Serials), a : Lists, b : Lists,
                   bufA : Seq(Rows), bufB : Seq(Rows)]
  BY DEF TxEmpty, Serials, Lists, NoSerial
<1>2. /\ TxEmpty.ch = NoSerial /\ Len(TxEmpty.serials) = 1 /\ TxEmpty.serials[1] = NoSerial
      /\ Len(TxEmpty.a) = 1 /\ Len(TxEmpty.b) = 0
  BY DEF TxEmpty, NoSerial
<1>3. TxEmpty.serials \in Seq(Serials)
  BY <1>1
<1>4. Twice(TxEmpty.serials, us, 0)
  BY <1>2, <1>3 DEF Twice
<1>5. OwnUpTo(TxEmpty.a, us) /\ OwnUpTo(TxEmpty.b, us)
  BY <1>2 DEF OwnUpTo
<1>6. QED
  BY <1>1, <1>2, <1>4, <1>5 DEF TxRight

\* The next serial is noted in its place.
LEMMA TwiceGrows ==
  ASSUME NEW us \in Seq(Irises), NEW s, NEW m \in Nat, Twice(s, us, m),
         NEW e \in 1 .. Len(us), m + 1 = 2 * e - 1 \/ m + 1 = 2 * e
  PROVE  Twice(Append(s, us[e]), us, m + 1)
<1> DEFINE u == us[e]
<1> DEFINE new == Append(s, u)
<1>1. /\ s \in Seq(Serials) /\ Len(s) = m + 1 /\ s[1] = NoSerial
      /\ \A j \in 1 .. Len(us) :
           /\ 2 * j <= m + 1 => s[2 * j] = us[j]
           /\ 2 * j + 1 <= m + 1 => s[2 * j + 1] = us[j]
  BY DEF Twice
<1>2. u \in Serials
  BY DEF Serials
<1> HIDE DEF u
<1>3. /\ new \in Seq(Serials) /\ Len(new) = m + 2
      /\ \A j \in 1 .. m + 1 : new[j] = s[j]
      /\ new[m + 2] = u
  BY <1>1, <1>2, SerialAdded
<1> HIDE DEF new
<1>4. new[1] = NoSerial
  BY <1>1, <1>3
<1>5. ASSUME NEW j \in 1 .. Len(us), 2 * j <= m + 2 PROVE new[2 * j] = us[j]
  <2>1. j \in Nat /\ j >= 1 /\ e \in Nat
    OBVIOUS
  <2>2. CASE 2 * j = m + 2
    <3>1. e = j
      BY <2>1, <2>2
    <3>2. QED
      BY <1>3, <2>2, <3>1 DEF u
  <2>3. CASE 2 * j # m + 2
    <3>1. 2 * j \in 1 .. m + 1
      BY <1>5, <2>1, <2>3
    <3>2. QED
      BY <1>1, <1>3, <3>1
  <2>4. QED
    BY <2>2, <2>3
<1>6. ASSUME NEW j \in 1 .. Len(us), 2 * j + 1 <= m + 2 PROVE new[2 * j + 1] = us[j]
  <2>1. j \in Nat /\ j >= 1 /\ e \in Nat
    OBVIOUS
  <2>2. CASE 2 * j + 1 = m + 2
    <3>1. e = j
      BY <2>1, <2>2
    <3>2. QED
      BY <1>3, <2>2, <3>1 DEF u
  <2>3. CASE 2 * j + 1 # m + 2
    <3>1. 2 * j + 1 \in 1 .. m + 1
      BY <1>6, <2>1, <2>3
    <3>2. QED
      BY <1>1, <1>3, <3>1
  <2>4. QED
    BY <2>2, <2>3
<1>7. m + 1 + 1 = m + 2
  OBVIOUS
<1>8. QED
  BY <1>3, <1>4, <1>5, <1>6, <1>7 DEF Twice, new, u

\* A row of the same channel grows its list; a row of the other one closes it
\* and opens that of the other channel, of the same radio or of the next.
LEMMA TxTakeIs ==
  ASSUME NEW us \in Seq(Irises), IsInjective(us), NEW acc, NEW m, TxRight(acc, us, m),
         NEW row \in Rows, NEW e \in 1 .. Len(us), row.uut = us[e], row.ch \in {"A", "B"},
         NEW n, n = Block("tx", e, row.ch), n \in {m, m + 1}
  PROVE  TxRight(TxTake(acc, row), us, n)
<1> DEFINE T == [ch : {"A", "B", NoSerial}, serials : Seq(Serials), a : Lists, b : Lists,
                 bufA : Seq(Rows), bufB : Seq(Rows)]
<1> DEFINE new == TxTake(acc, row)
<1>1. /\ acc \in T
      /\ m \in Nat /\ Twice(acc.serials, us, m)
      /\ OwnUpTo(acc.a, us) /\ OwnUpTo(acc.b, us)
      /\ \/ m = 0 /\ acc.ch = NoSerial /\ Len(acc.a) = 1 /\ Len(acc.b) = 0
         \/ \E j \in 1 .. Len(us) : InA(acc, us, m, j) \/ InB(acc, us, m, j)
  BY DEF TxRight
<1>2. /\ acc.ch \in {"A", "B", NoSerial} /\ acc.serials \in Seq(Serials) /\ acc.a \in Lists
      /\ acc.b \in Lists /\ acc.bufA \in Seq(Rows) /\ acc.bufB \in Seq(Rows)
  BY <1>1
<1>3. NoSerial # "A" /\ NoSerial # "B"
  BY DEF NoSerial
<1>4. e \in Nat /\ e >= 1 /\ (row.ch = "A" => n = 2 * e - 1) /\ (row.ch = "B" => n = 2 * e)
      /\ n \in Nat
  <2>1. e \in Nat /\ e >= 1
    OBVIOUS
  <2>2. CASE row.ch = "A"
    BY <2>1, <2>2 DEF Block
  <2>3. CASE row.ch = "B"
    BY <2>1, <2>3 DEF Block
  <2>4. QED
    BY <2>1, <2>2, <2>3
<1>5. us[e] \in Irises /\ us[e] \in Serials
  BY DEF Serials
<1>6. CASE row.ch = acc.ch
  <2>1. /\ n = m
        /\ row.ch = "A" => InA(acc, us, m, e)
        /\ row.ch = "B" => InB(acc, us, m, e)
    <3>1. PICK j \in 1 .. Len(us) : InA(acc, us, m, j) \/ InB(acc, us, m, j)
      BY <1>1, <1>3, <1>6
    <3>2. j \in Nat
      OBVIOUS
    <3>3. CASE row.ch = "A"
      <4>1. InA(acc, us, m, j) /\ m = 2 * j - 1
        BY <1>6, <3>1, <3>3 DEF InA, InB
      <4>2. n = m /\ e = j
        BY <1>4, <3>2, <3>3, <4>1
      <4>3. QED
        BY <3>3, <4>1, <4>2
    <3>4. CASE row.ch = "B"
      <4>1. InB(acc, us, m, j) /\ m = 2 * j
        BY <1>6, <3>1, <3>4 DEF InA, InB
      <4>2. n = m /\ e = j
        BY <1>4, <3>2, <3>4, <4>1
      <4>3. QED
        BY <3>4, <4>1, <4>2
    <3>5. QED
      BY <3>3, <3>4
  <2>2. CASE row.ch = "A"
    <3>1. new = [acc EXCEPT !.bufA = Append(acc.bufA, row)]
      BY <1>6, <2>2 DEF TxTake
    <3>2. Append(acc.bufA, row) \in Seq(Rows) /\ Own(Append(acc.bufA, row), us[e])
      BY <1>2, <2>1, <2>2, OwnGrows DEF InA
    <3>3. /\ new \in T /\ new.ch = acc.ch /\ new.serials = acc.serials /\ new.a = acc.a
          /\ new.b = acc.b /\ new.bufA = Append(acc.bufA, row)
      BY <1>1, <3>1, <3>2
    <3> HIDE DEF new
    <3>4. InA(new, us, n, e)
      BY <2>1, <2>2, <3>2, <3>3 DEF InA
    <3>5. TxRight(new, us, n)
      BY <1>1, <2>1, <3>3, <3>4 DEF TxRight
    <3>6. QED
      BY <3>5 DEF new
  <2>3. CASE row.ch = "B"
    <3>1. new = [acc EXCEPT !.bufB = Append(acc.bufB, row)]
      BY <1>6, <2>3 DEF TxTake
    <3>2. Append(acc.bufB, row) \in Seq(Rows) /\ Own(Append(acc.bufB, row), us[e])
      BY <1>2, <2>1, <2>3, OwnGrows DEF InB
    <3>3. /\ new \in T /\ new.ch = acc.ch /\ new.serials = acc.serials /\ new.a = acc.a
          /\ new.b = acc.b /\ new.bufB = Append(acc.bufB, row)
      BY <1>1, <3>1, <3>2
    <3> HIDE DEF new
    <3>4. InB(new, us, n, e)
      BY <2>1, <2>3, <3>2, <3>3 DEF InB
    <3>5. TxRight(new, us, n)
      BY <1>1, <2>1, <3>3, <3>4 DEF TxRight
    <3>6. QED
      BY <3>5 DEF new
  <2>4. QED
    BY <2>2, <2>3
<1>7. CASE row.ch # acc.ch /\ row.ch = "A"
  <2>1. /\ n = m + 1 /\ Len(acc.b) = e - 1 /\ Len(acc.a) = e
        /\ e > 1 => Own(acc.bufB, us[e - 1])
    <3>1. CASE m = 0 /\ acc.ch = NoSerial /\ Len(acc.a) = 1 /\ Len(acc.b) = 0
      <4>1. e = 1 /\ n = 1
        BY <1>4, <1>7, <3>1
      <4>2. QED
        BY <3>1, <4>1
    <3>2. CASE \E j \in 1 .. Len(us) : InA(acc, us, m, j) \/ InB(acc, us, m, j)
      <4>1. PICK j \in 1 .. Len(us) : InB(acc, us, m, j)
        BY <1>7, <3>2 DEF InA
      <4>2. /\ j \in Nat /\ m = 2 * j /\ Len(acc.a) = j + 1 /\ Len(acc.b) = j
            /\ Own(acc.bufB, us[j])
        BY <4>1 DEF InB
      <4>3. e = j + 1 /\ n = m + 1
        BY <1>4, <1>7, <4>2
      <4>4. QED
        BY <4>2, <4>3
    <3>3. QED
      BY <1>1, <3>1, <3>2
  <2>2. new = [acc EXCEPT !.ch = "A", !.b = Append(acc.b, acc.bufB),
                          !.bufA = <<row>>, !.serials = Append(acc.serials, us[e])]
    BY <1>7 DEF TxTake
  <2>3. Twice(Append(acc.serials, us[e]), us, n) /\ Append(acc.serials, us[e]) \in Seq(Serials)
    <3>1. m + 1 = 2 * e - 1
      BY <1>4, <1>7, <2>1
    <3>2. QED
      BY <1>1, <1>2, <1>5, <2>1, <3>1, TwiceGrows, SerialAdded
  <2>4. /\ Append(acc.b, acc.bufB) \in Lists /\ Len(Append(acc.b, acc.bufB)) = e
        /\ OwnUpTo(Append(acc.b, acc.bufB), us)
    <3>1. Len(acc.b) > 0 => Own(acc.bufB, us[Len(acc.b)])
      BY <1>4, <2>1
    <3>2. QED
      BY <1>1, <1>2, <1>4, <2>1, <3>1, OwnListGrows
  <2>5. <<row>> \in Seq(Rows) /\ Own(<<row>>, us[e])
    BY OwnOne
  <2>6. /\ new \in T /\ new.ch = "A" /\ new.serials = Append(acc.serials, us[e]) /\ new.a = acc.a
        /\ new.b = Append(acc.b, acc.bufB) /\ new.bufA = <<row>>
    BY <1>1, <2>2, <2>3, <2>4, <2>5
  <2> HIDE DEF new
  <2>7. InA(new, us, n, e)
    BY <1>4, <1>7, <2>1, <2>4, <2>5, <2>6 DEF InA
  <2>8. TxRight(new, us, n)
    BY <1>1, <1>4, <2>3, <2>4, <2>6, <2>7 DEF TxRight
  <2>9. QED
    BY <2>8 DEF new
<1>8. CASE row.ch # acc.ch /\ row.ch = "B"
  <2>1. n = m + 1 /\ Len(acc.b) = e /\ Len(acc.a) = e /\ Own(acc.bufA, us[e])
    <3>1. CASE m = 0
      BY <1>4, <1>8, <3>1
    <3>2. CASE \E j \in 1 .. Len(us) : InA(acc, us, m, j) \/ InB(acc, us, m, j)
      <4>1. PICK j \in 1 .. Len(us) : InA(acc, us, m, j)
        BY <1>8, <3>2 DEF InB
      <4>2. /\ j \in Nat /\ m = 2 * j - 1 /\ Len(acc.a) = j /\ Len(acc.b) = j
            /\ Own(acc.bufA, us[j])
        BY <4>1 DEF InA
      <4>3. e = j /\ n = m + 1
        BY <1>4, <1>8, <4>2
      <4>4. QED
        BY <4>2, <4>3
    <3>3. QED
      BY <1>1, <3>1, <3>2
  <2>2. new = [acc EXCEPT !.ch = "B", !.a = Append(acc.a, acc.bufA),
                          !.bufB = <<row>>, !.serials = Append(acc.serials, us[e])]
    BY <1>8 DEF TxTake
  <2>3. Twice(Append(acc.serials, us[e]), us, n) /\ Append(acc.serials, us[e]) \in Seq(Serials)
    <3>1. m + 1 = 2 * e
      BY <1>4, <1>8, <2>1
    <3>2. QED
      BY <1>1, <1>2, <1>5, <2>1, <3>1, TwiceGrows, SerialAdded
  <2>4. /\ Append(acc.a, acc.bufA) \in Lists /\ Len(Append(acc.a, acc.bufA)) = e + 1
        /\ OwnUpTo(Append(acc.a, acc.bufA), us)
    BY <1>1, <1>2, <1>4, <2>1, OwnListGrows
  <2>5. <<row>> \in Seq(Rows) /\ Own(<<row>>, us[e])
    BY OwnOne
  <2>6. /\ new \in T /\ new.ch = "B" /\ new.serials = Append(acc.serials, us[e]) /\ new.b = acc.b
        /\ new.a = Append(acc.a, acc.bufA) /\ new.bufB = <<row>>
    BY <1>1, <2>2, <2>3, <2>4, <2>5
  <2> HIDE DEF new
  <2>7. InB(new, us, n, e)
    BY <1>4, <1>8, <2>1, <2>4, <2>5, <2>6 DEF InB
  <2>8. TxRight(new, us, n)
    BY <1>1, <1>4, <2>3, <2>4, <2>6, <2>7 DEF TxRight
  <2>9. QED
    BY <2>8 DEF new
<1>9. QED
  BY <1>6, <1>7, <1>8

\* The transmitters' rows are taken in the order of the radios.
LEMMA TxTaken ==
  ASSUME NEW us \in Seq(Irises), IsInjective(us),
         NEW log \in Seq(Rows), InBlocks("tx", us, log), NEW k \in 0 .. Len(log)
  PROVE  TxRight(TakenSoFar("tx", log)[k], us, KeyAt("tx", us, log, k))
<1> DEFINE Right(m) == TxRight(TakenSoFar("tx", log)[m], us, KeyAt("tx", us, log, m))
<1> DEFINE Bad == {m \in 0 .. Len(log) : ~Right(m)}
<1>1. SUFFICES ASSUME Bad # {} PROVE FALSE
  OBVIOUS
<1>2. Len(log) \in Nat
  OBVIOUS
<1>3. PICK m \in Bad : \A x \in Bad : m <= x
  <2>1. Bad \in SUBSET Nat
    OBVIOUS
  <2> HIDE DEF Bad
  <2>2. QED
    BY <1>1, <2>1, Least
<1>4. m # 0
  <2>1. Right(0)
    BY <1>2, TakenDef, TxEmptyIs DEF KeyAt
  <2>2. QED
    BY <1>3, <2>1
<1>5. m \in 1 .. Len(log) /\ m - 1 \in 0 .. Len(log) /\ Right(m - 1)
  <2> HIDE DEF Right
  <2>1. QED
    BY <1>2, <1>3, <1>4
<1>6. TakenSoFar("tx", log)[m] = TxTake(TakenSoFar("tx", log)[m - 1], log[m])
  BY <1>2, <1>3, <1>4, TakenDef
<1>7. PICK j \in 1 .. Len(us) :
        /\ us[j] = log[m].uut /\ log[m].ch \in {"A", "B"}
        /\ KeyAt("tx", us, log, m) = Block("tx", j, log[m].ch)
        /\ KeyAt("tx", us, log, m)
             \in {KeyAt("tx", us, log, m - 1), KeyAt("tx", us, log, m - 1) + 1}
  BY <1>5, NextBlock
<1>8. Right(m)
  <2>1. log[m] \in Rows
    BY <1>5
  <2>2. TxRight(TakenSoFar("tx", log)[m - 1], us, KeyAt("tx", us, log, m - 1))
    BY <1>5
  <2>3. QED
    BY <1>6, <1>7, <2>1, <2>2, TxTakeIs
<1>9. QED
  BY <1>3, <1>8

\* The serials, each but the first twice, are made unique.
LEMMA FirstsInOrder ==
  ASSUME NEW n \in Nat
  PROVE  LET K == {1} \cup {2 * j : j \in 1 .. n}
         IN  /\ Cardinality(K) = n + 1
             /\ InOrder(K)[1] = 1 /\ \A j \in 1 .. n : InOrder(K)[j + 1] = 2 * j
<1> DEFINE K == {1} \cup {2 * j : j \in 1 .. n}
<1> DEFINE C(e) == Cardinality({1} \cup {2 * j : j \in 1 .. e})
<1>1. \A e \in 0 .. n : IsFiniteSet({1} \cup {2 * j : j \in 1 .. e}) /\ C(e) = e + 1
  <2> DEFINE Right(e) == IsFiniteSet({1} \cup {2 * j : j \in 1 .. e}) /\ C(e) = e + 1
  <2> DEFINE Bad == {e \in 0 .. n : ~Right(e)}
  <2>1. SUFFICES ASSUME Bad # {} PROVE FALSE
    OBVIOUS
  <2>2. PICK e \in Bad : \A x \in Bad : e <= x
    <3>1. Bad \in SUBSET Nat
      OBVIOUS
    <3> HIDE DEF Bad
    <3>2. QED
      BY <2>1, <3>1, Least
  <2>3. e # 0
    <3>1. {1} \cup {2 * j : j \in 1 .. 0} = {1}
      OBVIOUS
    <3>2. Right(0)
      <4>1. IsFiniteSet({1}) /\ Cardinality({1}) = 1
        BY FS_Singleton
      <4>2. QED
        BY <3>1, <4>1
    <3>3. QED
      BY <2>2, <3>2
  <2>4. e \in 1 .. n /\ e - 1 \in 0 .. n /\ Right(e - 1)
    <3> HIDE DEF Right
    <3>1. QED
      BY <2>2, <2>3
  <2> DEFINE P == {1} \cup {2 * j : j \in 1 .. e - 1}
  <2>5. {1} \cup {2 * j : j \in 1 .. e} = P \cup {2 * e} /\ 2 * e \notin P
    <3>1. 1 .. e = (1 .. e - 1) \cup {e} /\ e \in Nat /\ e >= 1
      BY <2>4
    <3>2. \A j \in 1 .. e - 1 : 2 * j # 2 * e
      BY <2>4
    <3>3. 2 * e # 1
      BY <2>4
    <3>4. {1} \cup {2 * j : j \in 1 .. e} = P \cup {2 * e}
      BY <3>1, Zenon
    <3>5. QED
      BY <3>2, <3>3, <3>4, Zenon
  <2>6. IsFiniteSet(P) /\ Cardinality(P) = e
    BY <2>4
  <2> HIDE DEF P
  <2>7. IsFiniteSet(P \cup {2 * e}) /\ Cardinality(P \cup {2 * e}) = e + 1
    BY <2>5, <2>6, FS_AddElement
  <2>8. Right(e)
    BY <2>5, <2>7
  <2>9. QED
    BY <2>2, <2>8
<1>2. Cardinality(K) = n + 1
  <2>1. n \in 0 .. n /\ Cardinality(K) = C(n)
    OBVIOUS
  <2> HIDE DEF K, C
  <2>2. QED
    BY <1>1, <2>1
<1>3. \A k \in K : k \in Nat
  OBVIOUS
<1>4. Cardinality({j \in K : j <= 1}) = 1
  <2>1. {j \in K : j <= 1} = {1}
    OBVIOUS
  <2>2. QED
    BY <2>1, FS_Singleton
<1>5. ASSUME NEW e \in 1 .. n
      PROVE  Cardinality({j \in K : j <= 2 * e}) = e + 1
  <2>1. {j \in K : j <= 2 * e} = {1} \cup {2 * j : j \in 1 .. e}
    <3>1. \A j \in 1 .. n : 2 * j <= 2 * e <=> j \in 1 .. e
      OBVIOUS
    <3>2. 1 <= 2 * e /\ 1 .. e \subseteq 1 .. n
      OBVIOUS
    <3>3. ASSUME NEW k \in K, k <= 2 * e PROVE k \in {1} \cup {2 * j : j \in 1 .. e}
      <4>1. CASE k = 1
        BY <4>1
      <4>2. CASE k # 1
        <5>1. PICK j \in 1 .. n : k = 2 * j
          BY <4>2
        <5>2. j \in 1 .. e
          BY <3>1, <3>3, <5>1
        <5>3. QED
          BY <5>1, <5>2
      <4>3. QED
        BY <4>1, <4>2
    <3>4. ASSUME NEW k \in {1} \cup {2 * j : j \in 1 .. e} PROVE k \in K /\ k <= 2 * e
      <4>1. CASE k = 1
        BY <3>2, <4>1
      <4>2. CASE k # 1
        <5>1. PICK j \in 1 .. e : k = 2 * j
          BY <4>2
        <5>2. j \in 1 .. n /\ 2 * j <= 2 * e
          BY <3>1, <3>2
        <5>3. QED
          BY <5>1, <5>2
      <4>3. QED
        BY <4>1, <4>2
    <3> DEFINE U == {1} \cup {2 * j : j \in 1 .. e}
    <3>5. \A k : k \in K /\ k <= 2 * e <=> k \in U
      BY <3>3, <3>4, Zenon
    <3> HIDE DEF K, U
    <3>6. {j \in K : j <= 2 * e} = U
      BY <3>5
    <3>7. QED
      BY <3>6, Zenon DEF U
  <2>2. e \in 0 .. n
    OBVIOUS
  <2>3. QED
    BY <1>1, <2>1, <2>2, Zenon
<1>6. Nth(K, 1) = 1
  <2>1. \A k \in K : Cardinality({j \in K : j <= k}) = 1 => k = 1
    <3>1. ASSUME NEW j \in 1 .. n PROVE Cardinality({x \in K : x <= 2 * j}) # 1
      <4>1. j + 1 # 1
        OBVIOUS
      <4>2. QED
        BY <1>5, <4>1
    <3>2. QED
      BY <3>1
  <2>2. 1 \in K
    OBVIOUS
  <2> HIDE DEF K
  <2>3. QED
    BY <1>4, <2>1, <2>2 DEF Nth
<1>7. ASSUME NEW e \in 1 .. n PROVE Nth(K, e + 1) = 2 * e
  <2>1. \A k \in K : Cardinality({j \in K : j <= k}) = e + 1 => k = 2 * e
    <3>1. ASSUME NEW k \in K, Cardinality({j \in K : j <= k}) = e + 1 PROVE k = 2 * e
      <4>1. CASE k = 1
        BY <1>4, <3>1, <4>1
      <4>2. CASE k # 1
        <5>1. PICK j \in 1 .. n : k = 2 * j
          BY <4>2
        <5>2. j + 1 = e + 1
          BY <1>5, <3>1, <5>1
        <5>3. QED
          BY <5>1, <5>2
      <4>3. QED
        BY <4>1, <4>2
    <3>2. QED
      BY <3>1
  <2>2. 2 * e \in K
    OBVIOUS
  <2> HIDE DEF K
  <2>3. QED
    BY <1>5, <2>1, <2>2 DEF Nth
<1>8. InOrder(K) = [e \in 1 .. n + 1 |-> Nth(K, e)]
  BY <1>2 DEF InOrder
<1>9. InOrder(K)[1] = 1 /\ \A j \in 1 .. n : InOrder(K)[j + 1] = 2 * j
  <2> HIDE DEF K
  <2>1. 1 \in 1 .. n + 1 /\ \A j \in 1 .. n : j + 1 \in 1 .. n + 1
    OBVIOUS
  <2>2. QED
    BY <1>6, <1>7, <1>8, <2>1
<1>10. QED
  BY <1>2, <1>9

\* Of the serials noted twice the first ones are left, in their order.
LEMMA UniqueSerials ==
  ASSUME NEW us \in Seq(Irises), IsInjective(us), NEW s, Twice(s, us, 2 * Len(us))
  PROVE  Tail(Without(s, Again(s))) = us
<1> DEFINE n == Len(us)
<1> DEFINE K == {1} \cup {2 * j : j \in 1 .. n}
<1>1. /\ s \in Seq(Serials) /\ Len(s) = 2 * n + 1 /\ s[1] = NoSerial /\ n \in Nat
      /\ \A j \in 1 .. n : s[2 * j] = us[j] /\ s[2 * j + 1] = us[j]
  BY DEF Twice
<1>2. DOMAIN s = 1 .. 2 * n + 1
  BY <1>1
<1>3. \A j \in 1 .. n : us[j] \in Irises /\ us[j] # NoSerial
  <2>1. NoSerial \notin Irises
    BY HealthAssumption DEF NoSerial
  <2>2. QED
    BY <1>1, <2>1
<1>4. \A e, j \in 1 .. n : us[e] = us[j] => e = j
  BY DEF IsInjective
<1>5. \A k \in 1 .. 2 * n + 1 : k = 1 \/ (\E j \in 1 .. n : k = 2 * j \/ k = 2 * j + 1)
  <2>1. ASSUME NEW k \in 1 .. 2 * n + 1, k # 1
        PROVE  \E j \in 1 .. n : k = 2 * j \/ k = 2 * j + 1
    <3> DEFINE j == k \div 2
    <3>1. j \in Int /\ (k = 2 * j \/ k = 2 * j + 1)
      BY <1>1
    <3> HIDE DEF j
    <3>2. j \in 1 .. n
      BY <1>1, <2>1, <3>1
    <3>3. QED
      BY <3>1, <3>2
  <2>2. QED
    BY <2>1
<1>6. Again(s) = {2 * j + 1 : j \in 1 .. n}
  <2>1. ASSUME NEW j \in 1 .. n PROVE 2 * j + 1 \in Again(s)
    <3>1. 2 * j \in 1 .. (2 * j + 1) - 1 /\ 2 * j + 1 \in 1 .. 2 * n + 1
      BY <1>1
    <3>2. s[2 * j] = s[2 * j + 1]
      BY <1>1
    <3>3. QED
      BY <1>2, <3>1, <3>2 DEF Again
  <2>2. ASSUME NEW k \in Again(s) PROVE k \in {2 * j + 1 : j \in 1 .. n}
    <3>1. k \in 1 .. 2 * n + 1 /\ \E e \in 1 .. k - 1 : s[e] = s[k]
      BY <1>2 DEF Again
    <3>2. PICK e \in 1 .. k - 1 : s[e] = s[k]
      BY <3>1
    <3>3. k # 1 /\ e < k /\ e \in 1 .. 2 * n + 1
      BY <1>1, <3>1
    <3>4. PICK j \in 1 .. n : k = 2 * j \/ k = 2 * j + 1
      BY <1>5, <3>1, <3>3
    <3>5. s[k] = us[j]
      BY <1>1, <3>4
    <3>6. e # 1
      BY <1>1, <1>3, <3>2, <3>5
    <3>7. PICK h \in 1 .. n : e = 2 * h \/ e = 2 * h + 1
      BY <1>5, <3>3, <3>6
    <3>8. s[e] = us[h]
      BY <1>1, <3>7
    <3>9. h = j
      BY <1>4, <3>2, <3>5, <3>8
    <3>10. k = 2 * j + 1
      BY <3>3, <3>4, <3>7, <3>9
    <3>11. QED
      BY <3>10
  <2>3. QED
    BY <2>1, <2>2
<1>7. DOMAIN s \ Again(s) = K
  <2>1. ASSUME NEW k \in 1 .. 2 * n + 1
        PROVE  k \in K <=> k \notin Again(s)
    <3>1. \A j, h \in 1 .. n : 2 * j # 2 * h + 1 /\ 1 # 2 * h + 1
      OBVIOUS
    <3>2. QED
      BY <1>5, <1>6, <2>1, <3>1
  <2>2. K \subseteq 1 .. 2 * n + 1
    BY <1>1
  <2>3. QED
    BY <1>2, <2>1, <2>2
<1>8. /\ Cardinality(K) = n + 1
      /\ InOrder(K)[1] = 1 /\ \A j \in 1 .. n : InOrder(K)[j + 1] = 2 * j
  BY <1>1, FirstsInOrder
<1> HIDE DEF K
<1> DEFINE w == Without(s, Again(s))
<1>9. w \in Seq(Serials) /\ Len(w) = n + 1
  <2> DEFINE P == Again(s)
  <2>1. s \in Seq(Serials) /\ Cardinality(DOMAIN s \ P) = n + 1
    BY <1>1, <1>7, <1>8
  <2> HIDE DEF P, n
  <2>2. Without(s, P) \in Seq(Serials) /\ Len(Without(s, P)) = n + 1
    BY <2>1, WithoutIs
  <2>3. QED
    BY <2>2 DEF P
<1>10. \A j \in 1 .. n : w[j + 1] = us[j]
  <2>1. DOMAIN InOrder(K) = 1 .. n + 1
    BY <1>8 DEF InOrder
  <2>2. w = [k \in 1 .. n + 1 |-> s[InOrder(K)[k]]]
    BY <1>7, <2>1 DEF Without
  <2> HIDE DEF w
  <2>3. ASSUME NEW j \in 1 .. n PROVE w[j + 1] = us[j]
    <3>1. j + 1 \in 1 .. n + 1
      BY <1>1
    <3>2. w[j + 1] = s[InOrder(K)[j + 1]]
      BY <2>2, <3>1
    <3>3. QED
      BY <1>1, <1>8, <3>2
  <2>4. QED
    BY <2>3
<1> HIDE DEF w
<1>11. Tail(w) = us
  BY <1>9, <1>10, TailIs
<1>12. QED
  BY <1>11 DEF w

\* The lists of the transmitters are what the property asks for.
LEMMA TxListsAreOwn ==
  ASSUME NEW us \in Seq(Irises), IsInjective(us), NEW log \in Seq(Rows), log # <<>>,
         InBlocks("tx", us, log), LastKey("tx", us, log) = 2 * Len(us)
  PROVE  OwnLists(TxLists(log), us)
<1> DEFINE last == TakenSoFar("tx", log)[Len(log)]
<1> DEFINE n == Len(us)
<1>1. Len(log) \in Nat /\ Len(log) # 0 /\ n \in Nat
  BY EmptySeq
<1>2. TxRight(last, us, 2 * n) /\ n > 0
  <2>1. TxRight(last, us, KeyAt("tx", us, log, Len(log)))
    BY <1>1, TxTaken
  <2>2. KeyAt("tx", us, log, Len(log)) = 2 * n
    BY <1>1 DEF KeyAt, LastKey
  <2>3. n # 0
    <3>1. Len(log) \in 1 .. Len(log)
      BY <1>1
    <3>2. QED
      BY <3>1, NextBlock
  <2>4. QED
    BY <1>1, <2>1, <2>2, <2>3
<1> HIDE DEF last
<1>3. /\ Twice(last.serials, us, 2 * n)
      /\ last.a \in Lists /\ OwnUpTo(last.a, us) /\ last.b \in Lists /\ OwnUpTo(last.b, us)
      /\ last.bufB \in Seq(Rows)
  BY <1>2 DEF TxRight
<1>4. InB(last, us, 2 * n, n)
  <2>1. PICK j \in 1 .. n : InA(last, us, 2 * n, j) \/ InB(last, us, 2 * n, j)
    <3>1. 2 * n # 0
      BY <1>1, <1>2
    <3>2. QED
      BY <1>2, <3>1 DEF TxRight
  <2>2. 2 * n # 2 * j - 1 /\ (2 * n = 2 * j => n = j)
    BY <1>1
  <2>3. QED
    BY <2>1, <2>2 DEF InA, InB
<1>5. /\ last.ch = "B" /\ Len(last.a) = n + 1 /\ Len(last.b) = n /\ Own(last.bufB, us[n])
  BY <1>4 DEF InB
<1>6. TxLists(log) = [serials |-> Without(last.serials, Again(last.serials)),
                      a |-> last.a, b |-> Append(last.b, last.bufB)]
  BY <1>5 DEF TxLists, last
<1>7. Tail(Without(last.serials, Again(last.serials))) = us
  BY <1>3, UniqueSerials
<1>8. Len(Append(last.b, last.bufB)) = n + 1 /\ OwnUpTo(Append(last.b, last.bufB), us)
  BY <1>3, <1>5, OwnListGrows
<1>9. QED
  BY <1>3, <1>5, <1>6, <1>7, <1>8 DEF OwnLists

\* what is plotted under a serial is what was measured of that radio,
\* for the lists process_rx_log and process_tx_log cut from the rows.
THEOREM PlotsAlways == HealthSpec => []PlotsOwnRows
<1>1. HealthInv => PlotsOwnRows
  <2> SUFFICES ASSUME HealthInv, NEW test \in {"rx", "tx"}, TestOver(test), rows # <<>>
               PROVE  LET lists == IF test = "rx" THEN RxLists(rows) ELSE TxLists(rows)
                      IN  /\ Tail(lists.serials) = uuts
                          /\ Len(lists.a) = Len(uuts) + 1 /\ Len(lists.b) = Len(uuts) + 1
                          /\ \A k \in DOMAIN uuts : \A l \in {lists.a[k + 1], lists.b[k + 1]} :
                               /\ l # <<>>
                               /\ \A j \in DOMAIN l : l[j].uut = uuts[k]
    BY Zenon DEF PlotsOwnRows
  <2> DEFINE n == Len(uuts)
  <2>1. /\ phase = test /\ uuts \in Seq(Irises) /\ IsInjective(uuts) /\ rows \in Seq(Rows)
        /\ at \in 1 .. n + 1 /\ ~(at <= n) /\ ch \in {"A", "B"}
    BY Zenon DEF TestOver, Testing, HealthInv, HealthType
  <2>2. n \in Nat /\ at = n + 1 /\ Len(rows) \in Nat /\ Len(rows) # 0
    BY <2>1, EmptySeq
  <2>3. /\ InBlocks(test, uuts, rows) /\ LastKey(test, uuts, rows) \in {Now - 1, Now}
        /\ test = "tx" => ch = "A"
    BY <2>1 DEF HealthInv, VerdictInv, BlockInv, TestOver
  <2>4. PICK j \in 1 .. n : /\ test = "tx" => rows[Len(rows)].ch \in {"A", "B"}
                            /\ LastKey(test, uuts, rows) = Block(test, j, rows[Len(rows)].ch)
    <3>1. Len(rows) \in 1 .. Len(rows)
      BY <2>2
    <3>2. KeyAt(test, uuts, rows, Len(rows)) = LastKey(test, uuts, rows)
      BY <2>2 DEF KeyAt, LastKey
    <3>3. QED
      BY <2>1, <2>3, <3>1, <3>2, NextBlock
  <2>5. LastKey(test, uuts, rows) = IF test = "rx" THEN n ELSE 2 * n
    <3>1. j \in Nat /\ 1 <= j /\ j <= n
      BY <2>2
    <3>2. CASE test = "rx"
      <4>1. LastKey(test, uuts, rows) = j /\ Now = n + 1
        BY <2>1, <2>2, <2>4, <3>2 DEF Block, Now
      <4>2. QED
        BY <2>2, <2>3, <3>1, <3>2, <4>1
    <3>3. CASE test = "tx"
      <4>1. Now = 2 * (n + 1) - 1
        BY <2>1, <2>2, <2>3, <3>3 DEF Block, Now
      <4>2. LastKey(test, uuts, rows) \in {2 * j - 1, 2 * j}
        BY <2>4, <3>1, <3>3 DEF Block
      <4>3. QED
        BY <2>2, <2>3, <3>1, <3>3, <4>1, <4>2
    <3>4. QED
      BY <3>2, <3>3
  <2> DEFINE lists == IF test = "rx" THEN RxLists(rows) ELSE TxLists(rows)
  <2>6. OwnLists(lists, uuts)
    BY <2>1, <2>3, <2>5, RxListsAreOwn, TxListsAreOwn
  <2> HIDE DEF lists
  <2>7. /\ Tail(lists.serials) = uuts /\ Len(lists.a) = n + 1 /\ Len(lists.b) = n + 1
        /\ \A k \in 1 .. n : Own(lists.a[k + 1], uuts[k]) /\ Own(lists.b[k + 1], uuts[k])
    <3>1. n + 1 - 1 = n
      BY <2>2
    <3>2. /\ Tail(lists.serials) = uuts /\ Len(lists.a) = n + 1 /\ Len(lists.b) = n + 1
          /\ OwnUpTo(lists.a, uuts) /\ OwnUpTo(lists.b, uuts)
      BY <2>6 DEF OwnLists
    <3>3. Len(lists.a) - 1 = n /\ Len(lists.b) - 1 = n
      BY <3>1, <3>2
    <3> HIDE DEF n
    <3>4. \A k \in 1 .. n : Own(lists.a[k + 1], uuts[k])
      BY <3>2, <3>3, Zenon DEF OwnUpTo
    <3>5. \A k \in 1 .. n : Own(lists.b[k + 1], uuts[k])
      BY <3>2, <3>3, Zenon DEF OwnUpTo
    <3>6. QED
      BY <3>2, <3>4, <3>5, Zenon
  <2>8. DOMAIN uuts = 1 .. n
    BY <2>1
  <2>9. QED
    <3>1. ASSUME NEW k \in DOMAIN uuts, NEW l \in {lists.a[k + 1], lists.b[k + 1]}
          PROVE  l # <<>> /\ \A e \in DOMAIN l : l[e].uut = uuts[k]
      <4>1. Own(l, uuts[k])
        <5>1. k \in 1 .. n
          BY <2>8, Zenon
        <5>2. Own(lists.a[k + 1], uuts[k]) /\ Own(lists.b[k + 1], uuts[k])
          BY <2>7, <5>1, Zenon
        <5>3. CASE l = lists.a[k + 1]
          BY <5>2, <5>3, Zenon
        <5>4. CASE l = lists.b[k + 1]
          BY <5>2, <5>4, Zenon
        <5>5. QED
          BY <5>3, <5>4, Zenon
      <4>2. QED
        BY <4>1 DEF Own
    <3>2. QED
      BY <2>7, <3>1 DEF lists
<1>2. QED
  BY <1>1, HealthAlways, PTL
=============================================================================
